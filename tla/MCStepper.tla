------------------------------ MODULE MCStepper ------------------------------
(***************************************************************************)
(* Two joints and an extruder: targets on and off whole steps, forwards,   *)
(* backwards and not at all, and velocities for some, all and none.        *)
(***************************************************************************)
EXTENDS Stepper

SomeTargets == {<<7, -3, 0>>, <<-2, 8, 4>>, <<1, 1, -1>>}
SomeVelocities == {<<2, -1, NaN>>, <<NaN, 3, 1>>, <<0, 0, 0>>, <<NaN, 0, NaN>>}
=============================================================================
