----------------------------- MODULE MCThermal -----------------------------
(* One heater, the targets off and hot, a tuning of three cycles, of which   *)
(* the second may drive while it cools, and beside it two operations in any  *)
(* order, commands or a stop; or three without a tuning.                     *)
EXTENDS Thermal
MCTargets == {0, 2}
=============================================================================
