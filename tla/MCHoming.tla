------------------------------ MODULE MCHoming ------------------------------
(* Two joints: the first homes to its min switch and latches by hitting it   *)
(* again, slowly; the second homes to its max switch and latches by leaving  *)
(* it, fast enough to overshoot.                                             *)
EXTENDS Homing

MCEndstops == <<{"Min", "Max"}, {"Max"}>>
MCSearchVel == <<-2, 2>>
MCLatchVel == <<-1, -2>>
MCHomePos == <<0, 6>>
MCSequencesOf == {<<0, 0>>, <<1, 0>>}
MCWirings == {<<"good", "good">>, <<"open", "good">>, <<"good", "stuck">>,
              <<"swapped", "good">>}
MCStarts == {<<3, 3>>, <<0, 3>>, <<6, 4>>}
MCMasks == {{1, 2}, {2}}
MCMoves == {<<1, 3>>}
=============================================================================
