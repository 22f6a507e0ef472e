--------------------------- MODULE MCPlannerQueue ---------------------------
(***************************************************************************)
(* Constants for checking PlannerQueue.  printer is the printer thread     *)
(* (NORMALPRIO), ui the user interface's (NORMALPRIO - 2).                 *)
(***************************************************************************)
EXTENDS PlannerQueue

CONSTANTS printer, ui

\* Only the printer thread calls planner.c, as the comment in planner.c demands.
OneCaller == {printer}
OneOps == [c \in OneCaller |-> CallModes \ {"Reset"}]
OnePriority == [c \in OneCaller |-> 2]

\* The printer thread moves; the menu of the user interface stops and clears.
TwoCallers == {printer, ui}
TwoOps == [c \in TwoCallers |->
             IF c = printer THEN {"Positional", "Reset"} ELSE {"Estop", "Estop_Clear"}]
TwoPriority == [c \in TwoCallers |-> IF c = printer THEN 2 ELSE 1]
=============================================================================
