---------------------------- MODULE MCLookAhead ----------------------------
(***************************************************************************)
(* Constants for checking LookAhead.  Speeds are squared.                  *)
(***************************************************************************)
EXTENDS LookAhead, FiniteSets

\* X forwards, short and fast (a block of it needs its neighbours to get to
\* speed), X forwards and backwards, slow, and Y.
SomeMoves ==
  { [axis |-> "X", dir |-> 1,  nominal |-> 10, reach |-> 4],
    [axis |-> "X", dir |-> 1,  nominal |-> 4,  reach |-> 6],
    [axis |-> "X", dir |-> -1, nominal |-> 2,  reach |-> 4],
    [axis |-> "Y", dir |-> 1,  nominal |-> 6,  reach |-> 6] }

\* Bound: states after a second kind of disturbance are not explored.
OneTrouble == Cardinality(trouble) <= 1
=============================================================================
