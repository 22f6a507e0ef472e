------------------------------ MODULE Segments ------------------------------
(***************************************************************************)
(* When plannerAddAxisPoint runs the look-ahead pass while it queues the   *)
(* segments of a move.  The pass ends in the commit of what is queued.     *)
(***************************************************************************)
EXTENDS Naturals

CONSTANTS
  RecalcEvery,    \* BLOCK_BUFFER_SIZE / 4, 12
  SegmentCounts   \* numbers of segments a move may be cut into

ASSUME RecalcAssumption == RecalcEvery \in Nat \ {0}
ASSUME SegmentsAssumption == SegmentCounts \subseteq Nat \ {0}

\* The pass runs after segment j of k ...
RecalcAfter(j, k) == k = 1 \/ j % RecalcEvery = 0
\* ... and once more when the loop is over, on the value j has then.
FinalRecalcInverted(k) == (k + 1) % RecalcEvery = 0   \* mutant of FinalRecalc
FinalRecalc(k) == (k + 1) % RecalcEvery # 0

\* Moves whose last segments no pass follows: of 11, 23, ... segments.
SkipsLastCommit(k) == k > 1 /\ k % RecalcEvery = RecalcEvery - 1
=============================================================================
