----------------------------- MODULE BlockQueue -----------------------------
(***************************************************************************)
(* What planner_queue.c and the fetching half of stepper.c promise to the  *)
(* rest of the firmware, with no ring, no pointers and no semaphore:       *)
(* blocks are queued, become visible to the stepper in batches, leave in   *)
(* the order they were queued, and an emergency stop replaces whatever is  *)
(* queued by one Estop block.                                              *)
(***************************************************************************)
EXTENDS Naturals, Sequences

CONSTANT Capacity    \* blocks the queue can hold

VARIABLES
  ready,     \* committed blocks, oldest first (a sequence of block modes)
  pend,      \* queued but uncommitted blocks, oldest first
  running,   \* mode of the block being executed, "Idle" when there is none
  locked     \* TRUE from the execution of an Estop to that of an Estop_Clear

vars == <<ready, pend, running, locked>>

Motion == {"Velocity", "Positional"}
Queueable == Motion \cup {"Reset", "Estop_Clear"}

Init ==
  /\ ready = <<>>
  /\ pend = <<>>
  /\ running = "Idle"
  /\ locked = FALSE

Queue(m) ==
  /\ Len(ready) + Len(pend) < Capacity
  /\ pend' = Append(pend, m)
  /\ UNCHANGED <<ready, running, locked>>

Publish ==
  /\ ready' = ready \o pend
  /\ pend' = <<>>
  /\ UNCHANGED <<running, locked>>

\* An emergency stop drops everything that was queued.
Preempt ==
  /\ ready' = <<"Estop">>
  /\ pend' = <<>>
  /\ UNCHANGED <<running, locked>>

\* Blocks leave in order; a positional block in execution is cut short by an
\* Estop only; while locked, motion blocks are consumed and not executed.
Execute ==
  /\ ready # <<>>
  /\ running = "Positional" => Head(ready) = "Estop"
  /\ ready' = Tail(ready)
  /\ locked' = CASE Head(ready) = "Estop"       -> TRUE
                 [] Head(ready) = "Estop_Clear" -> FALSE
                 [] OTHER                       -> locked
  /\ running' = IF Head(ready) \in Motion /\ ~locked THEN Head(ready) ELSE "Idle"
  /\ UNCHANGED pend

Complete ==
  /\ running \in Motion
  /\ running' = "Idle"
  /\ UNCHANGED <<ready, pend, locked>>

Next ==
  \/ \E m \in Queueable : Queue(m)
  \/ Publish
  \/ Preempt
  \/ Execute
  \/ Complete

Spec == Init /\ [][Next]_vars
=============================================================================
