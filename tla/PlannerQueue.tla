---------------------------- MODULE PlannerQueue ----------------------------
(***************************************************************************)
(* The trajectory planner's block queue (planner_queue.c), the functions   *)
(* of planner.c that put blocks into it, the callers of those functions in *)
(* printer.c (emergency stop and its clearing), and the stepper thread's   *)
(* consumption of blocks (stepper.c).                                      *)
(*                                                                         *)
(* The queue is a ring of Size slots with a read and a write index, a      *)
(* count of committed blocks the stepper may fetch, a count of blocks      *)
(* added but not committed yet, and a ChibiOS counting semaphore that      *)
(* makes producers wait for a free slot.  A slot is represented by the     *)
(* mode of the block in it; the speeds the look-ahead pass computes are    *)
(* the subject of module LookAhead.                                        *)
(*                                                                         *)
(* Each caller of planner.c is a thread with a program counter.  A step is *)
(* what the thread does between two points where another thread may run:   *)
(* the kernel is preemptive and fixed-priority, chSysLock .. chSysUnlock   *)
(* regions are atomic, and everything else may be preempted anywhere.  The *)
(* stepper has the highest priority of all and fetches a block, reacts to  *)
(* it, and only then lets go of the system lock: one step.                 *)
(***************************************************************************)
EXTENDS Integers, Sequences, FiniteSets, Segments

CONSTANTS
  Size,           \* BLOCK_BUFFER_SIZE, 50 in planner.h
  Callers,        \* the threads that call planner.c
  Priority,       \* their ChibiOS priorities, all different
  Ops,            \* Ops[c]: modes of the blocks caller c queues
  Nobody          \* owner of a free mutex

Motion == {"Velocity", "Positional"}
CallModes == Motion \cup {"Reset", "Estop", "Estop_Clear"}
Modes == CallModes \cup {"Idle"}

ASSUME SizeAssumption == Size \in Nat /\ Size >= 3
ASSUME CallersAssumption == IsFiniteSet(Callers) /\ Nobody \notin Callers
ASSUME OpsAssumption == Ops \in [Callers -> SUBSET CallModes]

VARIABLES
  buf,       \* mode of the block in each slot of q_buffer
  rdptr,     \* q_rdptr
  wrptr,     \* q_wrptr
  counter,   \* q_counter: committed blocks
  pending,   \* q_pending: added, uncommitted blocks
  sem,       \* units of q_sem
  waiters,   \* threads blocked on q_sem, first in first out
  mtx,       \* owner of estop_mtx
  halted,    \* printer state is PRINTERSTATE_Estopped
  pc,        \* where each caller is
  op,        \* mode of the block the caller is queueing
  slot,      \* the block pointer plannerQueueReserveBlock returned to it
  seg,       \* its current segment: j of plannerAddAxisPoint
  segs,      \* number of segments of its move
  active,    \* mode of the stepper's active_block
  estop      \* the stepper's estop flag

queueVars   == <<buf, rdptr, wrptr, counter, pending>>
semVars     == <<sem, waiters>>
callerVars  == <<pc, op, slot, seg, segs>>
stepperVars == <<active, estop>>
printerVars == <<mtx, halted>>
vars == <<queueVars, semVars, callerVars, stepperVars, printerVars>>

Slots == 0 .. Size - 1
SuccUnwrapped(p) == p + 1     \* mutant of Succ: no wrap at q_top
Succ(p) == (p + 1) % Size

-----------------------------------------------------------------------------
(* The kernel's scheduler *)

\* A caller that is not waiting for work, for a slot or for estop_mtx.
Ready(c) == pc[c] \notin {"idle", "blocked", "mutex"}

\* The threads that wait for estop_mtx.
MutexWaiters == {c \in Callers : pc[c] = "mutex"}

\* chMtxLock lends the owner the priority of the threads that wait for it.
EffectivePriority(c) ==
  LET lent == {Priority[d] : d \in {c} \cup IF mtx = c THEN MutexWaiters ELSE {}}
  IN  CHOOSE p \in lent : \A q \in lent : q <= p

\* A thread runs while every thread of a higher priority is blocked.
CanRun(c) ==
  \A d \in Callers \ {c} : Ready(d) => EffectivePriority(d) < EffectivePriority(c)

-----------------------------------------------------------------------------
Init ==
  /\ buf = [s \in Slots |-> "Idle"]
  /\ rdptr = 0
  /\ wrptr = 0
  /\ counter = 0
  /\ pending = 0
  /\ sem = Size - 2
  /\ waiters = <<>>
  /\ mtx = Nobody
  /\ halted = FALSE
  /\ pc = [c \in Callers |-> "idle"]
  /\ op = [c \in Callers |-> "Idle"]
  /\ slot = [c \in Callers |-> 0]
  /\ seg = [c \in Callers |-> 1]
  /\ segs = [c \in Callers |-> 1]
  /\ active = "Idle"
  /\ estop = FALSE

-----------------------------------------------------------------------------
(* Callers: what they ask planner.c for *)

Begin(c, m, k) ==
  /\ pc[c] = "idle"
  /\ CanRun(c)
  /\ m \in Ops[c]
  /\ op' = [op EXCEPT ![c] = m]
  /\ seg' = [seg EXCEPT ![c] = 1]
  /\ segs' = [segs EXCEPT ![c] = k]
  /\ UNCHANGED <<queueVars, semVars, slot, stepperVars, halted>>

\* G0/G1 and G92: printer_dispatch is entered only when printerIsEstopped, which
\* takes estop_mtx, says no.
BeginCommand(c) ==
  /\ mtx = Nobody
  /\ ~halted
  /\ \/ \E k \in SegmentCounts : Begin(c, "Positional", k)
     \/ Begin(c, "Reset", 1)
  /\ pc' = [pc EXCEPT ![c] = "reserve"]
  /\ UNCHANGED mtx

\* A G1 that goes nowhere queues no block and still runs the pass.
BeginEmpty(c) ==
  /\ mtx = Nobody
  /\ ~halted
  /\ Begin(c, "Positional", 1)
  /\ pc' = [pc EXCEPT ![c] = "commit"]
  /\ UNCHANGED mtx

\* plannerSetJointVelocity, called by homing and, unguarded, by the debug shell.
BeginVelocity(c) ==
  /\ Begin(c, "Velocity", 1)
  /\ pc' = [pc EXCEPT ![c] = "reserve"]
  /\ UNCHANGED mtx

\* printerEstop and printerEstopClear start with chMtxLock(&estop_mtx).
BeginEstop(c) ==
  /\ \E m \in {"Estop", "Estop_Clear"} : Begin(c, m, 1)
  /\ IF mtx = Nobody
       THEN mtx' = c /\ pc' = [pc EXCEPT ![c] = "locked"]
       ELSE UNCHANGED mtx /\ pc' = [pc EXCEPT ![c] = "mutex"]

\* With the mutex: an Estop marks the printer stopped before it queues its
\* block; clearing does nothing unless the printer is stopped.
Locked(c) ==
  /\ pc[c] = "locked"
  /\ CanRun(c)
  /\ halted' = (halted \/ op[c] = "Estop")
  /\ pc' = [pc EXCEPT ![c] = IF halted' THEN "reserve" ELSE "done"]
  /\ UNCHANGED <<queueVars, semVars, mtx, op, slot, seg, segs, stepperVars>>

\* Return of the planner.c function. The two estop calls give the mutex to the
\* waiting thread of the highest priority; printerEstopClear leaves Estopped.
Finish(c) ==
  /\ pc[c] = "done"
  /\ CanRun(c)
  /\ halted' = (halted /\ op[c] # "Estop_Clear")
  /\ IF mtx = c /\ MutexWaiters # {}
       THEN \E d \in MutexWaiters :
              /\ \A e \in MutexWaiters : Priority[e] <= Priority[d]
              /\ mtx' = d
              /\ pc' = [pc EXCEPT ![c] = "idle", ![d] = "locked"]
       ELSE /\ mtx' = IF mtx = c THEN Nobody ELSE mtx
            /\ pc' = [pc EXCEPT ![c] = "idle"]
  /\ op' = [op EXCEPT ![c] = "Idle"]
  /\ slot' = [slot EXCEPT ![c] = 0]
  /\ seg' = [seg EXCEPT ![c] = 1]
  /\ segs' = [segs EXCEPT ![c] = 1]
  /\ UNCHANGED <<queueVars, semVars, stepperVars>>

-----------------------------------------------------------------------------
(* plannerQueueReserveBlock *)

\* chSemWait(&q_sem)
Reserve(c) ==
  /\ pc[c] = "reserve"
  /\ CanRun(c)
  /\ IF sem > 0
       THEN /\ sem' = sem - 1
            /\ pc' = [pc EXCEPT ![c] = "slot"]
            /\ UNCHANGED waiters
       ELSE /\ waiters' = Append(waiters, c)
            /\ pc' = [pc EXCEPT ![c] = "blocked"]
            /\ UNCHANGED sem
  /\ UNCHANGED <<queueVars, op, slot, seg, segs, stepperVars, printerVars>>

\* block = q_wrptr. A thread woken by chSemResetI gets here as well: the
\* message chSemWait returns is not looked at.
TakeSlot(c) ==
  /\ pc[c] = "slot"
  /\ CanRun(c)
  /\ slot' = [slot EXCEPT ![c] = wrptr]
  /\ pc' = [pc EXCEPT ![c] = "fill"]
  /\ UNCHANGED <<queueVars, semVars, op, seg, segs, stepperVars, printerVars>>

\* The caller writes its block into the slot.
Fill(c) ==
  /\ pc[c] = "fill"
  /\ CanRun(c)
  /\ buf' = [buf EXCEPT ![slot[c]] = op[c]]
  /\ pc' = [pc EXCEPT ![c] = IF op[c] = "Estop" THEN "interrupt" ELSE "add"]
  /\ UNCHANGED <<rdptr, wrptr, counter, pending, semVars, op, slot, seg, segs,
                 stepperVars, printerVars>>

-----------------------------------------------------------------------------
(* plannerAddAxisPoint: control flow around the segments of a move *)

\* From segment j of k, on to the next one or out of the loop.
NextSegment(c) ==
  IF seg[c] < segs[c]
    THEN /\ seg' = [seg EXCEPT ![c] = @ + 1]
         /\ pc' = [pc EXCEPT ![c] = "reserve"]
    ELSE /\ seg' = [seg EXCEPT ![c] = @ + 1]
         /\ pc' = [pc EXCEPT ![c] = IF FinalRecalc(segs[c]) THEN "commit" ELSE "done"]

\* plannerQueueAddBlock
AddBlock(c) ==
  /\ pc[c] = "add"
  /\ CanRun(c)
  /\ pending' = pending + 1
  /\ wrptr' = Succ(wrptr)
  /\ IF RecalcAfter(seg[c], segs[c])
       THEN pc' = [pc EXCEPT ![c] = "commit"] /\ UNCHANGED seg
       ELSE NextSegment(c)
  /\ UNCHANGED <<buf, rdptr, counter, semVars, op, slot, segs, stepperVars, printerVars>>

\* plannerQueueCommit, called directly or at the end of plannerQueueRecalculate
Commit(c) ==
  /\ pc[c] = "commit"
  /\ CanRun(c)
  /\ counter' = counter + pending
  /\ pending' = 0
  /\ IF segs[c] > 1 /\ seg[c] <= segs[c]
       THEN NextSegment(c)
       ELSE pc' = [pc EXCEPT ![c] = "done"] /\ UNCHANGED seg
  /\ UNCHANGED <<buf, rdptr, wrptr, semVars, op, slot, segs, stepperVars, printerVars>>

\* What plannerQueueInterruptCommit resets the semaphore and the write pointer to
UnitsAfterInterruptAll == Size        \* mutant: the Estop block not counted
UnitsAfterInterrupt == Size - 1
WriteAfterInterrupt == Succ(rdptr)

\* plannerQueueInterruptCommit: chSemResetI sets the semaphore and wakes every
\* thread that waits for it, none of which is given a unit.
InterruptCommit(c) ==
  /\ pc[c] = "interrupt"
  /\ CanRun(c)
  /\ sem' = UnitsAfterInterrupt
  /\ waiters' = <<>>
  /\ counter' = 1
  /\ pending' = 0
  /\ buf' = [buf EXCEPT ![rdptr] = buf[slot[c]]]
  /\ wrptr' = WriteAfterInterrupt
  /\ pc' = [d \in Callers |-> IF d = c THEN "done"
                              ELSE IF pc[d] = "blocked" THEN "slot" ELSE pc[d]]
  /\ UNCHANGED <<rdptr, op, slot, seg, segs, stepperVars, printerVars>>

-----------------------------------------------------------------------------
(* The stepper thread *)

\* chSemSignalI(&q_sem): the first waiter gets the unit.
SemSignalUnheard == sem' = sem + 1 /\ UNCHANGED <<waiters, pc>>   \* mutant: nobody woken
SemSignal ==
  IF waiters = <<>>
    THEN sem' = sem + 1 /\ UNCHANGED <<waiters, pc>>
    ELSE /\ waiters' = Tail(waiters)
         /\ pc' = [pc EXCEPT ![Head(waiters)] = "slot"]
         /\ UNCHANGED sem

\* A positional block in execution gives way to an Estop only.
MayFetchAlways == counter > 0                                   \* mutant of MayFetch
MayFetch == counter > 0 /\ (active = "Positional" => buf[rdptr] = "Estop")

\* What threadStepper makes of the block it has fetched: the estop flag ...
EstopAfterIdle(b) == (estop \/ (b = "Estop" /\ active = "Idle")) /\ b # "Estop_Clear" \* mutant
EstopAfter(b) == (estop \/ b = "Estop") /\ b # "Estop_Clear"
\* ... and the mode it goes on with; while the flag is set every block is dropped.
ActiveAfterUnchecked(b) == IF b \in Motion THEN b ELSE "Idle"   \* mutant: flag ignored
ActiveAfter(b) == IF b \in Motion /\ ~estop THEN b ELSE "Idle"

\* plannerQueueFetchBlockI and what threadStepper does with the block at once.
StepperFetch ==
  /\ MayFetch
  /\ counter' = counter - 1
  /\ rdptr' = Succ(rdptr)
  /\ estop' = EstopAfter(buf[rdptr])
  /\ active' = ActiveAfter(buf[rdptr])
  /\ SemSignal
  /\ UNCHANGED <<buf, wrptr, pending, op, slot, seg, segs, printerVars>>

\* The last step of a positional block, or every joint of a velocity block at rest.
StepperDone ==
  /\ active \in Motion
  /\ active' = "Idle"
  /\ UNCHANGED <<queueVars, semVars, callerVars, estop, printerVars>>

-----------------------------------------------------------------------------
Call(c) == BeginCommand(c) \/ BeginEmpty(c) \/ BeginVelocity(c) \/ BeginEstop(c)

Proceed(c) ==
  \/ Locked(c)
  \/ Finish(c)
  \/ Reserve(c)
  \/ TakeSlot(c)
  \/ Fill(c)
  \/ AddBlock(c)
  \/ Commit(c)
  \/ InterruptCommit(c)

Next ==
  \/ \E c \in Callers : Call(c) \/ Proceed(c)
  \/ StepperFetch
  \/ StepperDone

Spec == Init /\ [][Next]_vars

\* The kernel runs the highest-priority ready thread; the stepper outranks all,
\* a positional block takes a finite number of steps. A velocity block may run
\* for ever, so no fairness is asked of its end.
Fairness ==
  /\ WF_vars(StepperFetch)
  /\ WF_vars(StepperDone /\ active = "Positional")
  /\ \A c \in Callers : WF_vars(Proceed(c))

FairSpec == Spec /\ Fairness

-----------------------------------------------------------------------------
(* Properties *)

Places == {"idle", "mutex", "locked", "reserve", "blocked", "slot", "fill",
           "add", "commit", "interrupt", "done"}

\* Types: pointers stay inside the buffer and q_sem never goes negative.
TypeOK ==
  /\ buf \in [Slots -> Modes]
  /\ rdptr \in Slots
  /\ wrptr \in Slots
  /\ counter \in Nat
  /\ pending \in Nat
  /\ sem \in Nat
  /\ waiters \in Seq(Callers)
  /\ mtx \in Callers \cup {Nobody}
  /\ halted \in BOOLEAN
  /\ pc \in [Callers -> Places]
  /\ op \in [Callers -> Modes]
  /\ slot \in [Callers -> Slots]
  /\ seg \in [Callers -> Nat \ {0}]
  /\ segs \in [Callers -> Nat \ {0}]
  /\ active \in Motion \cup {"Idle"}
  /\ estop \in BOOLEAN

\* The callers between chSemWait and the AddBlock or InterruptCommit that uses
\* the slot they waited for.
Holders == {c \in Callers : pc[c] \in {"slot", "fill", "add", "interrupt"}}

\* Free slots, slots promised to a caller and slots in use, together.
Units == sem + Cardinality(Holders) + counter + pending

\* The two pointers and the two counters agree: the write pointer is the slot
\* after the last block added, whoever adds, commits, fetches or interrupts.
PointersAgree == wrptr = (rdptr + counter + pending) % Size

\* The semaphore is reset by InterruptCommit while other threads hold units of
\* it or wait for them. No slot is ever lost by that, and what the resets can
\* give out in excess is bounded by the number of calling threads.
UnitsBounded ==
  /\ Units >= Size - 2
  /\ Units <= Size + Cardinality(Callers) - 1

\* The slots of the blocks that are queued, committed or not.
Queued == {(rdptr + i) % Size : i \in 0 .. counter + pending - 1}

\* plannerQueueReserveBlock hands out a slot that is free: no caller writes its
\* block over one that is still queued.
NoOverwrite == \A c \in Callers : pc[c] = "fill" => slot[c] \notin Queued

\* plannerQueueInit sizes the ring "such that rd_ptr will never be overridden":
\* what rd_ptr points at is not written.
RdptrNotOverridden ==
  \A c \in Callers : pc[c] = "fill" /\ counter + pending > 0 => slot[c] # rdptr

\* An estop that has been called and has not put its block in the queue yet.
EstopOnItsWay ==
  \E c \in Callers : op[c] = "Estop" /\ pc[c] \notin {"idle", "done"}

\* Once printerEstop has returned, no motion block starts executing while the
\* printer is stopped: what was queued before is gone and what is queued after
\* is dropped by the stepper until it meets an Estop_Clear.
NoMotionWhileHalted ==
  [][active' # active /\ active' \in Motion => ~halted \/ EstopOnItsWay]_vars

\* plannerAddAxisPoint returns with blocks the stepper cannot see only after a
\* move of 11, 23, ... segments (for a buffer of 50), which commits neither after
\* its last segment nor after the loop; the last commit of any other move covers
\* what earlier moves left behind.
UncommittedOnlyAfterSkip ==
  \A c \in Callers :
    pc[c] = "done" /\ op[c] = "Positional" /\ pending > 0 => SkipsLastCommit(segs[c])

\* The ring implements the abstract queue of Size blocks.
Contents(first, len) == [i \in 1 .. len |-> buf[(first + i - 1) % Size]]
Abstract == INSTANCE BlockQueue WITH
  Capacity <- Size,
  ready    <- Contents(rdptr, counter),
  pend     <- Contents(rdptr + counter, pending),
  running  <- active,
  locked   <- estop
ImplementsBlockQueue == Abstract!Spec

\* Every queued block is uncommitted: the stepper has nothing to fetch. With
\* the queue full of such blocks nobody can add the one that would be followed
\* by a commit.
Unfetchable == counter = 0 /\ pending > 0

\* A thread that waits for a free slot gets one, unless all that is queued is
\* uncommitted.
BlockedProceeds ==
  \A c \in Callers : pc[c] = "blocked" ~> pc[c] # "blocked" \/ Unfetchable

\* An emergency stop that is called stops the stepper, with the same exception.
EstopTakesEffect == \A c \in Callers : op[c] = "Estop" ~> estop \/ Unfetchable

=============================================================================
