------------------------------ MODULE LookAhead ------------------------------
(***************************************************************************)
(* The speeds of the planned blocks: the look-ahead pass of                *)
(* planner_queue.c (plannerQueueRecalculate), which runs in the thread     *)
(* that queues the blocks and holds no lock, the stepper that fetches      *)
(* blocks while the pass runs, and the speed at which a block ends when    *)
(* stepper.c executes it.                                                  *)
(*                                                                         *)
(* A speed is represented by its square: v^2 - u^2 = 2as is then a sum of  *)
(* integers.  The length of a block is its reach, 2 * acc * distance, and  *)
(* every point of it is the squared speed that can be gained or lost up to *)
(* there.  All of them are even, so that the half way points of the        *)
(* trapezoids are integers.  A block moves one axis in one direction.      *)
(* Rounding to steps and timer ticks is left out.                          *)
(*                                                                         *)
(* The ring of module PlannerQueue is the sequence q of its slots from the *)
(* oldest one a running pass may still touch: `gone' of them have been     *)
(* fetched since that pass began.  Emergency stops drop everything and are *)
(* left to PlannerQueue.                                                   *)
(***************************************************************************)
EXTENDS Integers, Sequences, Segments

CONSTANTS
  Capacity,    \* slots the semaphore of the ring hands out
  Moves        \* what a move may be: its axis, direction, nominal speed and reach

Even(n) == n % 2 = 0

ASSUME CapacityAssumption == Capacity \in Nat \ {0}
ASSUME MovesAssumption ==
  /\ \A m \in Moves :
       /\ m.nominal \in Nat \ {0} /\ Even(m.nominal)
       /\ m.reach \in Nat \ {0} /\ Even(m.reach)
       /\ m.dir \in {1, -1}

VARIABLES
  q,          \* the slots of the ring, oldest first
  gone,       \* leading slots of q the stepper fetched since the pass began
  committed,  \* q_counter: blocks the stepper may fetch
  lastExit,   \* last_exit_speed: planned exit speed of the last block fetched
  pc,         \* what the planning thread does
  pos,        \* the slot the pass is at
  entry0,     \* last_exit_speed as the pass read it when it began
  move, seg, segs,  \* the move being queued, its segment j, their number
  run,        \* the stepper's active_block
  speed,      \* last_block_speed
  trouble     \* what has happened that the planner does not reckon with

queueVars   == <<q, gone, committed, lastExit>>
moveVars    == <<move, seg, segs>>
plannerVars == <<pc, pos, entry0, moveVars>>
stepperVars == <<run, speed>>
vars == <<queueVars, plannerVars, stepperVars, trouble>>

Least(a, b) == IF a <= b THEN a ELSE b
Greatest(a, b) == IF a >= b THEN a ELSE b
Magnitudes == {m.nominal : m \in Moves}

-----------------------------------------------------------------------------
(* Blocks *)

\* decelerate_after of a block no pass has reached: whatever its slot held.
NotProfiled == -1

Block(kind, m) ==
  [kind |-> kind, axis |-> m.axis, dir |-> m.dir, reach |-> m.reach,
   nominal |-> m.nominal, exit |-> 0, maxExit |-> 0, maxValid |-> FALSE,
   profiled |-> FALSE, after |-> NotProfiled]

\* is_nominal_length: the block is long enough to reach its speed from rest.
NominalLength(b) == b.nominal <= b.reach

\* recalculateMaxExitSpeed for blocks of one axis each. A change of axis is a
\* full stop. On the same axis the joint may keep the speed of the slower block;
\* against its direction the duration compared is negative and limits nothing.
CornerOwn(b, n) == IF b.axis # n.axis THEN 0 ELSE b.nominal   \* mutant: next not looked at
Corner(b, n) ==
  CASE b.axis # n.axis -> 0
    [] b.axis = n.axis /\ b.dir # n.dir -> b.nominal
    [] OTHER -> Least(b.nominal, n.nominal)

Reverses(b, n) == b.axis = n.axis /\ b.dir # n.dir

-----------------------------------------------------------------------------
(* The kernels of the two passes *)

WithMaxExit(b, n) == [b EXCEPT !.maxExit = IF b.maxValid THEN @ ELSE Corner(b, n),
                               !.maxValid = TRUE]

\* ralculateReversePassKernel with no next block, or one that is no move
AtRestFast(b) == [b EXCEPT !.profiled = FALSE, !.exit = b.nominal]  \* mutant: more to come
AtRest(b) == [b EXCEPT !.profiled = FALSE, !.exit = 0]

\* ... and with a next block n: as fast as n can still brake from. busy is set in
\* the stepper's copy of a block and never in the ring, so it stops nothing here.
BackwardStale(b, n) ==     \* mutant: profile not invalidated
  LET c == WithMaxExit(b, n)
  IN  [c EXCEPT !.exit = IF NominalLength(n) THEN c.maxExit
                         ELSE Least(c.maxExit, n.exit + n.reach)]
Backward(b, n) ==
  LET c == WithMaxExit(b, n)
  IN  IF c.exit = c.maxExit THEN c
      ELSE [c EXCEPT !.profiled = FALSE,
                     !.exit = IF NominalLength(n) THEN c.maxExit
                              ELSE Least(c.maxExit, n.exit + n.reach)]

\* ralculateForwardPassKernel: no faster than b can get from its entry speed u
ForwardNever(u, b) == b     \* mutant
Forward(u, b) ==
  IF NominalLength(b) \/ ~b.maxValid \/ b.exit <= u + b.reach \/ u >= b.exit
    THEN b
    ELSE [b EXCEPT !.exit = u + b.reach, !.profiled = FALSE]

\* calculateTrapezoid: where b, entered at u, starts to slow down
TrapezoidHalf(u, b) == (b.reach - u + b.exit) \div 2   \* mutant: never clipped to the block
Trapezoid(u, b) ==
  LET accel == b.nominal - u
      decel == b.nominal - b.exit
      plateau == b.reach - accel - decel
  IN  IF plateau < 0
        THEN Greatest(0, (b.reach - u + b.exit) \div 2)
        ELSE accel + plateau

Profiled(u, b) ==
  IF b.profiled THEN b ELSE [b EXCEPT !.profiled = TRUE, !.after = Trapezoid(u, b)]

-----------------------------------------------------------------------------
(* The stepper's execution of a block *)

\* Speed at the end of b, entered at u and slowing down from point a on: the
\* stepper first moves towards the nominal speed, then down to the exit speed,
\* which it takes on at once if it has got below it.
EndSpeed(u, b, a) ==
  LET peak == IF u <= b.nominal THEN Least(b.nominal, u + a)
                                ELSE Greatest(b.nominal, u - a)
  IN  IF a >= b.reach THEN peak ELSE Greatest(b.exit, peak - (b.reach - a))

\* Where the stepper slows down: anywhere, if no pass has computed it.
SlowsAt(b) == IF b.after = NotProfiled THEN {0, b.reach} ELSE {b.after}

-----------------------------------------------------------------------------
NoMove == [axis |-> "none", dir |-> 1, reach |-> 0, nominal |-> 0]
Ended(b) == Block("Idle", [NoMove EXCEPT !.axis = b.axis, !.dir = b.dir])

Init ==
  /\ q = <<>> /\ gone = 0 /\ committed = 0 /\ lastExit = 0
  /\ pc = "idle" /\ pos = 0 /\ entry0 = 0
  /\ move = NoMove /\ seg = 1 /\ segs = 1
  /\ run = Block("Idle", NoMove) /\ speed = 0
  /\ trouble = {}

(* The planning thread *)

\* plannerAddAxisPoint
BeginMove(m, k) ==
  /\ pc = "idle"
  /\ pc' = "add"
  /\ move' = m /\ seg' = 1 /\ segs' = k
  /\ UNCHANGED <<queueVars, pos, entry0, stepperVars, trouble>>

\* plannerQueueRecalculate: nothing to do on an empty queue
StartPass ==
  IF Len(q') > 0
    THEN pc' = "reverse" /\ pos' = Len(q') /\ entry0' = lastExit
    ELSE pc' = "idle" /\ UNCHANGED <<pos, entry0>>

\* The move is over; a block of it may be left without a pass.
EndMove ==
  /\ seg' = 1 /\ segs' = 1 /\ move' = NoMove

\* A block of the move, for which there is a free slot (plannerAddAxisPointCore)
AddSegment ==
  /\ pc = "add"
  /\ Len(q) < Capacity
  /\ q' = Append(q, Block("Positional", move))
  /\ CASE RecalcAfter(seg, segs) ->
            StartPass /\ UNCHANGED <<moveVars, trouble>>
       [] ~RecalcAfter(seg, segs) /\ seg < segs ->
            /\ seg' = seg + 1
            /\ UNCHANGED <<pc, pos, entry0, move, segs, trouble>>
       [] OTHER ->
            IF FinalRecalc(segs)
              THEN StartPass /\ seg' = seg + 1 /\ UNCHANGED <<move, segs, trouble>>
              ELSE /\ pc' = "idle" /\ EndMove
                   /\ trouble' = trouble \cup {"skipped"}
                   /\ UNCHANGED <<pos, entry0>>
  /\ UNCHANGED <<gone, committed, lastExit, stepperVars>>

\* A move of no length queues nothing and still runs the pass.
EmptyMove ==
  /\ pc = "idle"
  /\ q' = q
  /\ q # <<>> /\ StartPass
  /\ UNCHANGED <<gone, committed, lastExit, moveVars, stepperVars, trouble>>

\* One block of the reverse pass, from the newest to the oldest
ReverseStep ==
  /\ pc = "reverse"
  /\ q' = [q EXCEPT ![pos] =
             CASE @.kind # "Positional" -> @
               [] @.kind = "Positional" /\ (pos = Len(q) \/ q[pos + 1].kind # "Positional")
                    -> AtRest(@)
               [] OTHER -> Backward(@, q[pos + 1])]
  /\ IF pos > 1 THEN pos' = pos - 1 /\ UNCHANGED pc
                ELSE pc' = "forward" /\ UNCHANGED pos
  /\ UNCHANGED <<gone, committed, lastExit, entry0, moveVars, stepperVars, trouble>>

\* The speed the forward pass takes block number i to be entered at
EntrySpeed(i) ==
  CASE i = 1 -> entry0
    [] i > 1 /\ q[i - 1].kind # "Positional" -> 0
    [] OTHER -> q[i - 1].exit

\* head == tail
PassOver == pos = Len(q)

\* One block of the forward pass, from the oldest to the newest
ForwardStep ==
  /\ pc = "forward"
  /\ LET u == EntrySpeed(pos)
     IN  q' = [q EXCEPT ![pos] = IF @.kind # "Positional" THEN @
                                 ELSE Profiled(u, Forward(u, @))]
  /\ IF PassOver THEN pc' = "commit" /\ pos' = 0
                 ELSE pos' = pos + 1 /\ UNCHANGED pc
  /\ entry0' = IF pc' = "commit" THEN 0 ELSE entry0
  /\ UNCHANGED <<gone, committed, lastExit, moveVars, stepperVars, trouble>>

\* plannerQueueCommit; then the next segment, the pass after the loop, or the end
Commit ==
  /\ pc = "commit"
  /\ q' = SubSeq(q, gone + 1, Len(q))
  /\ gone' = 0
  /\ committed' = Len(q')
  /\ CASE seg < segs ->
            pc' = "add" /\ seg' = seg + 1 /\ UNCHANGED <<move, segs, pos, entry0, trouble>>
       [] seg = segs /\ segs > 1 /\ FinalRecalc(segs) ->
            StartPass /\ seg' = seg + 1 /\ UNCHANGED <<move, segs, trouble>>
       [] OTHER ->
            pc' = "idle" /\ EndMove /\ UNCHANGED <<pos, entry0, trouble>>
  /\ UNCHANGED <<lastExit, stepperVars>>

\* plannerSetJointVelocity and plannerSetPosition commit at once, and with their
\* own block all that a move left uncommitted.
AddOther(kind) ==
  /\ pc = "idle"
  /\ Len(q) < Capacity
  /\ q' = Append(q, Block(kind, NoMove))
  /\ committed' = Len(q')
  /\ UNCHANGED <<gone, lastExit, plannerVars, stepperVars, trouble>>

-----------------------------------------------------------------------------
(* The stepper *)

InPass == pc \in {"reverse", "forward", "commit"}

\* plannerQueueFetchBlockI, at any point of a pass
Fetch ==
  /\ committed > 0
  /\ run.kind # "Positional"
  /\ LET b == q[gone + 1]
         aliased == run.kind = "Velocity" /\ b.kind # "Velocity"
     IN  /\ lastExit' = IF b.kind = "Positional" THEN b.exit ELSE 0
         /\ run' = IF b.kind = "Reset" THEN Ended(run) ELSE b
         \* last_block_speed shares its storage with the joint velocities, which
         \* are cleared before a velocity block and after it has come to rest
         /\ speed' \in CASE aliased -> {0} \cup Magnitudes
                         [] b.kind = "Velocity" -> {0}
                         [] OTHER -> {speed}
         /\ trouble' = trouble
              \cup (IF InPass THEN {"torn"} ELSE {})
              \cup (IF aliased THEN {"aliased"} ELSE {})
              \cup (IF b.kind = "Positional" /\ speed' > b.nominal
                      THEN {"overspeed"} ELSE {})
  /\ committed' = committed - 1
  /\ IF InPass THEN gone' = gone + 1 /\ UNCHANGED q
               ELSE q' = Tail(q) /\ UNCHANGED gone
  /\ UNCHANGED plannerVars

\* The last step of a positional block; every joint of a velocity block at rest.
\* Only the axis and direction of the finished block are remembered.
Finish ==
  /\ run.kind \in {"Positional", "Velocity"}
  /\ run' = Ended(run)
  /\ speed' \in IF run.kind = "Velocity" THEN {0}
                ELSE {EndSpeed(speed, run, a) : a \in SlowsAt(run)}
  /\ UNCHANGED <<queueVars, plannerVars, trouble>>

-----------------------------------------------------------------------------
Plan ==
  \/ \E m \in Moves, k \in SegmentCounts : BeginMove(m, k)
  \/ AddSegment
  \/ EmptyMove
  \/ ReverseStep
  \/ ForwardStep
  \/ Commit
  \/ \E kind \in {"Velocity", "Reset"} : AddOther(kind)

Next == Plan \/ Fetch \/ Finish

Spec == Init /\ [][Next]_vars

-----------------------------------------------------------------------------
(* Properties *)

Speeds == Nat
Kinds == {"Idle", "Positional", "Velocity", "Reset"}

BlockOK(b) ==
  /\ b.kind \in Kinds
  /\ b.exit \in Speeds /\ b.maxExit \in Speeds
  /\ b.maxValid \in BOOLEAN /\ b.profiled \in BOOLEAN
  /\ b.after \in NotProfiled .. b.reach

\* Types: the counts describe the sequence, no speed is the root of a negative
\* number, and a block slows down within its own length.
TypeOK ==
  /\ \A i \in 1 .. Len(q) : BlockOK(q[i])
  /\ gone \in 0 .. Len(q) /\ committed \in 0 .. Len(q) - gone
  /\ Len(q) <= Capacity
  /\ gone > 0 => InPass
  /\ pos \in 0 .. Len(q)
  /\ lastExit \in Speeds /\ entry0 \in Speeds /\ speed \in Speeds
  /\ BlockOK(run)
  /\ pc \in {"idle", "add", "reverse", "forward", "commit"}
  /\ trouble \subseteq {"torn", "skipped", "aliased", "overspeed"}

\* Whatever the stepper fetches in the middle of a pass, a block is never planned
\* to be left at speed if the next one takes another axis or is no move, nor, on
\* the same way, faster than the next one goes.
CornerRespected ==
  run.kind = "Positional" /\ Len(q) > gone =>
    LET n == q[gone + 1]
    IN  /\ n.kind # "Positional" \/ n.axis # run.axis => run.exit = 0
        /\ n.kind = "Positional" /\ ~Reverses(run, n) => run.exit <= n.nominal

\* The cached flags of the blocks never go stale: as long as nothing disturbed the
\* planner, a block that runs has the profile of its exit speed and of the speed
\* the stepper really entered it with.
ProfileCurrent ==
  run.kind = "Positional" /\ trouble = {} => run.after = Trapezoid(speed, run)

\* As long as nothing disturbed the planner, a block ends with the speed it was
\* planned to end with.
KeepsPlan ==
  [][Finish /\ trouble = {} /\ run.kind = "Positional" => speed' = run.exit]_vars

\* As long as nothing disturbed the planner, the stepper never runs out of
\* committed blocks while the machine is moving.
StopsBeforeTheEnd ==
  [][Finish /\ trouble = {} => speed' = 0 \/ committed > 0]_vars

\* A block entered faster than its own nominal speed reverses the axis of the
\* block before it: nothing else the planner does leads there.
OverspeedOnlyOnReversal ==
  [][Fetch /\ trouble = {} /\ trouble' = {"overspeed"} => Reverses(run, run')]_vars

\* Only after a move of 11, 23, ... segments (with a buffer of 50) can a block get
\* to the stepper that no look-ahead pass has given a profile.
ProfiledUnlessSkipped ==
  run.kind = "Positional" /\ "skipped" \notin trouble => run.after # NotProfiled
=============================================================================
