-------------------------- MODULE HomingMotionProofs -------------------------
(***************************************************************************)
(* Where homing takes the joints, for any machine with room to stop them:  *)
(* how far a switch is passed, how well a joint is homed, and what homing  *)
(* stops the machine for.  The invariant comes in layers, each kept by     *)
(* every step with the help of those below it: what waits in the queue and *)
(* what is known of joints at rest (Base); what a block finds when it is   *)
(* sent (Poised); where a joint comes to rest (Bounded, Inside); the leg   *)
(* it is on (Legs), the switch it has found (Found), how it crosses the    *)
(* edge of it (Latching), and what that makes of its counter (StepSeen,    *)
(* Registered); that a joint goes on until its switch is seen (Cleared,    *)
(* NoZero, SearchSide, Drives); and how far it gets (OutwardSet, Lower,    *)
(* Trip).                                                                  *)
(***************************************************************************)
EXTENDS HomingProofs

\* The machine, from a joint's point of view: speeds towards its switch, and how far
\* past it a carriage is.
Fast(j) == Abs(SearchVel[j])
Slow(j) == Abs(LatchVel[j])
Reach(j) == Fast(j) * (Fast(j) + 1)
Into(j, x) == IF SearchVel[j] < 0 THEN -x ELSE x
DepthOf(j, x) == IF SearchVel[j] < 0 THEN -x ELSE x - Stroke
Depth(j) == DepthOf(j, phys[j])
Within(x, n) == -n <= x /\ x <= n

LEMMA SpeedFacts ==
  ASSUME NEW j \in Joints
  PROVE  /\ SearchVel[j] \in Int /\ LatchVel[j] \in Int /\ HomePos[j] \in Int /\ Stroke \in Int
         /\ Fast(j) \in Nat /\ Slow(j) \in Nat /\ 1 <= Slow(j) /\ Slow(j) <= Fast(j)
         /\ Into(j, SearchVel[j]) = Fast(j) /\ Into(j, -SearchVel[j]) = -Fast(j)
         /\ LatchesInward(j) => Into(j, LatchVel[j]) = Slow(j)
         /\ ~LatchesInward(j) => Into(j, LatchVel[j]) = -Slow(j)
<1>1. SearchVel[j] \in Int /\ LatchVel[j] \in Int /\ HomePos[j] \in Int /\ Stroke \in Int
  BY MachineAssumption
<1>2. SearchVel[j] # 0 /\ LatchVel[j] # 0 /\ Abs(LatchVel[j]) <= Abs(SearchVel[j])
  BY <1>1, HomeAssumption DEF Abs
<1> QED BY <1>1, <1>2 DEF Fast, Slow, Into, LatchesInward, Abs

LEMMA ReachFacts ==
  ASSUME NEW j \in Joints
  PROVE  Reach(j) \in Nat /\ Reach(j) < 2 * Stroke
<1>1. Fast(j) \in Nat
  BY SpeedFacts
<1>2. Reach(j) < 2 * Stroke
  BY HomeAssumption DEF Reach, Fast
<1> QED BY <1>1, <1>2 DEF Reach

\* The speeds still to come to a joint: what the blocks in the queue, and the one
\* on its way there, ask of it.
Blocking == pc \in {"first", "push"}
Coming(j) ==
  {b.v[j] : b \in {b \in Waiting : b.mode = "Velocity"}}
    \cup (IF Blocking THEN {block[j]} ELSE {})
Sent(j) == \E x \in Coming(j) : x \notin {NaN, 0}
Asks(i, j) == queue[i].mode = "Velocity" /\ queue[i].v[j] \notin {NaN, 0}

LEMMA ComingSame ==
  ASSUME UNCHANGED <<queue, pc, block>>
  PROVE  Waiting' = Waiting /\ \A j \in Joints : Coming(j)' = Coming(j)
  BY DEF Waiting, Coming, Blocking

LEMMA ComingFewer ==
  ASSUME NEW j \in Joints,
         UNCHANGED <<pc, block>> \/ ~Blocking',
         \A b \in Waiting' : b \in Waiting \/ b.mode # "Velocity"
  PROVE  Coming(j)' \subseteq Coming(j)
  BY DEF Coming, Blocking

\* ... and what comes with a block for all joints or for one.
LEMMA ComingWith ==
  ASSUME NEW j \in Joints,
         \A b \in Waiting' : b \in Waiting \/ b.mode # "Velocity"
  PROVE  Coming(j)' \subseteq Coming(j) \cup {block'[j]}
  BY DEF Coming, Blocking

LEMMA PushComing ==
  ASSUME IInv, Push
  PROVE  \A j \in Joints : Coming(j)' = Coming(j)
<1> DEFINE b0 == [mode |-> "Velocity", v |-> block]
<1>1. /\ pc \in {"first", "push"} /\ pc' \notin {"first", "push"}
      /\ queue' = Append(queue, b0) /\ block \in Velocities
  BY DEF Push, IInv, Working
<1>2. b0 \in Blocks /\ b0.mode = "Velocity" /\ b0.v = block
  BY <1>1 DEF Blocks, Modes
<1> HIDE DEF b0
<1>3. Waiting' = Waiting \cup {b0}
  BY <1>1, <1>2, WaitingAppend DEF IInv
<1> QED BY <1>1, <1>2, <1>3 DEF Coming, Blocking

LEMMA ComingType ==
  ASSUME IInv, NEW j \in Joints
  PROVE  Coming(j) \subseteq Int \cup {NaN}
<1>1. \A b \in Waiting : b \in Blocks
  BY ElementOfSeq DEF IInv, Queued, Waiting
<1>2. \A b \in Waiting : b.v[j] \in Int \cup {NaN}
  BY <1>1 DEF Blocks, Velocities
<1>3. Blocking => block[j] \in Int \cup {NaN}
  BY DEF Blocking, IInv, Working, Velocities
<1> QED BY <1>2, <1>3 DEF Coming

-----------------------------------------------------------------------------
(* Nothing asks more of a joint than its search speed; a joint that has seen its *)
(* switch in this block is asked to rest; a positional block is the first.       *)

Tame(j) ==
  /\ Within(pv[j], Fast(j)) /\ Within(sv[j], Fast(j))
  /\ \A x \in Coming(j) : x # NaN => Within(x, Fast(j))
HitRests == \A j \in Joints : hit[j] => sv[j] = 0
NoTogo == active # "Positional" => togo = None(0)
OverlapDoubts == overlap => unsure = Joints
MoveFirst == \A i \in 2 .. Len(queue) : queue[i].mode # "Positional"
\* A block moves only joints whose stage says so, and while the first block is not
\* gone there is such a joint, or one at its switch.
Meant ==
  /\ Blocking => \A j \in Joints : block[j] \notin {NaN, 0} => stage[j] \in Driven \ {"AT_LIMIT"}
  /\ pc \in {"first", "check"} => \E k \in Joints : stage[k] \in Driven

Geared ==
  /\ \A j \in Joints : Tame(j)
  /\ HitRests /\ NoTogo /\ OverlapDoubts /\ MoveFirst /\ Meant

LEMMA TailFirst ==
  ASSUME Queued, queue # <<>>, queue' = Tail(queue)
  PROVE  /\ 1 \in 1 .. Len(queue) /\ Head(queue) = queue[1]
         /\ \A i \in 1 .. Len(queue') : i + 1 \in 2 .. Len(queue) /\ queue'[i] = queue[i + 1]
<1>1. queue \in Seq(Blocks)
  BY DEF Queued
<1>2. /\ Head(queue) = queue[1] /\ Len(Tail(queue)) = Len(queue) - 1
      /\ \A i \in 1 .. Len(Tail(queue)) : Tail(queue)[i] = queue[i + 1]
      /\ Len(queue) \in Nat \ {0}
  BY <1>1, HeadTailProperties, EmptySeq
<1> QED BY <1>2

LEMMA AppendLast ==
  ASSUME Queued, NEW b, b \in Blocks, queue' = Append(queue, b)
  PROVE  /\ Len(queue) \in Nat /\ Len(queue') = Len(queue) + 1 /\ queue'[Len(queue) + 1] = b
         /\ \A i \in 1 .. Len(queue) : queue'[i] = queue[i]
  BY AppendProperties, LenProperties DEF Queued

LEMMA WithinFacts ==
  \A n \in Nat : /\ Within(0, n)
                 /\ \A x, y \in Int : Within(x, n) /\ Within(y, n) => Within(Toward(x, y), n)
  BY DEF Within, Toward

LEMMA InitGeared == Init => Geared
<1> SUFFICES ASSUME Init PROVE Geared
  OBVIOUS
<1>1. queue = <<>> /\ Waiting = {} /\ ~Blocking
  BY WaitingNone DEF Init, Blocking
<1>2. \A j \in Joints : Coming(j) = {}
  BY <1>1 DEF Coming
<1>3. \A j \in Joints : Tame(j)
  BY <1>2, WithinFacts, SpeedFacts DEF Tame, Init, None
<1>4. MoveFirst
  BY <1>1, EmptySeq DEF MoveFirst
<1> QED BY <1>1, <1>3, <1>4 DEF Geared, HitRests, NoTogo, OverlapDoubts, Meant, Init, None

\* What the printer thread does to none of it.
LEMMA ThreadGeared ==
  ASSUME Geared, UNCHANGED <<pv, sv, hit, active, togo>>,
         OverlapDoubts', MoveFirst', Meant',
         \A j \in Joints : \A x \in Coming(j)' :
           x \in Coming(j) \/ x = NaN \/ Within(x, Fast(j))
  PROVE  Geared'
<1>1. \A j \in Joints : Tame(j)'
  BY DEF Geared, Tame
<1>2. HitRests' /\ NoTogo'
  BY DEF Geared, HitRests, NoTogo
<1> QED BY <1>1, <1>2 DEF Geared

\* ... and the stepper and the endstop thread to the rest of it.
LEMMA PlantGeared ==
  ASSUME Geared, UNCHANGED <<pc, block, stage, overlap, unsure>>,
         queue' = queue \/ (Queued /\ queue # <<>> /\ queue' = Tail(queue)),
         \A j \in Joints : Within(pv'[j], Fast(j)) /\ Within(sv'[j], Fast(j)),
         HitRests', NoTogo'
  PROVE  Geared'
<1>1. Waiting' \subseteq Waiting
  BY WaitingTail DEF Waiting
<1>2. \A j \in Joints : Coming(j)' \subseteq Coming(j)
  BY <1>1 DEF Coming, Blocking
<1>3. \A j \in Joints : Tame(j)'
  BY <1>2 DEF Geared, Tame
<1>4. MoveFirst'
  <2>1. CASE queue' = queue
    BY <2>1 DEF Geared, MoveFirst
  <2>2. CASE Queued /\ queue # <<>> /\ queue' = Tail(queue)
    <3>1. \A i \in 1 .. Len(queue') : i + 1 \in 2 .. Len(queue) /\ queue'[i] = queue[i + 1]
      BY <2>2, TailFirst
    <3>2. \A i \in 2 .. Len(queue') : i \in 1 .. Len(queue')
      OBVIOUS
    <3> QED BY <3>1, <3>2 DEF Geared, MoveFirst
  <2> QED BY <2>1, <2>2
<1>5. OverlapDoubts' /\ Meant'
  BY DEF Geared, OverlapDoubts, Meant, Blocking
<1> QED BY <1>3, <1>4, <1>5 DEF Geared

LEMMA PlantStepsGeared ==
  ASSUME IInv, Geared, EndstopPoll \/ StepperStep
  PROVE  Geared'
<1>0. UNCHANGED <<pc, block, stage, overlap, unsure>>
  BY DEF EndstopPoll, StepperStep, FetchVelocity, FetchOther, TickVelocity, TickPositional,
         TickIdle, homingVars, historyVars
<1>1. CASE EndstopPoll \/ TickIdle
  <2>1. UNCHANGED <<pv, sv, hit, active, togo, queue>>
    BY <1>1 DEF EndstopPoll, TickIdle, motorVars
  <2> QED BY <1>0, <2>1, PlantGeared DEF Geared, Tame, HitRests, NoTogo
<1>2. CASE FetchVelocity
  <2> DEFINE v == Head(queue).v
  <2>1. /\ queue # <<>> /\ queue' = Tail(queue) /\ Queued /\ Head(queue) \in Waiting
        /\ Head(queue).mode = "Velocity"
    BY <1>2, WaitingTail DEF FetchVelocity, MayFetch, IInv
  <2>2. /\ hit' = None(FALSE) /\ togo' = togo
        /\ sv' = [j \in Joints |-> IF estop THEN 0 ELSE SetSpeed(v, j)]
        /\ pv' = IF active = "Velocity" /\ ~estop THEN pv ELSE None(0)
        /\ active # "Positional" /\ active' # "Positional"
    BY <1>2 DEF FetchVelocity, FlagsAfterFetch, MayFetch
  <2>3. \A j \in Joints : v[j] \in Coming(j)
    BY <2>1 DEF Coming
  <2> HIDE DEF v
  <2>4. ASSUME NEW j \in Joints PROVE Within(pv'[j], Fast(j)) /\ Within(sv'[j], Fast(j))
    <3>1. Within(0, Fast(j)) /\ Tame(j)
      BY WithinFacts, SpeedFacts DEF Geared
    <3> QED BY <2>2, <2>3, <3>1 DEF Tame, SetSpeed, None
  <2>5. HitRests' /\ NoTogo'
    BY <2>2 DEF HitRests, NoTogo, None, Geared
  <2> QED BY <1>0, <2>1, <2>4, <2>5, PlantGeared
<1>3. CASE FetchOther
  <2>1. /\ queue # <<>> /\ queue' = Tail(queue) /\ Queued
        /\ pv' = None(0) /\ sv' = None(0)
        /\ active' # "Positional" => togo' = None(0)
    BY <1>3 DEF FetchOther, MayFetch, IInv, None
  <2>2. \A j \in Joints : Within(pv'[j], Fast(j)) /\ Within(sv'[j], Fast(j))
    BY <2>1, WithinFacts, SpeedFacts DEF None
  <2>3. HitRests' /\ NoTogo'
    BY <2>1 DEF HitRests, NoTogo, None
  <2> QED BY <1>0, <2>1, <2>2, <2>3, PlantGeared
<1>4. CASE TickVelocity
  <2>1. /\ queue' = queue /\ togo' = togo /\ active = "Velocity" /\ active' # "Positional"
        /\ sv' = [j \in Joints |-> Goal(j)]
        /\ pv' = [j \in Joints |-> Toward(pv[j], Goal(j))]
        /\ hit' = [j \in Joints |-> hit[j] \/ HitNow(j)]
    BY <1>4 DEF TickVelocity
  <2>2. ASSUME NEW j \in Joints PROVE Within(pv'[j], Fast(j)) /\ Within(sv'[j], Fast(j))
    <3>1. Fast(j) \in Nat /\ pv[j] \in Int /\ sv[j] \in Int /\ Tame(j) /\ Within(0, Fast(j))
      BY SpeedFacts, WithinFacts DEF IInv, Motors, Geared
    <3>2. Goal(j) \in Int /\ Within(Goal(j), Fast(j)) /\ Within(pv[j], Fast(j))
      BY <3>1 DEF Goal, Tame
    <3> QED BY <2>1, <3>1, <3>2, WithinFacts
  <2>3. HitRests' /\ NoTogo'
    BY <2>1 DEF HitRests, NoTogo, Goal, Geared
  <2> QED BY <1>0, <2>1, <2>2, <2>3, PlantGeared
<1>5. CASE TickPositional
  <2>1. /\ UNCHANGED <<pv, sv, hit, queue>>
        /\ active' # "Positional" => togo' = None(0)
    BY <1>5 DEF TickPositional
  <2> QED BY <1>0, <2>1, PlantGeared DEF Geared, Tame, HitRests, NoTogo
<1> QED BY <1>1, <1>2, <1>3, <1>4, <1>5 DEF StepperStep

\* What a stop, or none, does to the queue.
LEMMA StopOrNotFirst ==
  ASSUME EmergencyStop \/ NoStop, MoveFirst
  PROVE  MoveFirst'
<1>1. CASE EmergencyStop
  <2>1. Len(queue') = 1
    BY <1>1 DEF EmergencyStop
  <2> QED BY <2>1 DEF MoveFirst
<1>2. CASE NoStop
  BY <1>2 DEF NoStop, MoveFirst
<1> QED BY <1>1, <1>2

\* A block is put behind the others.
LEMMA AppendFirst ==
  ASSUME Queued, MoveFirst, NEW b, b \in Blocks, b.mode # "Positional", queue' = Append(queue, b)
  PROVE  MoveFirst'
<1>1. /\ Len(queue) \in Nat /\ Len(queue') = Len(queue) + 1 /\ queue'[Len(queue) + 1] = b
      /\ \A i \in 1 .. Len(queue) : queue'[i] = queue[i]
  BY AppendLast
<1>2. \A i \in 2 .. Len(queue') : i \in 2 .. Len(queue) \/ i = Len(queue) + 1
  BY <1>1
<1>3. \A i \in 2 .. Len(queue) : i \in 1 .. Len(queue)
  OBVIOUS
<1> QED BY <1>1, <1>2, <1>3 DEF MoveFirst

LEMMA BeginsGeared ==
  ASSUME IInv, Geared, MoveBegin \/ HomingBegin
  PROVE  Geared'
<1>1. /\ UNCHANGED <<pv, sv, hit, active, togo>> /\ ~Blocking' /\ Meant'
      /\ pc' \in {"ready", "sequence"}
  BY DEF MoveBegin, HomingBegin, motion, motorVars, Blocking, Meant
<1>2. OverlapDoubts'
  BY DEF MoveBegin, HomingBegin, historyVars, Geared, OverlapDoubts
<1>3. MoveFirst' /\ \A b \in Waiting' : b.mode # "Velocity"
  <2>1. CASE MoveBegin
    <3>1. PICK m : queue' = <<[mode |-> "Positional", v |-> m]>>
      BY <2>1 DEF MoveBegin
    <3>2. Len(queue') = 1
      BY <3>1
    <3> QED BY <3>1, <3>2, WaitingAlone DEF MoveFirst
  <2>2. CASE HomingBegin
    <3>1. queue' = queue /\ queue = <<>>
      BY <2>2 DEF HomingBegin
    <3>2. Waiting' = {}
      BY <3>1, WaitingNone DEF Waiting
    <3> QED BY <3>1, <3>2 DEF Geared, MoveFirst
  <2> QED BY <2>1, <2>2
<1>4. \A j \in Joints : Coming(j)' = {}
  BY <1>1, <1>3 DEF Coming
<1> QED BY <1>1, <1>2, <1>3, <1>4, ThreadGeared

LEMMA SequenceGeared ==
  ASSUME IInv, Geared, SequenceBegin
  PROVE  Geared'
<1>1. /\ UNCHANGED <<pv, sv, hit, active, togo, queue, overlap, unsure>> /\ pc = "sequence"
      /\ stage' = [j \in Joints |-> IF j \notin Group THEN "NONE"
                                    ELSE IF AtLimit(j) THEN "AT_LIMIT" ELSE "SEARCH"]
      /\ IF Group = {} THEN pc' = "sequence"
         ELSE /\ pc' = "first"
              /\ block' = [j \in Joints |-> IF stage'[j] = "SEARCH" THEN SearchVel[j] ELSE 0]
  BY DEF SequenceBegin, motorVars, historyVars
<1>2. OverlapDoubts' /\ MoveFirst'
  BY <1>1 DEF Geared, OverlapDoubts, MoveFirst
<1>3. Waiting' = Waiting
  BY <1>1 DEF Waiting
<1>4. Meant'
  <2>1. CASE Group = {}
    BY <1>1, <2>1 DEF Meant, Blocking
  <2>2. CASE Group # {}
    <3>1. PICK k \in Joints : k \in Group
      BY <2>2 DEF Group
    <3>2. stage'[k] \in Driven
      BY <1>1, <3>1 DEF Driven
    <3>3. \A j \in Joints : block'[j] \notin {NaN, 0} => stage'[j] \in Driven \ {"AT_LIMIT"}
      BY <1>1, <2>2 DEF Driven
    <3> QED BY <3>2, <3>3 DEF Meant
  <2> QED BY <2>1, <2>2
<1>5. ASSUME NEW j \in Joints, NEW x \in Coming(j)'
      PROVE  x \in Coming(j) \/ x = NaN \/ Within(x, Fast(j))
  <2>1. CASE Group = {}
    BY <1>1, <1>3, <1>5, <2>1 DEF Coming, Blocking
  <2>2. CASE Group # {}
    <3>1. Within(0, Fast(j)) /\ Within(SearchVel[j], Fast(j))
      BY WithinFacts, SpeedFacts DEF Within, Fast, Abs
    <3>2. x \in Coming(j) \/ x = block'[j]
      BY <1>3, <1>5, ComingWith
    <3> QED BY <1>1, <2>2, <3>1, <3>2
  <2> QED BY <2>1, <2>2
<1> QED BY <1>1, <1>2, <1>4, <1>5, ThreadGeared

LEMMA PassesGeared ==
  ASSUME IInv, Geared, HomingDone \/ Push \/ Check \/ Snapshot
  PROVE  Geared'
<1>1. UNCHANGED <<pv, sv, hit, active, togo, overlap, unsure, stage>>
  BY DEF HomingDone, Push, Check, Snapshot, motion, motorVars, historyVars, homingVars
<1>2. OverlapDoubts'
  BY <1>1 DEF Geared, OverlapDoubts
<1>3. CASE Push
  <2>1. MoveFirst'
    <3> DEFINE b0 == [mode |-> "Velocity", v |-> block]
    <3>1. b0 \in Blocks /\ b0.mode # "Positional" /\ queue' = Append(queue, b0)
      BY <1>3 DEF Push, IInv, Working, Blocks, Modes
    <3> HIDE DEF b0
    <3> QED BY <3>1, AppendFirst DEF IInv, Geared
  <2>2. Meant'
    BY <1>1, <1>3 DEF Push, Geared, Meant, Blocking
  <2>3. \A j \in Joints : Coming(j)' = Coming(j)
    BY <1>3, PushComing
  <2> QED BY <1>1, <1>2, <2>1, <2>2, <2>3, ThreadGeared
<1>4. CASE HomingDone \/ Check \/ Snapshot
  <2>1. queue' = queue /\ pc' \notin {"first", "push", "check"} /\ ~Blocking'
    BY <1>4 DEF HomingDone, Check, Snapshot, Blocking
  <2>2. MoveFirst' /\ Meant' /\ Waiting' = Waiting
    BY <2>1 DEF Geared, MoveFirst, Meant, Blocking, Waiting
  <2>3. \A j \in Joints : Coming(j)' \subseteq Coming(j)
    BY <2>1, <2>2 DEF Coming
  <2> QED BY <1>1, <1>2, <2>2, <2>3, ThreadGeared
<1> QED BY <1>3, <1>4

LEMMA StopsGeared ==
  ASSUME IInv, Geared, StopCall \/ StopClear
  PROVE  Geared'
<1>1. UNCHANGED <<pv, sv, hit, active, togo, overlap, unsure, stage, pc, block>>
  BY DEF StopCall, StopClear, motion, motorVars, historyVars, homingVars
<1>2. \A b \in Waiting' : b \in Waiting \/ b.mode # "Velocity"
  <2>1. CASE StopCall
    BY <2>1, WaitingAlone DEF StopCall, EmergencyStop
  <2>2. CASE StopClear
    BY <2>2, WaitingAppend, StopBlocks DEF StopClear, IInv
  <2> QED BY <2>1, <2>2
<1>3. MoveFirst'
  <2>1. CASE StopCall
    BY <2>1, StopOrNotFirst DEF StopCall, Geared
  <2>2. CASE StopClear
    <3> DEFINE b0 == [mode |-> "Estop_Clear", v |-> None(NaN)]
    <3>1. b0 \in Blocks /\ b0.mode # "Positional" /\ queue' = Append(queue, b0)
      BY <2>2, StopBlocks DEF StopClear
    <3> HIDE DEF b0
    <3> QED BY <3>1, AppendFirst DEF IInv, Geared
  <2> QED BY <2>1, <2>2
<1>4. OverlapDoubts' /\ Meant'
  BY <1>1 DEF Geared, OverlapDoubts, Meant, Blocking
<1>5. \A j \in Joints : Coming(j)' \subseteq Coming(j)
  BY <1>1, <1>2 DEF Coming, Blocking
<1> QED BY <1>1, <1>3, <1>4, <1>5, ThreadGeared

\* A look at joint j, reduced to what it may do to the queue and to the other joints:
\* the block it sends is for j alone.
Moving == {"SEARCH", "BACKOFF", "RELEASE", "LATCH"}
Parking == {"NONE", "AT_LIMIT", "PRE_FINAL", "FINAL"}
LookSends(j, s) ==
  /\ pc' = "push" /\ todo' = After(j) /\ s \in Moving
  /\ block' = [None(NaN) EXCEPT ![j] = CASE s = "SEARCH" -> SearchVel[j]
                                         [] s = "BACKOFF" -> -SearchVel[j]
                                         [] OTHER -> LatchVel[j]]
Look(j) ==
  /\ pc = "handle" /\ todo = j /\ Busy(j)
  /\ UNCHANGED <<pv, sv, hit, stopped, limitStep, active, togo, limit, phys, wiring, seqOf,
                 mask, sequence, seen, overlap, missed, estop>>
  /\ EmergencyStop \/ NoStop
  /\ unsure' = unsure \/ (~overlap /\ unsure' = unsure \ {j})
  /\ \A k \in Joints \ {j} : stage'[k] = stage[k] /\ base'[k] = base[k] /\ changed'[k] = changed[k]
                               /\ pos'[k] = pos[k] /\ lastPos'[k] = lastPos[k]
  /\ \/ base'[j] = base[j] /\ changed'[j] = changed[j]
     \/ base'[j] = limit[j] /\ changed'[j] = {}
  /\ stage'[j] \in Parking => stage[j] \in Parking \/ seen[j].stopped
  /\ \/ pc' = "ready" /\ stage' = stage
     \/ pc' = "handle" /\ todo' = After(j)
     \/ LookSends(j, stage'[j])

LEMMA HandleLooks ==
  ASSUME IInv, NEW j \in Joints, Handle(j)
  PROVE  Look(j)
<1>1. /\ stage \in [Joints -> Stages] /\ base \in [Joints -> Limits]
      /\ changed \in [Joints -> Limits] /\ pos \in [Joints -> Int] /\ lastPos \in [Joints -> Int]
  BY DEF IInv, Machine, Working
<1>2. handleRest' = handleRest =>
        UNCHANGED <<pv, sv, hit, stopped, limitStep, active, togo, limit, phys, wiring, seqOf,
                    mask, sequence, seen, overlap, missed, estop>>
  BY DEF handleRest, motorVars, machineVars
<1>3. CASE HandleSearch(j)
  BY <1>1, <1>2, <1>3 DEF HandleSearch, At, Skip, Send, Enter, Look, LookSends, Moving, Parking, Busy
<1>4. CASE HandleAtLimit(j)
  <2>1. /\ pc = "handle" /\ todo = j /\ Busy(j) /\ UNCHANGED handleRest /\ NoStop /\ ResetLimit(j)
        /\ UNCHANGED <<pos, unsure>> /\ lastPos' = [lastPos EXCEPT ![j] = seen[j].pos]
        /\ pc' = "push" /\ todo' = After(j)
        /\ stage' = [stage EXCEPT ![j] = IF LatchesInward(j) THEN "BACKOFF" ELSE "RELEASE"]
        /\ block' = [None(NaN) EXCEPT ![j] = IF LatchesInward(j) THEN -SearchVel[j] ELSE LatchVel[j]]
    BY <1>4 DEF HandleAtLimit, At, Busy, Send
  <2>2. stage'[j] = IF LatchesInward(j) THEN "BACKOFF" ELSE "RELEASE"
    BY <1>1, <2>1
  <2>3. LookSends(j, stage'[j])
    <3>1. CASE LatchesInward(j)
      <4>1. stage'[j] = "BACKOFF" /\ block' = [None(NaN) EXCEPT ![j] = -SearchVel[j]]
        BY <2>1, <2>2, <3>1
      <4> QED BY <2>1, <4>1 DEF LookSends, Moving
    <3>2. CASE ~LatchesInward(j)
      <4>1. stage'[j] = "RELEASE" /\ block' = [None(NaN) EXCEPT ![j] = LatchVel[j]]
        BY <2>1, <2>2, <3>2
      <4> QED BY <2>1, <4>1 DEF LookSends, Moving
    <3> QED BY <3>1, <3>2
  <2> QED BY <1>1, <1>2, <2>1, <2>3 DEF Look, ResetLimit, Parking
<1>5. CASE HandleBackoff(j)
  BY <1>1, <1>2, <1>5
     DEF HandleBackoff, At, Skip, Send, ResetLimit, Look, LookSends, Moving, Parking, Busy
<1>6. CASE HandleRelease(j) \/ HandleLatch(j)
  BY <1>1, <1>2, <1>6 DEF HandleRelease, HandleLatch, At, Skip, SetHome, Enter, Look, Parking, Busy
<1>7. CASE HandlePreFinal(j)
  BY <1>1, <1>2, <1>7 DEF HandlePreFinal, At, Enter, Look, Parking, Busy
<1> QED BY <1>3, <1>4, <1>5, <1>6, <1>7 DEF Handle

LEMMA LookGeared ==
  ASSUME IInv, Geared, NEW j \in Joints, Look(j)
  PROVE  Geared'
<1>0. OverlapDoubts'
  BY DEF Look, Geared, OverlapDoubts
<1>1. \A b \in Waiting' : b \in Waiting \/ b.mode # "Velocity"
  BY StopOrNotWaiting DEF Look, StopModes
<1>2. MoveFirst'
  BY StopOrNotFirst DEF Look, Geared
<1>3. ~Blocking' \/ LookSends(j, stage'[j])
  BY DEF Look, Blocking
<1>4. Meant'
  BY <1>3 DEF Look, LookSends, Meant, Blocking, Moving, Driven, None
<1>5. ASSUME NEW k \in Joints, NEW x \in Coming(k)'
      PROVE  x \in Coming(k) \/ x = NaN \/ Within(x, Fast(k))
  <2>1. CASE ~Blocking'
    BY <1>1, <1>5, <2>1, ComingFewer
  <2>2. CASE LookSends(j, stage'[j])
    <3>1. x \in Coming(k) \/ x = block'[k]
      BY <1>1, <1>5, ComingWith
    <3>2. block'[k] \in {NaN, SearchVel[k], -SearchVel[k], LatchVel[k]}
      BY <2>2 DEF LookSends, None
    <3>3. /\ Within(SearchVel[k], Fast(k)) /\ Within(-SearchVel[k], Fast(k))
          /\ Within(LatchVel[k], Fast(k))
      BY SpeedFacts DEF Within, Fast, Slow, Abs
    <3> QED BY <3>1, <3>2, <3>3
  <2> QED BY <1>3, <2>1, <2>2
<1> QED BY <1>0, <1>2, <1>4, <1>5, ThreadGeared DEF Look

LEMMA NextGeared == IInv /\ Geared /\ [Next]_vars => Geared'
<1> SUFFICES ASSUME IInv, Geared, [Next]_vars PROVE Geared'
  OBVIOUS
<1>1. CASE EndstopPoll \/ StepperStep
  BY <1>1, PlantStepsGeared
<1>2. CASE HomingBegin \/ MoveBegin
  BY <1>2, BeginsGeared
<1>3. CASE HomingStep
  <2>1. ASSUME NEW j \in Joints, Handle(j) PROVE Geared'
    BY <2>1, HandleLooks, LookGeared
  <2> QED BY <1>3, <2>1, SequenceGeared, PassesGeared DEF HomingStep
<1>4. CASE StopCall \/ StopClear
  BY <1>4, StopsGeared
<1>5. CASE UNCHANGED vars
  <2>1. /\ UNCHANGED <<pc, block, stage, overlap, unsure>>
        /\ UNCHANGED <<pv, sv, hit, active, togo, queue>>
    BY <1>5 DEF vars, motorVars, homingVars, historyVars
  <2> QED BY <2>1, PlantGeared DEF Geared, Tame, HitRests, NoTogo
<1> QED BY <1>1, <1>2, <1>3, <1>4, <1>5 DEF Next

-----------------------------------------------------------------------------
(* What waits in the queue, in a homing that began at rest.                      *)

Unmixed ==
  ~overlap /\ (\E b \in Waiting : b.mode = "Velocity") =>
    active # "Positional" /\ \A b \in Waiting : b.mode # "Positional"

\* No velocity block is left over from an earlier sequence, or from the blocks sent
\* before the joints were last looked at.
OfThisPass ==
  ~overlap =>
    /\ pc \in {"sequence", "first"} => \A b \in Waiting : b.mode # "Velocity"
    /\ pc = "push" \/ (pc = "handle" /\ \E b \in Waiting : b.mode = "Velocity") =>
         \E k \in Joints : k < todo /\ stage[k] \in Driven

Ordered == Unmixed /\ OfThisPass

LEMMA InitOrdered == Init => Ordered
<1> SUFFICES ASSUME Init PROVE Ordered
  OBVIOUS
<1>1. Waiting = {}
  BY WaitingNone DEF Init
<1> QED BY <1>1 DEF Init, Ordered, Unmixed, OfThisPass

LEMMA PlantOrdered ==
  ASSUME IInv, Ordered, EndstopPoll \/ StepperStep
  PROVE  Ordered'
<1>1. UNCHANGED <<pc, todo, stage, overlap>>
  BY DEF EndstopPoll, StepperStep, FetchVelocity, FetchOther, TickVelocity, TickPositional,
         TickIdle, homingVars, historyVars
<1>2. /\ Waiting' \subseteq Waiting
      /\ active' = "Positional" =>
           active = "Positional" \/ \E b \in Waiting : b.mode = "Positional"
  <2>1. CASE EndstopPoll \/ TickVelocity \/ TickPositional \/ TickIdle
    BY <2>1 DEF EndstopPoll, TickVelocity, TickPositional, TickIdle, motorVars, Waiting
  <2>2. CASE FetchVelocity \/ FetchOther
    <3>1. Waiting' \subseteq Waiting /\ Head(queue) \in Waiting
      BY <2>2, WaitingTail DEF FetchVelocity, FetchOther, MayFetch, IInv
    <3>2. active' = "Positional" => Head(queue).mode = "Positional"
      BY <2>2 DEF FetchVelocity, FetchOther
    <3> QED BY <3>1, <3>2
  <2> QED BY <2>1, <2>2 DEF StepperStep
<1> QED BY <1>1, <1>2 DEF Ordered, Unmixed, OfThisPass

LEMMA ThreadOrdered ==
  ASSUME IInv, Alone, Geared, Ordered,
         \/ HomingBegin \/ MoveBegin \/ SequenceBegin \/ HomingDone \/ Push \/ Check \/ Snapshot
         \/ StopCall \/ StopClear
  PROVE  Ordered'
<1>1. CASE MoveBegin
  <2>1. (\A b \in Waiting' : b.mode = "Positional") /\ pc' = "ready"
    BY <1>1, WaitingAlone DEF MoveBegin
  <2> QED BY <2>1 DEF Ordered, Unmixed, OfThisPass
<1>2. CASE HomingBegin
  <2>1. Waiting' = {} /\ pc' = "sequence"
    BY <1>2, WaitingNone DEF HomingBegin, Waiting
  <2> QED BY <2>1 DEF Ordered, Unmixed, OfThisPass
<1>3. CASE SequenceBegin \/ HomingDone
  <2>1. /\ UNCHANGED <<queue, active, overlap>> /\ pc = "sequence"
        /\ pc' \in {"sequence", "first", "ready"}
    BY <1>3 DEF SequenceBegin, HomingDone, motion, motorVars, historyVars
  <2>2. Waiting' = Waiting
    BY <2>1 DEF Waiting
  <2> QED BY <2>1, <2>2 DEF Ordered, Unmixed, OfThisPass
<1>4. CASE Push
  <2> DEFINE b0 == [mode |-> "Velocity", v |-> block]
  <2>1. /\ UNCHANGED <<active, overlap, stage, todo>> /\ pc \in {"first", "push"}
        /\ pc' = IF pc = "push" THEN "handle" ELSE "check"
        /\ queue' = Append(queue, b0)
    BY <1>4 DEF Push, motion, motorVars, historyVars
  <2>2. b0 \in Blocks /\ b0.mode = "Velocity"
    BY <2>1 DEF IInv, Working, Blocks, Modes
  <2> HIDE DEF b0
  <2>3. Waiting' = Waiting \cup {b0}
    BY <2>1, <2>2, WaitingAppend DEF IInv
  <2>4. Unmixed'
    BY <2>1, <2>2, <2>3 DEF Alone, NoMove, Unmixed
  <2>5. OfThisPass'
    BY <2>1 DEF Ordered, OfThisPass
  <2> QED BY <2>4, <2>5 DEF Ordered
<1>5. CASE Check
  <2>1. /\ UNCHANGED <<queue, active, overlap, stage>> /\ pc \in {"check", "handle"}
        /\ pc' \in {"sequence", "ready", "sleep"} /\ (pc' = "sequence" => count = 0)
    BY <1>5 DEF Check, motion, motorVars, historyVars
  <2>2. Waiting' = Waiting
    BY <2>1 DEF Waiting
  <2>3. pc' = "sequence" => \A k \in Joints : stage[k] \notin Driven
    <3> SUFFICES ASSUME pc' = "sequence" PROVE \A k \in Joints : stage[k] \notin Driven
      OBVIOUS
    <3>1. IsFiniteSet(ToHome)
      BY JointsFacts, FS_Subset DEF ToHome
    <3>2. ToHome = {}
      BY <2>1, <3>1, FS_EmptySet DEF IInv, Counted
    <3> QED BY <3>2 DEF ToHome, Busy, Driven
  <2>4. ~overlap /\ pc' = "sequence" => \A b \in Waiting : b.mode # "Velocity"
    <3> SUFFICES ASSUME ~overlap, pc' = "sequence" PROVE \A b \in Waiting : b.mode # "Velocity"
      OBVIOUS
    <3>1. pc = "handle"
      BY <2>1, <2>3 DEF Geared, Meant
    <3> QED BY <2>3, <3>1 DEF Ordered, OfThisPass
  <2> QED BY <2>1, <2>2, <2>4 DEF Ordered, Unmixed, OfThisPass
<1>6. CASE Snapshot
  <2>1. /\ UNCHANGED <<queue, overlap>> /\ pc = "sleep" /\ pc' = "handle" /\ ~MayFetch
    BY <1>6 DEF Snapshot, motion, historyVars
  <2>2. ~overlap => Waiting' = {}
    BY <2>1, WaitingNone DEF MayFetch, Alone, NoMove, Waiting
  <2> QED BY <2>1, <2>2 DEF Ordered, Unmixed, OfThisPass
<1>7. CASE StopCall \/ StopClear
  <2>1. UNCHANGED <<active, overlap, stage, todo, pc>>
    BY <1>7 DEF StopCall, StopClear, motion, motorVars, historyVars, homingVars
  <2>2. \A b \in Waiting' : b \in Waiting \/ b.mode \in StopModes
    <3>1. CASE StopCall
      BY <3>1, WaitingAlone DEF StopCall, EmergencyStop, StopModes
    <3>2. CASE StopClear
      BY <3>2, WaitingAppend, StopBlocks DEF StopClear, IInv, StopModes
    <3> QED BY <1>7, <3>1, <3>2
  <2> QED BY <2>1, <2>2 DEF Ordered, Unmixed, OfThisPass, StopModes
<1> QED BY <1>1, <1>2, <1>3, <1>4, <1>5, <1>6, <1>7

LEMMA LookOrdered ==
  ASSUME IInv, Alone, Ordered, NEW j \in Joints, Look(j)
  PROVE  Ordered'
<1>1. \A b \in Waiting' : b \in Waiting \/ b.mode \in StopModes
  BY StopOrNotWaiting DEF Look
<1>2. Unmixed'
  BY <1>1 DEF Look, Alone, NoMove, Unmixed, StopModes
<1>3. After(j) \in j + 1 .. NumJoints + 1 /\ j \in Nat
  BY AfterExists, JointsFacts
<1>4. OfThisPass'
  <2>1. CASE pc' = "ready"
    BY <2>1 DEF OfThisPass
  <2>2. CASE pc' = "handle" /\ todo' = After(j)
    <3>1. ASSUME NEW k \in Joints, k < j PROVE k < todo' /\ stage'[k] = stage[k]
      <4>1. k # j /\ k \in Nat
        BY <1>3, <3>1, JointsFacts
      <4>2. stage'[k] = stage[k]
        BY <4>1 DEF Look
      <4> QED BY <1>3, <2>2, <3>1, <4>1, <4>2
    <3> QED BY <1>1, <2>2, <3>1 DEF Look, Ordered, OfThisPass, StopModes
  <2>3. CASE LookSends(j, stage'[j])
    <3>1. j < todo' /\ stage'[j] \in Driven /\ pc' = "push"
      BY <1>3, <2>3 DEF LookSends, Moving, Driven
    <3> QED BY <3>1 DEF OfThisPass
  <2> QED BY <2>1, <2>2, <2>3 DEF Look
<1> QED BY <1>2, <1>4 DEF Ordered

-----------------------------------------------------------------------------
(* Joints at rest: homing that began with nothing under way knows the switches   *)
(* of a joint that rests.                                                        *)

Polled(j) == limit[j] = Contacts(j) /\ changed[j] = ChangedAfter(j)
Parks(j) == pc \in {"sequence", "first"} \/ (pc # "ready" /\ stage[j] \in Parking)
Watched ==
  ~overlap /\ pc # "ready" =>
    \A j \in Joints :
      /\ stopped[j] => Polled(j)
      /\ Parks(j) => Rest(j) /\ Polled(j)

\* What the printer thread has seen of a joint still to look at, if it rested, is so.
SeenStill ==
  ~overlap /\ pc \in {"handle", "push"} =>
    \A j \in Joints : j >= todo =>
      /\ seen[j].stopped =>
           /\ Polled(j) /\ seen[j].limit = limit[j] /\ seen[j].pos = pos[j]
           /\ seen[j].changed = {} => changed[j] = {}
      /\ stage[j] = "AT_LIMIT" => seen[j].pos = pos[j]

Quiet == Watched /\ SeenStill

LEMMA ContactsSame ==
  ASSUME NEW j \in Joints, phys'[j] = phys[j], wiring' = wiring
  PROVE  Contacts(j)' = Contacts(j)
  BY DEF Contacts

LEMMA PolledSame ==
  ASSUME NEW j \in Joints, phys'[j] = phys[j], wiring' = wiring,
         limit'[j] = limit[j], base'[j] = base[j], changed'[j] = changed[j], Polled(j)
  PROVE  Polled(j)'
<1>1. Contacts(j)' = Contacts(j)
  BY ContactsSame
<1> QED BY <1>1 DEF Polled, ChangedAfter

\* What is set anew is up to date if the switches were.
LEMMA PolledAnew ==
  ASSUME NEW j \in Joints, phys'[j] = phys[j], wiring' = wiring,
         limit'[j] = limit[j], base'[j] = limit[j], changed'[j] = {}, limit[j] = Contacts(j)
  PROVE  Polled(j)'
<1>1. Contacts(j)' = Contacts(j)
  BY ContactsSame
<1> QED BY <1>1 DEF Polled, ChangedAfter, Delta

\* A poll changes nothing of a joint that is up to date.
LEMMA PollFacts ==
  ASSUME IInv, EndstopPoll, NEW j \in Joints
  PROVE  /\ Polled(j)' /\ Contacts(j)' = Contacts(j)
         /\ Polled(j) => limit'[j] = limit[j] /\ changed'[j] = changed[j]
<1>1. /\ limit'[j] = Contacts(j) /\ changed'[j] = ChangedAfter(j) /\ base' = base
      /\ wiring' = wiring /\ phys' = phys
  BY DEF EndstopPoll, machineVars, plantVars
<1>2. Contacts(j)' = Contacts(j)
  BY <1>1, ContactsSame
<1> QED BY <1>1, <1>2 DEF Polled, ChangedAfter

\* At a tick of a velocity block the queue is empty and the switches have been polled.
LEMMA TickFacts ==
  ASSUME IInv, TickVelocity
  PROVE  /\ Waiting = {} /\ queue = <<>> /\ queue' = queue
         /\ UNCHANGED <<wiring, limit, pc, block, stage, todo, seen, overlap, unsure>>
         /\ \A j \in Joints :
              /\ Polled(j)
              /\ pv'[j] = Toward(pv[j], Goal(j)) /\ sv'[j] = Goal(j)
              /\ phys'[j] = phys[j] + pv'[j] /\ pos'[j] = pos[j] + pv'[j]
              /\ stopped'[j] = StoppedNow(j) /\ hit'[j] = (hit[j] \/ HitNow(j))
              /\ base'[j] = IF HitNow(j) THEN limit[j] ELSE base[j]
              /\ changed'[j] = IF HitNow(j) THEN {} ELSE changed[j]
              /\ limitStep'[j] = IF HitNow(j) THEN pos[j] ELSE limitStep[j]
<1>1. queue = <<>>
  BY DEF TickVelocity, MayTick, MayFetch
<1>2. \A j \in Joints : Polled(j)
  BY DEF TickVelocity, MayTick, EndstopPending, Polled
<1> QED BY <1>1, <1>2, WaitingNone DEF TickVelocity, machineVars, homingVars, historyVars

\* A joint that does not move at a tick stays up to date.
LEMMA TickPolled ==
  ASSUME IInv, TickVelocity, NEW j \in Joints, pv'[j] = 0
  PROVE  Polled(j)' /\ phys'[j] = phys[j] /\ pos'[j] = pos[j]
<1>1. /\ Polled(j) /\ phys'[j] = phys[j] + pv'[j] /\ pos'[j] = pos[j] + pv'[j]
      /\ base'[j] = IF HitNow(j) THEN limit[j] ELSE base[j]
      /\ changed'[j] = IF HitNow(j) THEN {} ELSE changed[j]
      /\ limit' = limit /\ wiring' = wiring
  BY TickFacts
<1>2. phys'[j] = phys[j] /\ pos'[j] = pos[j]
  BY <1>1 DEF IInv, Machine
<1>3. CASE HitNow(j)
  BY <1>1, <1>2, <1>3, PolledAnew DEF Polled
<1>4. CASE ~HitNow(j)
  BY <1>1, <1>2, <1>4, PolledSame
<1> QED BY <1>2, <1>3, <1>4

LEMMA InitQuiet == Init => Quiet
  BY DEF Init, Quiet, Watched, SeenStill

LEMMA RestKept ==
  ASSUME IInv, Alone, EndstopPoll \/ StepperStep, NEW j \in Joints, Rest(j)
  PROVE  Rest(j)'
<1>1. CASE EndstopPoll \/ TickPositional \/ TickIdle
  <2>1. UNCHANGED <<pv, sv, queue>>
    BY <1>1 DEF EndstopPoll, TickPositional, TickIdle, motorVars
  <2> QED BY <2>1 DEF Rest, Waiting
<1>2. CASE TickVelocity
  <2>1. pv'[j] = Toward(pv[j], Goal(j)) /\ sv'[j] = Goal(j) /\ queue' = queue
    BY <1>2, TickFacts
  <2> QED BY <2>1 DEF Rest, Waiting, Goal, Toward
<1>3. CASE FetchOther
  <2>1. Waiting' \subseteq Waiting /\ pv' = None(0) /\ sv' = None(0)
    BY <1>3, WaitingTail DEF IInv, FetchOther, MayFetch
  <2> QED BY <2>1 DEF Rest, None
<1>4. CASE FetchVelocity
  <2>1. /\ Waiting' \subseteq Waiting /\ Head(queue) \in Waiting /\ Head(queue).mode = "Velocity"
        /\ sv' = [k \in Joints |-> IF estop THEN 0 ELSE SetSpeed(Head(queue).v, k)]
        /\ pv' = IF active = "Velocity" /\ ~estop THEN pv ELSE None(0)
    BY <1>4, WaitingTail DEF IInv, FetchVelocity, MayFetch
  <2>2. NaN # 0 /\ Head(queue).v[j] \in {NaN, 0}
    BY <2>1, InputsAssumption DEF Rest
  <2> QED BY <2>1, <2>2 DEF Rest, None, SetSpeed
<1> QED BY <1>1, <1>2, <1>3, <1>4 DEF StepperStep

\* A joint seen at rest and still to look at rests, and no block concerns it.
LEMMA SeenRests ==
  ASSUME Alone, Quiet, ~overlap, pc \in {"handle", "push"},
         NEW j \in Joints, j >= todo, seen[j].stopped
  PROVE  /\ pv[j] = 0 /\ sv[j] = 0 /\ Rest(j) /\ Polled(j)
         /\ \A b \in Waiting : b.mode = "Velocity" => b.v[j] = NaN
         /\ pc = "push" => block[j] = NaN
         /\ seen[j].limit = limit[j] /\ seen[j].pos = pos[j]
         /\ seen[j].changed = {} => changed[j] = {}
<1>1. /\ pv[j] = 0 /\ sv[j] = 0
      /\ \A b \in Waiting : b.mode = "Velocity" => b.v[j] = NaN
      /\ pc = "push" => block[j] = NaN
  BY DEF Alone, StillStopped
<1>2. Polled(j)
  BY DEF Quiet, SeenStill
<1> QED BY <1>1, <1>2 DEF Rest, Quiet, SeenStill

LEMMA PlantQuiet ==
  ASSUME IInv, Alone, Quiet, EndstopPoll \/ StepperStep
  PROVE  Quiet'
<1>1. UNCHANGED <<pc, todo, stage, overlap, seen, wiring>>
  BY DEF EndstopPoll, StepperStep, FetchVelocity, FetchOther, TickVelocity, TickPositional,
         TickIdle, homingVars, historyVars, machineVars
<1>2. CASE ~overlap /\ pc # "ready"
  <2>1. ASSUME NEW j \in Joints, Parks(j) PROVE Rest(j) /\ Polled(j) /\ Rest(j)'
    BY <1>2, <2>1, RestKept DEF Quiet, Watched
  <2>2. CASE EndstopPoll
    <3>1. stopped' = stopped /\ pos' = pos
      BY <2>2 DEF EndstopPoll, motorVars, plantVars
    <3>2. Watched'
      BY <1>1, <2>1, <2>2, PollFacts DEF Watched, Parks
    <3>3. SeenStill'
      <4> SUFFICES ASSUME pc \in {"handle", "push"}, NEW j \in Joints, j >= todo
                   PROVE  /\ seen[j].stopped =>
                               /\ Polled(j)' /\ seen[j].limit = limit'[j] /\ seen[j].pos = pos'[j]
                               /\ seen[j].changed = {} => changed'[j] = {}
                          /\ stage[j] = "AT_LIMIT" => seen[j].pos = pos'[j]
        BY <1>1 DEF SeenStill
      <4>1. stage[j] = "AT_LIMIT" => seen[j].pos = pos'[j]
        BY <1>2, <3>1 DEF Quiet, SeenStill
      <4>2. ASSUME seen[j].stopped
            PROVE  /\ Polled(j)' /\ seen[j].limit = limit'[j] /\ seen[j].pos = pos'[j]
                   /\ seen[j].changed = {} => changed'[j] = {}
        <5>1. Polled(j) /\ seen[j].limit = limit[j] /\ seen[j].pos = pos[j]
              /\ (seen[j].changed = {} => changed[j] = {})
          BY <1>2, <4>2, SeenRests
        <5> QED BY <2>2, <3>1, <5>1, PollFacts
      <4> QED BY <4>1, <4>2
    <3> QED BY <3>2, <3>3 DEF Quiet
  <2>3. CASE FetchVelocity \/ FetchOther
    <3>1. /\ UNCHANGED <<limit, base, changed, phys, pos>>
          /\ \A j \in Joints : stopped'[j] => stopped[j]
      BY <2>3 DEF FetchVelocity, FetchOther, switchVars, plantVars
    <3>2. \A j \in Joints : Polled(j) => Polled(j)'
      BY <1>1, <3>1, PolledSame
    <3>3. Watched'
      BY <1>1, <1>2, <2>1, <3>1, <3>2 DEF Quiet, Watched, Parks
    <3>4. SeenStill'
      BY <1>1, <3>1, <3>2 DEF Quiet, SeenStill
    <3> QED BY <3>3, <3>4 DEF Quiet
  <2>4. CASE TickVelocity
    <3>1. ASSUME NEW j \in Joints, stopped'[j] PROVE pv'[j] = 0
      BY <2>4, <3>1, TickVelocityAlone DEF Alone, Calm
    <3>2. ASSUME NEW j \in Joints, Parks(j) PROVE pv'[j] = 0
      BY <2>1, <3>2 DEF Rest
    <3>3. Watched'
      BY <1>1, <2>1, <2>4, <3>1, <3>2, TickPolled DEF Watched, Parks
    <3>4. SeenStill'
      <4> SUFFICES ASSUME pc \in {"handle", "push"}, NEW j \in Joints, j >= todo
                   PROVE  /\ seen[j].stopped =>
                               /\ Polled(j)' /\ seen[j].limit = limit'[j] /\ seen[j].pos = pos'[j]
                               /\ seen[j].changed = {} => changed'[j] = {}
                          /\ stage[j] = "AT_LIMIT" => seen[j].pos = pos'[j]
        BY <1>1 DEF SeenStill
      <4>1. ASSUME stage[j] = "AT_LIMIT" PROVE seen[j].pos = pos'[j]
        <5>1. Parks(j)
          BY <1>2, <4>1 DEF Parks, Parking
        <5> QED BY <1>2, <2>4, <3>2, <4>1, <5>1, TickPolled DEF Quiet, SeenStill
      <4>2. ASSUME seen[j].stopped
            PROVE  /\ Polled(j)' /\ seen[j].limit = limit'[j] /\ seen[j].pos = pos'[j]
                   /\ seen[j].changed = {} => changed'[j] = {}
        <5>1. pv[j] = 0 /\ sv[j] = 0 /\ seen[j].limit = limit[j] /\ seen[j].pos = pos[j]
              /\ (seen[j].changed = {} => changed[j] = {})
          BY <1>2, <4>2, SeenRests
        <5>2. /\ pv'[j] = Toward(pv[j], Goal(j)) /\ limit' = limit
              /\ changed'[j] = IF HitNow(j) THEN {} ELSE changed[j]
          BY <2>4, TickFacts
        <5>3. pv'[j] = 0
          BY <5>1, <5>2 DEF Toward, Goal
        <5> QED BY <2>4, <5>1, <5>2, <5>3, TickPolled
      <4> QED BY <4>1, <4>2
    <3> QED BY <3>3, <3>4 DEF Quiet
  <2>5. CASE TickPositional
    BY <1>2, <2>5 DEF TickPositional, Alone, NoMove
  <2>6. CASE TickIdle
    <3>1. UNCHANGED <<limit, base, changed, phys, pos, stopped>>
      BY <2>6 DEF TickIdle, switchVars, plantVars, motorVars
    <3>2. \A j \in Joints : Polled(j) => Polled(j)'
      BY <1>1, <3>1, PolledSame
    <3>3. Watched'
      BY <1>1, <1>2, <2>1, <3>1, <3>2 DEF Quiet, Watched, Parks
    <3>4. SeenStill'
      BY <1>1, <3>1, <3>2 DEF Quiet, SeenStill
    <3> QED BY <3>3, <3>4 DEF Quiet
  <2> QED BY <2>2, <2>3, <2>4, <2>5, <2>6 DEF StepperStep
<1>3. CASE overlap \/ pc = "ready"
  BY <1>1, <1>3 DEF Quiet, Watched, SeenStill
<1> QED BY <1>2, <1>3

\* What only adds stops to the queue leaves a resting joint at rest.
LEMMA RestStays ==
  ASSUME NEW j \in Joints, Rest(j), pv'[j] = pv[j], sv'[j] = sv[j],
         \A b \in Waiting' : b \in Waiting \/ b.mode # "Velocity" \/ b.v[j] \in {NaN, 0}
  PROVE  Rest(j)'
  BY DEF Rest

LEMMA NoneLeft ==
  ASSUME IInv, count = 0
  PROVE  \A k \in Joints : stage[k] \in {"NONE", "FINAL"}
<1>1. IsFiniteSet(ToHome)
  BY JointsFacts, FS_Subset DEF ToHome
<1>2. ToHome = {}
  BY <1>1, FS_EmptySet DEF IInv, Counted
<1> QED BY <1>2 DEF ToHome, Busy

LEMMA ThreadQuiet ==
  ASSUME IInv, Alone, Geared, Quiet,
         \/ HomingBegin \/ MoveBegin \/ SequenceBegin \/ HomingDone \/ Push \/ Check \/ Snapshot
         \/ StopCall \/ StopClear
  PROVE  Quiet'
<1>1. CASE MoveBegin \/ HomingDone
  <2>1. pc' = "ready"
    BY <1>1 DEF MoveBegin, HomingDone
  <2> QED BY <2>1 DEF Quiet, Watched, SeenStill
<1>2. CASE HomingBegin
  <2>1. /\ pc' = "sequence" /\ queue' = <<>>
        /\ ~overlap' => active = "Idle" /\ ~EndstopPending
        /\ UNCHANGED <<pv, sv, phys, wiring, limit, base, changed>>
    BY <1>2 DEF HomingBegin, motion, motorVars, switchVars, plantVars, machineVars
  <2>2. Waiting' = {}
    BY <2>1, WaitingNone DEF Waiting
  <2>3. ~overlap' => \A j \in Joints : Rest(j)' /\ Polled(j)'
    <3> SUFFICES ASSUME ~overlap', NEW j \in Joints PROVE Rest(j)' /\ Polled(j)'
      OBVIOUS
    <3>1. pv[j] = 0 /\ sv[j] = 0 /\ Polled(j)
      BY <2>1 DEF Alone, Calm, EndstopPending, Polled
    <3> QED BY <2>1, <2>2, <3>1, PolledSame DEF Rest
  <2>4. Watched'
    BY <2>3 DEF Watched
  <2>5. SeenStill'
    BY <2>1 DEF SeenStill
  <2> QED BY <2>4, <2>5 DEF Quiet
<1>3. CASE SequenceBegin
  <2>1. /\ pc = "sequence" /\ pc' \in {"sequence", "first"}
        /\ UNCHANGED <<pv, sv, queue, stopped, phys, wiring, limit, overlap>>
        /\ \A j \in Joints : \/ base'[j] = limit[j] /\ changed'[j] = {}
                             \/ base'[j] = base[j] /\ changed'[j] = changed[j]
    BY <1>3 DEF SequenceBegin, motorVars, plantVars, machineVars, historyVars
  <2>2. Waiting' = Waiting
    BY <2>1 DEF Waiting
  <2>3. ASSUME ~overlap, NEW j \in Joints PROVE Rest(j)' /\ Polled(j)'
    <3>1. Rest(j) /\ Polled(j)
      BY <2>1, <2>3 DEF Quiet, Watched, Parks
    <3>2. Rest(j)'
      BY <2>1, <2>2, <3>1 DEF Rest
    <3>3. limit[j] = Contacts(j)
      BY <3>1 DEF Polled
    <3>4. Polled(j)'
      BY <2>1, <3>1, <3>3, PolledSame, PolledAnew
    <3> QED BY <3>2, <3>4
  <2>4. Watched'
    BY <2>1, <2>3 DEF Watched
  <2>5. SeenStill'
    BY <2>1 DEF SeenStill
  <2> QED BY <2>4, <2>5 DEF Quiet
<1>4. CASE Push
  <2> DEFINE b0 == [mode |-> "Velocity", v |-> block]
  <2>1. /\ UNCHANGED <<pv, sv, stopped, phys, wiring, limit, base, changed, pos, overlap, stage, todo, seen>>
        /\ pc \in {"first", "push"} /\ pc' = (IF pc = "push" THEN "handle" ELSE "check")
        /\ queue' = Append(queue, b0)
    BY <1>4 DEF Push, motion, motorVars, switchVars, plantVars, machineVars, historyVars
  <2>2. b0 \in Blocks /\ b0.v = block
    BY <2>1 DEF IInv, Working, Blocks, Modes
  <2> HIDE DEF b0
  <2>3. Waiting' = Waiting \cup {b0}
    BY <2>1, <2>2, WaitingAppend DEF IInv
  <2>4. ASSUME ~overlap, NEW j \in Joints, stage[j] \in Parking PROVE Rest(j)' /\ Polled(j)'
    <3>1. Rest(j) /\ Polled(j)
      BY <2>1, <2>4 DEF Quiet, Watched, Parks
    <3>2. block[j] \in {NaN, 0}
      BY <2>1, <2>4 DEF Geared, Meant, Blocking, Parking, Driven
    <3>3. Rest(j)'
      BY <2>1, <2>2, <2>3, <3>1, <3>2, RestStays
    <3> QED BY <2>1, <3>1, <3>3, PolledSame
  <2>5. \A j \in Joints : Polled(j) => Polled(j)'
    BY <2>1, PolledSame
  <2>6. Watched'
    BY <2>1, <2>4, <2>5 DEF Quiet, Watched, Parks
  <2>7. SeenStill'
    BY <2>1, <2>5 DEF Quiet, SeenStill
  <2> QED BY <2>6, <2>7 DEF Quiet
<1>5. CASE Check
  <2>1. /\ UNCHANGED <<pv, sv, stopped, phys, wiring, limit, base, changed, overlap, stage, queue>>
        /\ pc \in {"check", "handle"} /\ pc' \in {"sequence", "ready", "sleep"}
        /\ pc' = "sequence" => count = 0
    BY <1>5 DEF Check, motion, motorVars, switchVars, plantVars, machineVars, historyVars
  <2>2. Waiting' = Waiting
    BY <2>1 DEF Waiting
  <2>3. \A j \in Joints : pc' # "ready" /\ Parks(j)' => Parks(j)
    BY <2>1, NoneLeft DEF Parks, Parking
  <2>4. \A j \in Joints : (Polled(j) => Polled(j)') /\ (Rest(j) => Rest(j)')
    BY <2>1, <2>2, PolledSame DEF Rest
  <2>5. Watched'
    BY <2>1, <2>3, <2>4 DEF Quiet, Watched
  <2>6. SeenStill'
    BY <2>1 DEF SeenStill
  <2> QED BY <2>5, <2>6 DEF Quiet
<1>6. CASE Snapshot
  <2>1. /\ UNCHANGED <<pv, sv, stopped, phys, pos, wiring, limit, base, changed, overlap, stage, queue>>
        /\ pc = "sleep" /\ pc' = "handle"
        /\ \A j \in Joints : /\ seen'[j].pos = pos[j] /\ seen'[j].limit = limit[j]
                             /\ seen'[j].changed = changed[j] /\ seen'[j].stopped = stopped[j]
    BY <1>6 DEF Snapshot, motion, motorVars, switchVars, plantVars, machineVars, historyVars
  <2>2. Waiting' = Waiting
    BY <2>1 DEF Waiting
  <2>4. \A j \in Joints : (Polled(j) => Polled(j)') /\ (Rest(j) => Rest(j)')
    BY <2>1, <2>2, PolledSame DEF Rest
  <2>5. Watched'
    BY <2>1, <2>4 DEF Quiet, Watched, Parks
  <2>6. SeenStill'
    BY <2>1, <2>4 DEF Quiet, Watched, SeenStill
  <2> QED BY <2>5, <2>6 DEF Quiet
<1>7. CASE StopCall \/ StopClear
  <2>1. UNCHANGED <<pv, sv, stopped, phys, pos, wiring, limit, base, changed, overlap, stage, todo, seen, pc>>
    BY <1>7 DEF StopCall, StopClear, motion, motorVars, switchVars, plantVars, machineVars,
       historyVars, homingVars
  <2>2. \A b \in Waiting' : b \in Waiting \/ b.mode # "Velocity"
    <3>1. CASE StopCall
      BY <3>1, WaitingAlone DEF StopCall, EmergencyStop
    <3>2. CASE StopClear
      BY <3>2, WaitingAppend, StopBlocks DEF StopClear, IInv
    <3> QED BY <1>7, <3>1, <3>2
  <2>4. \A j \in Joints : (Polled(j) => Polled(j)') /\ (Rest(j) => Rest(j)')
    BY <2>1, <2>2, PolledSame, RestStays
  <2>5. Watched'
    BY <2>1, <2>4 DEF Quiet, Watched, Parks
  <2>6. SeenStill'
    BY <2>1, <2>4 DEF Quiet, SeenStill
  <2> QED BY <2>5, <2>6 DEF Quiet
<1> QED BY <1>1, <1>2, <1>3, <1>4, <1>5, <1>6, <1>7

LEMMA LookQuiet ==
  ASSUME IInv, Alone, Quiet, NEW j \in Joints, Look(j)
  PROVE  Quiet'
<1>1. /\ UNCHANGED <<pv, sv, stopped, phys, wiring, limit, overlap, seen>>
      /\ pc = "handle" /\ todo = j
      /\ \A k \in Joints \ {j} : stage'[k] = stage[k] /\ base'[k] = base[k]
                                   /\ changed'[k] = changed[k] /\ pos'[k] = pos[k]
      /\ \/ base'[j] = base[j] /\ changed'[j] = changed[j]
         \/ base'[j] = limit[j] /\ changed'[j] = {}
      /\ stage'[j] \in Parking => stage[j] \in Parking \/ seen[j].stopped
      /\ pc' = "ready" \/ (pc' \in {"handle", "push"} /\ todo' = After(j))
  BY DEF Look, LookSends
<1>2. \A b \in Waiting' : b \in Waiting \/ b.mode # "Velocity"
  BY StopOrNotWaiting DEF Look, StopModes
<1>3. \A k \in Joints : Rest(k) => Rest(k)'
  BY <1>1, <1>2, RestStays
<1>4. ASSUME NEW k \in Joints, Polled(k) PROVE Polled(k)'
  <2>1. limit[k] = Contacts(k)
    BY <1>4 DEF Polled
  <2>2. CASE base'[k] = base[k] /\ changed'[k] = changed[k]
    BY <1>1, <1>4, <2>2, PolledSame
  <2>3. CASE base'[k] = limit[k] /\ changed'[k] = {}
    BY <1>1, <2>1, <2>3, PolledAnew
  <2> QED BY <1>1, <2>2, <2>3
<1>5. Watched'
  <2> SUFFICES ASSUME ~overlap, pc' # "ready", NEW k \in Joints
               PROVE  /\ stopped[k] => Polled(k)'
                      /\ stage'[k] \in Parking => Rest(k)' /\ Polled(k)'
    BY <1>1 DEF Watched, Parks
  <2>1. stopped[k] => Polled(k)'
    BY <1>1, <1>4 DEF Quiet, Watched
  <2>2. stage[k] \in Parking => Rest(k)' /\ Polled(k)'
    BY <1>1, <1>3, <1>4 DEF Quiet, Watched, Parks
  <2>3. CASE k = j /\ seen[j].stopped
    <3>1. j >= todo
      BY <1>1, JointsFacts
    <3>2. Rest(j) /\ Polled(j)
      BY <1>1, <2>3, <3>1, SeenRests
    <3> QED BY <1>3, <1>4, <2>1, <2>3, <3>2
  <2> QED BY <1>1, <2>1, <2>2, <2>3
<1>6. SeenStill'
  <2> SUFFICES ASSUME ~overlap, pc' \in {"handle", "push"}, NEW k \in Joints, k >= todo'
               PROVE  /\ seen[k].stopped =>
                           /\ Polled(k)' /\ seen[k].limit = limit[k] /\ seen[k].pos = pos'[k]
                           /\ seen[k].changed = {} => changed'[k] = {}
                      /\ stage'[k] = "AT_LIMIT" => seen[k].pos = pos'[k]
    BY <1>1 DEF SeenStill
  <2>1. k > j /\ k >= todo /\ k # j
    <3>1. todo' = After(j) /\ After(j) \in j + 1 .. NumJoints + 1 /\ j \in Nat /\ k \in Nat
      BY <1>1, AfterExists, JointsFacts
    <3> QED BY <1>1, <3>1
  <2> QED BY <1>1, <1>4, <2>1 DEF Quiet, SeenStill
<1> QED BY <1>5, <1>6 DEF Quiet

\* The invariant so far: homing's blocks and what it knows of joints at rest.
Base == IInv /\ Alone /\ Geared /\ Ordered /\ Quiet

LEMMA InitBase == Init => Base
  BY InitInv, InitAlone, InitGeared, InitOrdered, InitQuiet DEF Base

LEMMA NextBase == Base /\ [Next]_vars => Base'
<1> SUFFICES ASSUME Base, [Next]_vars PROVE Base'
  OBVIOUS
<1>1. IInv' /\ Alone' /\ Geared'
  BY NextInv, NextAlone, NextGeared DEF Base
<1>2. CASE EndstopPoll \/ StepperStep
  BY <1>1, <1>2, PlantOrdered, PlantQuiet DEF Base
<1>3. CASE \/ HomingBegin \/ MoveBegin \/ SequenceBegin \/ HomingDone \/ Push \/ Check \/ Snapshot
           \/ StopCall \/ StopClear
  BY <1>1, <1>3, ThreadOrdered, ThreadQuiet DEF Base
<1>4. ASSUME NEW j \in Joints, Handle(j) PROVE Base'
  <2>1. Look(j)
    BY <1>4, HandleLooks DEF Base
  <2> QED BY <1>1, <2>1, LookOrdered, LookQuiet DEF Base
<1>5. CASE UNCHANGED vars
  <2>1. /\ UNCHANGED <<pv, sv, stopped, phys, pos, wiring, limit, base, changed, overlap, stage, todo, seen, pc>>
        /\ UNCHANGED <<queue, active>>
    BY <1>5 DEF vars, motorVars, switchVars, plantVars, machineVars, historyVars, homingVars
  <2>2. Waiting' = Waiting
    BY <2>1 DEF Waiting
  <2>3. Ordered'
    BY <2>1, <2>2 DEF Base, Ordered, Unmixed, OfThisPass
  <2>4. \A j \in Joints : (Polled(j) => Polled(j)') /\ (Rest(j) => Rest(j)')
    BY <2>1, <2>2, PolledSame DEF Rest
  <2>5. Quiet'
    BY <2>1, <2>4 DEF Base, Quiet, Watched, Parks, SeenStill
  <2> QED BY <1>1, <2>3, <2>5 DEF Base
<1> QED BY <1>2, <1>3, <1>4, <1>5 DEF Next, HomingStep

-----------------------------------------------------------------------------
(* The blocks that drive a joint.  One at a time is on its way to a joint, which *)
(* rests until it comes, its limits set anew; and a joint is not driven towards  *)
(* a switch that was closed when they were.                                      *)

AsksBlock(j) == Blocking /\ block[j] \notin {NaN, 0}
Once ==
  \A j \in Joints :
    /\ \A i, k \in 1 .. Len(queue) : Asks(i, j) /\ Asks(k, j) => i = k
    /\ AsksBlock(j) => \A i \in 1 .. Len(queue) : ~Asks(i, j)
Prepared(j) ==
  /\ pv[j] = 0 /\ sv[j] = 0
  /\ limit[j] = Contacts(j) /\ base[j] = limit[j] /\ changed[j] = {}
Setup == \A j \in Joints : Sent(j) => Prepared(j)
Speeds(j) == Coming(j) \cup {sv[j]}
InwardClear ==
  \A j \in Joints : (\E x \in Speeds(j) : x # NaN /\ Into(j, x) > 0) => Side(j) \notin base[j]
Poised == ~overlap => Once /\ Setup /\ InwardClear

LEMMA NaNFacts ==
  NaN # 0 /\ NaN \notin Int /\ \A j \in Joints : Into(j, 0) = 0
<1>1. NaN \notin Int /\ 0 \in Int
  BY InputsAssumption
<1>2. ASSUME NEW j \in Joints PROVE Into(j, 0) = 0
  <2>1. SearchVel[j] \in Int
    BY SpeedFacts
  <2>2. \A x \in Int : x <= 0 /\ x >= 0 => Into(j, x) \in Int /\ Into(j, x) <= 0 /\ Into(j, x) >= 0
    BY <2>1 DEF Into
  <2>3. Into(j, 0) \in Int /\ Into(j, 0) <= 0 /\ Into(j, 0) >= 0
    BY <2>2
  <2> QED BY <2>3
<1> QED BY <1>1, <1>2

LEMMA SentMeans ==
  ASSUME NEW j \in Joints
  PROVE  Sent(j) <=> AsksBlock(j) \/ \E i \in 1 .. Len(queue) : Asks(i, j)
  BY DEF Sent, Coming, AsksBlock, Asks, Waiting

LEMMA RestUnsent ==
  ASSUME NEW j \in Joints, Rest(j), ~Blocking
  PROVE  ~Sent(j)
  BY DEF Sent, Rest, Coming

\* What takes nothing on and changes nothing of the joints' state.
LEMMA FewerPoised ==
  ASSUME NEW j \in Joints, Sent(j) => Prepared(j),
         (\E x \in Speeds(j) : x # NaN /\ Into(j, x) > 0) => Side(j) \notin base[j],
         Coming(j)' \subseteq Coming(j), wiring' = wiring,
         pv'[j] = pv[j], sv'[j] = sv[j], phys'[j] = phys[j],
         limit'[j] = limit[j], base'[j] = base[j], changed'[j] = changed[j]
  PROVE  /\ Sent(j)' => Prepared(j)'
         /\ (\E x \in Speeds(j)' : x # NaN /\ Into(j, x) > 0) => Side(j) \notin base'[j]
<1>1. Sent(j)' => Sent(j)
  BY DEF Sent
<1>2. Contacts(j)' = Contacts(j)
  BY ContactsSame
<1>3. Prepared(j) => Prepared(j)'
  BY <1>2 DEF Prepared
<1>4. Speeds(j)' \subseteq Speeds(j)
  BY DEF Speeds
<1> QED BY <1>1, <1>3, <1>4

LEMMA OnceSame ==
  ASSUME Once, UNCHANGED <<queue, block>>, Blocking' => Blocking
  PROVE  Once'
  BY DEF Once, Asks, AsksBlock

LEMMA OnceTail ==
  ASSUME Once, Queued, queue # <<>>, queue' = Tail(queue), UNCHANGED <<pc, block>>
  PROVE  /\ Once' /\ Head(queue) = queue[1] /\ 1 \in 1 .. Len(queue)
         /\ \A j \in Joints : Asks(1, j) => ~Sent(j)'
<1>1. /\ 1 \in 1 .. Len(queue) /\ Head(queue) = queue[1]
      /\ \A i \in 1 .. Len(queue') : i + 1 \in 2 .. Len(queue) /\ queue'[i] = queue[i + 1]
  BY TailFirst
<1>2. \A i \in 1 .. Len(queue') : i + 1 \in 1 .. Len(queue) /\ i + 1 # 1
  BY <1>1
<1>3. \A j \in Joints : \A i \in 1 .. Len(queue') : Asks(i, j)' <=> Asks(i + 1, j)
  BY <1>1 DEF Asks
<1>4. ASSUME NEW j \in Joints, NEW i \in 1 .. Len(queue'), NEW k \in 1 .. Len(queue'),
             Asks(i, j)', Asks(k, j)'
      PROVE  i = k
  <2>1. i + 1 = k + 1
    BY <1>2, <1>3, <1>4 DEF Once
  <2> QED BY <2>1
<1>5. Once'
  BY <1>2, <1>3, <1>4 DEF Once, AsksBlock, Blocking
<1>6. ASSUME NEW j \in Joints, Asks(1, j) PROVE ~Sent(j)'
  <2>1. ~AsksBlock(j)'
    BY <1>1, <1>6 DEF Once, AsksBlock, Blocking
  <2>2. \A i \in 1 .. Len(queue') : ~Asks(i, j)'
    BY <1>1, <1>2, <1>3, <1>6 DEF Once
  <2>3. Sent(j)' => AsksBlock(j)' \/ \E i \in 1 .. Len(queue') : Asks(i, j)'
    BY DEF Sent, Coming, AsksBlock, Asks, Waiting
  <2> QED BY <2>1, <2>2, <2>3
<1> QED BY <1>1, <1>5, <1>6

LEMMA OnceAppend ==
  ASSUME Queued, NEW b, b \in Blocks, queue' = Append(queue, b), Once,
         b.mode # "Velocity" \/ (Blocking /\ b.v = block /\ ~Blocking'),
         Blocking' => Blocking /\ block' = block
  PROVE  Once'
<1>1. /\ Len(queue) \in Nat /\ Len(queue') = Len(queue) + 1 /\ queue'[Len(queue) + 1] = b
      /\ \A i \in 1 .. Len(queue) : queue'[i] = queue[i]
  BY AppendLast
<1>2. PICK n \in Nat : n = Len(queue) + 1
  BY <1>1
<1>3. \A j \in Joints : \A i \in 1 .. Len(queue) : Asks(i, j)' <=> Asks(i, j)
  BY <1>1 DEF Asks
<1>4. /\ \A j \in Joints : Asks(n, j)' <=> b.mode = "Velocity" /\ b.v[j] \notin {NaN, 0}
      /\ \A i \in 1 .. Len(queue') : i \in 1 .. Len(queue) \/ i = n
  BY <1>1, <1>2 DEF Asks
<1>5. CASE b.mode # "Velocity"
  BY <1>3, <1>4, <1>5 DEF Once, AsksBlock
<1>6. CASE Blocking /\ b.v = block /\ ~Blocking'
  BY <1>3, <1>4, <1>6 DEF Once, AsksBlock
<1> QED BY <1>5, <1>6

LEMMA OnceAlone ==
  ASSUME NEW b, queue' = <<b>>, b.mode # "Velocity", UNCHANGED <<pc, block>> \/ ~Blocking'
  PROVE  Once'
<1>1. Len(queue') = 1 /\ queue'[1] = b
  OBVIOUS
<1>2. \A i \in 1 .. Len(queue') : i = 1
  BY <1>1
<1> QED BY <1>1, <1>2 DEF Once, Asks, AsksBlock

LEMMA InitPoised == Init => Poised
<1> SUFFICES ASSUME Init PROVE Poised
  OBVIOUS
<1>1. queue = <<>> /\ Waiting = {} /\ ~Blocking /\ \A j \in Joints : sv[j] = 0
  BY WaitingNone DEF Init, Blocking, None
<1>2. \A j \in Joints : Coming(j) = {} /\ Speeds(j) = {0}
  BY <1>1 DEF Coming, Speeds
<1>3. Once
  BY <1>1, EmptySeq DEF Once, AsksBlock
<1>4. Setup /\ InwardClear
  BY <1>2, NaNFacts DEF Setup, InwardClear, Sent
<1> QED BY <1>3, <1>4 DEF Poised

LEMMA PlantPoised ==
  ASSUME Base, Poised, EndstopPoll \/ StepperStep
  PROVE  Poised'
<1>0. UNCHANGED <<pc, block, overlap, wiring>> /\ IInv /\ Alone /\ Queued
  BY DEF EndstopPoll, StepperStep, FetchVelocity, FetchOther, TickVelocity, TickPositional,
         TickIdle, homingVars, historyVars, machineVars, Base, IInv
<1> SUFFICES ASSUME ~overlap PROVE Once' /\ Setup' /\ InwardClear'
  BY <1>0 DEF Poised
<1>a. Once /\ Setup /\ InwardClear
  BY DEF Poised
<1>1. CASE EndstopPoll
  <2>1. UNCHANGED <<queue, pv, sv, phys, base>>
    BY <1>1 DEF EndstopPoll, motorVars, plantVars
  <2>2. \A j \in Joints : Coming(j)' = Coming(j) /\ Speeds(j)' = Speeds(j)
    BY <1>0, <2>1, ComingSame DEF Speeds
  <2>3. Once'
    BY <1>0, <1>a, <2>1, OnceSame DEF Blocking
  <2>4. ASSUME NEW j \in Joints, Prepared(j) PROVE Prepared(j)'
    <3>1. Polled(j) /\ limit[j] = Contacts(j) /\ base[j] = limit[j] /\ changed[j] = {}
      BY <2>4 DEF Prepared, Polled, ChangedAfter, Delta
    <3>2. Contacts(j)' = Contacts(j) /\ limit'[j] = limit[j] /\ changed'[j] = changed[j]
      BY <1>0, <1>1, <3>1, PollFacts
    <3> QED BY <2>1, <2>4, <3>1, <3>2 DEF Prepared
  <2>5. Setup'
    BY <1>a, <2>2, <2>4 DEF Setup, Sent
  <2>6. InwardClear'
    BY <1>a, <2>1, <2>2 DEF InwardClear
  <2> QED BY <2>3, <2>5, <2>6
<1>2. CASE FetchVelocity \/ FetchOther
  <2>1. /\ queue # <<>> /\ queue' = Tail(queue) /\ Head(queue) \in Waiting /\ Waiting' \subseteq Waiting
        /\ UNCHANGED <<limit, base, changed, phys>>
    BY <1>0, <1>2, WaitingTail DEF FetchVelocity, FetchOther, MayFetch, switchVars, plantVars
  <2>2. /\ Once' /\ Head(queue) = queue[1] /\ 1 \in 1 .. Len(queue)
        /\ \A j \in Joints : Asks(1, j) => ~Sent(j)'
    BY <1>0, <1>a, <2>1, OnceTail
  <2>3. \A j \in Joints : Coming(j)' \subseteq Coming(j)
    BY <1>0, <2>1 DEF Coming, Blocking
  <2>4. \A j \in Joints : \/ sv'[j] = 0 /\ pv'[j] = 0
                          \/ /\ Head(queue).mode = "Velocity"
                             /\ sv'[j] \in {Head(queue).v[j], sv[j], 0}
                             /\ pv'[j] \in {pv[j], 0}
                             /\ sv'[j] = Head(queue).v[j] \/ Head(queue).v[j] = NaN
                             /\ sv'[j] # NaN
    <3>1. CASE FetchOther
      BY <3>1 DEF FetchOther, None
    <3>2. CASE FetchVelocity
      <4>1. sv \in [Joints -> Int] /\ NaN \notin Int
        BY <1>0, NaNFacts DEF IInv, Motors
      <4> QED BY <3>2, <4>1 DEF FetchVelocity, SetSpeed, None
    <3> QED BY <1>2, <3>1, <3>2
  <2>5. ASSUME NEW j \in Joints, Sent(j)' PROVE Prepared(j)'
    <3>1. Prepared(j)
      BY <1>a, <2>3, <2>5 DEF Setup, Sent
    <3>2. Contacts(j)' = Contacts(j)
      BY <1>0, <2>1, ContactsSame
    <3>3. Head(queue).mode = "Velocity" => Head(queue).v[j] \in {NaN, 0}
      BY <2>2, <2>5 DEF Asks
    <3>4. pv'[j] = 0 /\ sv'[j] = 0
      BY <2>4, <3>1, <3>3 DEF Prepared
    <3> QED BY <2>1, <3>1, <3>2, <3>4 DEF Prepared
  <2>6. ASSUME NEW j \in Joints, NEW x \in Speeds(j)', x # NaN, Into(j, x) > 0
        PROVE  Side(j) \notin base'[j]
    <3>1. x \in Coming(j) \/ x = sv'[j]
      BY <2>3, <2>6 DEF Speeds
    <3>2. x # 0
      BY <2>6, NaNFacts
    <3>3. Head(queue).mode = "Velocity" => Head(queue).v[j] \in Coming(j)
      BY <2>1 DEF Coming
    <3>4. x \in Speeds(j)
      BY <2>4, <3>1, <3>2, <3>3 DEF Speeds
    <3> QED BY <1>a, <2>1, <2>6, <3>4 DEF InwardClear
  <2> QED BY <2>2, <2>5, <2>6 DEF Setup, InwardClear
<1>3. CASE TickVelocity
  <2>1. /\ queue' = queue
        /\ \A j \in Joints :
             /\ Polled(j)
             /\ pv'[j] = Toward(pv[j], Goal(j)) /\ sv'[j] = Goal(j)
             /\ phys'[j] = phys[j] + pv'[j]
             /\ base'[j] = IF HitNow(j) THEN limit[j] ELSE base[j]
             /\ changed'[j] = IF HitNow(j) THEN {} ELSE changed[j]
             /\ limit'[j] = limit[j]
    BY <1>0, <1>3, TickFacts
  <2>2. \A j \in Joints : Coming(j)' = Coming(j)
    BY <1>0, <2>1, ComingSame
  <2>3. Once'
    BY <1>0, <1>a, <2>1, OnceSame DEF Blocking
  <2>4. ASSUME NEW j \in Joints, Sent(j) PROVE Prepared(j)' /\ base'[j] = base[j]
    <3>1. Prepared(j)
      BY <1>a, <2>4 DEF Setup
    <3>2. ~HitNow(j) /\ Goal(j) = 0
      BY <3>1 DEF Prepared, HitNow, Goal
    <3>3. pv'[j] = 0 /\ sv'[j] = 0 /\ base'[j] = base[j] /\ changed'[j] = {}
      BY <2>1, <3>1, <3>2 DEF Toward, Prepared
    <3>4. phys'[j] = phys[j]
      BY <1>0, <1>3, <3>3, TickPolled
    <3>5. Contacts(j)' = Contacts(j)
      BY <1>0, <3>4, ContactsSame
    <3> QED BY <2>1, <3>1, <3>3, <3>5 DEF Prepared
  <2>5. Setup'
    BY <2>2, <2>4 DEF Setup, Sent
  <2>6. ASSUME NEW j \in Joints, NEW x \in Speeds(j)', x # NaN, Into(j, x) > 0
        PROVE  Side(j) \notin base'[j]
    <3>1. x # 0
      BY <2>6, NaNFacts
    <3>2. CASE x \in Coming(j)
      <4>1. Sent(j)
        BY <2>6, <3>1, <3>2 DEF Sent
      <4> QED BY <1>a, <2>4, <2>6, <3>2, <4>1 DEF InwardClear, Speeds
    <3>3. CASE x = sv'[j]
      <4>1. ~HitNow(j) /\ x = sv[j]
        BY <2>1, <3>1, <3>3 DEF Goal
      <4>2. base'[j] = base[j]
        BY <2>1, <4>1
      <4> QED BY <1>a, <2>6, <4>1, <4>2 DEF InwardClear, Speeds
    <3> QED BY <2>2, <2>6, <3>2, <3>3 DEF Speeds
  <2> QED BY <2>3, <2>5, <2>6 DEF InwardClear
<1>4. CASE TickPositional
  <2>1. UNCHANGED <<queue, pv, sv, limit, base, changed>> /\ active = "Positional"
    BY <1>4 DEF TickPositional, switchVars
  <2>2. \A j \in Joints : Coming(j)' = Coming(j) /\ Speeds(j)' = Speeds(j)
    BY <1>0, <2>1, ComingSame DEF Speeds
  <2>3. Once'
    BY <1>0, <1>a, <2>1, OnceSame DEF Blocking
  <2>4. ASSUME NEW j \in Joints PROVE ~Sent(j)
    <3>1. ~Blocking
      BY <1>0, <2>1 DEF Alone, NoMove, Blocking
    <3>2. \A b \in Waiting : b.mode # "Velocity"
      BY <2>1 DEF Base, Ordered, Unmixed
    <3> QED BY <3>1, <3>2 DEF Sent, Coming
  <2>5. Setup'
    BY <2>2, <2>4 DEF Setup, Sent
  <2>6. InwardClear'
    BY <1>a, <2>1, <2>2 DEF InwardClear
  <2> QED BY <2>3, <2>5, <2>6
<1>5. CASE TickIdle
  <2>1. UNCHANGED <<queue, pv, sv, limit, base, changed, phys>>
    BY <1>5 DEF TickIdle, switchVars, motorVars, plantVars
  <2>2. \A j \in Joints : Coming(j)' \subseteq Coming(j)
    BY <1>0, <2>1, ComingSame
  <2>3. Once'
    BY <1>0, <1>a, <2>1, OnceSame DEF Blocking
  <2>4. ASSUME NEW j \in Joints
        PROVE  /\ Sent(j)' => Prepared(j)'
               /\ (\E x \in Speeds(j)' : x # NaN /\ Into(j, x) > 0) => Side(j) \notin base'[j]
    <3>1. /\ Sent(j) => Prepared(j)
          /\ (\E x \in Speeds(j) : x # NaN /\ Into(j, x) > 0) => Side(j) \notin base[j]
      BY <1>a DEF Setup, InwardClear
    <3> QED BY <1>0, <2>1, <2>2, <3>1, FewerPoised
  <2> QED BY <2>3, <2>4 DEF Setup, InwardClear
<1> QED BY <1>1, <1>2, <1>3, <1>4, <1>5 DEF StepperStep

\* What a look at a joint does about its velocity and its limits: they are set anew
\* only on the way to a block that drives it, one that goes towards the switch only
\* when the joint was seen at rest with the switch open.
SeenOpen(j) == seen[j].stopped /\ seen[j].limit = {}
ResetNow(j) == base'[j] = limit[j] /\ changed'[j] = {}
Aims(j) ==
  \/ /\ stage[j] = "AT_LIMIT" /\ ResetNow(j) /\ Into(j, block'[j]) < 0
     /\ \/ stage'[j] = "BACKOFF" /\ LatchesInward(j) /\ Into(j, block'[j]) = -Fast(j)
        \/ stage'[j] = "RELEASE" /\ ~LatchesInward(j) /\ Into(j, block'[j]) = -Slow(j)
     /\ lastPos'[j] = seen[j].pos
  \/ /\ stage[j] = "SEARCH" /\ stage' = stage /\ SeenOpen(j) /\ seen[j].changed = {}
     /\ base' = base /\ changed' = changed /\ lastPos' = lastPos
     /\ Into(j, block'[j]) = Fast(j)
  \/ /\ stage[j] = "BACKOFF" /\ stage'[j] = "LATCH" /\ SeenOpen(j) /\ ResetNow(j)
     /\ block'[j] = LatchVel[j] /\ lastPos' = lastPos
Sends(j) ==
  /\ stage \in [Joints -> Stages]
  /\ IF pc' = "push"
     THEN block'[j] \in Int /\ (\A k \in Joints \ {j} : block'[k] = NaN) /\ Aims(j)
     ELSE base' = base /\ changed' = changed /\ lastPos' = lastPos

LEMMA HandleSends ==
  ASSUME IInv, NEW j \in Joints, Handle(j)
  PROVE  Sends(j)
<1>1. /\ stage \in [Joints -> Stages] /\ base \in [Joints -> Limits] /\ changed \in [Joints -> Limits]
      /\ lastPos \in [Joints -> Int]
  BY DEF IInv, Working, Machine
<1>2. /\ SearchVel[j] \in Int /\ LatchVel[j] \in Int /\ -SearchVel[j] \in Int
      /\ Fast(j) \in Nat /\ Slow(j) \in Nat /\ 1 <= Slow(j) /\ Slow(j) <= Fast(j)
      /\ Into(j, SearchVel[j]) = Fast(j) /\ Into(j, -SearchVel[j]) = -Fast(j)
      /\ ~LatchesInward(j) => Into(j, LatchVel[j]) = -Slow(j)
  BY SpeedFacts
<1>3. /\ \A v : [None(NaN) EXCEPT ![j] = v][j] = v
      /\ \A v : \A k \in Joints \ {j} : [None(NaN) EXCEPT ![j] = v][k] = NaN
  BY DEF None
<1>4. CASE HandleSearch(j)
  <2>1. /\ pc = "handle" /\ stage[j] = "SEARCH"
        /\ \/ pc' # "push" /\ base' = base /\ changed' = changed /\ lastPos' = lastPos
           \/ /\ pc' = "push" /\ block' = [None(NaN) EXCEPT ![j] = SearchVel[j]]
              /\ seen[j].stopped /\ seen[j].limit = {} /\ seen[j].changed = {}
              /\ UNCHANGED <<stage, lastPos, base, changed>>
    BY <1>4 DEF HandleSearch, At, Skip, Send, Enter
  <2> QED BY <1>1, <1>2, <1>3, <2>1 DEF Sends, Aims, SeenOpen
<1>5. CASE HandleAtLimit(j)
  <2>1. /\ stage[j] = "AT_LIMIT" /\ pc' = "push"
        /\ stage'[j] = IF LatchesInward(j) THEN "BACKOFF" ELSE "RELEASE"
        /\ block' = [None(NaN) EXCEPT ![j] = IF LatchesInward(j) THEN -SearchVel[j] ELSE LatchVel[j]]
        /\ ResetNow(j) /\ lastPos'[j] = seen[j].pos
    BY <1>1, <1>5 DEF HandleAtLimit, At, Send, ResetLimit, ResetNow
  <2>2. block'[j] = (IF LatchesInward(j) THEN -SearchVel[j] ELSE LatchVel[j])
        /\ \A k \in Joints \ {j} : block'[k] = NaN
    BY <1>3, <2>1
  <2>3. /\ Into(j, block'[j]) < 0 /\ block'[j] \in Int
        /\ LatchesInward(j) => Into(j, block'[j]) = -Fast(j)
        /\ ~LatchesInward(j) => Into(j, block'[j]) = -Slow(j)
    <3> HIDE DEF Into, Fast, Slow, LatchesInward
    <3>1. CASE LatchesInward(j)
      BY <1>2, <2>2, <3>1
    <3>2. CASE ~LatchesInward(j)
      BY <1>2, <2>2, <3>2
    <3> QED BY <3>1, <3>2
  <2> QED BY <1>1, <2>1, <2>2, <2>3 DEF Sends, Aims
<1>6. CASE HandleBackoff(j)
  <2>1. /\ pc = "handle" /\ stage[j] = "BACKOFF"
        /\ \/ pc' # "push" /\ base' = base /\ changed' = changed /\ lastPos' = lastPos
           \/ /\ pc' = "push" /\ block' = [None(NaN) EXCEPT ![j] = LatchVel[j]]
              /\ seen[j].stopped /\ seen[j].limit = {}
              /\ stage' = [stage EXCEPT ![j] = "LATCH"] /\ ResetLimit(j) /\ lastPos' = lastPos
    BY <1>6 DEF HandleBackoff, At, Skip, Send
  <2>2. CASE pc' # "push"
    BY <1>1, <2>1, <2>2 DEF Sends
  <2>3. CASE pc' = "push"
    <3>1. /\ ResetNow(j) /\ SeenOpen(j) /\ stage'[j] = "LATCH" /\ lastPos' = lastPos
      BY <1>1, <2>1, <2>3 DEF ResetLimit, ResetNow, SeenOpen
    <3>2. block'[j] = LatchVel[j] /\ \A k \in Joints \ {j} : block'[k] = NaN
      BY <2>1, <2>3 DEF None
    <3> QED BY <1>1, <1>2, <2>1, <2>3, <3>1, <3>2 DEF Sends, Aims
  <2> QED BY <2>2, <2>3
<1>7. CASE HandleRelease(j) \/ HandleLatch(j) \/ HandlePreFinal(j)
  BY <1>1, <1>7 DEF HandleRelease, HandleLatch, HandlePreFinal, At, Skip, SetHome, Enter, Sends
<1> QED BY <1>4, <1>5, <1>6, <1>7 DEF Handle

\* A joint a block is about to be sent to rests.
LEMMA AimRests ==
  ASSUME Base, ~overlap, NEW j \in Joints, pc = "handle", todo = j, Aims(j)
  PROVE  Rest(j) /\ Polled(j) /\ (stage[j] # "AT_LIMIT" => limit[j] = {} /\ Contacts(j) = {})
<1>1. j >= todo
  BY JointsFacts
<1>2. CASE stage[j] = "AT_LIMIT"
  BY <1>2 DEF Base, Quiet, Watched, Parks, Parking
<1>3. CASE stage[j] # "AT_LIMIT"
  <2>1. seen[j].stopped /\ seen[j].limit = {}
    BY <1>3 DEF Aims, SeenOpen
  <2> QED BY <1>1, <2>1, SeenRests DEF Base, Polled
<1> QED BY <1>2, <1>3

LEMMA LookPoised ==
  ASSUME Base, Poised, NEW j \in Joints, Look(j), Sends(j)
  PROVE  Poised'
<1>0. /\ UNCHANGED <<pv, sv, phys, wiring, limit, overlap>> /\ IInv
      /\ pc = "handle" /\ todo = j /\ (EmergencyStop \/ NoStop)
      /\ \A k \in Joints \ {j} : base'[k] = base[k] /\ changed'[k] = changed[k]
  BY DEF Look, Base
<1> SUFFICES ASSUME ~overlap PROVE Once' /\ Setup' /\ InwardClear'
  BY <1>0 DEF Poised
<1>a. Once /\ Setup /\ InwardClear
  BY DEF Poised
<1>1. \A b \in Waiting' : b \in Waiting \/ b.mode # "Velocity"
  BY <1>0, StopOrNotWaiting DEF StopModes
<1>2. ASSUME NEW k \in Joints, Coming(k)' \subseteq Coming(k),
             base'[k] = base[k], changed'[k] = changed[k]
      PROVE  /\ Sent(k)' => Prepared(k)'
             /\ (\E x \in Speeds(k)' : x # NaN /\ Into(k, x) > 0) => Side(k) \notin base'[k]
  <2>1. /\ Sent(k) => Prepared(k)
        /\ (\E x \in Speeds(k) : x # NaN /\ Into(k, x) > 0) => Side(k) \notin base[k]
    BY <1>a DEF Setup, InwardClear
  <2> QED BY <1>0, <1>2, <2>1, FewerPoised
<1>3. CASE pc' # "push"
  <2>1. ~Blocking' /\ base' = base /\ changed' = changed
    BY <1>3 DEF Look, Sends, Blocking, LookSends
  <2>2. \A k \in Joints : Coming(k)' \subseteq Coming(k)
    BY <1>1, <2>1, ComingFewer
  <2>3. Once'
    <3>1. CASE EmergencyStop
      BY <2>1, <3>1, OnceAlone DEF EmergencyStop
    <3>2. CASE NoStop
      BY <1>a, <2>1, <3>2 DEF NoStop, Once, AsksBlock, Asks
    <3> QED BY <1>0, <3>1, <3>2
  <2> QED BY <1>2, <2>1, <2>2, <2>3 DEF Setup, InwardClear
<1>4. CASE pc' = "push"
  <2>1. block'[j] \in Int /\ (\A k \in Joints \ {j} : block'[k] = NaN) /\ Aims(j)
    BY <1>4 DEF Sends
  <2>2. Rest(j) /\ Polled(j) /\ (stage[j] # "AT_LIMIT" => limit[j] = {})
    BY <1>0, <2>1, AimRests
  <2>3. Once'
    <3>1. \A i \in 1 .. Len(queue) : ~Asks(i, j)
      BY <2>2 DEF Rest, Asks, Waiting
    <3>2. CASE EmergencyStop
      <4>1. queue' = <<[mode |-> "Estop", v |-> None(NaN)]>>
        BY <3>2 DEF EmergencyStop
      <4>2. Len(queue') = 1 /\ queue'[1].mode = "Estop"
        BY <4>1
      <4>3. \A k \in Joints : \A i \in 1 .. Len(queue') : ~Asks(i, k)'
        BY <4>2 DEF Asks
      <4> QED BY <4>3 DEF Once
    <3>3. CASE NoStop
      BY <1>a, <2>1, <3>1, <3>3 DEF NoStop, Once, AsksBlock, Asks
    <3> QED BY <1>0, <3>2, <3>3
  <2>4. ASSUME NEW k \in Joints
        PROVE  /\ Sent(k)' => Prepared(k)'
               /\ (\E x \in Speeds(k)' : x # NaN /\ Into(k, x) > 0) => Side(k) \notin base'[k]
    <3>1. Coming(k)' \subseteq Coming(k) \cup {block'[k]}
      BY <1>1, ComingWith
    <3>2. CASE k # j
      <4>1. Sent(k)' => Sent(k)
        BY <2>1, <3>1, <3>2 DEF Sent
      <4>2. Prepared(k) => Prepared(k)'
        <5>1. Contacts(k)' = Contacts(k)
          BY <1>0, ContactsSame
        <5> QED BY <1>0, <3>2, <5>1 DEF Prepared
      <4>3. \A x \in Speeds(k)' : x = NaN \/ x \in Speeds(k)
        BY <1>0, <2>1, <3>1, <3>2 DEF Speeds
      <4> QED BY <1>0, <1>a, <3>2, <4>1, <4>2, <4>3 DEF Setup, InwardClear
    <3>3. CASE k = j
      <4>1. pv[j] = 0 /\ sv[j] = 0 /\ limit[j] = Contacts(j) /\ Contacts(j)' = Contacts(j)
        BY <1>0, <2>2, ContactsSame DEF Rest, Polled
      <4>2. base'[j] = limit[j] /\ changed'[j] = {}
        <5>1. CASE ResetNow(j)
          BY <5>1 DEF ResetNow
        <5>2. CASE ~ResetNow(j)
          <6>1. /\ seen[j].stopped /\ seen[j].limit = {} /\ seen[j].changed = {}
                /\ base' = base /\ changed' = changed /\ j >= todo
            BY <1>0, <2>1, <5>2, JointsFacts DEF Aims, SeenOpen
          <6>2. changed[j] = {} /\ limit[j] = {} /\ Polled(j)
            BY <1>0, <6>1, SeenRests DEF Base
          <6>3. base[j] = limit[j]
            BY <6>2 DEF Polled, ChangedAfter, Delta
          <6> QED BY <6>1, <6>2, <6>3
        <5> QED BY <5>1, <5>2
      <4>3. Prepared(j)'
        BY <1>0, <4>1, <4>2 DEF Prepared
      <4>4. ASSUME NEW x \in Speeds(j)', x # NaN, Into(j, x) > 0 PROVE Side(j) \notin base'[j]
        <5>1. x \in {0, block'[j]}
          <6>1. \A y \in Coming(j) : y \in {NaN, 0}
            BY <1>0, <2>2 DEF Rest, Coming, Blocking
          <6> QED BY <1>0, <3>1, <3>3, <4>1, <4>4, <6>1 DEF Speeds
        <5>2. x = block'[j]
          BY <4>4, <5>1, NaNFacts
        <5>3. stage[j] # "AT_LIMIT"
          <6> SUFFICES ASSUME stage[j] = "AT_LIMIT" PROVE FALSE
            OBVIOUS
          <6>1. Into(j, block'[j]) < 0
            BY <2>1 DEF Aims
          <6>2. Into(j, block'[j]) \in Int
            BY <2>1, SpeedFacts DEF Into
          <6> QED BY <4>4, <5>2, <6>1, <6>2
        <5> QED BY <2>2, <4>2, <5>3
      <4> QED BY <3>3, <4>3, <4>4
    <3> QED BY <3>2, <3>3
  <2> QED BY <2>3, <2>4 DEF Setup, InwardClear
<1> QED BY <1>3, <1>4

LEMMA ThreadPoised ==
  ASSUME Base, Poised,
         \/ HomingBegin \/ MoveBegin \/ SequenceBegin \/ HomingDone \/ Push \/ Check \/ Snapshot
         \/ StopCall \/ StopClear
  PROVE  Poised'
<1>0. IInv /\ Queued
  BY DEF Base, IInv
<1>1. CASE HomingBegin
  <2>1. /\ pc' = "sequence" /\ queue' = <<>> /\ UNCHANGED <<pv, sv, base>>
        /\ ~overlap' => active = "Idle"
    BY <1>1 DEF HomingBegin, motion, motorVars, switchVars
  <2>2. Waiting' = {} /\ ~Blocking'
    BY <2>1, WaitingNone DEF Waiting, Blocking
  <2> SUFFICES ASSUME ~overlap' PROVE Once' /\ Setup' /\ InwardClear'
    BY DEF Poised
  <2>3. \A j \in Joints : Coming(j)' = {} /\ Speeds(j)' = {0}
    BY <2>1, <2>2 DEF Coming, Speeds, Base, Alone, Calm
  <2>4. Once'
    BY <2>1, <2>2, EmptySeq DEF Once, AsksBlock
  <2> QED BY <2>3, <2>4, NaNFacts DEF Setup, InwardClear, Sent
<1>2. CASE MoveBegin \/ HomingDone \/ Check \/ Snapshot \/ StopCall \/ StopClear
  <2>1. /\ UNCHANGED <<pv, sv, phys, wiring, limit, base, changed, overlap>>
        /\ ~Blocking' \/ UNCHANGED <<pc, block>>
    BY <1>2 DEF MoveBegin, HomingDone, Check, Snapshot, StopCall, StopClear, motion, motorVars,
       plantVars, machineVars, switchVars, historyVars, homingVars, Blocking
  <2> SUFFICES ASSUME ~overlap PROVE Once' /\ Setup' /\ InwardClear'
    BY <2>1 DEF Poised
  <2>a. Once /\ Setup /\ InwardClear
    BY DEF Poised
  <2>2. (\A b \in Waiting' : b \in Waiting \/ b.mode # "Velocity") /\ Once'
    <3>1. CASE MoveBegin
      <4>1. PICK m : queue' = <<[mode |-> "Positional", v |-> m]>>
        BY <3>1 DEF MoveBegin
      <4>2. [mode |-> "Positional", v |-> m].mode = "Positional"
        OBVIOUS
      <4> QED BY <2>1, <4>1, <4>2, WaitingAlone, OnceAlone
    <3>2. CASE HomingDone \/ Check \/ Snapshot
      <4>1. queue' = queue /\ ~Blocking'
        BY <3>2 DEF HomingDone, Check, Snapshot, Blocking
      <4> QED BY <2>a, <4>1 DEF Waiting, Once, AsksBlock, Asks
    <3>3. CASE StopCall
      <4>1. queue' = <<[mode |-> "Estop", v |-> None(NaN)]>>
        BY <3>3 DEF StopCall, EmergencyStop
      <4>2. [mode |-> "Estop", v |-> None(NaN)].mode = "Estop"
        OBVIOUS
      <4> QED BY <2>1, <4>1, <4>2, WaitingAlone, OnceAlone
    <3>4. CASE StopClear
      <4> DEFINE b0 == [mode |-> "Estop_Clear", v |-> None(NaN)]
      <4>1. /\ queue' = Append(queue, b0) /\ b0 \in Blocks /\ b0.mode = "Estop_Clear"
            /\ UNCHANGED <<pc, block>>
        BY <3>4, StopBlocks DEF StopClear, homingVars
      <4> HIDE DEF b0
      <4>2. Blocking' => Blocking /\ block' = block
        BY <4>1 DEF Blocking
      <4> QED BY <1>0, <2>a, <4>1, <4>2, WaitingAppend, OnceAppend
    <3> QED BY <1>2, <3>1, <3>2, <3>3, <3>4
  <2>3. ASSUME NEW j \in Joints
        PROVE  /\ Sent(j)' => Prepared(j)'
               /\ (\E x \in Speeds(j)' : x # NaN /\ Into(j, x) > 0) => Side(j) \notin base'[j]
    <3>1. Coming(j)' \subseteq Coming(j)
      BY <2>1, <2>2, ComingFewer
    <3>2. /\ Sent(j) => Prepared(j)
          /\ (\E x \in Speeds(j) : x # NaN /\ Into(j, x) > 0) => Side(j) \notin base[j]
      BY <2>a DEF Setup, InwardClear
    <3> QED BY <2>1, <3>1, <3>2, FewerPoised
  <2> QED BY <2>2, <2>3 DEF Setup, InwardClear
<1>3. CASE Push
  <2>1. /\ UNCHANGED <<pv, sv, phys, wiring, limit, base, changed, overlap>>
        /\ pc \in {"first", "push"} /\ pc' \notin {"first", "push"}
        /\ queue' = Append(queue, [mode |-> "Velocity", v |-> block]) /\ block \in Velocities
    BY <1>0, <1>3 DEF Push, motion, motorVars, plantVars, machineVars, switchVars, historyVars,
       IInv, Working
  <2> SUFFICES ASSUME ~overlap PROVE Once' /\ Setup' /\ InwardClear'
    BY <2>1 DEF Poised
  <2>a. Once /\ Setup /\ InwardClear
    BY DEF Poised
  <2>2. Once'
    <3> DEFINE b0 == [mode |-> "Velocity", v |-> block]
    <3>1. /\ queue' = Append(queue, b0) /\ b0 \in Blocks /\ b0.v = block /\ Blocking /\ ~Blocking'
      BY <2>1 DEF Blocks, Modes, Blocking
    <3> HIDE DEF b0
    <3> QED BY <1>0, <2>a, <3>1, OnceAppend
  <2>3. ASSUME NEW j \in Joints
        PROVE  /\ Sent(j)' => Prepared(j)'
               /\ (\E x \in Speeds(j)' : x # NaN /\ Into(j, x) > 0) => Side(j) \notin base'[j]
    <3>1. Coming(j)' \subseteq Coming(j)
      BY <1>0, <1>3, PushComing
    <3>2. /\ Sent(j) => Prepared(j)
          /\ (\E x \in Speeds(j) : x # NaN /\ Into(j, x) > 0) => Side(j) \notin base[j]
      BY <2>a DEF Setup, InwardClear
    <3> QED BY <2>1, <3>1, <3>2, FewerPoised
  <2> QED BY <2>2, <2>3 DEF Setup, InwardClear
<1>4. CASE SequenceBegin
  <2>1. /\ pc = "sequence" /\ UNCHANGED <<pv, sv, phys, wiring, limit, overlap, queue>>
        /\ \A j \in Joints : IF j \in Group THEN base'[j] = limit[j] /\ changed'[j] = {}
                                            ELSE base'[j] = base[j] /\ changed'[j] = changed[j]
        /\ stage' = [j \in Joints |-> IF j \notin Group THEN "NONE"
                                      ELSE IF AtLimit(j) THEN "AT_LIMIT" ELSE "SEARCH"]
        /\ pc' \in {"sequence", "first"}
        /\ pc' = "first" =>
             block' = [j \in Joints |-> IF stage'[j] = "SEARCH" THEN SearchVel[j] ELSE 0]
    BY <1>4 DEF SequenceBegin, motorVars, plantVars, machineVars, historyVars
  <2> SUFFICES ASSUME ~overlap PROVE Once' /\ Setup' /\ InwardClear'
    BY <2>1 DEF Poised
  <2>2. /\ \A b \in Waiting : b.mode # "Velocity"
        /\ \A j \in Joints : Rest(j) /\ Polled(j)
    BY <2>1 DEF Base, Ordered, OfThisPass, Quiet, Watched, Parks
  <2>3. \A j \in Joints : \A i \in 1 .. Len(queue) : ~Asks(i, j)
    BY <2>2 DEF Asks, Waiting
  <2>4. Once'
    BY <2>1, <2>3 DEF Once, Asks
  <2>5. Waiting' = Waiting
    BY <2>1 DEF Waiting
  <2>6. ASSUME NEW j \in Joints, NEW x \in Speeds(j)', x # NaN, x # 0
        PROVE  /\ x = SearchVel[j] /\ ~AtLimit(j) /\ base'[j] = limit[j] /\ changed'[j] = {}
    <3>1. pv[j] = 0 /\ sv[j] = 0
      BY <2>2 DEF Rest
    <3>2. x = block'[j] /\ pc' = "first"
      BY <2>1, <2>2, <2>5, <2>6, <3>1 DEF Speeds, Coming, Blocking
    <3>3. stage'[j] = "SEARCH" /\ x = SearchVel[j]
      BY <2>1, <2>6, <3>2
    <3>4. j \in Group /\ ~AtLimit(j)
      BY <2>1, <3>3
    <3> QED BY <2>1, <3>3, <3>4
  <2>7. ASSUME NEW j \in Joints, Sent(j)' PROVE Prepared(j)'
    <3>1. pv[j] = 0 /\ sv[j] = 0 /\ limit[j] = Contacts(j)
      BY <2>2 DEF Rest, Polled
    <3>2. base'[j] = limit[j] /\ changed'[j] = {}
      BY <2>6, <2>7 DEF Sent, Speeds
    <3>3. Contacts(j)' = Contacts(j)
      BY <2>1, ContactsSame
    <3> QED BY <2>1, <3>1, <3>2, <3>3 DEF Prepared
  <2>8. ASSUME NEW j \in Joints, NEW x \in Speeds(j)', x # NaN, Into(j, x) > 0
        PROVE  Side(j) \notin base'[j]
    <3>1. x # 0
      BY <2>8, NaNFacts
    <3>2. ~AtLimit(j) /\ base'[j] = limit[j]
      BY <2>6, <2>8, <3>1
    <3> QED BY <3>2 DEF AtLimit
  <2> QED BY <2>4, <2>7, <2>8 DEF Setup, InwardClear
<1> QED BY <1>1, <1>2, <1>3, <1>4

LEMMA NextPoised == Base /\ Poised /\ [Next]_vars => Poised'
<1> SUFFICES ASSUME Base, Poised, [Next]_vars PROVE Poised'
  OBVIOUS
<1>1. CASE EndstopPoll \/ StepperStep
  BY <1>1, PlantPoised
<1>2. CASE \/ HomingBegin \/ MoveBegin \/ SequenceBegin \/ HomingDone \/ Push \/ Check \/ Snapshot
           \/ StopCall \/ StopClear
  BY <1>2, ThreadPoised
<1>3. ASSUME NEW j \in Joints, Handle(j) PROVE Poised'
  <2>1. Look(j) /\ Sends(j)
    BY <1>3, HandleLooks, HandleSends DEF Base
  <2> QED BY <2>1, LookPoised
<1>4. CASE UNCHANGED vars
  <2>1. UNCHANGED <<pv, sv, phys, wiring, limit, base, changed, overlap, pc, block, queue>>
    BY <1>4 DEF vars, motorVars, switchVars, plantVars, machineVars, historyVars, homingVars
  <2>2. \A j \in Joints : Coming(j)' = Coming(j) /\ Contacts(j)' = Contacts(j)
    BY <2>1, ComingSame, ContactsSame
  <2>3. Once => Once'
    BY <2>1, OnceSame DEF Blocking
  <2> QED BY <2>1, <2>2, <2>3 DEF Poised, Setup, InwardClear, Sent, Prepared, Speeds
<1> QED BY <1>1, <1>2, <1>3, <1>4 DEF Next, HomingStep

-----------------------------------------------------------------------------
(* How far a switch is passed.  Twice the depth at which a carriage comes to rest *)
(* that brakes from now on: less than the distance from the search speed, for a   *)
(* tick that drives it inwards finds it short of its switch.                      *)

Up(x) == IF x > 0 THEN x ELSE 0
Ends(d, u) == 2 * d + Up(u) * (Up(u) - 1)
Bounded ==
  \A j \in Joints :
    wiring[j] = "good"
      /\ (j \notin unsure \/ (~overlap /\ pc \notin {"ready", "sequence"} /\ stage[j] = "LATCH")) =>
      Ends(Depth(j), Into(j, pv[j])) <= Reach(j)

\* A move ends between the switches.
Inside ==
  \A j \in Joints \ unsure :
    /\ active = "Positional" => togo[j] = 0 \/ phys[j] + Ahead(j) \in 0 .. Stroke
    /\ \A b \in Waiting : b.mode = "Positional" =>
         b.v[j] = 0 \/ phys[j] + Ahead(j) + b.v[j] \in 0 .. Stroke

LEMMA DepthFacts ==
  ASSUME NEW j \in Joints, NEW p \in Int, NEW x \in Int
  PROVE  /\ Into(j, x) \in Int /\ DepthOf(j, p) \in Int
         /\ DepthOf(j, p + x) = DepthOf(j, p) + Into(j, x)
<1>1. SearchVel[j] \in Int /\ Stroke \in Int
  BY SpeedFacts
<1> QED BY <1>1 DEF Into, DepthOf

LEMMA SidesFacts ==
  ASSUME NEW j \in Joints
  PROVE  /\ Side(j) \in {"Min", "Max"} /\ Side(j) \in Endstops[j] /\ Endstops[j] \subseteq {"Min", "Max"}
         /\ Other(Side(j)) # Side(j) /\ {"Min", "Max"} = {Side(j), Other(Side(j))}
<1>1. Side(j) \in Endstops[j] /\ Endstops[j] \subseteq {"Min", "Max"}
  BY HomeAssumption, MachineAssumption DEF Side
<1> QED BY <1>1 DEF Side, Other

LEMMA GoodContacts ==
  ASSUME IInv, NEW j \in Joints, wiring[j] = "good"
  PROVE  /\ Depth(j) \in Int
         /\ Side(j) \in Contacts(j) <=> Depth(j) >= 0
         /\ Other(Side(j)) \in Contacts(j) <=> Other(Side(j)) \in Endstops[j] /\ Depth(j) <= -Stroke
         /\ Contacts(j) \subseteq {Side(j), Other(Side(j))}
<1>1. phys[j] \in Int /\ SearchVel[j] \in Int /\ Stroke \in Int
  BY SpeedFacts DEF IInv, Machine
<1>2. Side(j) \in Endstops[j] /\ Endstops[j] \subseteq {Side(j), Other(Side(j))}
  BY SidesFacts
<1>3. Contacts(j) = {s \in Endstops[j] : IF s = "Min" THEN phys[j] <= 0 ELSE phys[j] >= Stroke}
  BY DEF Contacts
<1>4. CASE SearchVel[j] < 0
  <2>1. Side(j) = "Min" /\ Other(Side(j)) = "Max" /\ Depth(j) = -phys[j]
    BY <1>4 DEF Side, Other, Depth, DepthOf
  <2> QED BY <1>1, <1>2, <1>3, <2>1
<1>5. CASE ~(SearchVel[j] < 0)
  <2>1. Side(j) = "Max" /\ Other(Side(j)) = "Min" /\ Depth(j) = phys[j] - Stroke
    BY <1>5 DEF Side, Other, Depth, DepthOf
  <2> QED BY <1>1, <1>2, <1>3, <2>1
<1> QED BY <1>4, <1>5

LEMMA IntoToward ==
  ASSUME NEW j \in Joints, NEW p \in Int, NEW g \in Int
  PROVE  Into(j, Toward(p, g)) = Toward(Into(j, p), Into(j, g))
<1>1. SearchVel[j] \in Int
  BY SpeedFacts
<1> QED BY <1>1 DEF Into, Toward

LEMMA Squares ==
  \A a, b \in Nat : a <= b => a * (a + 1) <= b * (b + 1) /\ 0 <= a * (a + 1)
<1> SUFFICES ASSUME NEW a \in Nat, NEW b \in Nat, a <= b
             PROVE  a * (a + 1) <= b * (b + 1) /\ 0 <= a * (a + 1)
  OBVIOUS
<1>1. a * (a + 1) <= b * (a + 1)
  OBVIOUS
<1>2. b * (a + 1) <= b * (b + 1)
  OBVIOUS
<1>3. 0 <= a * (a + 1) /\ a * (a + 1) \in Int /\ b * (a + 1) \in Int /\ b * (b + 1) \in Int
  OBVIOUS
<1> QED BY <1>1, <1>2, <1>3

\* A joint's tick: slower, as fast as before, or faster and short of the switch.
LEMMA EndsTick ==
  ASSUME NEW F \in Nat, NEW B \in Int, F * (F + 1) <= B,
         NEW d \in Int, NEW u \in Int, NEW g \in Int,
         u <= F, g <= F, g > 0 => d < 0, Ends(d, u) <= B
  PROVE  Ends(d + Toward(u, g), Toward(u, g)) <= B
<1> DEFINE w == Toward(u, g)
<1>1. w \in Int /\ w <= F /\ w \in {u - 1, u, u + 1} /\ (w > 0 /\ w >= u => g > 0)
  BY DEF Toward
<1>2. Ends(d + w, w) = 2 * d + 2 * w + Up(w) * (Up(w) - 1)
  <2> HIDE DEF w
  <2> QED BY <1>1 DEF Ends
<1>3. \A x \in Int : Up(x) \in Nat /\ Up(x) * (Up(x) - 1) >= 0 /\ Up(x) * (Up(x) - 1) \in Int
  <2> SUFFICES ASSUME NEW x \in Int PROVE Up(x) \in Nat /\ Up(x) * (Up(x) - 1) >= 0 /\ Up(x) * (Up(x) - 1) \in Int
    OBVIOUS
  <2>1. CASE x <= 0
    <3>1. Up(x) = 0
      BY <2>1 DEF Up
    <3> QED BY <3>1
  <2>2. CASE x > 0
    <3>1. Up(x) = x /\ x - 1 \in Nat /\ (x - 1) * ((x - 1) + 1) >= 0
      BY <2>2, Squares DEF Up
    <3>2. x * (x - 1) = (x - 1) * ((x - 1) + 1)
      BY <2>2
    <3> QED BY <2>2, <3>1, <3>2
  <2> QED BY <2>1, <2>2
<1> HIDE DEF w
<1>4. CASE w <= 0
  <2>1. Up(w) = 0
    BY <1>1, <1>4 DEF Up
  <2>2. Up(u) * (Up(u) - 1) >= 0 /\ Up(u) * (Up(u) - 1) \in Int
    BY <1>3
  <2>3. 2 * d <= B
    BY <2>2 DEF Ends
  <2> QED BY <1>1, <1>2, <1>4, <2>1, <2>3 DEF w
<1>5. CASE w > 0 /\ w = u - 1
  <2>1. Up(w) = u - 1 /\ Up(u) = u
    BY <1>1, <1>5 DEF Up
  <2>2. 2 * d + 2 * (u - 1) + (u - 1) * ((u - 1) - 1) = 2 * d + u * (u - 1)
    OBVIOUS
  <2> QED BY <1>2, <1>5, <2>1, <2>2 DEF Ends, w
<1>6. CASE w > 0 /\ w >= u
  <2>1. Up(w) = w /\ d <= -1 /\ w \in Nat
    BY <1>1, <1>6 DEF Up
  <2>2. 2 * w + w * (w - 1) = w * (w + 1)
    BY <1>1
  <2>3. w * (w + 1) <= F * (F + 1)
    BY <1>1, <2>1, Squares
  <2>4. w * (w + 1) \in Int /\ w * (w - 1) \in Int /\ F * (F + 1) \in Int
    BY <2>1
  <2> QED BY <1>2, <2>1, <2>2, <2>3, <2>4 DEF w
<1> QED BY <1>1, <1>4, <1>5, <1>6

\* Division with remainder, and its uniqueness.
LEMMA Division ==
  ASSUME NEW P \in Nat, P > 0
  PROVE  /\ \A a \in Int : /\ a \div P \in Int /\ a % P \in 0 .. P - 1
                           /\ a = P * (a \div P) + (a % P)
         /\ \A q \in Int : \A r \in 0 .. P - 1 : (P * q + r) \div P = q /\ (P * q + r) % P = r
  OBVIOUS

\* Steps a move has left, by its ticks: one is made in every tick whose number is
\* divided by Pace.
Steps(t) == Toward(0, t) * ((Abs(t) + Pace - 1) \div Pace)
StepAt(t) == IF Toward(t, 0) % Pace = 0 THEN t - Toward(t, 0) ELSE 0

LEMMA Ceiling ==
  ASSUME NEW m \in Nat
  PROVE  /\ (m + Pace - 1) \div Pace \in Nat
         /\ (m + Pace) \div Pace = ((m + Pace - 1) \div Pace) + (IF m % Pace = 0 THEN 1 ELSE 0)
         /\ m % Pace = 0 <=> (-m) % Pace = 0
         /\ (Pace * m + Pace - 1) \div Pace = m
<1> DEFINE q == m \div Pace
           r == m % Pace
<1>1. Pace \in Nat /\ Pace > 0
  BY TimesAssumption
<1>2. q \in Int /\ r \in 0 .. Pace - 1 /\ m = Pace * q + r
  BY <1>1, Division
<1>3. q \in Nat
  <2> HIDE DEF q, r
  <2>1. CASE q < 0
    <3>1. Pace * q <= Pace * (-1)
      BY <1>1, <1>2, <2>1
    <3> QED BY <1>1, <1>2, <3>1
  <2> QED BY <1>2, <2>1
<1>4. r = 0 <=> m % Pace = 0
  OBVIOUS
<1> HIDE DEF q, r
<1>5. m + Pace = Pace * (q + 1) + r /\ q + 1 \in Int
  BY <1>1, <1>2
<1>6. (m + Pace) \div Pace = q + 1
  BY <1>1, <1>2, <1>5, Division
<1>7. (Pace * m + Pace - 1) \div Pace = m
  <2>1. Pace * m + Pace - 1 = Pace * m + (Pace - 1) /\ Pace - 1 \in 0 .. Pace - 1
    BY <1>1
  <2> QED BY <1>1, <2>1, Division
<1>8. CASE r = 0
  <2>1. m + Pace - 1 = Pace * q + (Pace - 1) /\ Pace - 1 \in 0 .. Pace - 1
    BY <1>1, <1>2, <1>8
  <2>2. (m + Pace - 1) \div Pace = q
    BY <1>1, <1>2, <2>1, Division
  <2>3. -m = Pace * (-q) + 0 /\ -q \in Int /\ 0 \in 0 .. Pace - 1
    BY <1>1, <1>2, <1>8
  <2>4. (-m) % Pace = 0
    <3>1. \A a \in Int : a = Pace * (-q) + 0 => a % Pace = 0
      BY <1>1, <2>3, Division
    <3>2. -m \in Int
      OBVIOUS
    <3> QED BY <2>3, <3>1, <3>2
  <2> QED BY <1>2, <1>3, <1>4, <1>6, <1>7, <1>8, <2>2, <2>4
<1>9. CASE r # 0
  <2>1. m + Pace - 1 = Pace * (q + 1) + (r - 1) /\ r - 1 \in 0 .. Pace - 1
    BY <1>1, <1>2, <1>9
  <2>2. (m + Pace - 1) \div Pace = q + 1
    BY <1>1, <1>5, <2>1, Division
  <2>3. PICK p \in Int, s \in 0 .. Pace - 1 : p = -q - 1 /\ s = Pace - r
    BY <1>1, <1>2, <1>9
  <2>4. (-m) % Pace # 0
    <3>1. (Pace * p + s) % Pace = s
      BY <1>1, <2>3, Division
    <3>2. -m = Pace * p + s /\ s # 0
      BY <1>1, <1>2, <2>3
    <3> QED BY <3>1, <3>2
  <2> QED BY <1>2, <1>3, <1>4, <1>6, <1>7, <1>9, <2>2, <2>4
<1> QED BY <1>8, <1>9

LEMMA StepsFacts ==
  ASSUME NEW t \in Int
  PROVE  /\ Steps(t) \in Int /\ StepAt(t) \in Int
         /\ Steps(t) = Steps(Toward(t, 0)) + StepAt(t)
         /\ t = 0 => Steps(t) = 0 /\ StepAt(t) = 0
         /\ t > 0 => StepAt(t) \in {0, 1} /\ Steps(Toward(t, 0)) >= 0
         /\ t < 0 => StepAt(t) \in {0, -1} /\ Steps(Toward(t, 0)) <= 0
<1>0. Pace \in Nat /\ Pace > 0
  BY TimesAssumption
<1>1. CASE t = 0
  <2>1. Toward(t, 0) = 0 /\ Toward(0, t) = 0
    BY <1>1 DEF Toward
  <2>2. Abs(t) = 0
    BY <1>1 DEF Abs
  <2>3. (Abs(t) + Pace - 1) \div Pace \in Nat
    BY <2>2, Ceiling
  <2>4. Steps(t) = 0
    BY <2>1, <2>3 DEF Steps
  <2>5. StepAt(t) = 0
    BY <1>1, <2>1 DEF StepAt
  <2> QED BY <1>1, <2>1, <2>4, <2>5
<1>2. CASE t > 0
  <2> DEFINE m == t - 1
             C == (m + Pace - 1) \div Pace
  <2>1. /\ Toward(t, 0) = m /\ Toward(0, t) = 1 /\ Abs(t) = t /\ Abs(m) = m /\ m \in Nat
        /\ t - m = 1 /\ t + Pace - 1 = m + Pace
    BY <1>0, <1>2 DEF Toward, Abs
  <2>2. C \in Nat /\ (m + Pace) \div Pace = C + (IF m % Pace = 0 THEN 1 ELSE 0)
    BY <2>1, Ceiling
  <2>3. Toward(0, m) = 1 \/ (m = 0 /\ Toward(0, m) = 0)
    BY <2>1 DEF Toward
  <2>4. m = 0 => C = 0
    <3>1. (Pace * 0 + Pace - 1) \div Pace = 0
      BY Ceiling
    <3>2. Pace * 0 + Pace - 1 = 0 + Pace - 1
      BY <1>0
    <3> QED BY <3>1, <3>2
  <2> HIDE DEF C
  <2>5. Steps(t) = 1 * ((m + Pace) \div Pace) /\ Steps(m) = Toward(0, m) * C
    BY <2>1 DEF Steps, C
  <2> HIDE DEF m
  <2>6. Steps(m) = C
    BY <2>2, <2>3, <2>4, <2>5
  <2>7. StepAt(t) = IF m % Pace = 0 THEN 1 ELSE 0
    BY <2>1 DEF StepAt
  <2>8. Steps(t) = C + StepAt(t)
    BY <2>2, <2>5, <2>7
  <2> QED BY <1>2, <2>1, <2>2, <2>6, <2>7, <2>8
<1>3. CASE t < 0
  <2> DEFINE m == -t - 1
             C == (m + Pace - 1) \div Pace
  <2>1. /\ Toward(t, 0) = -m /\ Toward(0, t) = -1 /\ Abs(t) = -t /\ Abs(-m) = m /\ m \in Nat
        /\ t - (-m) = -1 /\ -t + Pace - 1 = m + Pace /\ -m \in Int
    BY <1>0, <1>3 DEF Toward, Abs
  <2>2. /\ C \in Nat /\ (m + Pace) \div Pace = C + (IF m % Pace = 0 THEN 1 ELSE 0)
        /\ m % Pace = 0 <=> (-m) % Pace = 0
    BY <2>1, Ceiling
  <2>3. Toward(0, -m) = -1 \/ (m = 0 /\ Toward(0, -m) = 0)
    BY <2>1 DEF Toward
  <2>4. m = 0 => C = 0
    <3>1. (Pace * 0 + Pace - 1) \div Pace = 0
      BY Ceiling
    <3>2. Pace * 0 + Pace - 1 = 0 + Pace - 1
      BY <1>0
    <3> QED BY <3>1, <3>2
  <2> HIDE DEF C
  <2>5. Steps(t) = (-1) * ((m + Pace) \div Pace) /\ Steps(-m) = Toward(0, -m) * C
    BY <2>1 DEF Steps, C
  <2> HIDE DEF m
  <2>6. Steps(-m) = -C
    BY <2>2, <2>3, <2>4, <2>5
  <2>7. StepAt(t) = IF m % Pace = 0 THEN -1 ELSE 0
    BY <2>1, <2>2 DEF StepAt
  <2>8. Steps(t) = -C + StepAt(t)
    BY <2>2, <2>5, <2>7
  <2> QED BY <1>3, <2>1, <2>2, <2>6, <2>7, <2>8
<1> QED BY <1>1, <1>2, <1>3

LEMMA StepsOfMove ==
  ASSUME NEW v \in Int
  PROVE  Pace * v \in Int /\ Steps(Pace * v) = v /\ (v = 0 => Pace * v = 0)
<1>0. Pace \in Nat /\ Pace > 0
  BY TimesAssumption
<1>1. CASE v = 0
  <2>1. Pace * v = 0
    BY <1>0, <1>1
  <2> QED BY <1>1, <2>1, StepsFacts
<1>2. CASE v > 0
  <2>1. Pace * v > 0 /\ Pace * v \in Int /\ v \in Nat
    BY <1>0, <1>2
  <2>2. Toward(0, Pace * v) = 1 /\ Abs(Pace * v) = Pace * v
    BY <2>1 DEF Toward, Abs
  <2>3. (Pace * v + Pace - 1) \div Pace = v
    BY <2>1, Ceiling
  <2> QED BY <1>2, <2>1, <2>2, <2>3 DEF Steps
<1>3. CASE v < 0
  <2>1. Pace * v < 0 /\ Pace * v \in Int /\ -v \in Nat /\ -(Pace * v) = Pace * (-v)
    BY <1>0, <1>3
  <2>2. Toward(0, Pace * v) = -1 /\ Abs(Pace * v) = Pace * (-v)
    BY <2>1 DEF Toward, Abs
  <2>3. (Pace * (-v) + Pace - 1) \div Pace = -v
    BY <2>1, Ceiling
  <2>4. Steps(Pace * v) = (-1) * (-v)
    BY <2>2, <2>3 DEF Steps
  <2> QED BY <1>3, <2>1, <2>4
<1> QED BY <1>1, <1>2, <1>3

LEMMA EndsFacts ==
  ASSUME NEW d \in Int, NEW u \in Int
  PROVE  Ends(d, u) \in Int /\ Ends(d, 0) = 2 * d /\ 2 * d <= Ends(d, u)
<1>1. CASE u <= 0
  <2>1. Up(u) = 0 /\ Up(0) = 0
    BY <1>1 DEF Up
  <2> QED BY <2>1 DEF Ends
<1>2. CASE u > 0
  <2>1. Up(u) = u /\ Up(0) = 0 /\ u - 1 \in Nat
    BY <1>2 DEF Up
  <2>2. 0 <= (u - 1) * ((u - 1) + 1) /\ (u - 1) * ((u - 1) + 1) = u * (u - 1)
    BY <2>1, Squares
  <2>3. u * (u - 1) \in Int
    OBVIOUS
  <2> QED BY <2>1, <2>2, <2>3 DEF Ends
<1> QED BY <1>1, <1>2

\* The joints whose accuracy is kept.
Known(j) ==
  /\ wiring[j] = "good"
  /\ j \notin unsure \/ (~overlap /\ pc \notin {"ready", "sequence"} /\ stage[j] = "LATCH")

LEMMA DriveShort ==
  ASSUME IInv, Geared, Poised, ~overlap, NEW j \in Joints, wiring[j] = "good", Polled(j), Into(j, Goal(j)) > 0
  PROVE  Depth(j) < 0
<1>1. Goal(j) # 0
  BY NaNFacts
<1>2. Goal(j) = sv[j] /\ ~HitNow(j)
  BY <1>1 DEF Goal
<1>3. Side(j) \notin base[j]
  <2>1. sv[j] \in Speeds(j) /\ sv[j] \in Int
    BY DEF Speeds, IInv, Motors
  <2> QED BY <1>2, <2>1, NaNFacts DEF Poised, InwardClear
<1>4. ~hit[j]
  BY <1>1, <1>2 DEF Geared, HitRests
<1>5. changed[j] = {}
  BY <1>2, <1>4 DEF HitNow
<1>6. Side(j) \notin Contacts(j)
  BY <1>3, <1>5 DEF Polled, ChangedAfter, Delta
<1> QED BY <1>6, GoodContacts

LEMMA TickBounded ==
  ASSUME Base, Poised, Bounded, TickVelocity, NEW j \in Joints, Known(j)
  PROVE  Ends(Depth(j)', Into(j, pv'[j])) <= Reach(j)
<1>0. IInv /\ Geared
  BY DEF Base
<1>1. ~overlap
  BY <1>0 DEF Known, Geared, OverlapDoubts
<1>2. pv'[j] = Toward(pv[j], Goal(j)) /\ phys'[j] = phys[j] + pv'[j] /\ Polled(j)
  BY <1>0, TickFacts
<1>3. pv[j] \in Int /\ sv[j] \in Int /\ phys[j] \in Int /\ Goal(j) \in Int
  BY <1>0 DEF IInv, Motors, Machine, Goal
<1>4. Within(pv[j], Fast(j)) /\ Within(Goal(j), Fast(j)) /\ Fast(j) \in Nat
  <2>1. Tame(j) /\ Fast(j) \in Nat /\ Within(0, Fast(j))
    BY <1>0, SpeedFacts, WithinFacts DEF Geared
  <2> QED BY <2>1 DEF Tame, Goal
<1>5. /\ Into(j, pv[j]) \in Int /\ Into(j, Goal(j)) \in Int /\ Depth(j) \in Int
      /\ Into(j, pv'[j]) = Toward(Into(j, pv[j]), Into(j, Goal(j)))
      /\ Depth(j)' = Depth(j) + Into(j, pv'[j])
  <2>1. pv'[j] \in Int
    BY <1>2, <1>3, TowardType
  <2>2. Into(j, pv[j]) \in Int /\ Into(j, Goal(j)) \in Int /\ Depth(j) \in Int
    BY <1>3, DepthFacts DEF Depth
  <2>3. Into(j, pv'[j]) = Toward(Into(j, pv[j]), Into(j, Goal(j)))
    BY <1>2, <1>3, IntoToward
  <2>4. Depth(j)' = DepthOf(j, phys[j] + pv'[j])
    BY <1>2 DEF Depth
  <2>5. DepthOf(j, phys[j] + pv'[j]) = DepthOf(j, phys[j]) + Into(j, pv'[j])
    BY <1>3, <2>1, DepthFacts
  <2> QED BY <2>2, <2>3, <2>4, <2>5 DEF Depth
<1>6. Into(j, pv[j]) <= Fast(j) /\ Into(j, Goal(j)) <= Fast(j)
  BY <1>3, <1>4, SpeedFacts DEF Into, Within
<1>7. Into(j, Goal(j)) > 0 => Depth(j) < 0
  BY <1>0, <1>1, <1>2, DriveShort DEF Known
<1>8. Ends(Depth(j), Into(j, pv[j])) <= Fast(j) * (Fast(j) + 1)
  BY DEF Bounded, Known, Reach
<1> HIDE DEF Into, Depth, Fast
<1>9. Ends(Depth(j) + Toward(Into(j, pv[j]), Into(j, Goal(j))), Toward(Into(j, pv[j]), Into(j, Goal(j))))
        <= Fast(j) * (Fast(j) + 1)
  <2>1. PICK B \in Int : B = Fast(j) * (Fast(j) + 1)
    BY <1>4
  <2> QED BY <1>4, <1>5, <1>6, <1>7, <1>8, <2>1, EndsTick
<1> QED BY <1>5, <1>9 DEF Reach

\* A tick of a move: what is made of it is not ahead any more, and it stays inside.
LEMMA MoveTick ==
  ASSUME IInv, Inside, TickPositional, NEW j \in Joints, j \notin unsure
  PROVE  /\ togo[j] = 0 => togo'[j] = 0 /\ phys'[j] = phys[j]
         /\ phys'[j] + Ahead(j)' = phys[j] + Ahead(j)
         /\ phys'[j] = phys[j] \/ (phys'[j] > phys[j] /\ phys'[j] <= Stroke)
                               \/ (phys'[j] < phys[j] /\ phys'[j] >= 0)
<1>0. active = "Positional" /\ togo'[j] = Toward(togo[j], 0) /\ phys'[j] = phys[j] + StepAt(togo[j])
  BY DEF TickPositional, StepAt
<1>1. togo[j] \in Int /\ phys[j] \in Int /\ Stroke \in Int /\ Toward(togo[j], 0) \in Int
  BY SpeedFacts, TowardType DEF IInv, Motors, Machine
<1>2. Ahead(j) = Steps(togo[j]) /\ Ahead(j)' = Steps(togo'[j])
  BY DEF Ahead, Steps
<1>3. togo[j] = 0 \/ phys[j] + Ahead(j) \in 0 .. Stroke
  BY <1>0 DEF Inside
<1>4. /\ Steps(togo[j]) \in Int /\ StepAt(togo[j]) \in Int /\ Steps(Toward(togo[j], 0)) \in Int
      /\ Steps(togo[j]) = Steps(Toward(togo[j], 0)) + StepAt(togo[j])
      /\ togo[j] = 0 => Steps(togo[j]) = 0 /\ StepAt(togo[j]) = 0
      /\ togo[j] > 0 => StepAt(togo[j]) \in {0, 1} /\ Steps(Toward(togo[j], 0)) >= 0
      /\ togo[j] < 0 => StepAt(togo[j]) \in {0, -1} /\ Steps(Toward(togo[j], 0)) <= 0
  BY <1>1, StepsFacts
<1>5. togo[j] = 0 => togo'[j] = 0
  BY <1>0 DEF Toward
<1> QED BY <1>0, <1>1, <1>2, <1>3, <1>4, <1>5

LEMMA PlantKept ==
  ASSUME Base, Poised, Bounded, Inside, EndstopPoll \/ StepperStep
  PROVE  Bounded' /\ Inside'
<1>0. IInv /\ Alone /\ Geared /\ Queued /\ UNCHANGED <<pc, stage, overlap, unsure, wiring>>
  BY DEF EndstopPoll, StepperStep, FetchVelocity, FetchOther, TickVelocity, TickPositional,
         TickIdle, homingVars, historyVars, machineVars, Base, IInv
<1>1. \A j \in Joints : Known(j)' = Known(j)
  BY <1>0 DEF Known
<1>2. (\A j \in Joints : Known(j) => Ends(Depth(j)', Into(j, pv'[j])) <= Reach(j)) => Bounded'
  BY <1>1 DEF Bounded, Known, Reach, Depth
<1>3. ASSUME NEW j \in Joints, Known(j), phys'[j] = phys[j], pv'[j] = pv[j] \/ pv'[j] = 0
      PROVE  Ends(Depth(j)', Into(j, pv'[j])) <= Reach(j)
  <2>1. Ends(Depth(j), Into(j, pv[j])) <= Reach(j) /\ Depth(j)' = Depth(j) /\ Reach(j) \in Int
    BY <1>3, ReachFacts DEF Bounded, Known, Depth
  <2>2. Depth(j) \in Int /\ Into(j, pv[j]) \in Int /\ Into(j, 0) = 0
    BY <1>0, DepthFacts, NaNFacts DEF IInv, Machine, Motors, Depth
  <2>3. Ends(Depth(j), 0) <= Ends(Depth(j), Into(j, pv[j])) /\ Ends(Depth(j), 0) \in Int
        /\ Ends(Depth(j), Into(j, pv[j])) \in Int
    BY <2>2, EndsFacts
  <2> QED BY <1>3, <2>1, <2>2, <2>3
<1>4. CASE EndstopPoll \/ TickIdle
  <2>1. UNCHANGED <<phys, pv, togo, active, queue>>
    BY <1>4 DEF EndstopPoll, TickIdle, plantVars, motorVars
  <2>2. Inside'
    BY <1>0, <2>1 DEF Inside, Ahead, Waiting
  <2> QED BY <1>2, <1>3, <2>1, <2>2
<1>5. CASE FetchVelocity \/ FetchOther
  <2>1. /\ phys' = phys /\ queue # <<>> /\ queue' = Tail(queue)
        /\ \A j \in Joints : pv'[j] = pv[j] \/ pv'[j] = 0
        /\ active' = "Positional" =>
             /\ Head(queue).mode = "Positional" /\ active # "Positional"
             /\ togo' = [j \in Joints |-> Pace * Head(queue).v[j]]
    BY <1>5 DEF FetchVelocity, FetchOther, MayFetch, plantVars, None
  <2>2. Head(queue) \in Waiting /\ \A b \in Waiting' : b.mode # "Positional"
    <3>1. \A i \in 1 .. Len(queue') : i + 1 \in 2 .. Len(queue) /\ queue'[i] = queue[i + 1]
      BY <1>0, <2>1, TailFirst
    <3>2. \A i \in 1 .. Len(queue') : queue'[i].mode # "Positional"
      BY <1>0, <3>1 DEF Geared, MoveFirst
    <3> QED BY <1>0, <2>1, <3>2, WaitingTail DEF Waiting
  <2>3. ASSUME active' = "Positional", NEW j \in Joints, j \notin unsure
        PROVE  togo'[j] = 0 \/ phys'[j] + Ahead(j)' \in 0 .. Stroke
    <3>1. togo[j] = 0 /\ Head(queue).v[j] \in Int
      BY <1>0, <2>1, <2>3, TailKeeps DEF Geared, NoTogo, None
    <3>2. Ahead(j) = 0
      BY <3>1, StepsFacts DEF Ahead, Steps
    <3>3. Head(queue).v[j] = 0 \/ phys[j] + Ahead(j) + Head(queue).v[j] \in 0 .. Stroke
      BY <2>1, <2>2, <2>3 DEF Inside
    <3>4. togo'[j] = Pace * Head(queue).v[j]
      BY <2>1, <2>3
    <3>5. /\ Steps(Pace * Head(queue).v[j]) = Head(queue).v[j]
          /\ (Head(queue).v[j] = 0 => Pace * Head(queue).v[j] = 0)
      BY <3>1, StepsOfMove
    <3>6. Ahead(j)' = Steps(togo'[j])
      BY DEF Ahead, Steps
    <3>7. phys[j] \in Int
      BY <1>0 DEF IInv, Machine
    <3> QED BY <2>1, <3>1, <3>2, <3>3, <3>4, <3>5, <3>6, <3>7
  <2>4. Inside'
    BY <1>0, <2>2, <2>3 DEF Inside
  <2> QED BY <1>2, <1>3, <2>1, <2>4
<1>6. CASE TickVelocity
  <2>1. Waiting = {} /\ queue' = queue /\ active' # "Positional"
    BY <1>0, <1>6, TickFacts DEF TickVelocity
  <2>2. Waiting' = {}
    BY <2>1 DEF Waiting
  <2> QED BY <1>2, <1>6, <2>1, <2>2, TickBounded DEF Inside
<1>7. CASE TickPositional
  <2>1. /\ active = "Positional" /\ UNCHANGED <<pv, queue>>
        /\ \A j \in Joints : togo'[j] = Toward(togo[j], 0) /\ phys'[j] = phys[j] + StepAt(togo[j])
    BY <1>7 DEF TickPositional, StepAt
  <2>2. ASSUME NEW j \in Joints, j \notin unsure
        PROVE  /\ togo[j] = 0 => togo'[j] = 0 /\ phys'[j] = phys[j]
               /\ phys'[j] + Ahead(j)' = phys[j] + Ahead(j)
               /\ phys'[j] = phys[j] \/ (phys'[j] > phys[j] /\ phys'[j] <= Stroke)
                                     \/ (phys'[j] < phys[j] /\ phys'[j] >= 0)
    BY <1>0, <1>7, <2>2, MoveTick
  <2>3. Inside'
    <3> SUFFICES ASSUME NEW j \in Joints, j \notin unsure
                 PROVE  /\ togo'[j] = 0 \/ phys'[j] + Ahead(j)' \in 0 .. Stroke
                        /\ \A b \in Waiting' : b.mode = "Positional" =>
                             b.v[j] = 0 \/ phys'[j] + Ahead(j)' + b.v[j] \in 0 .. Stroke
      BY <1>0 DEF Inside
    <3>1. Waiting' = Waiting
      BY <2>1 DEF Waiting
    <3>2. /\ togo[j] = 0 \/ phys[j] + Ahead(j) \in 0 .. Stroke
          /\ \A b \in Waiting : b.mode = "Positional" =>
               b.v[j] = 0 \/ phys[j] + Ahead(j) + b.v[j] \in 0 .. Stroke
      BY <2>1 DEF Inside
    <3> QED BY <2>2, <3>1, <3>2
  <2>4. ASSUME NEW j \in Joints, Known(j) PROVE Ends(Depth(j)', Into(j, pv'[j])) <= Reach(j)
    <3>1. j \notin unsure
      BY <1>0, <2>1, <2>4 DEF Known, Alone, NoMove
    <3>2. pv[j] = 0 /\ Into(j, pv'[j]) = 0
      BY <1>0, <2>1, NaNFacts DEF Alone, Calm
    <3>3. Reach(j) \in Nat /\ phys[j] \in Int /\ Stroke \in Int /\ SearchVel[j] \in Int
      BY <1>0, ReachFacts, SpeedFacts DEF IInv, Machine
    <3>4. phys'[j] \in Int
      BY <1>0, <1>7, TickPositionalStep DEF IInv, Machine
    <3>5. Depth(j)' \in Int /\ (Depth(j)' <= Depth(j) \/ Depth(j)' <= 0) /\ Depth(j) \in Int
      BY <2>2, <3>1, <3>3, <3>4 DEF Depth, DepthOf
    <3>6. 2 * Depth(j) <= Reach(j)
      <4>1. Ends(Depth(j), Into(j, pv[j])) <= Reach(j)
        BY <2>4 DEF Bounded, Known
      <4>2. Into(j, pv[j]) = 0
        BY <3>2, NaNFacts
      <4> QED BY <3>5, <4>1, <4>2, EndsFacts
    <3>7. Ends(Depth(j)', 0) = 2 * Depth(j)'
      BY <3>5, EndsFacts
    <3> HIDE DEF Depth, Into, Reach
    <3> QED BY <3>2, <3>3, <3>5, <3>6, <3>7
  <2> QED BY <1>2, <2>3, <2>4
<1> QED BY <1>4, <1>5, <1>6, <1>7 DEF StepperStep

\* How a look at a joint takes it from stage to stage, and what it does to the joint's
\* counter and to what is known of the joint.
To(j, a, b) == stage[j] = a /\ stage'[j] = b
SameCounter == UNCHANGED <<pos, unsure, homed>>
Turns(j) ==
  \/ stage' = stage /\ SameCounter
  \/ To(j, "SEARCH", "AT_LIMIT") /\ seen[j].stopped /\ SwitchSeen(j) /\ SameCounter /\ pc' # "push"
  \/ To(j, "AT_LIMIT", "BACKOFF") /\ SameCounter /\ pc' = "push"
  \/ To(j, "AT_LIMIT", "RELEASE") /\ SameCounter /\ pc' = "push"
  \/ To(j, "BACKOFF", "LATCH") /\ SameCounter /\ pc' = "push"
  \/ /\ \/ To(j, "RELEASE", "PRE_FINAL") /\ seen[j].limit = {}
        \/ To(j, "LATCH", "PRE_FINAL") /\ seen[j].limit = {IF LatchVel[j] < 0 THEN "Min" ELSE "Max"}
     /\ seen[j].stopped
     /\ pos' = [pos EXCEPT ![j] = Homed(j)]
     /\ unsure' = IF overlap THEN unsure ELSE unsure \ {j}
     /\ homed' = homed /\ pc' # "push"
  \/ /\ To(j, "PRE_FINAL", "FINAL") /\ pc' # "push"
     /\ homed' = [homed EXCEPT ![j] = TRUE] /\ UNCHANGED <<pos, unsure>>

LEMMA HandleTurns ==
  ASSUME IInv, NEW j \in Joints, Handle(j)
  PROVE  Turns(j)
<1>1. stage \in [Joints -> Stages]
  BY DEF IInv, Working
<1>2. CASE HandleSearch(j)
  BY <1>1, <1>2 DEF HandleSearch, At, Skip, Send, Enter, Turns, To, SameCounter
<1>3. CASE HandleAtLimit(j)
  <2>1. /\ stage[j] = "AT_LIMIT" /\ pc' = "push" /\ SameCounter
        /\ stage'[j] = IF LatchesInward(j) THEN "BACKOFF" ELSE "RELEASE"
    BY <1>1, <1>3 DEF HandleAtLimit, At, Send, SameCounter
  <2> QED BY <2>1 DEF Turns, To
<1>4. CASE HandleBackoff(j)
  BY <1>1, <1>4 DEF HandleBackoff, At, Skip, Send, Turns, To, SameCounter
<1>5. CASE HandleRelease(j)
  BY <1>1, <1>5 DEF HandleRelease, At, Skip, SetHome, Enter, Turns, To, SameCounter
<1>6. CASE HandleLatch(j)
  BY <1>1, <1>6 DEF HandleLatch, At, Skip, SetHome, Enter, Turns, To, SameCounter
<1>7. CASE HandlePreFinal(j)
  BY <1>1, <1>7 DEF HandlePreFinal, At, Enter, Turns, To
<1> QED BY <1>2, <1>3, <1>4, <1>5, <1>6, <1>7 DEF Handle

\* What does not move a joint, and does not come to know more joints, keeps the bounds.
LEMMA StillBounded ==
  ASSUME IInv, Bounded, NEW j \in Joints, Known(j), phys'[j] = phys[j], pv'[j] = pv[j]
  PROVE  Ends(Depth(j)', Into(j, pv'[j])) <= Reach(j)
<1>1. Ends(Depth(j), Into(j, pv[j])) <= Reach(j)
  BY DEF Bounded, Known
<1>2. Depth(j)' = Depth(j)
  BY DEF Depth
<1> QED BY <1>1, <1>2

\* A joint at rest short of its switch is within them.
LEMMA RestBounded ==
  ASSUME IInv, NEW j \in Joints, wiring[j] = "good", pv[j] = 0, Side(j) \notin Contacts(j),
         phys'[j] = phys[j], pv'[j] = pv[j]
  PROVE  Ends(Depth(j)', Into(j, pv'[j])) <= Reach(j)
<1>1. Depth(j) \in Int /\ Depth(j) < 0
  BY GoodContacts
<1>2. Depth(j)' = Depth(j) /\ Into(j, pv'[j]) = 0
  BY NaNFacts DEF Depth
<1>3. Ends(Depth(j), 0) = 2 * Depth(j) /\ Reach(j) \in Nat
  BY <1>1, EndsFacts, ReachFacts
<1> HIDE DEF Depth, Reach, Into
<1> QED BY <1>1, <1>2, <1>3

LEMMA InitKept == Init => Bounded /\ Inside
<1> SUFFICES ASSUME Init PROVE Bounded /\ Inside
  OBVIOUS
<1>1. Waiting = {} /\ active = "Idle" /\ \A j \in Joints : pv[j] = 0 /\ phys[j] \in 0 .. Stroke
  BY WaitingNone, InputsAssumption DEF Init, None
<1>2. ASSUME NEW j \in Joints PROVE Ends(Depth(j), Into(j, pv[j])) <= Reach(j)
  <2>1. Stroke \in Int /\ SearchVel[j] \in Int /\ Reach(j) \in Nat
    BY SpeedFacts, ReachFacts
  <2>2. Depth(j) \in Int /\ Depth(j) <= 0
    BY <1>1, <2>1 DEF Depth, DepthOf
  <2>3. Into(j, pv[j]) = 0 /\ Ends(Depth(j), 0) = 2 * Depth(j)
    BY <1>1, <2>2, NaNFacts, EndsFacts
  <2> HIDE DEF Depth, Into, Reach
  <2> QED BY <2>1, <2>2, <2>3
<1> QED BY <1>1, <1>2 DEF Bounded, Inside

LEMMA ThreadKept ==
  ASSUME Base, Poised, Bounded, Inside,
         \/ HomingBegin \/ MoveBegin \/ SequenceBegin \/ HomingDone \/ Push \/ Check \/ Snapshot
         \/ StopCall \/ StopClear
  PROVE  Bounded' /\ Inside'
<1>0. IInv /\ Queued /\ UNCHANGED <<phys, pv, togo, active, wiring>>
  BY DEF Base, IInv, HomingBegin, MoveBegin, SequenceBegin, HomingDone, Push, Check, Snapshot,
     StopCall, StopClear, motion, motorVars, plantVars, machineVars
<1>1. /\ \A j \in Joints : Known(j)' => Known(j)
      /\ \A j \in Joints : j \in unsure => j \in unsure'
  <2>1. CASE HomingBegin
    <3>1. pc' = "sequence" /\ unsure' = IF overlap' THEN Joints ELSE unsure
      BY <2>1 DEF HomingBegin
    <3> QED BY <1>0, <3>1 DEF Known
  <2>2. CASE SequenceBegin
    <3>1. /\ UNCHANGED <<overlap, unsure>>
          /\ \A j \in Joints : stage'[j] # "LATCH"
      BY <2>2 DEF SequenceBegin, historyVars
    <3> QED BY <1>0, <3>1 DEF Known
  <2>3. CASE MoveBegin \/ HomingDone \/ Push \/ Check \/ Snapshot \/ StopCall \/ StopClear
    <3>1. /\ UNCHANGED <<overlap, unsure, stage>>
          /\ pc' = pc \/ pc' \in {"ready", "sequence"} \/ pc \notin {"ready", "sequence"}
      BY <2>3 DEF MoveBegin, HomingDone, Push, Check, Snapshot, StopCall, StopClear,
         historyVars, homingVars
    <3> QED BY <1>0, <3>1 DEF Known
  <2> QED BY <2>1, <2>2, <2>3
<1>2. Bounded'
  <2> SUFFICES ASSUME NEW j \in Joints, Known(j)'
               PROVE  Ends(Depth(j)', Into(j, pv'[j])) <= Reach(j)
    BY DEF Bounded, Known, Reach, Depth
  <2> QED BY <1>0, <1>1, StillBounded
<1>3. \A j \in Joints : Ahead(j)' = Ahead(j)
  BY <1>0 DEF Ahead
<1>4. CASE MoveBegin
  <2>1. PICK m \in Moves : Fits(m) /\ queue' = <<[mode |-> "Positional", v |-> m]>>
    BY <1>4 DEF MoveBegin
  <2>2. \A b \in Waiting' : b.v = m
    BY <2>1, WaitingAlone
  <2> QED BY <1>0, <1>1, <1>2, <1>3, <2>1, <2>2 DEF Inside, Fits
<1>5. CASE ~MoveBegin
  <2>1. \A b \in Waiting' : b \in Waiting \/ b.mode # "Positional"
    <3>1. CASE HomingBegin \/ SequenceBegin \/ HomingDone \/ Check \/ Snapshot
      BY <3>1 DEF HomingBegin, SequenceBegin, HomingDone, Check, Snapshot, Waiting
    <3>2. CASE Push
      <4> DEFINE b0 == [mode |-> "Velocity", v |-> block]
      <4>1. b0 \in Blocks /\ b0.mode = "Velocity" /\ queue' = Append(queue, b0)
        BY <1>0, <3>2 DEF Push, IInv, Working, Blocks, Modes
      <4> HIDE DEF b0
      <4> QED BY <1>0, <4>1, WaitingAppend
    <3>3. CASE StopCall
      BY <3>3, WaitingAlone DEF StopCall, EmergencyStop
    <3>4. CASE StopClear
      BY <1>0, <3>4, WaitingAppend, StopBlocks DEF StopClear
    <3> QED BY <1>5, <3>1, <3>2, <3>3, <3>4
  <2> QED BY <1>0, <1>1, <1>2, <1>3, <2>1 DEF Inside
<1> QED BY <1>4, <1>5

LEMMA LookKept ==
  ASSUME Base, Poised, Bounded, Inside, NEW j \in Joints, Look(j), Sends(j), Turns(j)
  PROVE  Bounded' /\ Inside'
<1>0. /\ IInv /\ UNCHANGED <<phys, pv, togo, active, wiring, overlap>>
      /\ pc = "handle" /\ todo = j
      /\ unsure' = unsure \/ (~overlap /\ unsure' = unsure \ {j})
      /\ \A k \in Joints \ {j} : stage'[k] = stage[k]
  BY DEF Look, Base
<1>1. ASSUME NEW k \in Joints, Known(k)' PROVE Ends(Depth(k)', Into(k, pv'[k])) <= Reach(k)
  <2>1. CASE Known(k)
    BY <1>0, <2>1, StillBounded
  <2>2. CASE ~Known(k)
    <3>1. k = j /\ ~overlap /\ wiring[j] = "good" /\ stage[j] # "LATCH"
      BY <1>0, <1>1, <2>2 DEF Known
    <3>2. \/ To(j, "BACKOFF", "LATCH") /\ pc' = "push"
          \/ To(j, "RELEASE", "PRE_FINAL") /\ seen[j].limit = {} /\ seen[j].stopped
      BY <1>0, <1>1, <2>2, <3>1 DEF Turns, To, Known, SameCounter
    <3>3. seen[j].stopped /\ seen[j].limit = {} /\ j >= todo
      BY <1>0, <3>2, JointsFacts DEF Sends, Aims, SeenOpen, To
    <3>4. pv[j] = 0 /\ Contacts(j) = {}
      BY <1>0, <3>1, <3>3, SeenRests DEF Base, Polled
    <3> QED BY <1>0, <3>1, <3>4, RestBounded
  <2> QED BY <2>1, <2>2
<1>2. Bounded'
  BY <1>1 DEF Bounded, Known, Reach, Depth
<1>3. \A b \in Waiting' : b \in Waiting \/ b.mode # "Positional"
  BY StopOrNotWaiting DEF Look, StopModes, Base
<1>4. Inside'
  <2>1. CASE overlap
    <3>1. unsure' = unsure
      BY <1>0, <2>1
    <3> QED BY <1>0, <1>3, <3>1 DEF Inside, Ahead
  <2>2. CASE ~overlap
    BY <1>0, <1>3, <2>2 DEF Base, Alone, NoMove, Inside
  <2> QED BY <2>1, <2>2
<1> QED BY <1>2, <1>4

LEMMA NextKept == Base /\ Poised /\ Bounded /\ Inside /\ [Next]_vars => Bounded' /\ Inside'
<1> SUFFICES ASSUME Base, Poised, Bounded, Inside, [Next]_vars PROVE Bounded' /\ Inside'
  OBVIOUS
<1>1. CASE EndstopPoll \/ StepperStep
  BY <1>1, PlantKept
<1>2. CASE \/ HomingBegin \/ MoveBegin \/ SequenceBegin \/ HomingDone \/ Push \/ Check \/ Snapshot
           \/ StopCall \/ StopClear
  BY <1>2, ThreadKept
<1>3. ASSUME NEW j \in Joints, Handle(j) PROVE Bounded' /\ Inside'
  <2>1. Look(j) /\ Sends(j) /\ Turns(j)
    BY <1>3, HandleLooks, HandleSends, HandleTurns DEF Base
  <2> QED BY <2>1, LookKept
<1>4. CASE UNCHANGED vars
  <2>1. UNCHANGED <<phys, pv, togo, active, wiring, overlap, unsure, queue, pc, stage>>
    BY <1>4 DEF vars, motorVars, plantVars, machineVars, historyVars, homingVars
  <2> QED BY <2>1 DEF Bounded, Inside, Depth, Reach, Ahead, Waiting
<1> QED BY <1>1, <1>2, <1>3, <1>4 DEF Next, HomingStep

LEMMA BoundedRespects == IInv /\ Bounded => SwitchRespected
<1> SUFFICES ASSUME IInv, Bounded, NEW j \in Joints, j \notin unsure, wiring[j] = "good"
             PROVE  IF Side(j) = "Min" THEN phys[j] >= -StopDistance(j)
                                       ELSE phys[j] <= Stroke + StopDistance(j)
  BY DEF SwitchRespected
<1>1. phys[j] \in Int /\ pv[j] \in Int /\ Stroke \in Int /\ SearchVel[j] \in Int /\ Reach(j) \in Nat
  BY SpeedFacts, ReachFacts DEF IInv, Machine, Motors
<1>2. Depth(j) \in Int /\ Into(j, pv[j]) \in Int
  BY <1>1, DepthFacts DEF Depth
<1>3. Ends(Depth(j), Into(j, pv[j])) <= Reach(j)
  BY DEF Bounded
<1>4. 2 * Depth(j) <= Ends(Depth(j), Into(j, pv[j])) /\ Ends(Depth(j), Into(j, pv[j])) \in Int
  BY <1>2, EndsFacts
<1>5. StopDistance(j) = Reach(j) \div 2
  BY DEF StopDistance, Reach, Fast
<1> HIDE DEF Reach, Depth, Into
<1>6. Depth(j) <= StopDistance(j) /\ StopDistance(j) \in Int
  <2>1. 2 * Depth(j) <= Reach(j)
    BY <1>1, <1>2, <1>3, <1>4
  <2>2. \A x \in Nat : \A d \in Int : 2 * d <= x => d <= x \div 2 /\ x \div 2 \in Int
    OBVIOUS
  <2> HIDE DEF StopDistance
  <2> QED BY <1>1, <1>2, <1>5, <2>1, <2>2
<1> HIDE DEF StopDistance
<1> QED BY <1>1, <1>6 DEF Depth, DepthOf, Side

\* A joint homing drives into its switch is stopped by it, at most as far past it as
\* it takes to slow down from the search speed: for every machine whose joints have
\* the room (HomeAssumption), whatever homings, moves and stops come before.  A block
\* towards the switch is sent, and fetched, only while the switch was open when the
\* joint's limits were last set anew (homing.h:114, 149), so the change that closes
\* it cannot be missed.
THEOREM SwitchesStop == Spec => []SwitchRespected
<1>1. Init => Base /\ Poised /\ Bounded /\ Inside
  BY InitBase, InitPoised, InitKept
<1>2. Base /\ Poised /\ Bounded /\ Inside /\ [Next]_vars => (Base /\ Poised /\ Bounded /\ Inside)'
  BY NextBase, NextPoised, NextKept
<1>3. Base /\ Bounded => SwitchRespected
  BY BoundedRespects DEF Base
<1> QED BY <1>1, <1>2, <1>3, PTL DEF Spec

-----------------------------------------------------------------------------
(* The legs of homing: in each stage a joint is driven one way, at one speed.    *)

Underway == ~overlap /\ pc \notin {"ready", "sequence"}
LegSpeed(j) ==
  CASE stage[j] = "SEARCH"  -> Fast(j)
    [] stage[j] = "BACKOFF" -> -Fast(j)
    [] stage[j] = "RELEASE" -> -Slow(j)
    [] stage[j] = "LATCH"   -> Slow(j)
    [] OTHER -> 0
Between(u, s) == (0 <= u /\ u <= s) \/ (s <= u /\ u <= 0)
Leg(j, s) ==
  /\ Between(Into(j, pv[j]), s)
  /\ \A x \in Speeds(j) : x = NaN \/ Into(j, x) \in {0, s}
Legs ==
  Underway =>
    \A j \in Joints :
      /\ Leg(j, LegSpeed(j))
      /\ stage[j] \in {"BACKOFF", "LATCH"} => LatchesInward(j)
      /\ stage[j] = "RELEASE" => ~LatchesInward(j)

LEMMA LegTypes ==
  ASSUME IInv, NEW j \in Joints
  PROVE  /\ LegSpeed(j) \in Int /\ Fast(j) \in Nat /\ Slow(j) \in Nat
         /\ stage[j] \in Parking => LegSpeed(j) = 0
  BY SpeedFacts DEF LegSpeed, Parking

LEMMA BetweenFacts ==
  /\ \A s \in Int : Between(0, s)
  /\ \A s, u, g \in Int : Between(u, s) /\ g \in {0, s} => Between(Toward(u, g), s)
  BY DEF Between, Toward

\* A joint that rests is on no leg and at the start of any.
LEMMA RestLeg ==
  ASSUME NEW j \in Joints, NEW s \in Int, NEW x, pv'[j] = 0, sv'[j] = 0,
         \A y \in Coming(j)' : y \in {NaN, 0, x}, x = NaN \/ Into(j, x) \in {0, s}
  PROVE  Leg(j, s)'
<1>1. Into(j, pv'[j]) = 0 /\ Between(0, s)
  BY NaNFacts, BetweenFacts
<1>2. \A y \in Speeds(j)' : y \in {NaN, 0, x}
  BY DEF Speeds
<1>3. \A y \in Speeds(j)' : y = NaN \/ Into(j, y) \in {0, s}
  BY <1>2, NaNFacts
<1> QED BY <1>1, <1>3 DEF Leg

LEMMA PlantLegs ==
  ASSUME Base, Legs, EndstopPoll \/ StepperStep
  PROVE  Legs'
<1>0. IInv /\ UNCHANGED <<pc, block, stage, overlap>>
  BY DEF EndstopPoll, StepperStep, FetchVelocity, FetchOther, TickVelocity, TickPositional,
         TickIdle, homingVars, historyVars, Base
<1> SUFFICES ASSUME Underway, NEW j \in Joints, Leg(j, LegSpeed(j)) PROVE Leg(j, LegSpeed(j))'
  BY <1>0 DEF Legs, Underway
<1>1. LegSpeed(j)' = LegSpeed(j) /\ LegSpeed(j) \in Int
  BY <1>0, LegTypes DEF LegSpeed
<1>2. pv[j] \in Int /\ sv[j] \in Int /\ NaN \notin Int /\ Into(j, 0) = 0 /\ Between(0, LegSpeed(j))
  BY <1>0, <1>1, NaNFacts, BetweenFacts DEF IInv, Motors
<1>3. Into(j, sv[j]) \in {0, LegSpeed(j)}
  BY <1>2 DEF Leg, Speeds
<1>4. CASE EndstopPoll \/ TickPositional \/ TickIdle
  <2>1. UNCHANGED <<pv, sv, queue>>
    BY <1>4 DEF EndstopPoll, TickPositional, TickIdle, motorVars
  <2>2. Speeds(j)' = Speeds(j)
    BY <1>0, <2>1, ComingSame DEF Speeds
  <2> QED BY <1>1, <2>1, <2>2 DEF Leg
<1>5. CASE FetchVelocity \/ FetchOther
  <2>1. Waiting' \subseteq Waiting /\ Head(queue) \in Waiting
    BY <1>0, <1>5, WaitingTail DEF FetchVelocity, FetchOther, MayFetch, IInv
  <2>2. Coming(j)' \subseteq Coming(j)
    BY <1>0, <2>1 DEF Coming, Blocking
  <2>3. pv'[j] = pv[j] \/ pv'[j] = 0
    BY <1>5 DEF FetchVelocity, FetchOther, None
  <2>4. sv'[j] = 0 \/ sv'[j] \in Speeds(j)
    <3>1. CASE FetchOther
      BY <3>1 DEF FetchOther, None
    <3>2. CASE FetchVelocity
      <4>1. Head(queue).v[j] \in Coming(j)
        BY <2>1, <3>2 DEF FetchVelocity, Coming
      <4> QED BY <3>2, <4>1 DEF FetchVelocity, SetSpeed, Speeds
    <3> QED BY <1>5, <3>1, <3>2
  <2>5. Between(Into(j, pv'[j]), LegSpeed(j))
    BY <1>2, <2>3 DEF Leg
  <2>6. \A x \in Speeds(j)' : x = 0 \/ x \in Speeds(j)
    BY <2>2, <2>4 DEF Speeds
  <2> QED BY <1>1, <1>2, <2>5, <2>6 DEF Leg
<1>6. CASE TickVelocity
  <2>1. pv'[j] = Toward(pv[j], Goal(j)) /\ sv'[j] = Goal(j) /\ queue' = queue
    BY <1>0, <1>6, TickFacts
  <2>2. Goal(j) \in {0, sv[j]} /\ Goal(j) \in Int
    BY <1>2 DEF Goal
  <2>3. Into(j, Goal(j)) \in {0, LegSpeed(j)} /\ Into(j, pv[j]) \in Int
    BY <1>2, <1>3, <2>2, DepthFacts
  <2>4. Into(j, pv'[j]) = Toward(Into(j, pv[j]), Into(j, Goal(j)))
    BY <1>2, <2>1, <2>2, IntoToward
  <2>5. Between(Into(j, pv'[j]), LegSpeed(j))
    <3>1. Between(Into(j, pv[j]), LegSpeed(j)) /\ Into(j, Goal(j)) \in Int
      BY <1>2, <2>2, DepthFacts DEF Leg
    <3> QED BY <1>1, <2>3, <2>4, <3>1, BetweenFacts
  <2>6. Speeds(j)' \subseteq Coming(j) \cup {Goal(j)}
    BY <1>0, <2>1, ComingSame DEF Speeds
  <2>7. \A x \in Speeds(j)' : x = NaN \/ Into(j, x) \in {0, LegSpeed(j)}
    BY <2>3, <2>6 DEF Leg, Speeds
  <2> QED BY <1>1, <2>5, <2>7 DEF Leg
<1> QED BY <1>4, <1>5, <1>6 DEF StepperStep

LEMMA ThreadLegs ==
  ASSUME Base, Legs,
         \/ HomingBegin \/ MoveBegin \/ SequenceBegin \/ HomingDone \/ Push \/ Check \/ Snapshot
         \/ StopCall \/ StopClear
  PROVE  Legs'
<1>0. IInv /\ UNCHANGED <<pv, sv>>
  BY DEF Base, HomingBegin, MoveBegin, SequenceBegin, HomingDone, Push, Check, Snapshot,
     StopCall, StopClear, motion, motorVars
<1>1. CASE HomingBegin \/ MoveBegin \/ HomingDone
  <2>1. pc' \in {"ready", "sequence"}
    BY <1>1 DEF HomingBegin, MoveBegin, HomingDone
  <2> QED BY <2>1 DEF Legs, Underway
<1>2. CASE Push \/ Check \/ Snapshot \/ StopCall \/ StopClear
  <2>1. UNCHANGED <<stage, overlap>> /\ (pc' \in {"ready", "sequence"} \/ pc \notin {"ready", "sequence"})
    BY <1>2 DEF Push, Check, Snapshot, StopCall, StopClear, historyVars, homingVars
  <2>2. ASSUME NEW j \in Joints PROVE Coming(j)' \subseteq Coming(j)
    <3>1. CASE Push
      BY <1>0, <3>1, PushComing
    <3>2. CASE Check \/ Snapshot
      BY <3>2 DEF Check, Snapshot, Coming, Waiting, Blocking
    <3>3. CASE StopCall \/ StopClear
      <4>1. \A b \in Waiting' : b \in Waiting \/ b.mode # "Velocity"
        <5>1. CASE StopCall
          BY <5>1, WaitingAlone DEF StopCall, EmergencyStop
        <5>2. CASE StopClear
          BY <1>0, <5>2, WaitingAppend, StopBlocks DEF StopClear, IInv
        <5> QED BY <3>3, <5>1, <5>2
      <4>2. UNCHANGED <<pc, block>>
        BY <3>3 DEF StopCall, StopClear, homingVars
      <4> QED BY <4>1, <4>2, ComingFewer
    <3> QED BY <1>2, <3>1, <3>2, <3>3
  <2>3. \A j \in Joints : Speeds(j)' \subseteq Speeds(j)
    BY <1>0, <2>2 DEF Speeds
  <2>4. \A j \in Joints : LegSpeed(j)' = LegSpeed(j)
    BY <2>1 DEF LegSpeed
  <2> QED BY <1>0, <2>1, <2>3, <2>4 DEF Legs, Underway, Leg
<1>3. CASE SequenceBegin
  <2>1. /\ pc = "sequence" /\ overlap' = overlap /\ queue' = queue
        /\ stage' = [j \in Joints |-> IF j \notin Group THEN "NONE"
                                      ELSE IF AtLimit(j) THEN "AT_LIMIT" ELSE "SEARCH"]
        /\ pc' \in {"sequence", "first"}
        /\ pc' = "first" =>
             block' = [j \in Joints |-> IF stage'[j] = "SEARCH" THEN SearchVel[j] ELSE 0]
    BY <1>3 DEF SequenceBegin, historyVars
  <2> SUFFICES ASSUME ~overlap, pc' = "first", NEW j \in Joints
               PROVE  Leg(j, LegSpeed(j))' /\ stage'[j] \notin {"BACKOFF", "LATCH", "RELEASE"}
    BY <2>1 DEF Legs, Underway
  <2>2. pv[j] = 0 /\ sv[j] = 0 /\ \A b \in Waiting : b.mode # "Velocity"
    BY <2>1 DEF Base, Ordered, OfThisPass, Quiet, Watched, Parks, Rest
  <2>3. Coming(j)' = {block'[j]}
    BY <2>1, <2>2 DEF Coming, Blocking, Waiting
  <2>4. block'[j] = 0 \/ (block'[j] = SearchVel[j] /\ stage'[j] = "SEARCH")
    BY <2>1
  <2>5. LegSpeed(j)' \in Int /\ (stage'[j] = "SEARCH" => LegSpeed(j)' = Fast(j))
    BY SpeedFacts DEF LegSpeed
  <2>6. block'[j] = NaN \/ Into(j, block'[j]) \in {0, LegSpeed(j)'}
    BY <2>4, <2>5, SpeedFacts, NaNFacts
  <2>7. PICK s \in Int : s = LegSpeed(j)'
    BY <2>5
  <2>8. PICK x : x = block'[j]
    OBVIOUS
  <2>9. Leg(j, s)'
    BY <1>0, <2>2, <2>3, <2>6, <2>7, <2>8, RestLeg
  <2>10. stage'[j] \notin {"BACKOFF", "LATCH", "RELEASE"}
    BY <2>1
  <2> QED BY <2>7, <2>9, <2>10 DEF Leg
<1> QED BY <1>1, <1>2, <1>3

LEMMA LookLegs ==
  ASSUME Base, Legs, NEW j \in Joints, Look(j), Sends(j), Turns(j)
  PROVE  Legs'
<1>0. /\ IInv /\ UNCHANGED <<pv, sv, overlap>> /\ pc = "handle" /\ todo = j
      /\ \A k \in Joints \ {j} : stage'[k] = stage[k]
  BY DEF Look, Base
<1> SUFFICES ASSUME ~overlap, pc' # "ready"
             PROVE  \A k \in Joints :
                      /\ Leg(k, LegSpeed(k))'
                      /\ stage'[k] \in {"BACKOFF", "LATCH"} => LatchesInward(k)
                      /\ stage'[k] = "RELEASE" => ~LatchesInward(k)
  BY <1>0 DEF Legs, Underway
<1>1. /\ \A k \in Joints : /\ Leg(k, LegSpeed(k))
                           /\ stage[k] \in {"BACKOFF", "LATCH"} => LatchesInward(k)
                           /\ stage[k] = "RELEASE" => ~LatchesInward(k)
      /\ \A b \in Waiting' : b \in Waiting \/ b.mode # "Velocity"
  BY <1>0, StopOrNotWaiting DEF Legs, Underway, Look, StopModes
<1>2. ASSUME NEW k \in Joints
      PROVE  Coming(k)' \subseteq Coming(k) \cup {block'[k]} /\ (pc' # "push" => Coming(k)' \subseteq Coming(k))
  <2>1. pc' # "push" => ~Blocking'
    BY <1>0 DEF Look, LookSends, Blocking
  <2> QED BY <1>1, <2>1, ComingWith, ComingFewer
<1>3. ASSUME NEW k \in Joints, stage'[k] = stage[k], pc' # "push" \/ k # j
      PROVE  Leg(k, LegSpeed(k))'
  <2>1. LegSpeed(k)' = LegSpeed(k)
    BY <1>3 DEF LegSpeed
  <2>2. \A x \in Speeds(k)' : x = NaN \/ x \in Speeds(k)
    BY <1>0, <1>2, <1>3 DEF Speeds, Sends
  <2> QED BY <1>0, <1>1, <2>1, <2>2 DEF Leg
<1>4. CASE pc' # "push"
  <2>1. CASE stage' = stage
    BY <1>1, <1>3, <1>4, <2>1
  <2>2. CASE stage' # stage
    <3>1. /\ stage'[j] \in {"AT_LIMIT", "PRE_FINAL", "FINAL"}
          /\ seen[j].stopped \/ stage[j] = "PRE_FINAL"
      BY <1>4, <2>2 DEF Turns, To
    <3>2. Rest(j)
      <4>1. j >= todo
        BY <1>0, JointsFacts
      <4> QED BY <1>0, <3>1, <4>1, SeenRests DEF Base, Quiet, Watched, Parks, Parking
    <3>3. pv'[j] = 0 /\ sv'[j] = 0 /\ \A x \in Coming(j)' : x \in {NaN, 0}
      BY <1>0, <1>2, <1>4, <3>2 DEF Rest, Coming, Blocking
    <3>4. LegSpeed(j)' = 0
      BY <3>1 DEF LegSpeed
    <3>5. Leg(j, 0)'
      <4>1. \A y \in Coming(j)' : y \in {NaN, 0, 0}
        BY <3>3
      <4>2. Into(j, 0) \in {0, 0}
        BY NaNFacts
      <4> QED BY <3>3, <4>1, <4>2, RestLeg
    <3>6. Leg(j, LegSpeed(j))'
      BY <3>4, <3>5 DEF Leg
    <3> QED BY <1>0, <1>1, <1>3, <1>4, <3>1, <3>6
  <2> QED BY <2>1, <2>2
<1>5. CASE pc' = "push"
  <2>1. Aims(j) /\ block'[j] \in Int
    BY <1>5 DEF Sends
  <2>2. Rest(j)
    BY <1>0, <2>1, AimRests
  <2>3. /\ stage'[j] \in {"BACKOFF", "LATCH"} => LatchesInward(j)
        /\ stage'[j] = "RELEASE" => ~LatchesInward(j)
        /\ Into(j, block'[j]) = LegSpeed(j)' /\ LegSpeed(j)' \in Int
    BY <1>1, <2>1, SpeedFacts DEF Aims, LegSpeed
  <2>4. \A y \in Coming(j)' : y \in {NaN, 0, block'[j]}
    BY <1>0, <1>2, <2>2 DEF Rest, Coming, Blocking
  <2>5. Leg(j, LegSpeed(j))'
    <3>1. PICK s \in Int : s = LegSpeed(j)'
      BY <2>3
    <3>2. PICK x : x = block'[j]
      OBVIOUS
    <3>3. Leg(j, s)'
      BY <1>0, <2>2, <2>3, <2>4, <3>1, <3>2, RestLeg DEF Rest
    <3> QED BY <3>1, <3>3 DEF Leg
  <2> QED BY <1>0, <1>1, <1>3, <2>3, <2>5
<1> QED BY <1>4, <1>5

LEMMA InitLegs == Init => Legs
  BY DEF Init, Legs, Underway

LEMMA NextLegs == Base /\ Legs /\ [Next]_vars => Legs'
<1> SUFFICES ASSUME Base, Legs, [Next]_vars PROVE Legs'
  OBVIOUS
<1>1. CASE EndstopPoll \/ StepperStep
  BY <1>1, PlantLegs
<1>2. CASE \/ HomingBegin \/ MoveBegin \/ SequenceBegin \/ HomingDone \/ Push \/ Check \/ Snapshot
           \/ StopCall \/ StopClear
  BY <1>2, ThreadLegs
<1>3. ASSUME NEW j \in Joints, Handle(j) PROVE Legs'
  <2>1. Look(j) /\ Sends(j) /\ Turns(j)
    BY <1>3, HandleLooks, HandleSends, HandleTurns DEF Base
  <2> QED BY <2>1, LookLegs
<1>4. CASE UNCHANGED vars
  <2>1. UNCHANGED <<pv, sv, overlap, pc, block, queue, stage>>
    BY <1>4 DEF vars, motorVars, historyVars, homingVars
  <2>2. \A j \in Joints : Speeds(j)' = Speeds(j) /\ LegSpeed(j)' = LegSpeed(j)
    BY <2>1, ComingSame DEF Speeds, LegSpeed
  <2> QED BY <2>1, <2>2 DEF Legs, Underway, Leg
<1> QED BY <1>1, <1>2, <1>3, <1>4 DEF Next, HomingStep

-----------------------------------------------------------------------------
(* What homing finds: a joint that goes on to its switch has one that works.     *)

LEMMA WiredContacts ==
  ASSUME IInv, NEW j \in Joints
  PROVE  /\ wiring[j] \in {"good", "open", "stuck", "swapped"} /\ Depth(j) \in Int
         /\ wiring[j] = "open" => Side(j) \notin Contacts(j)
         /\ wiring[j] = "stuck" => Side(j) \in Contacts(j)
         /\ wiring[j] = "swapped" =>
              (Side(j) \in Contacts(j) <=> Other(Side(j)) \in Endstops[j] /\ Depth(j) <= -Stroke)
<1>1. /\ wiring[j] \in {"good", "open", "stuck", "swapped"}
      /\ phys[j] \in Int /\ SearchVel[j] \in Int /\ Stroke \in Int
  BY SpeedFacts DEF IInv, Machine
<1>2. Side(j) \in Endstops[j] /\ Endstops[j] \subseteq {"Min", "Max"}
  BY SidesFacts
<1>3. wiring[j] = "open" => Side(j) \notin Contacts(j)
  BY DEF Contacts
<1>4. wiring[j] = "stuck" => Side(j) \in Contacts(j)
  BY DEF Contacts
<1>5. ASSUME wiring[j] = "swapped"
      PROVE  Side(j) \in Contacts(j) <=> Other(Side(j)) \in Endstops[j] /\ Depth(j) <= -Stroke
  <2>1. Contacts(j) = {s \in Endstops[j] :
          Other(s) \in {r \in Endstops[j] : IF r = "Min" THEN phys[j] <= 0 ELSE phys[j] >= Stroke}}
    BY <1>5 DEF Contacts
  <2>2. CASE SearchVel[j] < 0
    <3>1. Side(j) = "Min" /\ Other(Side(j)) = "Max" /\ Depth(j) = -phys[j]
      BY <2>2 DEF Side, Other, Depth, DepthOf
    <3> QED BY <1>1, <1>2, <2>1, <3>1
  <2>3. CASE ~(SearchVel[j] < 0)
    <3>1. Side(j) = "Max" /\ Other(Side(j)) = "Min" /\ Depth(j) = phys[j] - Stroke
      BY <2>3 DEF Side, Other, Depth, DepthOf
    <3> QED BY <1>1, <1>2, <2>1, <3>1
  <2> QED BY <2>2, <2>3
<1>6. Depth(j) \in Int
  BY <1>1, DepthFacts DEF Depth
<1> QED BY <1>1, <1>3, <1>4, <1>5, <1>6

FoundAt(j) ==
  /\ stage[j] = "SEARCH" =>
       /\ Side(j) \in limit[j] \cup base[j] \cup changed[j] => Side(j) \in Contacts(j)
       /\ wiring[j] = "swapped" => Side(j) \notin Contacts(j)
       /\ pc \in {"handle", "push"} /\ Side(j) \in seen[j].changed => Side(j) \in Contacts(j)
  /\ stage[j] = "AT_LIMIT" => Side(j) \in Contacts(j)
  /\ stage[j] \in {"BACKOFF", "RELEASE"} /\ wiring[j] # "good" => Side(j) \in Contacts(j)
  /\ stage[j] = "LATCH" => wiring[j] = "good"
Found == Underway => \A j \in Joints : FoundAt(j)

LEMMA FoundKept ==
  ASSUME NEW j \in Joints, FoundAt(j), stage'[j] = stage[j], wiring' = wiring,
         Side(j) \in limit'[j] \cup base'[j] \cup changed'[j] =>
           Side(j) \in limit[j] \cup base[j] \cup changed[j] \cup Contacts(j),
         pc' \in {"handle", "push"} /\ Side(j) \in seen'[j].changed =>
           (pc \in {"handle", "push"} /\ Side(j) \in seen[j].changed) \/ Side(j) \in changed[j],
         stage[j] = "SEARCH" =>
           IF wiring[j] = "swapped" THEN Side(j) \in Contacts(j)' => Side(j) \in Contacts(j)
                                    ELSE Side(j) \in Contacts(j) => Side(j) \in Contacts(j)',
         stage[j] = "AT_LIMIT" \/ (stage[j] \in {"BACKOFF", "RELEASE"} /\ wiring[j] # "good") =>
           (Side(j) \in Contacts(j) => Side(j) \in Contacts(j)')
  PROVE  FoundAt(j)'
  BY DEF FoundAt

\* A tick of a joint on its leg.
LEMMA LegTick ==
  ASSUME Base, Legs, Underway, TickVelocity, NEW j \in Joints
  PROVE  /\ Between(Into(j, pv'[j]), LegSpeed(j)) /\ Into(j, pv'[j]) \in Int
         /\ Into(j, pv'[j]) = Toward(Into(j, pv[j]), Into(j, Goal(j)))
         /\ Into(j, Goal(j)) \in {0, LegSpeed(j)} /\ Into(j, pv[j]) \in Int
         /\ Between(Into(j, pv[j]), LegSpeed(j)) /\ Depth(j) \in Int
         /\ Depth(j)' = Depth(j) + Into(j, pv'[j])
<1>0. IInv /\ Leg(j, LegSpeed(j)) /\ LegSpeed(j) \in Int
  BY LegTypes DEF Base, Legs
<1>1. pv[j] \in Int /\ sv[j] \in Int /\ phys[j] \in Int /\ Goal(j) \in Int /\ NaN \notin Int
  BY <1>0, NaNFacts DEF IInv, Motors, Machine, Goal
<1>2. pv'[j] = Toward(pv[j], Goal(j)) /\ phys'[j] = phys[j] + pv'[j]
  BY <1>0, TickFacts
<1>3. pv'[j] \in Int
  BY <1>1, <1>2, TowardType
<1>4. /\ Into(j, pv[j]) \in Int /\ Into(j, Goal(j)) \in Int /\ Into(j, pv'[j]) \in Int
      /\ Depth(j) \in Int
  BY <1>1, <1>3, DepthFacts DEF Depth
<1>5. Into(j, pv'[j]) = Toward(Into(j, pv[j]), Into(j, Goal(j)))
  BY <1>1, <1>2, IntoToward
<1>6. Into(j, Goal(j)) \in {0, LegSpeed(j)}
  <2>1. Into(j, sv[j]) \in {0, LegSpeed(j)} /\ Into(j, 0) = 0
    BY <1>0, <1>1, NaNFacts DEF Leg, Speeds
  <2> QED BY <2>1 DEF Goal
<1>7. Between(Into(j, pv[j]), LegSpeed(j))
  BY <1>0 DEF Leg
<1>8. Between(Into(j, pv'[j]), LegSpeed(j))
  BY <1>0, <1>4, <1>5, <1>6, <1>7, BetweenFacts
<1>9. Depth(j)' = Depth(j) + Into(j, pv'[j])
  <2>1. Depth(j)' = DepthOf(j, phys[j] + pv'[j])
    BY <1>2 DEF Depth
  <2>2. DepthOf(j, phys[j] + pv'[j]) = DepthOf(j, phys[j]) + Into(j, pv'[j])
    BY <1>1, <1>3, DepthFacts
  <2> QED BY <2>1, <2>2 DEF Depth
<1> QED BY <1>4, <1>5, <1>6, <1>7, <1>8, <1>9

\* When the switches of a joint are closed, by their wiring.
Closes(j) ==
  /\ wiring[j] \in {"good", "open", "stuck", "swapped"} /\ Depth(j) \in Int
  /\ wiring[j] = "good" =>
       /\ Side(j) \in Contacts(j) <=> Depth(j) >= 0
       /\ Other(Side(j)) \in Contacts(j) <=> Other(Side(j)) \in Endstops[j] /\ Depth(j) <= -Stroke
       /\ Contacts(j) \subseteq {Side(j), Other(Side(j))}
  /\ wiring[j] = "open" => Side(j) \notin Contacts(j)
  /\ wiring[j] = "stuck" => Side(j) \in Contacts(j)
  /\ wiring[j] = "swapped" =>
       (Side(j) \in Contacts(j) <=> Other(Side(j)) \in Endstops[j] /\ Depth(j) <= -Stroke)

LEMMA ClosesNow == IInv => \A j \in Joints : Closes(j)
  BY WiredContacts, GoodContacts DEF Closes

LEMMA ClosesThen == IInv' => \A j \in Joints : Closes(j)'
<1>1. (IInv => \A j \in Joints : Closes(j))'
  BY ClosesNow, PTL
<1> QED BY <1>1

\* A tick of a joint on its leg, and its switch.
LEMMA LegContacts ==
  ASSUME Base, Legs, Underway, TickVelocity, NEW j \in Joints
  PROVE  /\ stage[j] \in {"SEARCH", "LATCH"} =>
              IF wiring[j] = "swapped" THEN Side(j) \in Contacts(j)' => Side(j) \in Contacts(j)
                                       ELSE Side(j) \in Contacts(j) => Side(j) \in Contacts(j)'
         /\ stage[j] \in {"BACKOFF", "RELEASE"} /\ wiring[j] # "good" =>
              (Side(j) \in Contacts(j) => Side(j) \in Contacts(j)')
         /\ stage[j] \in Parking => phys'[j] = phys[j] /\ Contacts(j)' = Contacts(j)
<1>0. IInv /\ IInv' /\ wiring' = wiring /\ phys'[j] = phys[j] + pv'[j] /\ Stroke \in Int
  <2>1. IInv /\ IInv' /\ wiring' = wiring
    BY NextInv, TickFacts DEF Base, Next, StepperStep
  <2> QED BY <2>1, TickFacts, SpeedFacts
<1>1. Closes(j) /\ Closes(j)'
  BY <1>0, ClosesNow, ClosesThen
<1>2. /\ Between(Into(j, pv'[j]), LegSpeed(j)) /\ Into(j, pv'[j]) \in Int
      /\ Depth(j)' = Depth(j) + Into(j, pv'[j]) /\ Depth(j) \in Int
  BY LegTick
<1>3. /\ LegSpeed(j) \in Int /\ Fast(j) \in Nat /\ Slow(j) \in Nat
      /\ stage[j] \in Parking => LegSpeed(j) = 0
  BY <1>0, LegTypes
<1> HIDE DEF Into, Fast, Slow, Depth
<1>4. stage[j] \in {"SEARCH", "LATCH"} => Depth(j)' >= Depth(j)
  BY <1>2, <1>3 DEF Between, LegSpeed
<1>5. stage[j] \in {"BACKOFF", "RELEASE"} => Depth(j)' <= Depth(j)
  BY <1>2, <1>3 DEF Between, LegSpeed
<1>6. Depth(j)' \in Int
  BY <1>2
<1>7. ASSUME stage[j] \in Parking PROVE phys'[j] = phys[j] /\ Contacts(j)' = Contacts(j)
  <2>1. Into(j, pv'[j]) <= 0 /\ Into(j, pv'[j]) >= 0
    BY <1>2, <1>3, <1>7 DEF Between
  <2>2. SearchVel[j] \in Int /\ pv'[j] \in Int /\ phys[j] \in Int
    BY <1>0, SpeedFacts DEF IInv, Motors, Machine
  <2>3. pv'[j] = 0
    BY <2>1, <2>2 DEF Into
  <2>4. phys'[j] = phys[j]
    BY <1>0, <2>2, <2>3
  <2> QED BY <1>0, <2>4, ContactsSame
<1>8. ASSUME stage[j] \in {"SEARCH", "LATCH"}
      PROVE  IF wiring[j] = "swapped" THEN Side(j) \in Contacts(j)' => Side(j) \in Contacts(j)
                                      ELSE Side(j) \in Contacts(j) => Side(j) \in Contacts(j)'
  BY <1>0, <1>1, <1>2, <1>4, <1>6, <1>8 DEF Closes
<1>9. ASSUME stage[j] \in {"BACKOFF", "RELEASE"}, wiring[j] # "good"
      PROVE  Side(j) \in Contacts(j) => Side(j) \in Contacts(j)'
  BY <1>0, <1>1, <1>2, <1>5, <1>6, <1>9 DEF Closes
<1> QED BY <1>7, <1>8, <1>9

LEMMA InitFound == Init => Found
  BY DEF Init, Found, Underway

LEMMA PlantFound ==
  ASSUME Base, Legs, Found, EndstopPoll \/ StepperStep
  PROVE  Found'
<1>0. IInv /\ UNCHANGED <<pc, stage, overlap, seen, wiring>>
  BY DEF EndstopPoll, StepperStep, FetchVelocity, FetchOther, TickVelocity, TickPositional,
         TickIdle, homingVars, historyVars, machineVars, Base
<1> SUFFICES ASSUME Underway, NEW j \in Joints, FoundAt(j) PROVE FoundAt(j)'
  BY <1>0 DEF Found, Underway
<1>1. CASE EndstopPoll
  <2>1. /\ limit'[j] = Contacts(j) /\ changed'[j] = changed[j] \cup Delta(base[j], Contacts(j))
        /\ base' = base /\ phys' = phys
    BY <1>1 DEF EndstopPoll, ChangedAfter, plantVars
  <2>2. /\ Contacts(j)' = Contacts(j)
        /\ limit'[j] \cup base'[j] \cup changed'[j]
             \subseteq limit[j] \cup base[j] \cup changed[j] \cup Contacts(j)
    BY <1>0, <2>1, ContactsSame DEF Delta
  <2> QED BY <1>0, <2>2, FoundKept
<1>2. CASE FetchVelocity \/ FetchOther \/ TickIdle
  <2>1. UNCHANGED <<limit, base, changed, phys>>
    BY <1>2 DEF FetchVelocity, FetchOther, TickIdle, switchVars, plantVars
  <2>2. Contacts(j)' = Contacts(j)
    BY <1>0, <2>1, ContactsSame
  <2> QED BY <1>0, <2>1, <2>2, FoundKept
<1>3. CASE TickPositional
  BY <1>3 DEF TickPositional, Base, Alone, NoMove, Underway
<1>4. CASE TickVelocity
  <2>1. /\ limit'[j] = limit[j] /\ base'[j] \in {limit[j], base[j]} /\ changed'[j] \in {{}, changed[j]}
    BY <1>0, <1>4, TickFacts
  <2>2. limit'[j] \cup base'[j] \cup changed'[j] \subseteq limit[j] \cup base[j] \cup changed[j]
    BY <2>1
  <2>3. /\ stage[j] = "SEARCH" =>
             IF wiring[j] = "swapped" THEN Side(j) \in Contacts(j)' => Side(j) \in Contacts(j)
                                      ELSE Side(j) \in Contacts(j) => Side(j) \in Contacts(j)'
        /\ stage[j] = "AT_LIMIT" \/ (stage[j] \in {"BACKOFF", "RELEASE"} /\ wiring[j] # "good") =>
             (Side(j) \in Contacts(j) => Side(j) \in Contacts(j)')
    BY <1>4, LegContacts DEF Parking
  <2> QED BY <1>0, <2>2, <2>3, FoundKept
<1> QED BY <1>1, <1>2, <1>3, <1>4 DEF StepperStep

LEMMA ThreadFound ==
  ASSUME Base, Found,
         \/ HomingBegin \/ MoveBegin \/ SequenceBegin \/ HomingDone \/ Push \/ Check \/ Snapshot
         \/ StopCall \/ StopClear
  PROVE  Found'
<1>0. IInv /\ UNCHANGED <<phys, wiring, limit>>
  BY DEF Base, HomingBegin, MoveBegin, SequenceBegin, HomingDone, Push, Check, Snapshot,
     StopCall, StopClear, motion, plantVars, machineVars, switchVars
<1>1. \A j \in Joints : Contacts(j)' = Contacts(j)
  BY <1>0, ContactsSame
<1>2. CASE HomingBegin \/ MoveBegin \/ HomingDone
  <2>1. pc' \in {"ready", "sequence"}
    BY <1>2 DEF HomingBegin, MoveBegin, HomingDone
  <2> QED BY <2>1 DEF Found, Underway
<1>3. CASE Push \/ Check \/ Snapshot \/ StopCall \/ StopClear
  <2>1. /\ UNCHANGED <<stage, overlap, base, changed>>
        /\ pc' \in {"ready", "sequence"} \/ pc \notin {"ready", "sequence"}
        /\ pc' \in {"handle", "push"} =>
             (pc \in {"handle", "push"} /\ seen' = seen) \/ \A j \in Joints : seen'[j].changed = changed[j]
    BY <1>3 DEF Push, Check, Snapshot, StopCall, StopClear, motion, historyVars, homingVars, switchVars
  <2> SUFFICES ASSUME Underway, NEW j \in Joints, FoundAt(j) PROVE FoundAt(j)'
    BY <2>1 DEF Found, Underway
  <2>2. pc' \in {"handle", "push"} /\ Side(j) \in seen'[j].changed =>
          (pc \in {"handle", "push"} /\ Side(j) \in seen[j].changed) \/ Side(j) \in changed[j]
    BY <2>1
  <2> QED BY <1>0, <1>1, <2>1, <2>2, FoundKept
<1>4. CASE SequenceBegin
  <2>1. /\ pc = "sequence" /\ overlap' = overlap /\ pc' \in {"sequence", "first"}
        /\ stage' = [j \in Joints |-> IF j \notin Group THEN "NONE"
                                      ELSE IF AtLimit(j) THEN "AT_LIMIT" ELSE "SEARCH"]
        /\ base' = [j \in Joints |-> IF j \in Group THEN limit[j] ELSE base[j]]
        /\ changed' = [j \in Joints |-> IF j \in Group THEN {} ELSE changed[j]]
    BY <1>4 DEF SequenceBegin, historyVars
  <2> SUFFICES ASSUME ~overlap, NEW j \in Joints PROVE FoundAt(j)'
    BY <2>1 DEF Found, Underway
  <2>2. limit[j] = Contacts(j)
    BY <2>1 DEF Base, Quiet, Watched, Parks, Polled
  <2>3. CASE j \in Group
    <3>1. /\ stage'[j] = IF Side(j) \in limit[j] THEN "AT_LIMIT" ELSE "SEARCH"
          /\ base'[j] = limit[j] /\ changed'[j] = {}
      BY <2>1, <2>3 DEF AtLimit
    <3> QED BY <1>0, <1>1, <2>1, <2>2, <3>1 DEF FoundAt
  <2>4. CASE j \notin Group
    <3>1. stage'[j] = "NONE"
      BY <2>1, <2>4
    <3> QED BY <3>1 DEF FoundAt
  <2> QED BY <2>3, <2>4
<1> QED BY <1>2, <1>3, <1>4

LEMMA LookFound ==
  ASSUME Base, Found, NEW j \in Joints, Look(j), Sends(j), Turns(j)
  PROVE  Found'
<1>0. /\ IInv /\ UNCHANGED <<phys, wiring, limit, overlap, seen>> /\ pc = "handle" /\ todo = j
      /\ \A k \in Joints \ {j} : stage'[k] = stage[k] /\ base'[k] = base[k] /\ changed'[k] = changed[k]
      /\ pc' \in {"ready", "handle", "push"}
  BY DEF Look, Base, LookSends
<1> SUFFICES ASSUME ~overlap, NEW k \in Joints, FoundAt(k) PROVE FoundAt(k)'
  BY <1>0 DEF Found, Underway
<1>1. Contacts(k)' = Contacts(k) /\ Closes(k)
  BY <1>0, ContactsSame, ClosesNow
<1>2. CASE stage'[k] = stage[k] /\ base'[k] = base[k] /\ changed'[k] = changed[k]
  BY <1>0, <1>1, <1>2, FoundKept
<1>3. CASE ~(stage'[k] = stage[k] /\ base'[k] = base[k] /\ changed'[k] = changed[k])
  <2>1. k = j /\ j >= todo
    BY <1>0, <1>3, JointsFacts
  <2>2. CASE pc' = "push"
    <3>1. Aims(j)
      BY <2>2 DEF Sends
    <3>2. stage[j] # "AT_LIMIT" => Contacts(j) = {}
      BY <1>0, <3>1, AimRests
    <3>3. \/ stage[j] = "AT_LIMIT" /\ stage'[j] \in {"BACKOFF", "RELEASE"}
          \/ stage[j] = "BACKOFF" /\ stage'[j] = "LATCH"
      BY <1>3, <2>1, <3>1 DEF Aims
    <3> QED BY <1>0, <1>1, <2>1, <3>2, <3>3 DEF FoundAt, Closes
  <2>3. CASE pc' # "push"
    <3>1. base' = base /\ changed' = changed
      BY <2>3 DEF Sends
    <3>2. \/ To(j, "SEARCH", "AT_LIMIT") /\ seen[j].stopped /\ SwitchSeen(j)
          \/ stage'[j] \in {"PRE_FINAL", "FINAL"}
      BY <1>3, <2>1, <2>3, <3>1 DEF Turns, To
    <3>3. CASE To(j, "SEARCH", "AT_LIMIT") /\ seen[j].stopped /\ SwitchSeen(j)
      <4>1. seen[j].limit = limit[j] /\ limit[j] = Contacts(j)
        BY <1>0, <2>1, <3>3, SeenRests DEF Base, Polled
      <4>2. Side(j) \in Contacts(j)
        BY <1>0, <2>1, <3>3, <4>1 DEF To, SwitchSeen, FoundAt
      <4> QED BY <1>0, <1>1, <2>1, <3>3, <4>2 DEF FoundAt, To
    <3>4. CASE stage'[j] \in {"PRE_FINAL", "FINAL"}
      BY <2>1, <3>4 DEF FoundAt
    <3> QED BY <3>2, <3>3, <3>4
  <2> QED BY <2>2, <2>3
<1> QED BY <1>2, <1>3

LEMMA NextFound == Base /\ Legs /\ Found /\ [Next]_vars => Found'
<1> SUFFICES ASSUME Base, Legs, Found, [Next]_vars PROVE Found'
  OBVIOUS
<1>1. CASE EndstopPoll \/ StepperStep
  BY <1>1, PlantFound
<1>2. CASE \/ HomingBegin \/ MoveBegin \/ SequenceBegin \/ HomingDone \/ Push \/ Check \/ Snapshot
           \/ StopCall \/ StopClear
  BY <1>2, ThreadFound
<1>3. ASSUME NEW j \in Joints, Handle(j) PROVE Found'
  <2>1. Look(j) /\ Sends(j) /\ Turns(j)
    BY <1>3, HandleLooks, HandleSends, HandleTurns DEF Base
  <2> QED BY <2>1, LookFound
<1>4. CASE UNCHANGED vars
  <2>1. UNCHANGED <<phys, wiring, limit, base, changed, overlap, pc, stage, seen>>
    BY <1>4 DEF vars, switchVars, plantVars, machineVars, historyVars, homingVars
  <2>2. \A j \in Joints : Contacts(j)' = Contacts(j)
    BY <2>1, ContactsSame
  <2> QED BY <2>1, <2>2 DEF Found, FoundAt, Underway
<1> QED BY <1>1, <1>2, <1>3, <1>4 DEF Next, HomingStep

-----------------------------------------------------------------------------
(* Across the edge.  A joint that backs off, releases or latches starts on one    *)
(* side of the edge of its switch, its limits set anew; the first tick that finds *)
(* it on the other side takes the step and has it brake, and nothing turns it     *)
(* round.                                                                         *)

Returning == {"BACKOFF", "RELEASE", "LATCH"}
Top(j) == IF stage[j] = "BACKOFF" THEN Fast(j) ELSE Slow(j)
\* How far a place is past the edge, the way the joint goes; what it does at a tick.
Past(j, x) == IF stage[j] = "LATCH" THEN DepthOf(j, x) ELSE -DepthOf(j, x) - 1
Rate(j) == IF stage[j] = "LATCH" THEN Into(j, pv[j]) ELSE -Into(j, pv[j])
Far(j) == Past(j, phys[j])
\* Where the carriage was at the step taken for the switch.
Met(j) == Past(j, limitStep[j] - (pos[j] - phys[j]))

Crossing(j) ==
  /\ base[j] = (IF stage[j] = "LATCH" THEN {} ELSE {Side(j)}) /\ changed[j] \subseteq {Side(j)}
  /\ changed[j] # {} => Far(j) >= 0
  /\ Far(j) < Top(j)
  /\ Far(j) >= 0 => ~hit[j] /\ ~stopped[j]
  /\ hit[j] => pv[j] = 0
  /\ Other(Side(j)) \notin Contacts(j)
Crossed(j) ==
  /\ base[j] = (IF stage[j] = "LATCH" THEN {Side(j)} ELSE {}) /\ changed[j] = {}
  /\ sv[j] = 0 /\ ~Sent(j)
  /\ Far(j) >= 0
  /\ 2 * Far(j) + 2 + Rate(j) * (Rate(j) - 1) <= Top(j) * (Top(j) + 1)
  /\ Met(j) \in 0 .. Top(j) - 1
Latching ==
  Underway =>
    \A j \in Joints :
      wiring[j] = "good" /\ stage[j] \in Returning => Crossing(j) \/ Crossed(j)

\* A tick that brakes: first past the edge, and after that.
LEMMA BrakeFacts ==
  \A q, w, G \in Int :
    LET b == Toward(w, 0)
    IN  0 <= w /\ w <= G =>
        /\ b \in Int /\ 0 <= b /\ b <= G
        /\ 0 <= q /\ q < G => 2 * (q + b) + 2 + b * (b - 1) <= G * (G + 1)
        /\ 2 * (q + b) + 2 + b * (b - 1) <= 2 * q + 2 + w * (w - 1)
        /\ 0 <= w * (w - 1)
<1> SUFFICES ASSUME NEW q \in Int, NEW w \in Int, NEW G \in Int, 0 <= w, w <= G,
                    NEW b, b = Toward(w, 0)
             PROVE  /\ b \in Int /\ 0 <= b /\ b <= G
                    /\ 0 <= q /\ q < G => 2 * (q + b) + 2 + b * (b - 1) <= G * (G + 1)
                    /\ 2 * (q + b) + 2 + b * (b - 1) <= 2 * q + 2 + w * (w - 1)
                    /\ 0 <= w * (w - 1)
  OBVIOUS
<1>1. CASE w = 0
  <2>1. b = 0 /\ b * (b - 1) = 0 /\ w * (w - 1) = 0
    BY <1>1 DEF Toward
  <2>2. 0 <= q /\ q < G => 2 * q + 2 <= G * (G + 1)
    <3> SUFFICES ASSUME 0 <= q, q < G PROVE 2 * q + 2 <= G * (G + 1)
      OBVIOUS
    <3>1. G * 2 <= G * (G + 1)
      OBVIOUS
    <3>2. G * (G + 1) \in Int /\ 2 * q + 2 <= G * 2
      OBVIOUS
    <3> QED BY <3>1, <3>2
  <2>3. \A z \in Int : z = 0 => 2 * (q + b) + 2 + z <= 2 * q + 2 + z /\ 2 * (q + b) + 2 + z = 2 * q + 2
    BY <2>1
  <2>4. /\ 2 * (q + b) + 2 + b * (b - 1) = 2 * q + 2
        /\ 2 * (q + b) + 2 + b * (b - 1) <= 2 * q + 2 + w * (w - 1)
    BY <2>1, <2>3
  <2>5. 0 <= w * (w - 1) /\ b \in Int /\ 0 <= b /\ b <= G
    BY <1>1, <2>1
  <2>6. 0 <= q /\ q < G => 2 * (q + b) + 2 + b * (b - 1) <= G * (G + 1)
    BY <2>2, <2>4, Zenon
  <2> QED BY <2>4, <2>5, <2>6, Zenon
<1>2. CASE w > 0
  <2>1. b = w - 1 /\ b \in Int /\ 0 <= b
    BY <1>2 DEF Toward
  <2>2. \A x \in Int : (x - 1) * ((x - 1) - 1) = x * (x - 1) - 2 * x + 2
    OBVIOUS
  <2>3. w * (w - 1) <= G * (w - 1) /\ G * (w - 1) <= G * (G - 1) /\ 0 <= w * (w - 1)
    BY <1>2
  <2>4. G * (G - 1) = G * (G + 1) - 2 * G /\ G * (G + 1) \in Int /\ G * (w - 1) \in Int /\ G * (G - 1) \in Int
    OBVIOUS
  <2>5. PICK m \in Int : m = w * (w - 1)
    OBVIOUS
  <2>6. b * (b - 1) = m - 2 * w + 2
    BY <2>1, <2>2, <2>5
  <2>7. PICK n \in Int : n = G * (G + 1)
    OBVIOUS
  <2>8. 0 <= m /\ m <= n - 2 * G
    BY <2>3, <2>4, <2>5, <2>7
  <2>9. 0 <= q /\ q < G => 2 * (q + b) + 2 + b * (b - 1) <= n
    BY <1>2, <2>1, <2>6, <2>7, <2>8
  <2>10. 2 * (q + b) + 2 + b * (b - 1) <= 2 * q + 2 + m
    BY <2>1, <2>6
  <2>11. b \in Int /\ 0 <= b /\ b <= G /\ 0 <= m
    BY <1>2, <2>1, <2>8
  <2>12. 0 <= q /\ q < G => 2 * (q + b) + 2 + b * (b - 1) <= G * (G + 1)
    BY <2>7, <2>9, Zenon
  <2>13. 2 * (q + b) + 2 + b * (b - 1) <= 2 * q + 2 + w * (w - 1) /\ 0 <= w * (w - 1)
    BY <2>5, <2>10, <2>11, Zenon
  <2> QED BY <2>11, <2>12, <2>13, Zenon
<1> QED BY <1>1, <1>2

LEMMA PastTypes ==
  ASSUME IInv, NEW j \in Joints
  PROVE  /\ Far(j) \in Int /\ Rate(j) \in Int /\ Top(j) \in Int /\ 1 <= Top(j) /\ Top(j) < Stroke
         /\ Stroke \in Int /\ Met(j) \in Int /\ Top(j) * (Top(j) + 1) < 2 * Stroke
<1>1. /\ phys[j] \in Int /\ pv[j] \in Int /\ limitStep[j] - (pos[j] - phys[j]) \in Int
  BY DEF IInv, Machine, Motors
<1>2. /\ DepthOf(j, phys[j]) \in Int /\ Into(j, pv[j]) \in Int
      /\ DepthOf(j, limitStep[j] - (pos[j] - phys[j])) \in Int
  BY <1>1, DepthFacts
<1>3. /\ Fast(j) \in Nat /\ Slow(j) \in Nat /\ 1 <= Slow(j) /\ Slow(j) <= Fast(j) /\ Stroke \in Int
      /\ Reach(j) \in Nat /\ Reach(j) < 2 * Stroke
  BY SpeedFacts, ReachFacts
<1> HIDE DEF Fast, Slow, DepthOf, Into
<1>4. Top(j) \in Nat /\ 1 <= Top(j) /\ Top(j) <= Fast(j)
  BY <1>3 DEF Top
<1>5. Top(j) * (Top(j) + 1) <= Reach(j)
  BY <1>3, <1>4, Squares DEF Reach
<1>6. Top(j) * 2 <= Top(j) * (Top(j) + 1) /\ Top(j) * (Top(j) + 1) \in Int
  BY <1>4
<1>7. Top(j) < Stroke /\ Top(j) * (Top(j) + 1) < 2 * Stroke
  <2> HIDE DEF Top, Reach
  <2> QED BY <1>3, <1>4, <1>5, <1>6
<1> QED BY <1>2, <1>3, <1>4, <1>7 DEF Far, Past, Rate, Met

\* What a good switch shows on either side of the edge.
LEMMA PastContacts ==
  ASSUME IInv, NEW j \in Joints, wiring[j] = "good", stage[j] \in Returning
  PROVE  /\ Contacts(j) \subseteq {Side(j), Other(Side(j))}
         /\ stage[j] = "LATCH" => (Side(j) \in Contacts(j) <=> Far(j) >= 0)
         /\ stage[j] # "LATCH" => (Side(j) \in Contacts(j) <=> Far(j) < 0)
         /\ stage[j] = "LATCH" /\ Far(j) >= 0 => Other(Side(j)) \notin Contacts(j)
         /\ stage[j] # "LATCH" /\ Far(j) < Stroke - 1 => Other(Side(j)) \notin Contacts(j)
         /\ Far(j) >= 0 /\ 2 * Far(j) + 2 <= Top(j) * (Top(j) + 1) => Other(Side(j)) \notin Contacts(j)
<1>1. /\ Contacts(j) \subseteq {Side(j), Other(Side(j))} /\ Depth(j) \in Int
      /\ Side(j) \in Contacts(j) <=> Depth(j) >= 0
      /\ Other(Side(j)) \in Contacts(j) => Depth(j) <= -Stroke
  BY ClosesNow DEF Closes
<1>2. Far(j) = IF stage[j] = "LATCH" THEN Depth(j) ELSE -Depth(j) - 1
  BY DEF Far, Past, Depth
<1>3. /\ Far(j) \in Int /\ Top(j) \in Int /\ Stroke \in Int /\ 1 <= Top(j) /\ Top(j) < Stroke
      /\ Top(j) * (Top(j) + 1) < 2 * Stroke /\ Top(j) * (Top(j) + 1) \in Int
  BY PastTypes
<1> HIDE DEF Depth, Far, Top
<1>4. Far(j) >= 0 /\ 2 * Far(j) + 2 <= Top(j) * (Top(j) + 1) => Depth(j) > -Stroke
  <2>1. PICK t \in Int : t = Top(j) * (Top(j) + 1)
    BY <1>3
  <2> QED BY <1>1, <1>2, <1>3, <2>1
<1> QED BY <1>1, <1>2, <1>3, <1>4

LEMMA PastTick ==
  ASSUME Base, Legs, Underway, TickVelocity, NEW j \in Joints, stage[j] \in Returning
  PROVE  /\ 0 <= Rate(j) /\ Rate(j) <= Top(j)
         /\ Rate(j)' \in Int /\ 0 <= Rate(j)' /\ Rate(j)' <= Top(j)
         /\ Far(j)' = Far(j) + Rate(j)' /\ Top(j)' = Top(j)
         /\ Goal(j) = 0 => Rate(j)' = Toward(Rate(j), 0)
         /\ pv'[j] = 0 => Rate(j)' = 0
         /\ Met(j)' = IF HitNow(j) THEN Far(j) ELSE Met(j)
<1>0. /\ IInv /\ stage' = stage /\ phys'[j] = phys[j] + pv'[j] /\ pos'[j] = pos[j] + pv'[j]
      /\ limitStep'[j] = IF HitNow(j) THEN pos[j] ELSE limitStep[j]
      /\ pv'[j] = Toward(pv[j], Goal(j))
  BY TickFacts DEF Base
<1>1. /\ Between(Into(j, pv'[j]), LegSpeed(j)) /\ Into(j, pv'[j]) \in Int
      /\ Into(j, pv'[j]) = Toward(Into(j, pv[j]), Into(j, Goal(j)))
      /\ Into(j, pv[j]) \in Int /\ Between(Into(j, pv[j]), LegSpeed(j)) /\ Depth(j) \in Int
      /\ Depth(j)' = Depth(j) + Into(j, pv'[j])
  BY LegTick
<1>2. /\ pv[j] \in Int /\ pv'[j] \in Int /\ pos[j] \in Int /\ phys[j] \in Int /\ limitStep[j] \in Int
      /\ Into(j, 0) = 0
  <2>1. pv[j] \in Int /\ Goal(j) \in Int
    BY <1>0 DEF IInv, Motors, Goal
  <2> QED BY <1>0, <2>1, TowardType, NaNFacts DEF IInv, Machine
<1>3. /\ Fast(j) \in Nat /\ Slow(j) \in Nat /\ 1 <= Slow(j) /\ Slow(j) <= Fast(j)
  BY SpeedFacts
<1>4. /\ Rate(j)' = IF stage[j] = "LATCH" THEN Into(j, pv'[j]) ELSE -Into(j, pv'[j])
      /\ Far(j)' = IF stage[j] = "LATCH" THEN Depth(j)' ELSE -Depth(j)' - 1
      /\ Far(j) = IF stage[j] = "LATCH" THEN Depth(j) ELSE -Depth(j) - 1
      /\ Top(j)' = Top(j)
  BY <1>0 DEF Rate, Far, Past, Depth, Top
<1>5. Met(j)' = IF HitNow(j) THEN Far(j) ELSE Met(j)
  <2>1. pos'[j] - phys'[j] = pos[j] - phys[j] /\ pos[j] - (pos[j] - phys[j]) = phys[j]
    <3> HIDE DEF HitNow
    <3> QED BY <1>0, <1>2
  <2>2. limitStep'[j] - (pos'[j] - phys'[j]) =
          IF HitNow(j) THEN phys[j] ELSE limitStep[j] - (pos[j] - phys[j])
    <3> HIDE DEF HitNow
    <3> QED BY <1>0, <2>1
  <2>3. Met(j)' = IF stage[j] = "LATCH" THEN DepthOf(j, limitStep'[j] - (pos'[j] - phys'[j]))
                  ELSE -DepthOf(j, limitStep'[j] - (pos'[j] - phys'[j])) - 1
    BY <1>0 DEF Met, Past
  <2> HIDE DEF HitNow, DepthOf
  <2> QED BY <2>2, <2>3 DEF Met, Past, Far
<1> HIDE DEF Into, Depth, Fast, Slow
<1>6. /\ 0 <= Rate(j) /\ Rate(j) <= Top(j)
      /\ Rate(j)' \in Int /\ 0 <= Rate(j)' /\ Rate(j)' <= Top(j)
  BY <1>1, <1>3, <1>4 DEF Rate, Top, Between, LegSpeed, Returning
<1>7. Goal(j) = 0 => Rate(j)' = Toward(Rate(j), 0)
  <2> HIDE DEF Goal
  <2> QED BY <1>1, <1>2, <1>4 DEF Rate, Toward
<1>8. pv'[j] = 0 => Rate(j)' = 0
  BY <1>1, <1>2, <1>4, <1>6
<1>9. Far(j)' = Far(j) + Rate(j)'
  BY <1>1, <1>4
<1> QED BY <1>4, <1>5, <1>6, <1>7, <1>8, <1>9

\* At a tick the switch is seen to have changed exactly past the edge.
LEMMA CrossingSeen ==
  ASSUME IInv, NEW j \in Joints, wiring[j] = "good", stage[j] \in Returning, Crossing(j), Polled(j)
  PROVE  /\ Contacts(j) \subseteq {Side(j)} /\ limit[j] = Contacts(j)
         /\ HitNow(j) <=> Far(j) >= 0
         /\ ~HitNow(j) => changed[j] = {}
         /\ Far(j) >= 0 => Contacts(j) = IF stage[j] = "LATCH" THEN {Side(j)} ELSE {}
<1>1. /\ Contacts(j) \subseteq {Side(j)}
      /\ stage[j] = "LATCH" => (Side(j) \in Contacts(j) <=> Far(j) >= 0)
      /\ stage[j] # "LATCH" => (Side(j) \in Contacts(j) <=> Far(j) < 0)
      /\ Far(j) \in Int
  BY PastContacts, PastTypes DEF Crossing
<1>2. /\ limit[j] = Contacts(j) /\ changed[j] = changed[j] \cup Delta(base[j], Contacts(j))
      /\ base[j] = (IF stage[j] = "LATCH" THEN {} ELSE {Side(j)}) /\ (changed[j] # {} => Far(j) >= 0)
      /\ Far(j) >= 0 => ~hit[j]
  BY DEF Polled, ChangedAfter, Crossing
<1> HIDE DEF Far
<1>3. CASE Far(j) >= 0
  <2>1. Contacts(j) = IF stage[j] = "LATCH" THEN {Side(j)} ELSE {}
    BY <1>1, <1>3
  <2>2. Delta(base[j], Contacts(j)) # {}
    BY <1>2, <2>1 DEF Delta
  <2> QED BY <1>1, <1>2, <1>3, <2>1, <2>2 DEF HitNow
<1>4. CASE ~(Far(j) >= 0)
  BY <1>1, <1>2, <1>4 DEF HitNow
<1> QED BY <1>3, <1>4

LEMMA CrossingTick ==
  ASSUME Base, Poised, Legs, Underway, TickVelocity,
         NEW j \in Joints, wiring[j] = "good", stage[j] \in Returning, Crossing(j)
  PROVE  Crossing(j)' \/ Crossed(j)'
<1>0. /\ IInv /\ IInv' /\ Alone /\ Geared /\ UNCHANGED <<stage, wiring, pc, block>> /\ queue' = queue
      /\ Polled(j) /\ sv'[j] = Goal(j) /\ stopped'[j] = StoppedNow(j) /\ hit'[j] = (hit[j] \/ HitNow(j))
      /\ base'[j] = (IF HitNow(j) THEN limit[j] ELSE base[j])
      /\ changed'[j] = (IF HitNow(j) THEN {} ELSE changed[j])
      /\ pv'[j] = Toward(pv[j], Goal(j))
  <2>1. IInv /\ IInv' /\ Alone /\ Geared
    BY NextInv DEF Base, Next, StepperStep
  <2> QED BY <2>1, TickFacts
<1>1. /\ 0 <= Rate(j) /\ Rate(j) <= Top(j)
      /\ Rate(j)' \in Int /\ 0 <= Rate(j)' /\ Rate(j)' <= Top(j)
      /\ Far(j)' = Far(j) + Rate(j)' /\ Top(j)' = Top(j)
      /\ Goal(j) = 0 => Rate(j)' = Toward(Rate(j), 0)
      /\ pv'[j] = 0 => Rate(j)' = 0
      /\ Met(j)' = IF HitNow(j) THEN Far(j) ELSE Met(j)
  BY PastTick
<1>2. /\ Far(j) \in Int /\ Rate(j) \in Int /\ Top(j) \in Int /\ 1 <= Top(j) /\ Top(j) < Stroke
      /\ Stroke \in Int
  BY <1>0, PastTypes
<1>3. /\ Contacts(j) \subseteq {Side(j)} /\ limit[j] = Contacts(j)
      /\ HitNow(j) <=> Far(j) >= 0
      /\ ~HitNow(j) => changed[j] = {}
      /\ Far(j) >= 0 => Contacts(j) = IF stage[j] = "LATCH" THEN {Side(j)} ELSE {}
  BY <1>0, CrossingSeen
<1>4. Far(j) < Top(j)
  BY DEF Crossing
<1>5. CASE HitNow(j)
  <2>1. Goal(j) = 0 /\ sv'[j] = 0 /\ changed'[j] = {}
        /\ base'[j] = IF stage[j] = "LATCH" THEN {Side(j)} ELSE {}
    BY <1>0, <1>3, <1>5 DEF Goal
  <2>2. ~Sent(j)'
    <3>1. ~Sent(j)
      <4>1. changed[j] # {}
        BY <1>5 DEF HitNow
      <4> QED BY <4>1 DEF Poised, Setup, Prepared, Underway
    <3>2. Coming(j)' = Coming(j)
      BY <1>0, ComingSame
    <3> QED BY <3>1, <3>2 DEF Sent
  <2>3. /\ Far(j)' >= 0 /\ Met(j)' \in 0 .. Top(j) - 1
        /\ 2 * Far(j)' + 2 + Rate(j)' * (Rate(j)' - 1) <= Top(j) * (Top(j) + 1)
    <3>1. Far(j) >= 0 /\ Rate(j)' = Toward(Rate(j), 0)
      BY <1>1, <1>3, <1>5, <2>1
    <3> HIDE DEF Far, Rate, Top, Met, HitNow
    <3>2. PICK q \in Int, w \in Int, G \in Int : q = Far(j) /\ w = Rate(j) /\ G = Top(j)
      BY <1>2
    <3>3. PICK b \in Int : b = Rate(j)'
      BY <1>1
    <3>4. 2 * (q + b) + 2 + b * (b - 1) <= G * (G + 1)
      BY <1>1, <1>2, <1>4, <3>1, <3>2, <3>3, BrakeFacts
    <3>5. 2 * Far(j)' + 2 + Rate(j)' * (Rate(j)' - 1) <= Top(j) * (Top(j) + 1)
      BY <1>1, <3>2, <3>3, <3>4
    <3> QED BY <1>1, <1>2, <1>4, <1>5, <3>1, <3>5
  <2> QED BY <1>0, <1>1, <2>1, <2>2, <2>3 DEF Crossed
<1>6. CASE ~HitNow(j)
  <2>1. Far(j) < 0 /\ changed'[j] = {} /\ base'[j] = base[j] /\ (hit'[j] => hit[j])
    <3>1. Far(j) < 0
      BY <1>2, <1>3, <1>6
    <3>2. hit'[j] => hit[j]
      BY <1>0, <1>6, Zenon
    <3>3. changed'[j] = {} /\ base'[j] = base[j]
      BY <1>0, <1>3, <1>6, Zenon
    <3> QED BY <3>1, <3>2, <3>3
  <2>2. Far(j)' < Top(j) /\ Far(j)' \in Int
    <3> HIDE DEF Far, Rate, Top
    <3> QED BY <1>1, <1>2, <2>1
  <2>3. pv[j] = 0 /\ Goal(j) = 0 => Far(j)' < 0 /\ pv'[j] = 0
    <3>1. pv[j] = 0 /\ Goal(j) = 0 => pv'[j] = 0
      BY <1>0 DEF Toward
    <3> HIDE DEF Far, Rate, Top, Goal
    <3> QED BY <1>1, <1>2, <2>1, <3>1
  <2>4. stopped[j] => pv[j] = 0 /\ Goal(j) = 0
    BY <1>0 DEF Alone, Calm, Goal
  <2>5. hit[j] => pv[j] = 0 /\ Goal(j) = 0
    BY <1>0 DEF Geared, HitRests, Goal, Crossing
  <2>6. Far(j)' >= 0 => ~hit'[j] /\ ~stopped'[j]
    <3>1. Far(j)' >= 0 => ~(Far(j)' < 0)
      BY <2>2
    <3>2. stopped'[j] => stopped[j] \/ (pv[j] = 0 /\ Goal(j) = 0)
      BY <1>0 DEF StoppedNow
    <3> QED BY <2>1, <2>3, <2>4, <2>5, <3>1, <3>2, Zenon
  <2>7. hit'[j] => pv'[j] = 0
    BY <2>1, <2>3, <2>5
  <2>8. Other(Side(j)) \notin Contacts(j)'
    <3>1. Closes(j) /\ Closes(j)'
      BY <1>0, ClosesNow, ClosesThen
    <3>2. /\ Far(j)' = IF stage[j] = "LATCH" THEN Depth(j)' ELSE -Depth(j)' - 1
          /\ Far(j) = IF stage[j] = "LATCH" THEN Depth(j) ELSE -Depth(j) - 1
      BY <1>0 DEF Far, Past, Depth
    <3>3. Depth(j) \in Int /\ Depth(j)' \in Int
      BY <3>1 DEF Closes
    <3>4. Other(Side(j)) \in Endstops[j] => Depth(j) > -Stroke
      BY <1>0, <1>2, <3>1, <3>3 DEF Closes, Crossing
    <3>5. Other(Side(j)) \in Endstops[j] => Depth(j)' > -Stroke
      <4> HIDE DEF Far, Rate, Top, Depth
      <4> QED BY <1>1, <1>2, <2>2, <3>2, <3>3, <3>4
    <3> QED BY <1>0, <1>2, <3>1, <3>3, <3>5 DEF Closes
  <2> QED BY <1>0, <1>1, <2>1, <2>2, <2>6, <2>7, <2>8 DEF Crossing
<1> QED BY <1>5, <1>6

\* A joint past the edge sees nothing new of its switches.
LEMMA CrossedSeen ==
  ASSUME IInv, NEW j \in Joints, wiring[j] = "good", stage[j] \in Returning, Crossed(j),
         0 <= Rate(j), Rate(j) <= Top(j)
  PROVE  Contacts(j) = base[j] /\ Delta(base[j], Contacts(j)) = {}
<1>1. /\ Far(j) \in Int /\ Rate(j) \in Int /\ Top(j) \in Int
      /\ Top(j) * (Top(j) + 1) \in Int
  BY PastTypes
<1>2. Far(j) >= 0 /\ 2 * Far(j) + 2 <= Top(j) * (Top(j) + 1)
  <2>1. PICK q \in Int, w \in Int, G \in Int : q = Far(j) /\ w = Rate(j) /\ G = Top(j)
    BY <1>1
  <2>2. 0 <= w * (w - 1) /\ w * (w - 1) \in Int /\ G * (G + 1) \in Int
    BY <2>1, BrakeFacts
  <2>3. Far(j) >= 0 /\ 2 * q + 2 + w * (w - 1) <= G * (G + 1)
    BY <2>1 DEF Crossed
  <2>4. PICK m \in Int : m = w * (w - 1)
    BY <2>2
  <2>5. 2 * q + 2 <= G * (G + 1)
    BY <2>2, <2>3, <2>4
  <2> QED BY <2>1, <2>3, <2>5
<1>3. /\ Contacts(j) \subseteq {Side(j)}
      /\ stage[j] = "LATCH" => Side(j) \in Contacts(j)
      /\ stage[j] # "LATCH" => Side(j) \notin Contacts(j)
  <2>1. /\ Contacts(j) \subseteq {Side(j), Other(Side(j))}
        /\ stage[j] = "LATCH" => (Side(j) \in Contacts(j) <=> Far(j) >= 0)
        /\ stage[j] # "LATCH" => (Side(j) \in Contacts(j) <=> Far(j) < 0)
        /\ Far(j) >= 0 /\ 2 * Far(j) + 2 <= Top(j) * (Top(j) + 1) => Other(Side(j)) \notin Contacts(j)
    BY PastContacts
  <2> HIDE DEF Far, Top
  <2> QED BY <1>1, <1>2, <2>1
<1> QED BY <1>3 DEF Crossed, Delta

LEMMA CrossedTick ==
  ASSUME Base, Poised, Legs, Underway, TickVelocity,
         NEW j \in Joints, wiring[j] = "good", stage[j] \in Returning, Crossed(j)
  PROVE  Crossed(j)' /\ ~HitNow(j)
<1>0. /\ IInv /\ UNCHANGED <<stage, wiring, pc, block>> /\ queue' = queue
      /\ sv'[j] = Goal(j)
      /\ base'[j] = (IF HitNow(j) THEN limit[j] ELSE base[j])
      /\ changed'[j] = (IF HitNow(j) THEN {} ELSE changed[j])
  BY TickFacts DEF Base
<1>1. /\ 0 <= Rate(j) /\ Rate(j) <= Top(j)
      /\ Rate(j)' \in Int /\ 0 <= Rate(j)' /\ Rate(j)' <= Top(j)
      /\ Far(j)' = Far(j) + Rate(j)' /\ Top(j)' = Top(j)
      /\ Goal(j) = 0 => Rate(j)' = Toward(Rate(j), 0)
      /\ Met(j)' = IF HitNow(j) THEN Far(j) ELSE Met(j)
  BY PastTick
<1>2. Far(j) \in Int /\ Rate(j) \in Int /\ Top(j) \in Int
  BY <1>0, PastTypes
<1>3. ~HitNow(j) /\ Goal(j) = 0
  BY DEF HitNow, Goal, Crossed
<1>4. ~Sent(j)'
  <2>1. Coming(j)' = Coming(j)
    BY <1>0, ComingSame
  <2> QED BY <2>1 DEF Sent, Crossed
<1>5. /\ Far(j)' >= 0
      /\ 2 * Far(j)' + 2 + Rate(j)' * (Rate(j)' - 1) <= Top(j) * (Top(j) + 1)
  <2>1. Far(j) >= 0 /\ 2 * Far(j) + 2 + Rate(j) * (Rate(j) - 1) <= Top(j) * (Top(j) + 1)
    BY DEF Crossed
  <2> HIDE DEF Far, Rate, Top, Met, HitNow, Goal
  <2>2. PICK q \in Int, w \in Int, G \in Int : q = Far(j) /\ w = Rate(j) /\ G = Top(j)
    BY <1>2
  <2>3. PICK b \in Int : b = Rate(j)'
    BY <1>1
  <2>4. 2 * (q + b) + 2 + b * (b - 1) <= 2 * q + 2 + w * (w - 1)
    BY <1>1, <1>3, <2>2, <2>3, BrakeFacts
  <2>5. 2 * q + 2 + w * (w - 1) <= G * (G + 1)
    BY <2>1, <2>2
  <2>6. /\ 2 * (q + b) + 2 + b * (b - 1) \in Int /\ 2 * q + 2 + w * (w - 1) \in Int
        /\ G * (G + 1) \in Int
    OBVIOUS
  <2>7. 2 * (q + b) + 2 + b * (b - 1) <= G * (G + 1)
    <3> \A x, y, z \in Int : x <= y /\ y <= z => x <= z
      OBVIOUS
    <3> QED BY <2>4, <2>5, <2>6
  <2>8. Far(j)' = q + b
    BY <1>1, <2>2, <2>3
  <2> QED BY <1>1, <2>1, <2>2, <2>3, <2>7, <2>8
<1> QED BY <1>0, <1>1, <1>3, <1>4, <1>5 DEF Crossed

\* What does not move a joint leaves it where it is of its way.
LEMMA CrossingKept ==
  ASSUME NEW j \in Joints, Crossing(j), stage'[j] = stage[j], wiring' = wiring, phys'[j] = phys[j],
         base'[j] = base[j], changed'[j] \subseteq {Side(j)}, changed'[j] # {} => Far(j) >= 0,
         hit'[j] => hit[j], stopped'[j] => stopped[j], pv'[j] = pv[j] \/ pv'[j] = 0
  PROVE  Crossing(j)'
<1>1. Contacts(j)' = Contacts(j)
  BY ContactsSame
<1>2. Far(j)' = Far(j) /\ Top(j)' = Top(j)
  BY DEF Far, Past, Top
<1> QED BY <1>1, <1>2 DEF Crossing

LEMMA CrossedKept ==
  ASSUME IInv, NEW j \in Joints, Crossed(j), stage'[j] = stage[j],
         phys'[j] = phys[j], pos'[j] = pos[j], limitStep'[j] = limitStep[j],
         base'[j] = base[j], changed'[j] = {}, sv'[j] = 0, ~Sent(j)', pv'[j] = pv[j] \/ pv'[j] = 0
  PROVE  Crossed(j)'
<1>1. Far(j)' = Far(j) /\ Top(j)' = Top(j) /\ Met(j)' = Met(j)
  BY DEF Far, Past, Top, Met
<1>2. Far(j) \in Int /\ Rate(j) \in Int /\ Top(j) * (Top(j) + 1) \in Int
  BY PastTypes
<1>3. 2 * Far(j) + 2 + Rate(j) * (Rate(j) - 1) <= Top(j) * (Top(j) + 1)
  BY DEF Crossed
<1>4. Rate(j)' = Rate(j) \/ Rate(j)' = 0
  <2>1. CASE pv'[j] = pv[j]
    BY <2>1 DEF Rate
  <2>2. CASE pv'[j] = 0
    <3>1. Into(j, pv'[j]) = 0
      BY <2>2, NaNFacts
    <3>2. Rate(j)' = IF stage[j] = "LATCH" THEN Into(j, pv'[j]) ELSE -Into(j, pv'[j])
      BY DEF Rate
    <3>3. \A x \in Int : x = 0 => -x \in Int /\ -x <= 0 /\ -x >= 0
      OBVIOUS
    <3>4. Rate(j)' \in Int /\ Rate(j)' <= 0 /\ Rate(j)' >= 0
      BY <3>1, <3>2, <3>3
    <3> QED BY <3>4
  <2> QED BY <2>1, <2>2
<1>5. 2 * Far(j) + 2 + Rate(j)' * (Rate(j)' - 1) <= Top(j) * (Top(j) + 1)
  <2>1. PICK w \in Int : w = Rate(j)
    BY <1>2
  <2>2. PICK t \in Int : t = Top(j) * (Top(j) + 1)
    BY <1>2
  <2>3. 0 <= w * (w - 1) /\ w * (w - 1) \in Int
    OBVIOUS
  <2>4. PICK m \in Int : m = w * (w - 1)
    BY <2>3
  <2>5. 2 * Far(j) + 2 + m <= t /\ 0 <= m
    BY <1>3, <2>1, <2>2, <2>3, <2>4
  <2>6. CASE Rate(j)' = Rate(j)
    BY <1>3, <2>6
  <2>7. CASE Rate(j)' = 0
    <3>1. Rate(j)' * (Rate(j)' - 1) = 0
      BY <2>7
    <3> HIDE DEF Far
    <3> QED BY <1>2, <2>2, <2>5, <3>1
  <2> QED BY <1>4, <2>6, <2>7
<1> QED BY <1>1, <1>5 DEF Crossed

LEMMA InitLatching == Init => Latching
  BY DEF Init, Latching, Underway

LEMMA PlantLatching ==
  ASSUME Base, Poised, Legs, Latching, EndstopPoll \/ StepperStep
  PROVE  Latching'
<1>0. IInv /\ UNCHANGED <<pc, block, stage, overlap, wiring>>
  BY DEF EndstopPoll, StepperStep, FetchVelocity, FetchOther, TickVelocity, TickPositional,
         TickIdle, homingVars, historyVars, machineVars, Base
<1> SUFFICES ASSUME Underway, NEW j \in Joints, wiring[j] = "good", stage[j] \in Returning,
                    Crossing(j) \/ Crossed(j)
             PROVE  Crossing(j)' \/ Crossed(j)'
  BY <1>0 DEF Latching, Underway
<1>a. Leg(j, LegSpeed(j))
  BY DEF Legs
<1>b. ~Sent(j) /\ Coming(j)' \subseteq Coming(j) => ~Sent(j)'
  BY DEF Sent
<1>1. CASE EndstopPoll
  <2>1. /\ changed'[j] = changed[j] \cup Delta(base[j], Contacts(j))
        /\ UNCHANGED <<base, phys, pos, limitStep, pv, sv, hit, stopped, queue>>
    BY <1>1 DEF EndstopPoll, ChangedAfter, plantVars, motorVars
  <2>2. CASE Crossing(j)
    <3>1. /\ Contacts(j) \subseteq {Side(j), Other(Side(j))}
          /\ stage[j] = "LATCH" => (Side(j) \in Contacts(j) <=> Far(j) >= 0)
          /\ stage[j] # "LATCH" => (Side(j) \in Contacts(j) <=> Far(j) < 0)
          /\ Far(j) \in Int
      BY <1>0, PastContacts, PastTypes
    <3>2. Delta(base[j], Contacts(j)) \subseteq {Side(j)}
      BY <2>2, <3>1 DEF Crossing, Delta
    <3>3. Far(j) < 0 => Contacts(j) = base[j]
      <4> HIDE DEF Far
      <4> QED BY <2>2, <3>1 DEF Crossing
    <3>4. changed'[j] # {} => Far(j) >= 0
      <4>1. Far(j) < 0 => changed[j] = {} /\ Delta(base[j], Contacts(j)) = {}
        <5> HIDE DEF Far
        <5> QED BY <2>2, <3>1, <3>3 DEF Crossing, Delta
      <4> HIDE DEF Far
      <4> QED BY <2>1, <3>1, <4>1
    <3>5. changed'[j] \subseteq {Side(j)}
      BY <2>1, <2>2, <3>2 DEF Crossing
    <3> QED BY <1>0, <2>1, <2>2, <3>4, <3>5, CrossingKept
  <2>3. CASE Crossed(j)
    <3>1. 0 <= Rate(j) /\ Rate(j) <= Top(j)
      <4>1. /\ Between(Into(j, pv[j]), LegSpeed(j)) /\ Into(j, pv[j]) \in Int
            /\ Fast(j) \in Nat /\ Slow(j) \in Nat
        <5>1. pv[j] \in Int
          BY <1>0 DEF IInv, Motors
        <5> QED BY <1>a, <5>1, DepthFacts, SpeedFacts DEF Leg
      <4> HIDE DEF Into, Fast, Slow
      <4> QED BY <4>1 DEF Rate, Top, Between, LegSpeed, Returning
    <3>2. Delta(base[j], Contacts(j)) = {} /\ changed[j] = {}
      BY <1>0, <2>3, <3>1, CrossedSeen DEF Crossed
    <3>3. changed'[j] = {}
      BY <2>1, <3>2
    <3>4. ~Sent(j)' /\ sv'[j] = 0
      BY <1>0, <1>b, <2>1, <2>3, ComingSame DEF Crossed
    <3> QED BY <1>0, <2>1, <2>3, <3>3, <3>4, CrossedKept
  <2> QED BY <2>2, <2>3
<1>2. CASE FetchVelocity \/ FetchOther \/ TickIdle
  <2>1. /\ UNCHANGED <<base, changed, phys, pos, limitStep>>
        /\ pv'[j] = pv[j] \/ pv'[j] = 0
        /\ hit'[j] => hit[j]
        /\ stopped'[j] => stopped[j]
    BY <1>2 DEF FetchVelocity, FetchOther, TickIdle, switchVars, plantVars, motorVars, None, FlagsAfterFetch
  <2>2. Coming(j)' \subseteq Coming(j)
    <3>1. Waiting' \subseteq Waiting
      <4>1. CASE TickIdle
        BY <4>1 DEF TickIdle, Waiting
      <4>2. CASE FetchVelocity \/ FetchOther
        BY <1>0, <4>2, WaitingTail DEF FetchVelocity, FetchOther, MayFetch, IInv
      <4> QED BY <1>2, <4>1, <4>2
    <3> QED BY <1>0, <3>1 DEF Coming, Blocking
  <2>3. CASE Crossing(j)
    <3>1. changed'[j] \subseteq {Side(j)} /\ (changed'[j] # {} => Far(j) >= 0)
      BY <2>1, <2>3 DEF Crossing
    <3> QED BY <1>0, <2>1, <2>3, <3>1, CrossingKept
  <2>4. CASE Crossed(j)
    <3>1. sv'[j] = 0
      <4>1. CASE TickIdle
        BY <2>4, <4>1 DEF TickIdle, motorVars, Crossed
      <4>2. CASE FetchOther
        BY <4>2 DEF FetchOther, None
      <4>3. CASE FetchVelocity
        <5>1. Head(queue) \in Waiting /\ Head(queue).mode = "Velocity"
          BY <1>0, <4>3, WaitingTail DEF FetchVelocity, MayFetch, IInv
        <5>2. Head(queue).v[j] \in {NaN, 0}
          BY <2>4, <5>1 DEF Crossed, Sent, Coming
        <5>3. sv[j] = 0
          BY <2>4 DEF Crossed
        <5> QED BY <4>3, <5>2, <5>3, NaNFacts DEF FetchVelocity, SetSpeed
      <4> QED BY <1>2, <4>1, <4>2, <4>3
    <3>2. ~Sent(j)' /\ changed'[j] = {}
      BY <1>b, <2>1, <2>2, <2>4 DEF Crossed
    <3> QED BY <1>0, <2>1, <2>4, <3>1, <3>2, CrossedKept
  <2> QED BY <2>3, <2>4
<1>3. CASE TickPositional
  BY <1>3 DEF TickPositional, Base, Alone, NoMove, Underway
<1>4. CASE TickVelocity
  BY <1>4, CrossingTick, CrossedTick
<1> QED BY <1>1, <1>2, <1>3, <1>4 DEF StepperStep

LEMMA ThreadLatching ==
  ASSUME Base, Latching,
         \/ HomingBegin \/ MoveBegin \/ SequenceBegin \/ HomingDone \/ Push \/ Check \/ Snapshot
         \/ StopCall \/ StopClear
  PROVE  Latching'
<1>0. IInv /\ UNCHANGED <<phys, pos, pv, sv, hit, stopped, limitStep, wiring>>
  BY DEF Base, HomingBegin, MoveBegin, SequenceBegin, HomingDone, Push, Check, Snapshot,
     StopCall, StopClear, motion, motorVars, plantVars, machineVars
<1>1. CASE HomingBegin \/ MoveBegin \/ HomingDone
  <2>1. pc' \in {"ready", "sequence"}
    BY <1>1 DEF HomingBegin, MoveBegin, HomingDone
  <2> QED BY <2>1 DEF Latching, Underway
<1>2. CASE Push \/ Check \/ Snapshot \/ StopCall \/ StopClear
  <2>1. UNCHANGED <<stage, overlap, base, changed>> /\ (pc' \in {"ready", "sequence"} \/ pc \notin {"ready", "sequence"})
    BY <1>2 DEF Push, Check, Snapshot, StopCall, StopClear, historyVars, homingVars, motion, switchVars
  <2>2. ASSUME NEW j \in Joints PROVE Coming(j)' \subseteq Coming(j)
    <3>1. CASE Push
      BY <1>0, <3>1, PushComing
    <3>2. CASE Check \/ Snapshot
      BY <3>2 DEF Check, Snapshot, Coming, Waiting, Blocking
    <3>3. CASE StopCall \/ StopClear
      <4>1. \A b \in Waiting' : b \in Waiting \/ b.mode # "Velocity"
        <5>1. CASE StopCall
          BY <5>1, WaitingAlone DEF StopCall, EmergencyStop
        <5>2. CASE StopClear
          BY <1>0, <5>2, WaitingAppend, StopBlocks DEF StopClear, IInv
        <5> QED BY <3>3, <5>1, <5>2
      <4>2. UNCHANGED <<pc, block>>
        BY <3>3 DEF StopCall, StopClear, homingVars
      <4> QED BY <4>1, <4>2, ComingFewer
    <3> QED BY <1>2, <3>1, <3>2, <3>3
  <2> SUFFICES ASSUME Underway, NEW j \in Joints, wiring[j] = "good", stage[j] \in Returning,
                      Crossing(j) \/ Crossed(j)
               PROVE  Crossing(j)' \/ Crossed(j)'
    BY <1>0, <2>1 DEF Latching, Underway
  <2>3. CASE Crossing(j)
    <3>1. changed'[j] \subseteq {Side(j)} /\ (changed'[j] # {} => Far(j) >= 0)
      BY <2>1, <2>3 DEF Crossing
    <3> QED BY <1>0, <2>1, <2>3, <3>1, CrossingKept
  <2>4. CASE Crossed(j)
    <3>1. ~Sent(j)' /\ changed'[j] = {} /\ sv'[j] = 0
      BY <1>0, <2>1, <2>2, <2>4 DEF Crossed, Sent
    <3> QED BY <1>0, <2>1, <2>4, <3>1, CrossedKept
  <2> QED BY <2>3, <2>4
<1>3. CASE SequenceBegin
  <2>1. \A j \in Joints : stage'[j] \in {"NONE", "AT_LIMIT", "SEARCH"}
    BY <1>3 DEF SequenceBegin
  <2> QED BY <2>1 DEF Latching, Returning
<1> QED BY <1>1, <1>2, <1>3

\* A leg begins on the near side of the edge, with the limits as they are.
LEMMA AimCrosses ==
  ASSUME Base, Found, ~overlap, NEW j \in Joints, pc = "handle", todo = j, Aims(j), Look(j),
         wiring[j] = "good", stage'[j] \in Returning
  PROVE  Crossing(j)'
<1>0. /\ IInv /\ UNCHANGED <<phys, wiring, pv>> /\ Rest(j) /\ Polled(j)
      /\ stage[j] # "AT_LIMIT" => Contacts(j) = {}
      /\ Contacts(j)' = Contacts(j) /\ Closes(j) /\ FoundAt(j)
  <2>1. IInv /\ Rest(j) /\ Polled(j) /\ (stage[j] # "AT_LIMIT" => Contacts(j) = {})
    BY AimRests DEF Base
  <2>2. UNCHANGED <<phys, wiring, pv>>
    BY DEF Look
  <2> QED BY <2>1, <2>2, ContactsSame, ClosesNow DEF Found, Underway
<1>1. ResetNow(j) /\ \/ stage[j] = "AT_LIMIT" /\ stage'[j] \in {"BACKOFF", "RELEASE"}
                     \/ stage[j] = "BACKOFF" /\ stage'[j] = "LATCH"
  BY DEF Aims, Returning
<1>2. base'[j] = Contacts(j) /\ changed'[j] = {} /\ pv'[j] = 0
  BY <1>0, <1>1 DEF ResetNow, Polled, Rest
<1>3. /\ Far(j)' = IF stage'[j] = "LATCH" THEN Depth(j) ELSE -Depth(j) - 1
      /\ Top(j)' = IF stage'[j] = "BACKOFF" THEN Fast(j) ELSE Slow(j)
  BY <1>0 DEF Far, Past, Top, Depth
<1>4. /\ Fast(j) \in Nat /\ Slow(j) \in Nat /\ 1 <= Slow(j) /\ Slow(j) <= Fast(j) /\ Stroke \in Int
      /\ Depth(j) \in Int /\ 1 < Stroke /\ Other(Side(j)) # Side(j)
  <2>1. Depth(j) \in Int /\ Stroke \in Int /\ Top(j) \in Int /\ 1 <= Top(j) /\ Top(j) < Stroke
    BY <1>0, PastTypes DEF Closes
  <2> HIDE DEF Top, Depth
  <2>2. 1 < Stroke
    BY <2>1
  <2> QED BY <2>1, <2>2, SpeedFacts, SidesFacts
<1> HIDE DEF Depth, Fast, Slow
<1>5. CASE stage'[j] = "LATCH"
  <2>1. Contacts(j) = {} /\ Side(j) \notin Contacts(j)
    BY <1>0, <1>1, <1>5
  <2>2. Far(j)' = Depth(j) /\ Depth(j) < 0 /\ Top(j)' = Slow(j)
    BY <1>0, <1>3, <1>4, <1>5, <2>1 DEF Closes
  <2>3. Far(j)' < Top(j)' /\ ~(Far(j)' >= 0)
    BY <1>4, <2>2
  <2> QED BY <1>0, <1>2, <1>5, <2>1, <2>3 DEF Crossing
<1>6. CASE stage'[j] # "LATCH"
  <2>1. Side(j) \in Contacts(j)
    BY <1>0, <1>1, <1>6 DEF FoundAt
  <2>2. Depth(j) >= 0 /\ Other(Side(j)) \notin Contacts(j)
    BY <1>0, <1>4, <2>1 DEF Closes
  <2>3. Contacts(j) = {Side(j)}
    BY <1>0, <2>1, <2>2 DEF Closes
  <2>4. Far(j)' = -Depth(j) - 1 /\ Top(j)' \in Nat /\ 1 <= Top(j)'
    BY <1>3, <1>4, <1>6
  <2>5. Far(j)' < Top(j)' /\ ~(Far(j)' >= 0)
    BY <1>4, <2>2, <2>4
  <2> QED BY <1>0, <1>2, <1>6, <2>2, <2>3, <2>5 DEF Crossing
<1> QED BY <1>5, <1>6

LEMMA LookLatching ==
  ASSUME Base, Found, Latching, NEW j \in Joints, Look(j), Sends(j), Turns(j)
  PROVE  Latching'
<1>0. /\ IInv /\ UNCHANGED <<phys, wiring, overlap, pv, sv, hit, stopped, limitStep>>
      /\ pc = "handle" /\ todo = j
      /\ \A k \in Joints \ {j} : /\ stage'[k] = stage[k] /\ base'[k] = base[k]
                                 /\ changed'[k] = changed[k] /\ pos'[k] = pos[k]
      /\ \A b \in Waiting' : b \in Waiting \/ b.mode # "Velocity"
  BY StopOrNotWaiting DEF Look, Base, StopModes
<1> SUFFICES ASSUME ~overlap, NEW k \in Joints, wiring[k] = "good", stage'[k] \in Returning
             PROVE  Crossing(k)' \/ Crossed(k)'
  BY <1>0 DEF Latching, Underway
<1>1. CASE k = j /\ pc' = "push"
  BY <1>0, <1>1, AimCrosses DEF Sends
<1>2. CASE ~(k = j /\ pc' = "push")
  <2>1. /\ stage'[k] = stage[k] /\ base'[k] = base[k] /\ changed'[k] = changed[k] /\ pos'[k] = pos[k]
    <3>1. CASE k = j
      <4>1. base' = base /\ changed' = changed
        BY <1>2, <3>1 DEF Sends
      <4>2. stage' = stage /\ pos' = pos
        BY <1>2, <3>1 DEF Turns, To, Returning, SameCounter
      <4> QED BY <4>1, <4>2
    <3> QED BY <1>0, <3>1
  <2>2. Crossing(k) \/ Crossed(k)
    BY <1>0, <2>1 DEF Latching, Underway
  <2>3. CASE Crossing(k)
    <3>1. changed'[k] \subseteq {Side(k)} /\ (changed'[k] # {} => Far(k) >= 0)
      BY <2>1, <2>3 DEF Crossing
    <3> QED BY <1>0, <2>1, <2>3, <3>1, CrossingKept
  <2>4. CASE Crossed(k)
    <3>1. \A x \in Coming(k)' : x = NaN \/ x \in Coming(k)
      <4>1. CASE pc' = "push"
        BY <1>0, <1>2, <4>1, ComingWith DEF Sends
      <4>2. CASE pc' # "push"
        <5>1. ~Blocking'
          BY <4>2 DEF Look, LookSends, Blocking
        <5> QED BY <1>0, <5>1, ComingFewer
      <4> QED BY <4>1, <4>2
    <3>2. ~Sent(k)' /\ changed'[k] = {} /\ sv'[k] = 0
      BY <1>0, <2>1, <2>4, <3>1 DEF Crossed, Sent
    <3> QED BY <1>0, <2>1, <2>4, <3>2, CrossedKept
  <2> QED BY <2>2, <2>3, <2>4
<1> QED BY <1>1, <1>2

LEMMA NextLatching ==
  Base /\ Poised /\ Legs /\ Found /\ Latching /\ [Next]_vars => Latching'
<1> SUFFICES ASSUME Base, Poised, Legs, Found, Latching, [Next]_vars PROVE Latching'
  OBVIOUS
<1>1. CASE EndstopPoll \/ StepperStep
  BY <1>1, PlantLatching
<1>2. CASE \/ HomingBegin \/ MoveBegin \/ SequenceBegin \/ HomingDone \/ Push \/ Check \/ Snapshot
           \/ StopCall \/ StopClear
  BY <1>2, ThreadLatching
<1>3. ASSUME NEW j \in Joints, Handle(j) PROVE Latching'
  <2>1. Look(j) /\ Sends(j) /\ Turns(j)
    BY <1>3, HandleLooks, HandleSends, HandleTurns DEF Base
  <2> QED BY <2>1, LookLatching
<1>4. CASE UNCHANGED vars
  <2>1. UNCHANGED <<phys, pos, wiring, limit, base, changed, overlap, pc, stage, pv, sv, hit, stopped,
                    limitStep, queue, block>>
    BY <1>4 DEF vars, switchVars, motorVars, plantVars, machineVars, historyVars, homingVars
  <2>2. \A j \in Joints : /\ Contacts(j)' = Contacts(j) /\ Coming(j)' = Coming(j)
                          /\ Far(j)' = Far(j) /\ Top(j)' = Top(j) /\ Met(j)' = Met(j) /\ Rate(j)' = Rate(j)
    BY <2>1, ContactsSame, ComingSame DEF Far, Past, Top, Met, Rate
  <2> QED BY <2>1, <2>2 DEF Latching, Crossing, Crossed, Underway, Sent
<1> QED BY <1>1, <1>2, <1>3, <1>4 DEF Next, HomingStep

-----------------------------------------------------------------------------
(* The home position.  The step the printer thread has seen is the one the joint  *)
(* took at the edge, and the counter set by it stays right until the next homing. *)

\* A joint seen at rest past the edge has been stopped by it.
Turned(j) == Far(j) >= 0 => base[j] # (IF stage[j] = "LATCH" THEN {} ELSE {Side(j)})
StepSeen ==
  ~overlap /\ pc \in {"handle", "push"} =>
    \A j \in Joints :
      j >= todo /\ seen[j].stopped /\ wiring[j] = "good" /\ stage[j] \in Returning =>
        seen[j].step = limitStep[j] /\ Turned(j)

LEMMA TurnedSame ==
  ASSUME NEW j \in Joints, phys'[j] = phys[j], stage'[j] = stage[j], base'[j] = base[j]
  PROVE  Turned(j)' = Turned(j)
  BY DEF Turned, Far, Past

LEMMA InitStepSeen == Init => StepSeen
  BY DEF Init, StepSeen

\* A joint at rest takes no step for its switch.
LEMMA StillUnhit ==
  ASSUME Base, Latching, StepSeen, ~overlap, pc \in {"handle", "push"}, TickVelocity,
         NEW j \in Joints, j >= todo, seen[j].stopped, wiring[j] = "good", stage[j] \in Returning
  PROVE  ~HitNow(j) /\ phys'[j] = phys[j]
<1>1. IInv /\ Polled(j) /\ (Crossing(j) \/ Crossed(j)) /\ Turned(j)
  BY TickFacts DEF Base, Latching, Underway, StepSeen
<1>2. pv[j] = 0 /\ sv[j] = 0
  BY SeenRests DEF Base
<1>3. ~HitNow(j)
  <2>1. CASE Crossing(j)
    <3>1. HitNow(j) <=> Far(j) >= 0
      BY <1>1, <2>1, CrossingSeen
    <3> QED BY <1>1, <2>1, <3>1 DEF Turned, Crossing
  <2>2. CASE Crossed(j)
    BY <2>2 DEF Crossed, HitNow
  <2> QED BY <1>1, <2>1, <2>2
<1>4. phys'[j] = phys[j]
  <2>1. pv'[j] = Toward(pv[j], Goal(j))
    BY <1>1, TickFacts
  <2>2. pv'[j] = 0
    BY <1>2, <2>1 DEF Toward, Goal
  <2> QED BY <1>1, <2>2, TickPolled
<1> QED BY <1>3, <1>4

LEMMA NextStepSeen == Base /\ Latching /\ StepSeen /\ [Next]_vars => StepSeen'
<1> SUFFICES ASSUME Base, Latching, StepSeen, [Next]_vars PROVE StepSeen'
  OBVIOUS
<1>1. CASE EndstopPoll \/ StepperStep
  <2>1. UNCHANGED <<pc, todo, stage, overlap, seen, wiring>> /\ IInv
    BY <1>1 DEF EndstopPoll, StepperStep, FetchVelocity, FetchOther, TickVelocity, TickPositional,
           TickIdle, homingVars, historyVars, machineVars, Base
  <2>2. CASE TickVelocity
    <3>1. \A j \in Joints : /\ limitStep'[j] = IF HitNow(j) THEN pos[j] ELSE limitStep[j]
                            /\ base'[j] = IF HitNow(j) THEN limit[j] ELSE base[j]
      BY <2>1, <2>2, TickFacts
    <3> SUFFICES ASSUME ~overlap, pc \in {"handle", "push"}, NEW j \in Joints, j >= todo,
                        seen[j].stopped, wiring[j] = "good", stage[j] \in Returning
                 PROVE  seen[j].step = limitStep'[j] /\ Turned(j)'
      BY <2>1 DEF StepSeen
    <3>2. ~HitNow(j) /\ phys'[j] = phys[j]
      BY <2>2, StillUnhit
    <3>3. Turned(j)' = Turned(j)
      BY <2>1, <3>1, <3>2, TurnedSame
    <3> QED BY <3>1, <3>2, <3>3 DEF StepSeen
  <2>3. CASE EndstopPoll \/ FetchVelocity \/ FetchOther \/ TickIdle
    <3>1. limitStep' = limitStep /\ phys' = phys /\ base' = base
      BY <2>3 DEF EndstopPoll, FetchVelocity, FetchOther, TickIdle, motorVars, plantVars, switchVars
    <3>2. \A j \in Joints : Turned(j)' = Turned(j)
      BY <2>1, <3>1, TurnedSame
    <3> QED BY <2>1, <3>1, <3>2 DEF StepSeen
  <2>4. CASE TickPositional
    <3>1. overlap \/ pc = "ready"
      BY <2>4 DEF TickPositional, Base, Alone, NoMove
    <3> QED BY <2>1, <3>1 DEF StepSeen
  <2> QED BY <1>1, <2>2, <2>3, <2>4 DEF StepperStep
<1>2. CASE Snapshot
  <2>1. /\ UNCHANGED <<phys, base, stage, wiring, overlap, limitStep>> /\ pc = "sleep"
        /\ \A j \in Joints : seen'[j].step = limitStep[j] /\ seen'[j].stopped = stopped[j]
    BY <1>2 DEF Snapshot, motion, motorVars, plantVars, switchVars, machineVars, historyVars
  <2> SUFFICES ASSUME ~overlap, NEW j \in Joints, stopped[j], wiring[j] = "good", stage[j] \in Returning
               PROVE  Turned(j)'
    BY <2>1 DEF StepSeen
  <2>2. Crossing(j) \/ Crossed(j)
    BY <2>1 DEF Latching, Underway
  <2>3. Turned(j)
    BY <2>2 DEF Turned, Crossing, Crossed
  <2> QED BY <2>1, <2>3, TurnedSame
<1>3. CASE HomingBegin \/ MoveBegin \/ SequenceBegin \/ HomingDone \/ Push \/ Check \/ StopCall \/ StopClear
  <2>1. \/ pc' \notin {"handle", "push"}
        \/ /\ pc \in {"handle", "push"}
           /\ UNCHANGED <<overlap, todo, seen, wiring, stage, limitStep, phys, base>>
    BY <1>3 DEF HomingBegin, MoveBegin, SequenceBegin, HomingDone, Push, Check, StopCall, StopClear,
           motion, motorVars, plantVars, switchVars, machineVars, homingVars, historyVars
  <2>2. CASE pc' \notin {"handle", "push"}
    BY <2>2 DEF StepSeen
  <2>3. CASE /\ pc \in {"handle", "push"}
             /\ UNCHANGED <<overlap, todo, seen, wiring, stage, limitStep, phys, base>>
    <3>1. \A j \in Joints : Turned(j)' = Turned(j)
      BY <2>3, TurnedSame
    <3> QED BY <2>3, <3>1 DEF StepSeen
  <2> QED BY <2>1, <2>2, <2>3
<1>4. ASSUME NEW j \in Joints, Handle(j) PROVE StepSeen'
  <2>1. /\ UNCHANGED <<overlap, seen, wiring, limitStep, phys>> /\ pc = "handle" /\ todo = j /\ IInv
        /\ \A k \in Joints \ {j} : stage'[k] = stage[k] /\ base'[k] = base[k]
        /\ pc' = "ready" \/ (pc' \in {"handle", "push"} /\ todo' = After(j))
    BY <1>4, HandleLooks DEF Base, Look, LookSends
  <2> SUFFICES ASSUME ~overlap, pc' \in {"handle", "push"}, NEW k \in Joints, k >= todo',
                      seen[k].stopped, wiring[k] = "good", stage'[k] \in Returning
               PROVE  seen[k].step = limitStep[k] /\ Turned(k)'
    BY <2>1 DEF StepSeen
  <2>2. k > j /\ k >= todo /\ k # j
    <3>1. todo' = After(j) /\ After(j) \in j + 1 .. NumJoints + 1 /\ j \in Nat /\ k \in Nat
      BY <2>1, AfterExists, JointsFacts
    <3> QED BY <2>1, <3>1
  <2>3. Turned(k)' = Turned(k)
    BY <2>1, <2>2, TurnedSame
  <2> QED BY <2>1, <2>2, <2>3 DEF StepSeen
<1>5. CASE UNCHANGED vars
  <2>1. UNCHANGED <<overlap, pc, todo, seen, wiring, stage, limitStep, phys, base>>
    BY <1>5 DEF vars, motorVars, plantVars, switchVars, machineVars, homingVars, historyVars
  <2>2. \A j \in Joints : Turned(j)' = Turned(j)
    BY <2>1, TurnedSame
  <2> QED BY <2>1, <2>2 DEF StepSeen
<1> QED BY <1>1, <1>2, <1>3, <1>4, <1>5 DEF Next, HomingStep

Accurate(j) ==
  /\ wiring[j] = "good"
  /\ Abs((pos[j] - phys[j]) - (HomePos[j] - Edge(j))) < Abs(LatchVel[j])
Registered ==
  \A j \in Joints \ unsure :
    homed[j] \/ (pc \notin {"ready", "sequence"} /\ stage[j] = "PRE_FINAL") => Accurate(j)

\* A joint is homed at rest past the edge it has crossed, by a switch that works.
LEMMA HomedPast ==
  ASSUME Base, Legs, Found, Latching, StepSeen, ~overlap, NEW j \in Joints, pc = "handle", todo = j,
         seen[j].stopped,
         \/ stage[j] = "RELEASE" /\ seen[j].limit = {}
         \/ stage[j] = "LATCH" /\ seen[j].limit = {IF LatchVel[j] < 0 THEN "Min" ELSE "Max"}
  PROVE  wiring[j] = "good" /\ Far(j) >= 0 /\ Crossed(j) /\ pv[j] = 0
<1>0. /\ IInv /\ j >= todo /\ FoundAt(j) /\ Closes(j)
      /\ stage[j] = "LATCH" => LatchesInward(j)
      /\ stage[j] = "RELEASE" => ~LatchesInward(j)
  BY JointsFacts, ClosesNow DEF Base, Found, Legs, Underway
<1>1. Contacts(j) = seen[j].limit /\ pv[j] = 0
  BY <1>0, SeenRests DEF Base, Polled
<1>2. wiring[j] = "good"
  BY <1>0, <1>1 DEF FoundAt
<1>3. /\ SearchVel[j] \in Int /\ LatchVel[j] \in Int /\ SearchVel[j] # 0 /\ LatchVel[j] # 0
  BY SpeedFacts, HomeAssumption DEF Abs
<1>4. Far(j) >= 0
  <2>1. /\ stage[j] = "LATCH" => (Side(j) \in Contacts(j) <=> Far(j) >= 0)
        /\ stage[j] # "LATCH" => (Side(j) \in Contacts(j) <=> Far(j) < 0)
        /\ Far(j) \in Int
    BY <1>0, <1>2, PastContacts, PastTypes DEF Returning
  <2>2. stage[j] = "LATCH" => Side(j) \in Contacts(j)
    <3>1. ASSUME stage[j] = "LATCH"
          PROVE  Side(j) = IF LatchVel[j] < 0 THEN "Min" ELSE "Max"
      BY <1>0, <1>3, <3>1 DEF LatchesInward, Side
    <3> QED BY <1>1, <3>1
  <2> HIDE DEF Far
  <2> QED BY <1>1, <2>1, <2>2
<1>5. Crossed(j)
  <2>1. Turned(j)
    BY <1>0, <1>2 DEF StepSeen, Returning
  <2> QED BY <1>2, <1>4, <2>1 DEF Latching, Underway, Returning, Crossing, Turned
<1> QED BY <1>1, <1>2, <1>4, <1>5

\* The counter set at the home position is right to within a tick's way.
LEMMA HomedRight ==
  ASSUME Base, Legs, Found, Latching, StepSeen, ~overlap, NEW j \in Joints, pc = "handle", todo = j,
         seen[j].stopped,
         \/ stage[j] = "RELEASE" /\ seen[j].limit = {}
         \/ stage[j] = "LATCH" /\ seen[j].limit = {IF LatchVel[j] < 0 THEN "Min" ELSE "Max"}
  PROVE  /\ wiring[j] = "good"
         /\ Abs((Homed(j) - phys[j]) - (HomePos[j] - Edge(j))) < Abs(LatchVel[j])
<1>0. /\ IInv /\ j >= todo
      /\ stage[j] = "LATCH" => LatchesInward(j)
      /\ stage[j] = "RELEASE" => ~LatchesInward(j)
  BY JointsFacts DEF Base, Legs, Underway
<1>1. /\ SearchVel[j] \in Int /\ LatchVel[j] \in Int /\ HomePos[j] \in Int /\ Stroke \in Int
      /\ SearchVel[j] # 0 /\ LatchVel[j] # 0
  BY SpeedFacts, HomeAssumption DEF Abs
<1>2. Crossed(j) /\ wiring[j] = "good"
  BY HomedPast
<1>3. Met(j) \in 0 .. Slow(j) - 1
  BY <1>2 DEF Crossed, Top
<1>4. PICK x \in Int : x = limitStep[j] - (pos[j] - phys[j])
  BY <1>0 DEF IInv, Machine
<1>5. (Homed(j) - phys[j]) - (HomePos[j] - Edge(j)) = Edge(j) - x /\ Edge(j) \in Int
  <2>1. seen[j].step = limitStep[j]
    BY <1>0, <1>2 DEF StepSeen, Returning
  <2>2. pos[j] \in Int /\ phys[j] \in Int /\ limitStep[j] \in Int
    BY <1>0 DEF IInv, Machine
  <2>3. Edge(j) \in Int
    BY <1>1 DEF Edge, EdgeAt
  <2>4. Homed(j) = (pos[j] - limitStep[j]) + HomePos[j]
    BY <2>1 DEF Homed
  <2> HIDE DEF Edge, Homed
  <2> QED BY <1>1, <1>4, <2>2, <2>3, <2>4
<1>6. Edge(j) - x = Met(j) \/ x - Edge(j) = Met(j)
  <2>1. CASE stage[j] = "LATCH"
    <3>1. Edge(j) = IF SearchVel[j] < 0 THEN 0 ELSE Stroke
      BY <1>0, <1>1, <2>1 DEF Edge, EdgeAt, Side
    <3>2. Met(j) = IF SearchVel[j] < 0 THEN -x ELSE x - Stroke
      BY <1>4, <2>1 DEF Met, Past, DepthOf
    <3> HIDE DEF Edge, Met
    <3> QED BY <1>1, <1>4, <3>1, <3>2
  <2>2. CASE stage[j] = "RELEASE"
    <3>1. Edge(j) = IF SearchVel[j] < 0 THEN 1 ELSE Stroke - 1
      BY <1>0, <1>1, <2>2 DEF Edge, EdgeAt, Side, LatchesInward
    <3>2. Met(j) = (IF SearchVel[j] < 0 THEN x ELSE -(x - Stroke)) - 1
      BY <1>1, <1>4, <2>2 DEF Met, Past, DepthOf
    <3> HIDE DEF Edge, Met
    <3> QED BY <1>1, <1>4, <3>1, <3>2
  <2> QED BY <2>1, <2>2
<1>7. Abs(Edge(j) - x) < Slow(j)
  <2>1. Slow(j) \in Nat
    BY SpeedFacts
  <2> HIDE DEF Edge, Met, Slow
  <2> QED BY <1>3, <1>4, <1>5, <1>6, <2>1 DEF Abs
<1> QED BY <1>2, <1>5, <1>7 DEF Slow

LEMMA InitRegistered == Init => Registered
<1> SUFFICES ASSUME Init, NEW j \in Joints PROVE ~homed[j] /\ pc = "ready"
  BY DEF Registered
<1> QED BY DEF Init, None

\* The counter follows the carriage.
LEMMA CounterFollows ==
  ASSUME IInv, EndstopPoll \/ StepperStep, NEW j \in Joints
  PROVE  pos'[j] - phys'[j] = pos[j] - phys[j]
<1>0. pos[j] \in Int /\ phys[j] \in Int /\ pv[j] \in Int /\ togo[j] \in Int /\ Goal(j) \in Int
  BY DEF IInv, Machine, Motors, Goal
<1>1. CASE TickVelocity
  <2>1. phys'[j] = phys[j] + pv'[j] /\ pos'[j] = pos[j] + pv'[j] /\ pv'[j] = Toward(pv[j], Goal(j))
    BY <1>1, TickFacts
  <2>2. pv'[j] \in Int
    BY <1>0, <2>1, TowardType
  <2> QED BY <1>0, <2>1, <2>2
<1>2. CASE TickPositional
  <2>1. phys'[j] = phys[j] + StepAt(togo[j]) /\ pos'[j] = pos[j] + StepAt(togo[j])
    BY <1>2 DEF TickPositional, StepAt
  <2>2. StepAt(togo[j]) \in Int
    BY <1>0, StepsFacts
  <2> QED BY <1>0, <2>1, <2>2
<1>3. CASE EndstopPoll \/ FetchVelocity \/ FetchOther \/ TickIdle
  BY <1>3 DEF EndstopPoll, FetchVelocity, FetchOther, TickIdle, plantVars
<1> QED BY <1>1, <1>2, <1>3 DEF StepperStep

LEMMA LookRegistered ==
  ASSUME Base, Legs, Found, Latching, StepSeen, Registered,
         NEW j \in Joints, Look(j), Turns(j)
  PROVE  Registered'
<1>0. /\ IInv /\ UNCHANGED <<phys, wiring, overlap>> /\ pc = "handle" /\ todo = j
      /\ \A k \in Joints \ {j} : stage'[k] = stage[k] /\ pos'[k] = pos[k]
      /\ pos \in [Joints -> Int] /\ homed \in [Joints -> BOOLEAN] /\ (overlap => unsure = Joints)
      /\ Joints \ {j} \subseteq Joints
  BY DEF Look, Base, IInv, Machine, Working, Geared, OverlapDoubts
<1>1. ASSUME NEW k \in Joints, k # j, k \notin unsure',
             homed'[k] \/ (pc' \notin {"ready", "sequence"} /\ stage'[k] = "PRE_FINAL")
      PROVE  Accurate(k)'
  <2>1. homed'[k] = homed[k] /\ (k \in unsure => k \in unsure')
    BY <1>0, <1>1 DEF Turns, SameCounter
  <2>2. stage'[k] = stage[k] /\ pos'[k] = pos[k]
    BY <1>0, <1>1
  <2>3. Accurate(k)
    BY <1>0, <1>1, <2>1, <2>2 DEF Registered
  <2> QED BY <1>0, <2>2, <2>3 DEF Accurate
<1>2. ASSUME j \notin unsure', homed'[j] \/ (pc' \notin {"ready", "sequence"} /\ stage'[j] = "PRE_FINAL")
      PROVE  Accurate(j)'
  <2>1. CASE pos' = pos /\ unsure' = unsure /\ (homed'[j] => homed[j] \/ stage[j] = "PRE_FINAL")
             /\ (stage'[j] = "PRE_FINAL" => stage[j] = "PRE_FINAL")
    <3>1. Accurate(j)
      BY <1>0, <1>2, <2>1 DEF Registered
    <3> QED BY <1>0, <2>1, <3>1 DEF Accurate
  <2>2. CASE /\ \/ To(j, "RELEASE", "PRE_FINAL") /\ seen[j].limit = {}
                \/ To(j, "LATCH", "PRE_FINAL") /\ seen[j].limit = {IF LatchVel[j] < 0 THEN "Min" ELSE "Max"}
             /\ seen[j].stopped
             /\ pos' = [pos EXCEPT ![j] = Homed(j)]
             /\ unsure' = IF overlap THEN unsure ELSE unsure \ {j}
    <3>1. ~overlap
      BY <1>0, <1>2, <2>2
    <3>2. \/ stage[j] = "RELEASE" /\ seen[j].limit = {}
          \/ stage[j] = "LATCH" /\ seen[j].limit = {IF LatchVel[j] < 0 THEN "Min" ELSE "Max"}
      BY <2>2 DEF To
    <3>3. /\ wiring[j] = "good"
          /\ Abs((Homed(j) - phys[j]) - (HomePos[j] - Edge(j))) < Abs(LatchVel[j])
      BY <1>0, <2>2, <3>1, <3>2, HomedRight
    <3>4. pos'[j] = Homed(j)
      BY <1>0, <2>2
    <3> QED BY <1>0, <3>3, <3>4 DEF Accurate
  <2>3. \/ /\ pos' = pos /\ unsure' = unsure /\ (homed'[j] => homed[j] \/ stage[j] = "PRE_FINAL")
           /\ (stage'[j] = "PRE_FINAL" => stage[j] = "PRE_FINAL")
        \/ /\ \/ To(j, "RELEASE", "PRE_FINAL") /\ seen[j].limit = {}
              \/ To(j, "LATCH", "PRE_FINAL") /\ seen[j].limit = {IF LatchVel[j] < 0 THEN "Min" ELSE "Max"}
           /\ seen[j].stopped
           /\ pos' = [pos EXCEPT ![j] = Homed(j)]
           /\ unsure' = IF overlap THEN unsure ELSE unsure \ {j}
    <3>1. CASE stage' = stage /\ SameCounter
      BY <3>1 DEF SameCounter
    <3>2. CASE To(j, "PRE_FINAL", "FINAL") /\ UNCHANGED <<pos, unsure>>
      BY <3>2 DEF To
    <3>3. CASE /\ \/ To(j, "SEARCH", "AT_LIMIT") \/ To(j, "AT_LIMIT", "BACKOFF")
                  \/ To(j, "AT_LIMIT", "RELEASE") \/ To(j, "BACKOFF", "LATCH")
               /\ SameCounter
      BY <3>3 DEF To, SameCounter
    <3> QED BY <3>1, <3>2, <3>3 DEF Turns
  <2> QED BY <2>1, <2>2, <2>3
<1>3. \A k \in Joints : k # j \/ k = j
  OBVIOUS
<1> QED BY <1>1, <1>2 DEF Registered

LEMMA NextRegistered ==
  Base /\ Legs /\ Found /\ Latching /\ StepSeen /\ Registered /\ [Next]_vars => Registered'
<1> SUFFICES ASSUME Base, Legs, Found, Latching, StepSeen, Registered, [Next]_vars PROVE Registered'
  OBVIOUS
<1>1. CASE EndstopPoll \/ StepperStep
  <2>1. UNCHANGED <<pc, stage, homed, unsure, wiring>> /\ IInv
    BY <1>1 DEF EndstopPoll, StepperStep, FetchVelocity, FetchOther, TickVelocity, TickPositional,
           TickIdle, homingVars, historyVars, machineVars, Base
  <2>2. \A j \in Joints : pos'[j] - phys'[j] = pos[j] - phys[j]
    BY <1>1, <2>1, CounterFollows
  <2> QED BY <2>1, <2>2 DEF Registered, Accurate
<1>2. CASE \/ HomingBegin \/ MoveBegin \/ SequenceBegin \/ HomingDone \/ Push \/ Check \/ Snapshot
           \/ StopCall \/ StopClear
  <2>1. UNCHANGED <<pos, phys, wiring, homed>>
    BY <1>2 DEF HomingBegin, MoveBegin, SequenceBegin, HomingDone, Push, Check, Snapshot,
       StopCall, StopClear, motion, plantVars, machineVars, homingVars
  <2>2. /\ \A j \in Joints : j \in unsure => j \in unsure'
        /\ \A j \in Joints : pc' \notin {"ready", "sequence"} /\ stage'[j] = "PRE_FINAL" =>
             pc \notin {"ready", "sequence"} /\ stage[j] = "PRE_FINAL"
    <3>1. CASE HomingBegin
      BY <3>1 DEF HomingBegin
    <3>2. CASE SequenceBegin
      <4>1. unsure' = unsure /\ \A j \in Joints : stage'[j] # "PRE_FINAL"
        BY <3>2 DEF SequenceBegin, historyVars
      <4> QED BY <4>1
    <3>3. CASE MoveBegin \/ HomingDone \/ Push \/ Check \/ Snapshot \/ StopCall \/ StopClear
      <4>1. /\ UNCHANGED <<unsure, stage>>
            /\ pc' = pc \/ pc' \in {"ready", "sequence"} \/ pc \notin {"ready", "sequence"}
        BY <3>3 DEF MoveBegin, HomingDone, Push, Check, Snapshot, StopCall, StopClear,
           historyVars, homingVars
      <4> QED BY <4>1
    <3> QED BY <1>2, <3>1, <3>2, <3>3
  <2> QED BY <2>1, <2>2 DEF Registered, Accurate
<1>3. ASSUME NEW j \in Joints, Handle(j) PROVE Registered'
  <2>1. Look(j) /\ Turns(j)
    BY <1>3, HandleLooks, HandleTurns DEF Base
  <2> QED BY <2>1, LookRegistered
<1>4. CASE UNCHANGED vars
  <2>1. UNCHANGED <<pos, phys, wiring, homed, unsure, pc, stage>>
    BY <1>4 DEF vars, plantVars, machineVars, historyVars, homingVars
  <2> QED BY <2>1 DEF Registered, Accurate
<1> QED BY <1>1, <1>2, <1>3, <1>4 DEF Next, HomingStep

\* Where homing stands: all that keeps a counter it has set right.
Surely == Base /\ Poised /\ Legs /\ Found /\ Latching /\ StepSeen /\ Registered

LEMMA InitSurely == Init => Surely
  BY InitBase, InitPoised, InitLegs, InitFound, InitLatching, InitStepSeen, InitRegistered DEF Surely

LEMMA NextSurely == Surely /\ [Next]_vars => Surely'
  BY NextBase, NextPoised, NextLegs, NextFound, NextLatching, NextStepSeen, NextRegistered DEF Surely

\* Where homing has set a joint's counter, the joint has a working switch and reads its
\* home position at the edge of it, to within one tick at the latch speed: for every
\* machine with room to stop, any wiring, and whatever stops, clears and moves come in
\* between (homing.h:150, 164, 183).  The step a joint is homed by is the one it took at the
\* edge: a leg crosses the edge once (Crossing, Crossed), the tick that finds it across
\* takes the step, and none after it does.
THEOREM HomesAccurately == Spec => []HomedAccurate
<1>1. Registered => HomedAccurate
  BY DEF Registered, HomedAccurate, Accurate
<1> QED BY <1>1, InitSurely, NextSurely, PTL DEF Spec, Surely

-----------------------------------------------------------------------------
(* Why homing goes on.  While no stop has come in between, a joint that is asked  *)
(* to move moves until its switch is seen to change: the stepper takes the blocks *)
(* as they are, and the flag that ends the wait for a joint is its own.           *)

Clean == ~missed /\ ~halted
\* A stop that was cleared in time is out of the way of the blocks behind it.
Cleared ==
  Clean =>
    \/ ~estop /\ \A b \in Waiting : b.mode \notin StopModes
    \/ pc = "ready" /\ queue # <<>> /\ queue[Len(queue)].mode = "Estop_Clear"
\* A block of rest comes first in a sequence, to the joints that do not search.
NoZero ==
  Underway =>
    \A j \in Joints : 0 \in Coming(j) => stage[j] \notin Moving /\ pc \notin {"handle", "push"}

\* What a step needs of the one before it to leave the printer running.
LEMMA CleanBefore ==
  ASSUME IInv, [Next]_vars, Clean'
  PROVE  /\ StopClear => pc = "ready" /\ pc' = "ready"
         /\ ~StopClear => Clean /\ ~StopCall
         /\ \A j \in Joints : Look(j) => UNCHANGED queue
<1>1. ASSUME StopClear PROVE pc = "ready" /\ pc' = "ready"
  BY <1>1 DEF StopClear, Clean
<1>2. ASSUME NEW j \in Joints, Look(j) PROVE UNCHANGED <<queue, halted, missed>>
  BY <1>2 DEF Look, EmergencyStop, NoStop, Clean
<1>3. ASSUME ~StopClear PROVE Clean /\ ~StopCall
  <2>1. ~StopCall
    BY DEF StopCall, EmergencyStop, Clean
  <2>2. CASE EndstopPoll \/ StepperStep
    <3>1. UNCHANGED <<missed, halted>>
      BY <2>2 DEF EndstopPoll, StepperStep, FetchVelocity, FetchOther, TickVelocity, TickPositional,
         TickIdle, historyVars, stopVars
    <3> QED BY <2>1, <3>1 DEF Clean
  <2>3. CASE HomingBegin \/ MoveBegin \/ SequenceBegin \/ HomingDone \/ Push \/ Check \/ Snapshot
    <3>1. UNCHANGED <<missed, halted>>
      BY <2>3 DEF HomingBegin, MoveBegin, SequenceBegin, HomingDone, Push, Check, Snapshot,
         historyVars, stopVars
    <3> QED BY <2>1, <3>1 DEF Clean
  <2>4. ASSUME NEW j \in Joints, Handle(j) PROVE Clean
    <3>1. UNCHANGED <<halted, missed>>
      BY <1>2, <2>4, HandleLooks
    <3> QED BY <3>1 DEF Clean
  <2>5. CASE UNCHANGED vars
    <3>1. UNCHANGED <<missed, halted>>
      BY <2>5 DEF vars, historyVars, stopVars
    <3> QED BY <2>1, <3>1 DEF Clean
  <2>6. Clean
    BY <1>3, <2>1, <2>2, <2>3, <2>4, <2>5 DEF Next, HomingStep
  <2> QED BY <2>1, <2>6
<1> QED BY <1>1, <1>2, <1>3

LEMMA InitCleared == Init => Cleared
<1> SUFFICES ASSUME Init PROVE Cleared
  OBVIOUS
<1>1. Waiting = {} /\ estop = FALSE
  BY WaitingNone DEF Init
<1> QED BY <1>1 DEF Cleared

LEMMA NextCleared == Base /\ Cleared /\ [Next]_vars => Cleared'
<1> SUFFICES ASSUME Base, Cleared, [Next]_vars, Clean' PROVE Cleared'
  BY DEF Cleared
<1>0. /\ IInv /\ Queued
      /\ ~StopClear => Clean /\ ~StopCall
  BY CleanBefore DEF Base, IInv
<1> DEFINE Free  == ~estop /\ \A b \in Waiting : b.mode \notin StopModes
           Ready == pc = "ready" /\ queue # <<>> /\ queue[Len(queue)].mode = "Estop_Clear"
<1>a. (~StopClear => (Free \/ Ready)) /\ (Free' \/ Ready' => Cleared')
  BY <1>0 DEF Cleared
<1> HIDE DEF Free, Ready
<1>1. CASE FetchVelocity \/ FetchOther
  <2>1. /\ queue # <<>> /\ queue' = Tail(queue) /\ pc' = pc /\ (Free \/ Ready)
        /\ Head(queue) \in Waiting /\ Waiting' \subseteq Waiting
        /\ FetchVelocity => estop' = estop /\ Head(queue).mode = "Velocity"
        /\ FetchOther => estop' = ((estop \/ Head(queue).mode = "Estop") /\ Head(queue).mode # "Estop_Clear")
    <3>1. /\ queue # <<>> /\ queue' = Tail(queue) /\ pc' = pc /\ ~StopClear
          /\ FetchVelocity => estop' = estop /\ Head(queue).mode = "Velocity"
          /\ FetchOther => estop' = ((estop \/ Head(queue).mode = "Estop") /\ Head(queue).mode # "Estop_Clear")
      BY <1>0, <1>1 DEF FetchVelocity, FetchOther, MayFetch, stopVars, StopClear, boundVars, historyVars
    <3> QED BY <1>0, <1>a, <3>1, WaitingTail
  <2>2. CASE Free
    <3>1. ~estop /\ Head(queue).mode # "Estop" /\ \A b \in Waiting' : b.mode \notin StopModes
      BY <2>1, <2>2 DEF Free, StopModes
    <3>2. ~estop'
      BY <1>1, <2>1, <3>1, Zenon
    <3>3. Free'
      BY <3>1, <3>2 DEF Free
    <3> QED BY <1>a, <3>3
  <2>3. CASE Ready
    <3>1. /\ Len(queue) \in Nat \ {0} /\ Head(queue) = queue[1] /\ Len(queue') = Len(queue) - 1
          /\ \A i \in 1 .. Len(queue') : queue'[i] = queue[i + 1]
      <4>1. queue \in Seq(Blocks)
        BY <1>0 DEF Queued
      <4>2. /\ Head(queue) = queue[1] /\ Len(Tail(queue)) = Len(queue) - 1
            /\ \A i \in 1 .. Len(Tail(queue)) : Tail(queue)[i] = queue[i + 1]
            /\ Len(queue) \in Nat \ {0}
        <5>1. queue # <<>> /\ Head(queue) = queue[1]
          BY <2>1, <4>1
        <5>2. Len(queue) \in Nat \ {0}
          BY <4>1, <5>1, EmptySeq
        <5> QED BY <4>1, <5>1, <5>2, HeadTailProperties
      <4>3. queue' = Tail(queue)
        BY <2>1
      <4> HIDE DEF Ready
      <4> QED BY <4>2, <4>3
    <3>2. CASE Len(queue) = 1
      <4>1. Head(queue).mode = "Estop_Clear"
        BY <2>3, <3>1, <3>2 DEF Ready
      <4>2. ~estop'
        BY <1>1, <2>1, <4>1
      <4>3. Waiting' = {}
        BY <3>1, <3>2 DEF Waiting
      <4> QED BY <1>a, <4>2, <4>3 DEF Free
    <3>3. CASE Len(queue) # 1
      <4>1. Len(queue') \in 1 .. Len(queue') /\ Len(queue') # 0 /\ Len(queue') + 1 = Len(queue)
        BY <3>1, <3>3
      <4>2. queue'[Len(queue')] = queue[Len(queue)]
        BY <3>1, <4>1
      <4>3. queue' # <<>>
        BY <4>1, EmptySeq
      <4>4. queue[Len(queue)].mode = "Estop_Clear" /\ pc = "ready"
        BY <2>3 DEF Ready
      <4>5. Ready'
        BY <2>1, <4>2, <4>3, <4>4 DEF Ready
      <4> QED BY <1>a, <4>5
    <3> QED BY <3>2, <3>3
  <2> QED BY <2>1, <2>2, <2>3
<1>2. CASE \/ EndstopPoll \/ TickVelocity \/ TickPositional \/ TickIdle \/ SequenceBegin \/ HomingDone
           \/ Check \/ Snapshot \/ UNCHANGED vars
  <2>1. /\ UNCHANGED <<queue, estop>> /\ (pc = "ready" => pc' = "ready") /\ ~StopClear
    <3>1. CASE UNCHANGED vars
      BY <3>1 DEF vars, stopVars, StopClear
    <3>2. CASE ~UNCHANGED vars
      BY <1>2, <3>2 DEF EndstopPoll, TickVelocity, TickPositional, TickIdle, SequenceBegin, HomingDone,
         Check, Snapshot, stopVars, StopClear
    <3> QED BY <3>1, <3>2
  <2>2. Free => Free'
    BY <2>1 DEF Free, Waiting
  <2>3. Ready => Ready'
    BY <2>1 DEF Ready
  <2> QED BY <1>a, <2>1, <2>2, <2>3
<1>3. CASE HomingBegin \/ MoveBegin
  <2>1. queue = <<>> /\ estop' = estop /\ halted' = halted
    BY <1>3 DEF HomingBegin, MoveBegin, stopVars
  <2>2. Free
    BY <1>a, <2>1 DEF Ready, Clean, StopClear
  <2>3. \A b \in Waiting' : b.mode = "Positional"
    <3>1. CASE HomingBegin
      BY <2>1, <3>1, WaitingNone DEF HomingBegin, Waiting
    <3>2. CASE MoveBegin
      BY <3>2, WaitingAlone DEF MoveBegin
    <3> QED BY <1>3, <3>1, <3>2
  <2> QED BY <1>a, <2>1, <2>2, <2>3 DEF Free, StopModes
<1>4. CASE Push
  <2>1. /\ pc # "ready" /\ estop' = estop /\ halted' = halted /\ block \in Velocities
        /\ queue' = Append(queue, [mode |-> "Velocity", v |-> block])
    BY <1>0, <1>4 DEF Push, stopVars, IInv, Working
  <2>2. Free
    BY <1>a, <2>1 DEF Ready, Clean, StopClear
  <2> DEFINE b0 == [mode |-> "Velocity", v |-> block]
  <2>3. b0 \in Blocks /\ b0.mode = "Velocity" /\ queue' = Append(queue, b0)
    BY <2>1 DEF Blocks, Modes
  <2> HIDE DEF b0
  <2>4. Waiting' = Waiting \cup {b0}
    BY <1>0, <2>3, WaitingAppend
  <2>5. Free'
    BY <2>1, <2>2, <2>3, <2>4 DEF Free, StopModes
  <2> QED BY <1>a, <2>5
<1>5. CASE StopCall
  BY <1>5 DEF StopCall, EmergencyStop, Clean
<1>6. CASE StopClear
  <2> DEFINE b0 == [mode |-> "Estop_Clear", v |-> None(NaN)]
  <2>1. queue' = Append(queue, b0) /\ b0 \in Blocks /\ b0.mode = "Estop_Clear" /\ pc' = "ready"
    <3>1. queue' = Append(queue, b0) /\ b0 \in Blocks /\ b0.mode = "Estop_Clear"
      BY <1>6, StopBlocks DEF StopClear
    <3>2. pc' = "ready"
      BY <1>0, <1>6, CleanBefore
    <3> QED BY <3>1, <3>2
  <2> HIDE DEF b0
  <2>2. Len(queue') = Len(queue) + 1 /\ queue'[Len(queue) + 1] = b0 /\ Len(queue) \in Nat
    BY <1>0, <2>1, AppendLast
  <2>3. queue' # <<>>
    BY <2>2, EmptySeq
  <2> QED BY <1>a, <2>1, <2>2, <2>3 DEF Ready
<1>7. ASSUME NEW j \in Joints, Handle(j) PROVE Cleared'
  <2>1. Look(j)
    BY <1>0, <1>7, HandleLooks
  <2>2. UNCHANGED <<queue, estop>> /\ pc = "handle" /\ ~StopClear
    <3>1. queue' = queue
      BY <1>0, <2>1, CleanBefore
    <3>2. estop' = estop /\ pc = "handle"
      BY <2>1 DEF Look
    <3>3. StopClear => pc = "ready"
      BY <1>0, CleanBefore
    <3> QED BY <3>1, <3>2, <3>3
  <2>3. Free
    BY <1>a, <2>2 DEF Ready
  <2>4. Free'
    BY <2>2, <2>3 DEF Free, Waiting
  <2> QED BY <1>a, <2>4
<1> QED BY <1>1, <1>2, <1>3, <1>4, <1>5, <1>6, <1>7 DEF Next, StepperStep, HomingStep

LEMMA AimMoves ==
  ASSUME IInv, NEW j \in Joints, Aims(j), block'[j] \in Int
  PROVE  block'[j] \notin {NaN, 0}
<1>1. Into(j, 0) = 0 /\ NaN \notin Int
  BY NaNFacts
<1>2. /\ Fast(j) \in Nat /\ Slow(j) \in Nat /\ 1 <= Slow(j) /\ Slow(j) <= Fast(j)
      /\ LatchesInward(j) => Into(j, LatchVel[j]) = Slow(j)
      /\ ~LatchesInward(j) => Into(j, LatchVel[j]) = -Slow(j)
  BY SpeedFacts
<1> HIDE DEF Fast, Slow, Into
<1>3. Into(j, block'[j]) # 0
  BY <1>2 DEF Aims
<1> QED BY <1>1, <1>3

LEMMA InitNoZero == Init => NoZero
  BY DEF Init, NoZero, Underway

LEMMA NextNoZero == Base /\ NoZero /\ [Next]_vars => NoZero'
<1> SUFFICES ASSUME Base, NoZero, [Next]_vars PROVE NoZero'
  OBVIOUS
<1>0. IInv /\ Queued
  BY DEF Base, IInv
<1>1. CASE EndstopPoll \/ StepperStep
  <2>1. UNCHANGED <<pc, block, stage, overlap>>
    BY <1>1 DEF EndstopPoll, StepperStep, FetchVelocity, FetchOther, TickVelocity, TickPositional,
           TickIdle, homingVars, historyVars
  <2>2. Waiting' \subseteq Waiting
    <3>1. CASE FetchVelocity \/ FetchOther
      BY <1>0, <3>1, WaitingTail DEF FetchVelocity, FetchOther, MayFetch
    <3>2. CASE EndstopPoll \/ TickVelocity \/ TickPositional \/ TickIdle
      BY <3>2 DEF EndstopPoll, TickVelocity, TickPositional, TickIdle, Waiting
    <3> QED BY <1>1, <3>1, <3>2 DEF StepperStep
  <2>3. \A j \in Joints : Coming(j)' \subseteq Coming(j)
    BY <2>1, <2>2 DEF Coming, Blocking
  <2> QED BY <2>1, <2>3 DEF NoZero, Underway
<1>2. CASE HomingBegin \/ MoveBegin \/ HomingDone
  <2>1. pc' \in {"ready", "sequence"}
    BY <1>2 DEF HomingBegin, MoveBegin, HomingDone
  <2> QED BY <2>1 DEF NoZero, Underway
<1>3. CASE SequenceBegin
  <2> SUFFICES ASSUME Underway', NEW j \in Joints, 0 \in Coming(j)'
               PROVE  stage'[j] \notin Moving /\ pc' \notin {"handle", "push"}
    BY DEF NoZero
  <2>1. /\ pc = "sequence" /\ pc' = "first" /\ ~overlap /\ queue' = queue
        /\ block'[j] = IF stage'[j] = "SEARCH" THEN SearchVel[j] ELSE 0
        /\ stage'[j] \in {"NONE", "AT_LIMIT", "SEARCH"}
    BY <1>3 DEF SequenceBegin, Underway, historyVars
  <2>2. \A b \in Waiting' : b.mode # "Velocity"
    BY <2>1 DEF Base, Ordered, OfThisPass, Waiting
  <2>3. 0 = block'[j]
    BY <2>2 DEF Coming
  <2>4. SearchVel[j] # 0
    BY MachineAssumption, HomeAssumption DEF Abs
  <2> QED BY <2>1, <2>3, <2>4 DEF Moving
<1>4. CASE Push \/ Check \/ Snapshot \/ StopCall \/ StopClear
  <2>1. UNCHANGED <<stage, overlap>> /\ (pc' \in {"ready", "sequence"} \/ pc \notin {"ready", "sequence"})
    BY <1>4 DEF Push, Check, Snapshot, StopCall, StopClear, historyVars, homingVars
  <2>2. ASSUME NEW j \in Joints PROVE Coming(j)' \subseteq Coming(j)
    <3>1. CASE Push
      BY <1>0, <3>1, PushComing
    <3>2. CASE Check \/ Snapshot
      BY <3>2 DEF Check, Snapshot, Coming, Waiting, Blocking
    <3>3. CASE StopCall \/ StopClear
      <4>1. \A b \in Waiting' : b \in Waiting \/ b.mode # "Velocity"
        <5>1. CASE StopCall
          BY <5>1, WaitingAlone DEF StopCall, EmergencyStop
        <5>2. CASE StopClear
          BY <1>0, <5>2, WaitingAppend, StopBlocks DEF StopClear
        <5> QED BY <3>3, <5>1, <5>2
      <4>2. UNCHANGED <<pc, block>>
        BY <3>3 DEF StopCall, StopClear, homingVars
      <4> QED BY <4>1, <4>2, ComingFewer
    <3> QED BY <1>4, <3>1, <3>2, <3>3
  <2>3. ASSUME Underway', pc' \in {"handle", "push"}, pc \notin {"handle", "push"}
        PROVE  \A j \in Joints : Coming(j)' = {}
    <3>1. Snapshot /\ pc = "sleep" /\ pc' = "handle" /\ ~overlap
      BY <1>4, <2>1, <2>3 DEF Push, Check, Snapshot, StopCall, StopClear, Underway
    <3>2. queue' = <<>>
      BY <3>1 DEF Snapshot, MayFetch, Base, Alone, NoMove
    <3>3. Waiting' = {}
      <4>1. Len(queue') = 0
        BY <3>2
      <4> QED BY <4>1 DEF Waiting
    <3> QED BY <3>1, <3>3 DEF Coming, Blocking
  <2> QED BY <2>1, <2>2, <2>3 DEF NoZero, Underway
<1>5. ASSUME NEW j \in Joints, Handle(j) PROVE NoZero'
  <2>1. Look(j) /\ Sends(j) /\ pc = "handle" /\ overlap' = overlap
    BY <1>0, <1>5, HandleLooks, HandleSends DEF Look
  <2> SUFFICES ASSUME Underway', NEW k \in Joints, 0 \in Coming(k)' PROVE FALSE
    BY DEF NoZero
  <2>2. 0 \notin Coming(k)
    BY <2>1 DEF NoZero, Underway
  <2>3. \A b \in Waiting' : b \in Waiting \/ b.mode # "Velocity"
    BY <1>0, <2>1, StopOrNotWaiting DEF Look, StopModes
  <2>4. CASE pc' = "push"
    <3>1. 0 = block'[k]
      BY <2>2, <2>3, ComingWith
    <3>2. block'[k] \notin {NaN, 0} \/ block'[k] = NaN
      BY <1>0, <2>1, <2>4, AimMoves DEF Sends
    <3> QED BY <3>1, <3>2, NaNFacts
  <2>5. CASE pc' # "push"
    <3>1. ~Blocking'
      BY <2>1, <2>5 DEF Look, LookSends, Blocking, Underway
    <3> QED BY <2>2, <2>3, <3>1, ComingFewer
  <2> QED BY <2>4, <2>5
<1>6. CASE UNCHANGED vars
  <2>1. UNCHANGED <<overlap, pc, stage, queue, block>>
    BY <1>6 DEF vars, historyVars, homingVars
  <2>2. \A j \in Joints : Coming(j)' = Coming(j)
    BY <2>1, ComingSame
  <2> QED BY <2>1, <2>2 DEF NoZero, Underway
<1> QED BY <1>1, <1>2, <1>3, <1>4, <1>5, <1>6 DEF Next, HomingStep

-----------------------------------------------------------------------------
\* A search that begins at the wrong end of the stroke: the switch there has been seen.
SearchSide ==
  Underway =>
    \A j \in Joints :
      wiring[j] = "good" /\ stage[j] = "SEARCH" /\ Other(Side(j)) \in Contacts(j) =>
        base[j] = {Other(Side(j))} /\ changed[j] = {}

\* Only one switch is closed at a time.
LEMMA OneEnd ==
  ASSUME IInv, NEW j \in Joints, wiring[j] = "good", Other(Side(j)) \in Contacts(j)
  PROVE  Contacts(j) = {Other(Side(j))}
<1>1. Closes(j) /\ Stroke \in Int /\ Reach(j) \in Nat /\ Reach(j) < 2 * Stroke
  BY ClosesNow, ReachFacts, SpeedFacts
<1>2. Side(j) \notin Contacts(j)
  <2> HIDE DEF Depth, Reach
  <2> QED BY <1>1 DEF Closes
<1> QED BY <1>1, <1>2 DEF Closes

\* A search leads away from the other end.
LEMMA SearchAway ==
  ASSUME Base, Legs, Underway, TickVelocity, NEW j \in Joints, wiring[j] = "good",
         stage[j] = "SEARCH", Other(Side(j)) \in Contacts(j)'
  PROVE  Other(Side(j)) \in Contacts(j)
<1>0. IInv /\ IInv' /\ wiring' = wiring /\ Stroke \in Int
  <2>1. IInv /\ IInv' /\ wiring' = wiring
    BY NextInv, TickFacts DEF Base, Next, StepperStep
  <2> QED BY <2>1, SpeedFacts
<1>1. Closes(j) /\ Closes(j)'
  BY <1>0, ClosesNow, ClosesThen
<1>2. /\ Between(Into(j, pv'[j]), LegSpeed(j)) /\ Into(j, pv'[j]) \in Int
      /\ Depth(j)' = Depth(j) + Into(j, pv'[j]) /\ Depth(j) \in Int
  BY LegTick
<1>3. LegSpeed(j) = Fast(j) /\ Fast(j) \in Nat
  BY SpeedFacts DEF LegSpeed
<1> HIDE DEF Into, Fast, Depth
<1>4. Depth(j)' >= Depth(j) /\ Depth(j)' \in Int
  BY <1>2, <1>3 DEF Between
<1> QED BY <1>0, <1>1, <1>2, <1>4 DEF Closes

LEMMA InitSearchSide == Init => SearchSide
  BY DEF Init, SearchSide, Underway

LEMMA NextSearchSide == Base /\ Legs /\ SearchSide /\ [Next]_vars => SearchSide'
<1> SUFFICES ASSUME Base, Legs, SearchSide, [Next]_vars PROVE SearchSide'
  OBVIOUS
<1>0. IInv
  BY DEF Base
<1>1. CASE EndstopPoll \/ StepperStep
  <2>0. UNCHANGED <<pc, stage, overlap, wiring>>
    BY <1>1 DEF EndstopPoll, StepperStep, FetchVelocity, FetchOther, TickVelocity, TickPositional,
           TickIdle, homingVars, historyVars, machineVars
  <2> SUFFICES ASSUME Underway, NEW j \in Joints, wiring[j] = "good", stage[j] = "SEARCH",
                      Other(Side(j)) \in Contacts(j)'
               PROVE  base'[j] = {Other(Side(j))} /\ changed'[j] = {}
    BY <2>0 DEF SearchSide, Underway
  <2>1. CASE TickVelocity
    <3>1. Other(Side(j)) \in Contacts(j)
      BY <2>1, SearchAway
    <3>2. base[j] = {Other(Side(j))} /\ changed[j] = {}
      BY <3>1 DEF SearchSide
    <3>3. ~HitNow(j)
      BY <3>2 DEF HitNow
    <3> QED BY <1>0, <2>1, <3>2, <3>3, TickFacts
  <2>2. CASE EndstopPoll
    <3>1. /\ phys' = phys /\ base' = base
          /\ changed'[j] = changed[j] \cup Delta(base[j], Contacts(j))
      BY <2>2 DEF EndstopPoll, plantVars, ChangedAfter
    <3>2. Other(Side(j)) \in Contacts(j)
      BY <2>0, <3>1, ContactsSame
    <3>3. Contacts(j) = {Other(Side(j))}
      BY <1>0, <3>2, OneEnd
    <3>4. base[j] = {Other(Side(j))} /\ changed[j] = {}
      BY <3>2 DEF SearchSide
    <3> QED BY <3>1, <3>3, <3>4 DEF Delta
  <2>3. CASE FetchVelocity \/ FetchOther \/ TickIdle
    <3>1. phys' = phys /\ base' = base /\ changed' = changed
      BY <2>3 DEF FetchVelocity, FetchOther, TickIdle, switchVars, plantVars
    <3>2. Other(Side(j)) \in Contacts(j)
      BY <2>0, <3>1, ContactsSame
    <3> QED BY <3>1, <3>2 DEF SearchSide
  <2>4. CASE TickPositional
    BY <2>4 DEF TickPositional, Base, Alone, NoMove, Underway
  <2> QED BY <1>1, <2>1, <2>2, <2>3, <2>4 DEF StepperStep
<1>2. CASE HomingBegin \/ MoveBegin \/ HomingDone
  <2>1. pc' \in {"ready", "sequence"}
    BY <1>2 DEF HomingBegin, MoveBegin, HomingDone
  <2> QED BY <2>1 DEF SearchSide, Underway
<1>3. CASE SequenceBegin
  <2> SUFFICES ASSUME Underway', NEW j \in Joints, wiring'[j] = "good", stage'[j] = "SEARCH",
                      Other(Side(j)) \in Contacts(j)'
               PROVE  base'[j] = {Other(Side(j))} /\ changed'[j] = {}
    BY DEF SearchSide
  <2>1. /\ pc = "sequence" /\ ~overlap /\ phys' = phys /\ wiring' = wiring
        /\ base'[j] = limit[j] /\ changed'[j] = {}
    BY <1>3 DEF SequenceBegin, Underway, historyVars, plantVars, machineVars
  <2>2. limit[j] = Contacts(j)
    BY <2>1 DEF Base, Quiet, Watched, Parks, Polled
  <2>3. Contacts(j)' = Contacts(j)
    BY <2>1, ContactsSame
  <2> QED BY <1>0, <2>1, <2>2, <2>3, OneEnd
<1>4. CASE Push \/ Check \/ Snapshot \/ StopCall \/ StopClear \/ UNCHANGED vars
  <2>1. /\ UNCHANGED <<stage, overlap, base, changed, phys, wiring>>
        /\ (pc' \in {"ready", "sequence"} \/ pc \notin {"ready", "sequence"})
    <3>1. CASE UNCHANGED vars
      BY <3>1 DEF vars, homingVars, historyVars, switchVars, plantVars, machineVars
    <3>2. CASE Push \/ Check \/ Snapshot \/ StopCall \/ StopClear
      BY <3>2 DEF Push, Check, Snapshot, StopCall, StopClear, historyVars, homingVars, motion,
         switchVars, plantVars, machineVars
    <3> QED BY <1>4, <3>1, <3>2
  <2>2. \A j \in Joints : Contacts(j)' = Contacts(j)
    BY <2>1, ContactsSame
  <2> QED BY <2>1, <2>2 DEF SearchSide, Underway
<1>5. ASSUME NEW j \in Joints, Handle(j) PROVE SearchSide'
  <2>1. Look(j) /\ Sends(j) /\ Turns(j) /\ pc = "handle" /\ UNCHANGED <<overlap, phys, wiring>>
    BY <1>0, <1>5, HandleLooks, HandleSends, HandleTurns DEF Look
  <2> SUFFICES ASSUME ~overlap, NEW k \in Joints, wiring[k] = "good", stage'[k] = "SEARCH",
                      Other(Side(k)) \in Contacts(k)
               PROVE  base'[k] = {Other(Side(k))} /\ changed'[k] = {}
    <3>1. \A k \in Joints : Contacts(k)' = Contacts(k)
      BY <2>1, ContactsSame
    <3> QED BY <2>1, <3>1 DEF SearchSide, Underway
  <2>2. stage[k] = "SEARCH" /\ base'[k] = base[k] /\ changed'[k] = changed[k]
    <3>1. CASE k = j
      <4>1. stage' = stage
        BY <2>1, <3>1 DEF Turns, To
      <4>2. base' = base /\ changed' = changed
        BY <2>1, <3>1, <4>1 DEF Sends, Aims
      <4> QED BY <4>1, <4>2
    <3>2. CASE k # j
      BY <2>1, <3>2 DEF Look
    <3> QED BY <3>1, <3>2
  <2> QED BY <2>1, <2>2 DEF SearchSide, Underway
<1> QED BY <1>1, <1>2, <1>3, <1>4, <1>5 DEF Next, HomingStep

-----------------------------------------------------------------------------
\* A joint goes, or a block that makes it go is on its way ...
Going(j) == Sent(j) \/ (Into(j, sv[j]) = LegSpeed(j) /\ ~stopped[j])
\* ... unless its own switch has stopped it.
Caught(j) == sv[j] = 0 /\ Other(Side(j)) \notin base[j] \cup changed[j] \cup Contacts(j)
SeenCaught(j) ==
  pc \in {"handle", "push"} /\ stage[j] = "SEARCH" /\ seen[j].stopped =>
    Other(Side(j)) \notin seen[j].limit \cup seen[j].changed
Driving(j) ==
  /\ stage[j] = "SEARCH" => Going(j) \/ Caught(j)
  /\ stage[j] \in Returning /\ Crossing(j) => Going(j)
Drives ==
  Clean /\ Underway =>
    \A j \in Joints : wiring[j] = "good" => Driving(j) /\ SeenCaught(j)

LEMMA GoingKept ==
  ASSUME NEW j \in Joints, Going(j), stage'[j] = stage[j], sv'[j] = sv[j], stopped'[j] = stopped[j],
         Coming(j) \subseteq Coming(j)'
  PROVE  Going(j)'
  BY DEF Going, Sent, LegSpeed

\* What does not touch a joint leaves it on its way, or where its switch stopped it.
LEMMA DrivingKept ==
  ASSUME NEW j \in Joints, Driving(j), stage'[j] = stage[j], wiring' = wiring,
         phys'[j] = phys[j], base'[j] = base[j], changed'[j] = changed[j],
         pv'[j] = pv[j], sv'[j] = sv[j], hit'[j] = hit[j], stopped'[j] = stopped[j],
         Coming(j) \subseteq Coming(j)'
  PROVE  Driving(j)'
<1>1. Contacts(j)' = Contacts(j)
  BY ContactsSame
<1>2. Going(j) => Going(j)'
  BY GoingKept
<1>3. Caught(j) => Caught(j)'
  BY <1>1 DEF Caught
<1>4. Crossing(j)' => Crossing(j)
  BY <1>1 DEF Crossing, Far, Past, Top
<1> QED BY <1>2, <1>3, <1>4 DEF Driving

\* A leg has a speed other than rest.
LEMMA LegMoves ==
  ASSUME NEW j \in Joints, stage[j] \in Moving
  PROVE  LegSpeed(j) \in Int /\ LegSpeed(j) # 0
<1>1. Fast(j) \in Nat /\ Slow(j) \in Nat /\ 1 <= Slow(j) /\ Slow(j) <= Fast(j)
  BY SpeedFacts
<1> HIDE DEF Fast, Slow
<1> QED BY <1>1 DEF LegSpeed, Moving

\* While homing goes on, only its own blocks are fetched, and none is dropped.
LEMMA CleanFetch ==
  ASSUME Base, Cleared, Clean, Underway
  PROVE  ~estop /\ ~FetchOther
<1>1. ~estop /\ \A b \in Waiting : b.mode \notin StopModes
  BY DEF Cleared, Underway
<1>2. \A b \in Waiting : b.mode # "Positional"
  BY DEF Base, Alone, NoMove, Underway
<1>3. ASSUME FetchOther PROVE FALSE
  <2>1. Queued /\ queue # <<>> /\ Head(queue).mode # "Velocity" /\ queue' = Tail(queue)
    BY <1>3 DEF FetchOther, MayFetch, Base, IInv
  <2>2. Head(queue) \in Waiting /\ Head(queue) \in Blocks
    BY <2>1, WaitingTail, TailKeeps
  <2> QED BY <1>1, <1>2, <2>1, <2>2 DEF Blocks, Modes, StopModes
<1> QED BY <1>1, <1>3

\* What is fetched is the first block in the queue; the others wait on.
LEMMA ComingBut ==
  ASSUME Queued, queue # <<>>, queue' = Tail(queue), UNCHANGED <<pc, block>>, NEW j \in Joints,
         Head(queue).mode = "Velocity"
  PROVE  Coming(j) \subseteq Coming(j)' \cup {Head(queue).v[j]} /\ Head(queue).v[j] \in Coming(j)
<1>1. /\ 1 \in 1 .. Len(queue) /\ Head(queue) = queue[1]
      /\ \A i \in 1 .. Len(queue') : i + 1 \in 2 .. Len(queue) /\ queue'[i] = queue[i + 1]
  BY TailFirst
<1>2. Len(queue') = Len(queue) - 1 /\ Len(queue) \in Nat
  <2>1. queue \in Seq(Blocks)
    BY DEF Queued
  <2> QED BY <2>1, HeadTailProperties
<1>3. \A i \in 1 .. Len(queue) : i = 1 \/ (i - 1 \in 1 .. Len(queue') /\ (i - 1) + 1 = i)
  BY <1>2
<1>4. Waiting \subseteq Waiting' \cup {Head(queue)}
  BY <1>1, <1>3 DEF Waiting
<1>5. Head(queue) \in Waiting
  BY <1>1 DEF Waiting
<1> QED BY <1>4, <1>5 DEF Coming, Blocking

LEMMA FetchGoing ==
  ASSUME Base, Legs, NoZero, Cleared, Clean, Underway, FetchVelocity, NEW j \in Joints,
         stage[j] \in Moving
  PROVE  /\ Going(j) => Going(j)'
         /\ Going(j)' \/ sv[j] # 0 \/ sv'[j] = 0
<1>0. /\ IInv /\ ~estop /\ queue # <<>> /\ queue' = Tail(queue) /\ Queued
      /\ Head(queue).mode = "Velocity" /\ UNCHANGED <<pc, block, stage>>
      /\ NaN \notin Int /\ Into(j, 0) = 0 /\ LegSpeed(j) \in Int /\ LegSpeed(j) # 0
      /\ sv[j] \in Int
  BY CleanFetch, NaNFacts, LegMoves DEF FetchVelocity, MayFetch, homingVars, Base, IInv, Motors
<1> DEFINE v == Head(queue).v
<1>1. Coming(j) \subseteq Coming(j)' \cup {v[j]} /\ v[j] \in Coming(j)
  BY <1>0, ComingBut
<1>2. /\ stopped'[j] => v[j] = NaN /\ stopped[j]
      /\ sv'[j] = IF v[j] # NaN THEN v[j] ELSE IF active = "Velocity" THEN sv[j] ELSE 0
  BY <1>0 DEF FetchVelocity, Unflagged, SetSpeed
<1> HIDE DEF v
<1>3. CASE v[j] # NaN
  <2>1. v[j] # 0
    BY <1>1 DEF NoZero
  <2>2. v[j] \in Int
    BY <1>0, <1>1, <1>3, ComingType
  <2>3. Into(j, v[j]) \in {0, LegSpeed(j)}
    BY <1>1, <1>3 DEF Legs, Leg, Speeds
  <2>4. Into(j, v[j]) # 0
    <3>1. SearchVel[j] \in Int
      BY SpeedFacts
    <3> QED BY <2>1, <2>2, <3>1 DEF Into
  <2>5. sv'[j] = v[j] /\ ~stopped'[j]
    BY <1>2, <1>3
  <2>6. Into(j, sv'[j]) = LegSpeed(j)' /\ ~stopped'[j]
    BY <1>0, <2>3, <2>4, <2>5 DEF LegSpeed
  <2> QED BY <2>6 DEF Going
<1>4. CASE v[j] = NaN
  <2>1. sv[j] = 0 => sv'[j] = 0
    BY <1>2, <1>4
  <2>2. CASE Sent(j)
    <3>1. Sent(j)'
      BY <1>1, <1>4, <2>2 DEF Sent
    <3> QED BY <2>1, <3>1 DEF Going
  <2>3. CASE ~Sent(j) /\ Going(j)
    <3>1. Into(j, sv[j]) = LegSpeed(j) /\ ~stopped[j]
      BY <2>3 DEF Going
    <3>2. sv[j] # 0
      BY <1>0, <3>1
    <3>3. active = "Velocity"
      BY <3>2 DEF Base, Alone, Calm
    <3>4. sv'[j] = sv[j] /\ ~stopped'[j]
      BY <1>2, <1>4, <3>1, <3>3
    <3>5. Into(j, sv'[j]) = LegSpeed(j)' /\ ~stopped'[j]
      BY <1>0, <3>1, <3>4 DEF LegSpeed
    <3> QED BY <3>5 DEF Going
  <2>4. CASE ~Going(j)
    BY <2>1, <2>4
  <2> QED BY <2>2, <2>3, <2>4
<1> QED BY <1>3, <1>4

LEMMA TickGoing ==
  ASSUME Base, Underway, TickVelocity, NEW j \in Joints, stage[j] \in Moving, Going(j), ~HitNow(j)
  PROVE  Going(j)'
<1>0. /\ IInv /\ UNCHANGED <<pc, block, stage, queue>> /\ sv'[j] = Goal(j) /\ stopped'[j] = StoppedNow(j)
      /\ Into(j, 0) = 0 /\ LegSpeed(j) # 0
  BY TickFacts, NaNFacts, LegMoves DEF Base
<1>1. Coming(j)' = Coming(j)
  BY <1>0, ComingSame
<1>2. CASE Sent(j)
  BY <1>1, <1>2 DEF Going, Sent
<1>3. CASE ~Sent(j)
  <2>1. Into(j, sv[j]) = LegSpeed(j) /\ ~stopped[j]
    BY <1>3 DEF Going
  <2>2. Goal(j) = sv[j] /\ Goal(j) # 0
    BY <1>0, <2>1 DEF Goal
  <2>3. ~StoppedNow(j)
    BY <2>1, <2>2 DEF StoppedNow
  <2>4. Into(j, sv'[j]) = LegSpeed(j)' /\ ~stopped'[j]
    BY <1>0, <2>1, <2>2, <2>3 DEF LegSpeed
  <2> QED BY <2>4 DEF Going
<1> QED BY <1>2, <1>3

\* A search goes on until the switch it is for is seen.
LEMMA PlantSearch ==
  ASSUME Base, Legs, Cleared, NoZero, SearchSide, Clean, Underway, EndstopPoll \/ StepperStep,
         NEW j \in Joints, wiring[j] = "good", stage[j] = "SEARCH", Going(j) \/ Caught(j)
  PROVE  Going(j)' \/ Caught(j)'
<1>0. IInv /\ UNCHANGED <<pc, block, stage, wiring>> /\ stage[j] \in Moving
  BY DEF EndstopPoll, StepperStep, FetchVelocity, FetchOther, TickVelocity, TickPositional,
         TickIdle, homingVars, historyVars, machineVars, Base, Moving
<1>1. CASE EndstopPoll \/ TickIdle
  <2>1. UNCHANGED <<queue, phys, base, sv, stopped>> /\ changed'[j] \subseteq changed[j] \cup base[j] \cup Contacts(j)
    BY <1>1 DEF EndstopPoll, TickIdle, ChangedAfter, Delta, motorVars, plantVars, switchVars
  <2>2. Contacts(j)' = Contacts(j) /\ Coming(j)' = Coming(j)
    BY <1>0, <2>1, ContactsSame, ComingSame
  <2>3. Going(j) => Going(j)'
    BY <1>0, <2>1, <2>2, GoingKept
  <2>4. Caught(j) => Caught(j)'
    BY <2>1, <2>2 DEF Caught
  <2> QED BY <2>3, <2>4
<1>2. CASE FetchVelocity
  <2>1. UNCHANGED <<phys, base, changed>>
    BY <1>2 DEF FetchVelocity, plantVars, switchVars
  <2>2. Contacts(j)' = Contacts(j)
    BY <1>0, <2>1, ContactsSame
  <2>3. /\ Going(j) => Going(j)'
        /\ Going(j)' \/ sv[j] # 0 \/ sv'[j] = 0
    BY <1>0, <1>2, FetchGoing
  <2> QED BY <2>1, <2>2, <2>3 DEF Caught
<1>3. CASE FetchOther
  BY <1>3, CleanFetch
<1>4. CASE TickPositional
  BY <1>4 DEF TickPositional, Base, Alone, NoMove, Underway
<1>5. CASE TickVelocity
  <2>1. /\ Polled(j) /\ sv'[j] = Goal(j)
        /\ base'[j] = IF HitNow(j) THEN limit[j] ELSE base[j]
        /\ changed'[j] = IF HitNow(j) THEN {} ELSE changed[j]
    BY <1>0, <1>5, TickFacts
  <2>2. Other(Side(j)) \in Contacts(j)' => Other(Side(j)) \in Contacts(j)
    BY <1>5, SearchAway
  <2>3. CASE HitNow(j)
    <3>1. changed[j] # {} /\ sv'[j] = 0 /\ base'[j] = Contacts(j) /\ changed'[j] = {}
      BY <2>1, <2>3 DEF HitNow, Goal, Polled
    <3>2. Other(Side(j)) \notin Contacts(j)
      BY <3>1 DEF SearchSide
    <3> QED BY <1>0, <2>2, <3>1, <3>2 DEF Caught
  <2>4. CASE ~HitNow(j) /\ Going(j)
    BY <1>0, <1>5, <2>4, TickGoing
  <2>5. CASE ~HitNow(j) /\ Caught(j)
    <3>1. sv'[j] = 0 /\ base'[j] = base[j] /\ changed'[j] = changed[j]
      BY <2>1, <2>5 DEF Goal, Caught
    <3> QED BY <1>0, <2>2, <2>5, <3>1 DEF Caught
  <2> QED BY <2>3, <2>4, <2>5
<1> QED BY <1>1, <1>2, <1>3, <1>4, <1>5 DEF StepperStep

\* A joint that has not yet crossed the edge of its switch goes towards it.
LEMMA PlantCrossing ==
  ASSUME Base, Poised, Legs, Latching, Cleared, NoZero, Clean, Underway, EndstopPoll \/ StepperStep,
         NEW j \in Joints, wiring[j] = "good", stage[j] \in Returning, Crossing(j) => Going(j),
         Crossing(j)'
  PROVE  Going(j)'
<1>0. /\ IInv /\ UNCHANGED <<pc, block, stage, wiring>> /\ stage[j] \in Moving
      /\ Crossing(j) \/ Crossed(j)
  BY DEF EndstopPoll, StepperStep, FetchVelocity, FetchOther, TickVelocity, TickPositional,
         TickIdle, homingVars, historyVars, machineVars, Base, Moving, Returning, Latching
<1>a. base'[j] = IF stage[j] = "LATCH" THEN {} ELSE {Side(j)}
  BY <1>0 DEF Crossing
<1>1. CASE EndstopPoll \/ TickIdle
  <2>1. UNCHANGED <<queue, base, sv, stopped>>
    BY <1>1 DEF EndstopPoll, TickIdle, motorVars, switchVars
  <2>2. Coming(j)' = Coming(j)
    BY <1>0, <2>1, ComingSame
  <2>3. Crossing(j)
    BY <1>0, <1>a, <2>1 DEF Crossed
  <2> QED BY <1>0, <2>1, <2>2, <2>3, GoingKept
<1>2. CASE FetchVelocity
  <2>1. base' = base
    BY <1>2 DEF FetchVelocity, switchVars
  <2>2. Crossing(j)
    BY <1>0, <1>a, <2>1 DEF Crossed
  <2> QED BY <1>0, <1>2, <2>2, FetchGoing
<1>3. CASE FetchOther
  BY <1>3, CleanFetch
<1>4. CASE TickPositional
  BY <1>4 DEF TickPositional, Base, Alone, NoMove, Underway
<1>5. CASE TickVelocity
  <2>1. /\ Polled(j) /\ base'[j] = IF HitNow(j) THEN limit[j] ELSE base[j]
    BY <1>0, <1>5, TickFacts
  <2>2. CASE Crossed(j)
    <3>1. ~HitNow(j)
      BY <1>5, <2>2, CrossedTick
    <3> QED BY <1>a, <2>1, <2>2, <3>1 DEF Crossed
  <2>3. CASE Crossing(j)
    <3>1. ~HitNow(j)
      <4>1. /\ limit[j] = Contacts(j) /\ (HitNow(j) <=> Far(j) >= 0)
            /\ Far(j) >= 0 => Contacts(j) = IF stage[j] = "LATCH" THEN {Side(j)} ELSE {}
        BY <1>0, <2>1, <2>3, CrossingSeen
      <4> HIDE DEF Far
      <4> QED BY <1>a, <2>1, <4>1
    <3> QED BY <1>0, <1>5, <2>3, <3>1, TickGoing
  <2> QED BY <1>0, <2>2, <2>3
<1> QED BY <1>1, <1>2, <1>3, <1>4, <1>5 DEF StepperStep

LEMMA InitDrives == Init => Drives
  BY DEF Init, Drives, Underway

LEMMA ThreadDrives ==
  ASSUME Base, Drives, Clean', [Next]_vars,
         \/ HomingBegin \/ MoveBegin \/ SequenceBegin \/ HomingDone \/ Push \/ Check \/ Snapshot
         \/ StopCall \/ StopClear \/ UNCHANGED vars
  PROVE  Drives'
<1>0. /\ IInv /\ (StopClear => pc = "ready" /\ pc' = "ready") /\ (~StopClear => Clean /\ ~StopCall)
  BY CleanBefore DEF Base
<1>1. CASE HomingBegin \/ MoveBegin \/ HomingDone \/ StopClear
  <2>1. pc' \in {"ready", "sequence"}
    BY <1>0, <1>1 DEF HomingBegin, MoveBegin, HomingDone
  <2> QED BY <2>1 DEF Drives, Underway
<1>2. CASE SequenceBegin
  <2> SUFFICES ASSUME Underway', NEW j \in Joints PROVE Driving(j)' /\ SeenCaught(j)'
    BY DEF Drives
  <2>1. /\ pc = "sequence" /\ pc' = "first"
        /\ block'[j] = IF stage'[j] = "SEARCH" THEN SearchVel[j] ELSE 0
        /\ stage'[j] \in {"NONE", "AT_LIMIT", "SEARCH"}
    BY <1>2 DEF SequenceBegin, Underway
  <2>2. SearchVel[j] # 0 /\ SearchVel[j] \in Int /\ NaN \notin Int
    BY MachineAssumption, HomeAssumption, NaNFacts DEF Abs
  <2>3. stage'[j] = "SEARCH" => Sent(j)'
    <3>1. block'[j] \in Coming(j)'
      BY <2>1 DEF Coming, Blocking
    <3> QED BY <2>1, <2>2, <3>1 DEF Sent
  <2> QED BY <2>1, <2>3 DEF Driving, SeenCaught, Going, Returning
<1>3. CASE Push \/ Check \/ Snapshot \/ UNCHANGED vars
  <2>1. /\ UNCHANGED <<phys, pv, sv, hit, stopped, limit, base, changed, wiring, stage, overlap>>
        /\ Clean
        /\ (pc' \in {"ready", "sequence"} \/ pc \notin {"ready", "sequence"})
    <3>1. UNCHANGED <<phys, pv, sv, hit, stopped, limit, base, changed, wiring, stage, overlap>>
      <4>1. CASE UNCHANGED vars
        BY <4>1 DEF vars, motorVars, plantVars, machineVars, switchVars, homingVars, historyVars
      <4>2. CASE Push \/ Check \/ Snapshot
        BY <4>2 DEF Push, Check, Snapshot, motion, motorVars, plantVars, machineVars, switchVars, historyVars
      <4> QED BY <1>3, <4>1, <4>2
    <3>2. pc' \in {"ready", "sequence"} \/ pc \notin {"ready", "sequence"}
      <4>1. CASE UNCHANGED vars
        BY <4>1 DEF vars
      <4>2. CASE Push \/ Check \/ Snapshot
        BY <4>2 DEF Push, Check, Snapshot
      <4> QED BY <1>3, <4>1, <4>2
    <3>3. Clean
      <4>1. UNCHANGED <<missed, halted>>
        <5>1. CASE UNCHANGED vars
          BY <5>1 DEF vars, historyVars, stopVars
        <5>2. CASE Push \/ Check \/ Snapshot
          BY <5>2 DEF Push, Check, Snapshot, stopVars, historyVars
        <5> QED BY <1>3, <5>1, <5>2
      <4> QED BY <4>1 DEF Clean
    <3> QED BY <3>1, <3>2, <3>3
  <2>2. \A j \in Joints : Coming(j) = Coming(j)'
    <3>1. CASE Push
      BY <1>0, <3>1, PushComing
    <3>2. CASE Check \/ Snapshot
      BY <3>2 DEF Check, Snapshot, Coming, Waiting, Blocking
    <3>3. CASE UNCHANGED vars
      BY <3>3, ComingSame DEF vars, homingVars
    <3> QED BY <1>3, <3>1, <3>2, <3>3
  <2> SUFFICES ASSUME Underway, Underway', NEW j \in Joints, wiring[j] = "good",
                      Driving(j), SeenCaught(j)
               PROVE  Driving(j)' /\ SeenCaught(j)'
    BY <2>1 DEF Drives, Underway
  <2>3. Driving(j)'
    BY <2>1, <2>2, DrivingKept
  <2>4. SeenCaught(j)'
    <3>1. CASE Push
      BY <3>1 DEF Push, SeenCaught
    <3>2. CASE Check
      BY <3>2 DEF Check, SeenCaught
    <3>3. CASE UNCHANGED vars
      BY <3>3 DEF vars, homingVars, SeenCaught
    <3>4. CASE Snapshot
      <4> SUFFICES ASSUME stage[j] = "SEARCH", stopped[j]
                   PROVE  Other(Side(j)) \notin limit[j] \cup changed[j]
        <5>1. seen'[j].stopped = stopped[j] /\ seen'[j].limit = limit[j] /\ seen'[j].changed = changed[j]
          BY <3>4 DEF Snapshot
        <5> QED BY <2>1, <5>1 DEF SeenCaught
      <4>1. queue = <<>> /\ ~Blocking /\ limit[j] = Contacts(j)
        BY <3>4 DEF Snapshot, MayFetch, Base, Alone, NoMove, Blocking, EndstopPending, Underway
      <4>2. ~Sent(j)
        BY <4>1, WaitingNone DEF Sent, Coming
      <4>3. Caught(j)
        BY <4>2 DEF Driving, Going
      <4> QED BY <4>1, <4>3 DEF Caught
    <3> QED BY <1>3, <3>1, <3>2, <3>3, <3>4
  <2> QED BY <2>3, <2>4
<1>4. CASE StopCall
  BY <1>0, <1>4 DEF StopCall, EmergencyStop, Clean
<1> QED BY <1>1, <1>2, <1>3, <1>4

LEMMA LookDrives ==
  ASSUME Base, Drives, Clean, NEW j \in Joints, Look(j), Sends(j), Turns(j), queue' = queue
  PROVE  Drives'
<1>0. /\ IInv /\ UNCHANGED <<phys, wiring, overlap, pv, sv, hit, stopped, seen>>
      /\ pc = "handle" /\ todo = j
      /\ \A k \in Joints \ {j} : stage'[k] = stage[k] /\ base'[k] = base[k] /\ changed'[k] = changed[k]
      /\ block' = block \/ pc' \in {"ready", "handle", "push"}
  BY DEF Look, Base, LookSends
<1> SUFFICES ASSUME ~overlap, NEW k \in Joints, wiring[k] = "good",
                    Driving(k), SeenCaught(k)
             PROVE  Driving(k)' /\ SeenCaught(k)'
  BY <1>0 DEF Drives, Underway
<1>1. Coming(k) \subseteq Coming(k)'
  BY <1>0 DEF Coming, Waiting, Blocking
<1>2. CASE k = j /\ pc' = "push" /\ stage'[j] # "SEARCH"
  <2>1. block'[j] \notin {NaN, 0}
    BY <1>0, <1>2, AimMoves DEF Sends
  <2>2. block'[j] \in Coming(j)'
    BY <1>2 DEF Coming, Blocking
  <2>3. Sent(j)'
    BY <2>1, <2>2 DEF Sent
  <2> QED BY <1>2, <2>3 DEF Driving, SeenCaught, Going
<1>3. CASE ~(k = j /\ pc' = "push" /\ stage'[j] # "SEARCH")
  <2>1. \/ stage'[k] = stage[k] /\ base'[k] = base[k] /\ changed'[k] = changed[k]
        \/ stage'[k] \notin {"SEARCH"} \cup Returning
    <3>1. CASE k = j
      <4>1. CASE pc' = "push"
        <5>1. stage' = stage /\ base' = base /\ changed' = changed
          BY <1>3, <3>1, <4>1 DEF Sends, Aims
        <5> QED BY <5>1
      <4>2. CASE pc' # "push"
        <5>1. base' = base /\ changed' = changed
          BY <4>2 DEF Sends
        <5>2. stage' = stage \/ stage'[j] \notin {"SEARCH"} \cup Returning
          BY <4>2 DEF Turns, To, Returning
        <5> QED BY <3>1, <5>1, <5>2
      <4> QED BY <4>1, <4>2
    <3>2. CASE k # j
      BY <1>0, <3>2
    <3> QED BY <3>1, <3>2
  <2>2. CASE stage'[k] \notin {"SEARCH"} \cup Returning
    BY <2>2 DEF Driving, SeenCaught
  <2>3. CASE stage'[k] = stage[k] /\ base'[k] = base[k] /\ changed'[k] = changed[k]
    <3>1. Driving(k)'
      BY <1>0, <1>1, <2>3, DrivingKept
    <3>2. SeenCaught(k)'
      BY <1>0, <2>3 DEF SeenCaught
    <3> QED BY <3>1, <3>2
  <2> QED BY <2>1, <2>2, <2>3
<1> QED BY <1>2, <1>3

LEMMA NextDrives ==
  ASSUME Base, Poised, Legs, Latching, Cleared, NoZero, SearchSide, Drives, [Next]_vars
  PROVE  Drives'
<1> SUFFICES ASSUME Clean' PROVE Drives'
  BY DEF Drives
<1>0. IInv /\ (~StopClear => Clean /\ ~StopCall) /\ (\A j \in Joints : Look(j) => queue' = queue)
  BY CleanBefore DEF Base
<1>1. CASE EndstopPoll \/ StepperStep
  <2>0. /\ UNCHANGED <<pc, stage, overlap, wiring, seen>>
        /\ Clean
    <3>1. UNCHANGED <<pc, stage, overlap, wiring, seen, missed, halted>>
      BY <1>1 DEF EndstopPoll, StepperStep, FetchVelocity, FetchOther, TickVelocity, TickPositional,
           TickIdle, homingVars, historyVars, machineVars, stopVars
    <3> QED BY <3>1 DEF Clean
  <2> SUFFICES ASSUME Underway, NEW j \in Joints, wiring[j] = "good", Driving(j), SeenCaught(j)
               PROVE  Driving(j)' /\ SeenCaught(j)'
    BY <2>0 DEF Drives, Underway
  <2>1. SeenCaught(j)'
    BY <2>0 DEF SeenCaught
  <2>2. ASSUME stage[j] = "SEARCH" PROVE Going(j)' \/ Caught(j)'
    BY <1>1, <2>0, <2>2, PlantSearch DEF Driving
  <2>3. ASSUME stage[j] \in Returning, Crossing(j)' PROVE Going(j)'
    BY <1>1, <2>0, <2>3, PlantCrossing DEF Driving
  <2> QED BY <2>0, <2>1, <2>2, <2>3 DEF Driving
<1>2. CASE \/ HomingBegin \/ MoveBegin \/ SequenceBegin \/ HomingDone \/ Push \/ Check \/ Snapshot
           \/ StopCall \/ StopClear \/ UNCHANGED vars
  BY <1>2, ThreadDrives
<1>3. ASSUME NEW j \in Joints, Handle(j) PROVE Drives'
  <2>1. Look(j) /\ Sends(j) /\ Turns(j)
    BY <1>0, <1>3, HandleLooks, HandleSends, HandleTurns
  <2>2. queue' = queue /\ Clean
    <3>1. UNCHANGED <<queue, halted, missed>>
      BY <2>1 DEF Look, EmergencyStop, NoStop, Clean
    <3> QED BY <3>1 DEF Clean
  <2> QED BY <2>1, <2>2, LookDrives
<1> QED BY <1>1, <1>2, <1>3 DEF Next, HomingStep

-----------------------------------------------------------------------------
(* Why homing stops for a reason.  The distance it lets a joint travel is one it   *)
(* covers only if a switch does not work: a joint is never farther from its switch *)
(* than its stroke and what it takes to stop, on either side.                      *)

\* A joint is driven away from its switch only while the switch was closed when its
\* limits were last set anew.
OutwardSet ==
  ~overlap =>
    \A j \in Joints :
      (\E x \in Speeds(j) : x # NaN /\ Into(j, x) < 0) => Side(j) \in base[j]

\* The speeds of a joint that are not rest were there before, and its limits are not
\* set anew under them.
LEMMA PlantSpeeds ==
  ASSUME Base, Poised, ~overlap, EndstopPoll \/ StepperStep,
         NEW j \in Joints, NEW x \in Speeds(j)', x \notin {NaN, 0}
  PROVE  x \in Speeds(j) /\ base'[j] = base[j]
<1>0. /\ UNCHANGED <<pc, block, overlap, wiring>> /\ IInv /\ Queued
      /\ Once /\ Setup
  BY DEF EndstopPoll, StepperStep, FetchVelocity, FetchOther, TickVelocity, TickPositional,
         TickIdle, homingVars, historyVars, machineVars, Base, IInv, Poised
<1>1. CASE EndstopPoll \/ TickPositional \/ TickIdle
  <2>1. UNCHANGED <<queue, sv, base>>
    BY <1>1 DEF EndstopPoll, TickPositional, TickIdle, motorVars, switchVars
  <2>2. Speeds(j)' = Speeds(j)
    BY <1>0, <2>1, ComingSame DEF Speeds
  <2> QED BY <2>1, <2>2
<1>2. CASE FetchVelocity \/ FetchOther
  <2>1. /\ queue # <<>> /\ queue' = Tail(queue) /\ Head(queue) \in Waiting /\ Waiting' \subseteq Waiting
        /\ base' = base
    BY <1>0, <1>2, WaitingTail DEF FetchVelocity, FetchOther, MayFetch, switchVars
  <2>2. Coming(j)' \subseteq Coming(j)
    BY <1>0, <2>1 DEF Coming, Blocking
  <2>3. \/ sv'[j] = 0
        \/ Head(queue).mode = "Velocity" /\ sv'[j] \in {Head(queue).v[j], sv[j], 0}
    <3>1. CASE FetchOther
      BY <3>1 DEF FetchOther, None
    <3>2. CASE FetchVelocity
      BY <3>2 DEF FetchVelocity, SetSpeed, None
    <3> QED BY <1>2, <3>1, <3>2
  <2>4. Head(queue).mode = "Velocity" => Head(queue).v[j] \in Coming(j)
    BY <2>1 DEF Coming
  <2> QED BY <2>1, <2>2, <2>3, <2>4 DEF Speeds
<1>3. CASE TickVelocity
  <2>1. /\ queue' = queue /\ sv'[j] = Goal(j)
        /\ base'[j] = IF HitNow(j) THEN limit[j] ELSE base[j]
    BY <1>0, <1>3, TickFacts
  <2>2. Coming(j)' = Coming(j)
    BY <1>0, <2>1, ComingSame
  <2>3. ~HitNow(j)
    <3>1. CASE x \in Coming(j)
      <4>1. Sent(j)
        BY <3>1 DEF Sent
      <4> QED BY <1>0, <4>1 DEF Setup, Prepared, HitNow
    <3>2. CASE x = sv'[j]
      BY <2>1, <3>2 DEF Goal
    <3> QED BY <2>2, <3>1, <3>2 DEF Speeds
  <2>4. sv'[j] = sv[j]
    BY <2>1, <2>3 DEF Goal
  <2> QED BY <2>1, <2>2, <2>3, <2>4 DEF Speeds
<1> QED BY <1>1, <1>2, <1>3 DEF StepperStep

LEMMA InitOutwardSet == Init => OutwardSet
<1> SUFFICES ASSUME Init, NEW j \in Joints, NEW x \in Speeds(j), Into(j, x) < 0 PROVE FALSE
  BY DEF OutwardSet
<1>1. Speeds(j) = {0}
  BY WaitingNone DEF Init, Speeds, Coming, Blocking, None
<1> QED BY <1>1, NaNFacts

LEMMA ThreadOutward ==
  ASSUME Base, OutwardSet,
         \/ HomingBegin \/ MoveBegin \/ SequenceBegin \/ HomingDone \/ Push \/ Check \/ Snapshot
         \/ StopCall \/ StopClear
  PROVE  OutwardSet'
<1>0. IInv /\ Queued
  BY DEF Base, IInv
<1> SUFFICES ASSUME ~overlap', NEW j \in Joints, NEW x \in Speeds(j)', x # NaN, Into(j, x) < 0
             PROVE  Side(j) \in base'[j]
  BY DEF OutwardSet
<1>a. x # 0
  BY NaNFacts
<1>1. CASE HomingBegin
  <2>1. /\ pc' = "sequence" /\ queue' = <<>> /\ sv' = sv /\ active = "Idle"
    BY <1>1 DEF HomingBegin, motion, motorVars
  <2>2. Speeds(j)' = {0}
    BY <2>1, WaitingNone DEF Waiting, Coming, Speeds, Blocking, Base, Alone, Calm
  <2> QED BY <1>a, <2>2
<1>2. CASE SequenceBegin
  <2>1. /\ pc = "sequence" /\ UNCHANGED <<sv, overlap, queue>>
        /\ pc' = "first" =>
             block' = [k \in Joints |-> IF stage'[k] = "SEARCH" THEN SearchVel[k] ELSE 0]
        /\ pc' \in {"sequence", "first"}
    BY <1>2 DEF SequenceBegin, motorVars, historyVars
  <2>2. (\A b \in Waiting : b.mode # "Velocity") /\ sv[j] = 0
    BY <2>1 DEF Base, Ordered, OfThisPass, Quiet, Watched, Parks, Rest
  <2>3. Waiting' = Waiting
    BY <2>1 DEF Waiting
  <2>4. x = SearchVel[j]
    BY <1>a, <2>1, <2>2, <2>3 DEF Speeds, Coming, Blocking
  <2>5. Into(j, SearchVel[j]) = Fast(j) /\ Fast(j) \in Nat
    BY SpeedFacts
  <2> QED BY <2>4, <2>5
<1>3. CASE Push \/ MoveBegin \/ HomingDone \/ Check \/ Snapshot \/ StopCall \/ StopClear
  <2>1. /\ UNCHANGED <<sv, base, overlap>>
        /\ ~Blocking' \/ UNCHANGED <<pc, block>>
    BY <1>3 DEF Push, MoveBegin, HomingDone, Check, Snapshot, StopCall, StopClear, motion, motorVars,
       switchVars, historyVars, homingVars, Blocking
  <2>2. Coming(j)' \subseteq Coming(j)
    <3>1. CASE Push
      BY <1>0, <3>1, PushComing
    <3>2. CASE ~Push
      <4>1. \A b \in Waiting' : b \in Waiting \/ b.mode # "Velocity"
        <5>1. CASE MoveBegin
          BY <5>1, WaitingAlone DEF MoveBegin
        <5>2. CASE HomingDone \/ Check \/ Snapshot
          BY <5>2 DEF HomingDone, Check, Snapshot, Waiting
        <5>3. CASE StopCall
          BY <5>3, WaitingAlone DEF StopCall, EmergencyStop
        <5>4. CASE StopClear
          BY <1>0, <5>4, WaitingAppend, StopBlocks DEF StopClear
        <5> QED BY <1>3, <3>2, <5>1, <5>2, <5>3, <5>4
      <4> QED BY <2>1, <4>1, ComingFewer
    <3> QED BY <3>1, <3>2
  <2> QED BY <2>1, <2>2 DEF OutwardSet, Speeds
<1> QED BY <1>1, <1>2, <1>3

LEMMA LookOutward ==
  ASSUME Base, Legs, Found, OutwardSet, NEW j \in Joints, Look(j), Sends(j)
  PROVE  OutwardSet'
<1>0. /\ UNCHANGED <<sv, phys, wiring, overlap>> /\ IInv
      /\ pc = "handle" /\ todo = j /\ (EmergencyStop \/ NoStop)
      /\ \A k \in Joints \ {j} : base'[k] = base[k]
  BY DEF Look, Base
<1> SUFFICES ASSUME ~overlap, NEW k \in Joints, NEW x \in Speeds(k)', x # NaN, Into(k, x) < 0
             PROVE  Side(k) \in base'[k]
  BY <1>0 DEF OutwardSet
<1>1. \A b \in Waiting' : b \in Waiting \/ b.mode # "Velocity"
  BY <1>0, StopOrNotWaiting DEF StopModes
<1>2. x \in Speeds(k) /\ base'[k] = base[k] => Side(k) \in base'[k]
  BY DEF OutwardSet
<1>3. CASE pc' # "push"
  <2>1. ~Blocking' /\ base' = base
    BY <1>3 DEF Look, Sends, Blocking, LookSends
  <2>2. Coming(k)' \subseteq Coming(k)
    BY <1>1, <2>1, ComingFewer
  <2> QED BY <1>0, <1>2, <2>1, <2>2 DEF Speeds
<1>4. CASE pc' = "push"
  <2>1. block'[j] \in Int /\ (\A i \in Joints \ {j} : block'[i] = NaN) /\ Aims(j)
    BY <1>4 DEF Sends
  <2>2. Coming(k)' \subseteq Coming(k) \cup {block'[k]}
    BY <1>1, ComingWith
  <2>3. CASE k # j
    BY <1>0, <1>2, <2>1, <2>2, <2>3 DEF Speeds
  <2>4. CASE k = j
    <3>1. Rest(j) /\ Polled(j)
      BY <1>0, <2>1, AimRests
    <3>2. x \in {0, block'[j]}
      <4>1. \A y \in Coming(j) : y \in {NaN, 0}
        BY <1>0, <3>1 DEF Rest, Coming, Blocking
      <4> QED BY <1>0, <2>2, <2>4, <3>1, <4>1 DEF Speeds, Rest
    <3>3. x = block'[j]
      BY <2>4, <3>2, NaNFacts
    <3>4. stage[j] = "AT_LIMIT" /\ base'[j] = limit[j]
      <4>1. Fast(j) \in Nat /\ Slow(j) \in Nat
        BY SpeedFacts
      <4>2. ~(Into(j, block'[j]) = Fast(j))
        BY <2>4, <3>3, <4>1
      <4>3. ~(stage[j] = "BACKOFF" /\ block'[j] = LatchVel[j])
        <5> SUFFICES ASSUME stage[j] = "BACKOFF", block'[j] = LatchVel[j] PROVE FALSE
          OBVIOUS
        <5>1. LatchesInward(j)
          BY <1>0 DEF Legs, Underway
        <5>2. Into(j, block'[j]) = Slow(j)
          BY <5>1, SpeedFacts
        <5> QED BY <2>4, <3>3, <4>1, <5>2
      <4> QED BY <2>1, <4>2, <4>3 DEF Aims, ResetNow
    <3>5. Side(j) \in Contacts(j)
      BY <1>0, <3>4 DEF Found, FoundAt, Underway
    <3> QED BY <2>4, <3>1, <3>4, <3>5 DEF Polled
  <2> QED BY <2>3, <2>4
<1> QED BY <1>3, <1>4

LEMMA NextOutward == Base /\ Poised /\ Legs /\ Found /\ OutwardSet /\ [Next]_vars => OutwardSet'
<1> SUFFICES ASSUME Base, Poised, Legs, Found, OutwardSet, [Next]_vars PROVE OutwardSet'
  OBVIOUS
<1>1. CASE EndstopPoll \/ StepperStep
  <2>1. overlap' = overlap
    BY <1>1 DEF EndstopPoll, StepperStep, FetchVelocity, FetchOther, TickVelocity, TickPositional,
         TickIdle, historyVars
  <2> SUFFICES ASSUME ~overlap, NEW j \in Joints, NEW x \in Speeds(j)', x # NaN, Into(j, x) < 0
               PROVE  Side(j) \in base'[j]
    BY <2>1 DEF OutwardSet
  <2>2. x # 0
    BY NaNFacts
  <2>3. x \in Speeds(j) /\ base'[j] = base[j]
    BY <1>1, <2>2, PlantSpeeds
  <2> QED BY <2>3 DEF OutwardSet
<1>2. CASE \/ HomingBegin \/ MoveBegin \/ SequenceBegin \/ HomingDone \/ Push \/ Check \/ Snapshot
           \/ StopCall \/ StopClear
  BY <1>2, ThreadOutward
<1>3. ASSUME NEW j \in Joints, Handle(j) PROVE OutwardSet'
  <2>1. Look(j) /\ Sends(j)
    BY <1>3, HandleLooks, HandleSends DEF Base
  <2> QED BY <2>1, LookOutward
<1>4. CASE UNCHANGED vars
  <2>1. UNCHANGED <<sv, base, overlap, queue, pc, block>>
    BY <1>4 DEF vars, motorVars, switchVars, historyVars, homingVars
  <2>2. \A j \in Joints : Speeds(j)' = Speeds(j)
    BY <2>1, ComingSame DEF Speeds
  <2> QED BY <2>1, <2>2 DEF OutwardSet
<1> QED BY <1>1, <1>2, <1>3, <1>4 DEF Next, HomingStep

-----------------------------------------------------------------------------
\* How far from its switch a joint gets, as Bounded says it of the other side.
Low(j) == Ends(-Depth(j) - 1, -Into(j, pv[j]))
Lower == \A j \in Joints \ unsure : wiring[j] = "good" => Low(j) < 2 * Stroke

LEMMA LowTypes ==
  ASSUME IInv, NEW j \in Joints
  PROVE  /\ Depth(j) \in Int /\ Into(j, pv[j]) \in Int /\ Stroke \in Int /\ Low(j) \in Int
         /\ -2 * Depth(j) - 2 <= Low(j)
         /\ pv[j] = 0 => Low(j) = -2 * Depth(j) - 2
<1>1. pv[j] \in Int /\ phys[j] \in Int /\ Stroke \in Int
  BY SpeedFacts DEF IInv, Machine, Motors
<1>2. Depth(j) \in Int /\ Into(j, pv[j]) \in Int /\ Into(j, 0) = 0
  BY <1>1, DepthFacts, NaNFacts DEF Depth
<1>3. PICK d \in Int : d = -Depth(j) - 1
  BY <1>2
<1>4. PICK u \in Int : u = -Into(j, pv[j])
  BY <1>2
<1>5. Low(j) = Ends(d, u)
  BY <1>3, <1>4 DEF Low
<1>6. Ends(d, u) \in Int /\ Ends(d, 0) = 2 * d /\ 2 * d <= Ends(d, u)
  BY EndsFacts
<1>7. pv[j] = 0 => u = 0
  BY <1>2, <1>4
<1> HIDE DEF Depth, Into, Ends, Low
<1> QED BY <1>1, <1>2, <1>3, <1>5, <1>6, <1>7

\* What does not move a joint, or stops it, keeps it there.
LEMMA StillLower ==
  ASSUME IInv, IInv', NEW j \in Joints, Low(j) < 2 * Stroke,
         phys'[j] = phys[j], pv'[j] = pv[j] \/ pv'[j] = 0
  PROVE  Low(j)' < 2 * Stroke
<1>1. Depth(j)' = Depth(j)
  BY DEF Depth
<1>2. CASE pv'[j] = pv[j]
  BY <1>1, <1>2 DEF Low
<1>3. CASE pv'[j] = 0
  <2>1. Low(j)' = -2 * Depth(j)' - 2
    <3>1. (IInv => (pv[j] = 0 => Low(j) = -2 * Depth(j) - 2))'
      BY LowTypes, PTL
    <3> QED BY <1>3, <3>1
  <2>2. -2 * Depth(j) - 2 <= Low(j) /\ Low(j) \in Int /\ Depth(j) \in Int /\ Stroke \in Int
    BY LowTypes
  <2> HIDE DEF Low, Depth
  <2> QED BY <1>1, <2>1, <2>2
<1> QED BY <1>2, <1>3

\* A joint goes away from its switch only while that is closed.
LEMMA DriveLong ==
  ASSUME IInv, Geared, OutwardSet, ~overlap, NEW j \in Joints, wiring[j] = "good", Polled(j),
         Into(j, Goal(j)) < 0
  PROVE  Depth(j) >= 0
<1>1. Goal(j) # 0
  BY NaNFacts
<1>2. Goal(j) = sv[j] /\ ~HitNow(j)
  BY <1>1 DEF Goal
<1>3. Side(j) \in base[j]
  <2>1. sv[j] \in Speeds(j) /\ sv[j] \in Int
    BY DEF Speeds, IInv, Motors
  <2> QED BY <1>2, <2>1, NaNFacts DEF OutwardSet
<1>4. ~hit[j]
  BY <1>1, <1>2 DEF Geared, HitRests
<1>5. changed[j] = {}
  BY <1>2, <1>4 DEF HitNow
<1>6. Side(j) \in Contacts(j)
  BY <1>3, <1>5 DEF Polled, ChangedAfter, Delta
<1> QED BY <1>6, GoodContacts

LEMMA TickLower ==
  ASSUME Base, OutwardSet, TickVelocity, NEW j \in Joints, wiring[j] = "good", j \notin unsure,
         Low(j) < 2 * Stroke
  PROVE  Low(j)' < 2 * Stroke
<1>0. IInv /\ Geared
  BY DEF Base
<1>1. ~overlap
  BY <1>0 DEF Geared, OverlapDoubts
<1>2. pv'[j] = Toward(pv[j], Goal(j)) /\ phys'[j] = phys[j] + pv'[j] /\ Polled(j)
  BY <1>0, TickFacts
<1>3. pv[j] \in Int /\ sv[j] \in Int /\ phys[j] \in Int /\ Goal(j) \in Int /\ pv'[j] \in Int
  <2>1. pv[j] \in Int /\ sv[j] \in Int /\ phys[j] \in Int /\ Goal(j) \in Int
    BY <1>0 DEF IInv, Motors, Machine, Goal
  <2> QED BY <1>2, <2>1, TowardType
<1>4. Within(pv[j], Fast(j)) /\ Within(Goal(j), Fast(j)) /\ Fast(j) \in Nat
  <2>1. Tame(j) /\ Fast(j) \in Nat /\ Within(0, Fast(j))
    BY <1>0, SpeedFacts, WithinFacts DEF Geared
  <2> QED BY <2>1 DEF Tame, Goal
<1>a. Into(j, pv[j]) \in Int /\ Into(j, Goal(j)) \in Int /\ Depth(j) \in Int
  BY <1>3, DepthFacts DEF Depth
<1>5. PICK u \in Int : u = -Into(j, pv[j])
  BY <1>a
<1>6. PICK g \in Int : g = -Into(j, Goal(j))
  BY <1>a
<1>7. PICK d \in Int : d = -Depth(j) - 1
  BY <1>a
<1>8. -Into(j, pv'[j]) = Toward(u, g)
  <2>1. Into(j, pv'[j]) = Toward(Into(j, pv[j]), Into(j, Goal(j)))
    BY <1>2, <1>3, IntoToward
  <2>2. Into(j, pv[j]) \in Int /\ Into(j, Goal(j)) \in Int
    BY <1>3, DepthFacts
  <2>3. \A a, b \in Int : -Toward(a, b) = Toward(-a, -b)
    BY DEF Toward
  <2> HIDE DEF Into, Toward
  <2> QED BY <1>5, <1>6, <2>1, <2>2, <2>3
<1>9. -Depth(j)' - 1 = d + Toward(u, g)
  <2>1. Depth(j)' = DepthOf(j, phys[j] + pv'[j])
    BY <1>2 DEF Depth
  <2>2. DepthOf(j, phys[j] + pv'[j]) = Depth(j) + Into(j, pv'[j])
    BY <1>3, DepthFacts DEF Depth
  <2>3. Depth(j) \in Int /\ Into(j, pv'[j]) \in Int
    BY <1>3, DepthFacts DEF Depth
  <2> HIDE DEF Into, Toward, Depth, DepthOf
  <2> QED BY <1>7, <1>8, <2>1, <2>2, <2>3
<1>10. u <= Fast(j) /\ g <= Fast(j)
  BY <1>3, <1>4, <1>5, <1>6 DEF Into, Within
<1>11. g > 0 => d < 0
  <2>1. Into(j, Goal(j)) < 0 => Depth(j) >= 0
    BY <1>0, <1>1, <1>2, DriveLong
  <2>2. Depth(j) \in Int /\ Into(j, Goal(j)) \in Int
    BY <1>3, DepthFacts DEF Depth
  <2> HIDE DEF Into, Depth
  <2> QED BY <1>6, <1>7, <2>1, <2>2
<1>12. PICK B \in Int : B = 2 * Stroke - 1
  BY SpeedFacts
<1>13. Fast(j) * (Fast(j) + 1) <= B
  <2>1. Reach(j) \in Nat /\ Reach(j) < 2 * Stroke /\ Stroke \in Int
    BY ReachFacts, SpeedFacts
  <2>2. Reach(j) <= B
    BY <1>12, <2>1
  <2> QED BY <2>2 DEF Reach
<1>14. Ends(d, u) <= B
  <2>1. Low(j) = Ends(d, u) /\ Low(j) \in Int /\ Stroke \in Int
    BY <1>0, <1>5, <1>7, LowTypes DEF Low
  <2> HIDE DEF Low, Ends
  <2> QED BY <1>12, <2>1
<1>15. Ends(d + Toward(u, g), Toward(u, g)) <= B
  <2> HIDE DEF Ends, Toward
  <2> QED BY <1>4, <1>10, <1>11, <1>13, <1>14, EndsTick
<1>16. Low(j)' = Ends(d + Toward(u, g), Toward(u, g))
  BY <1>8, <1>9 DEF Low
<1>17. Toward(u, g) \in Int /\ Ends(d + Toward(u, g), Toward(u, g)) \in Int /\ Stroke \in Int
  BY TowardType, EndsFacts, SpeedFacts
<1> HIDE DEF Low, Ends, Toward
<1> QED BY <1>12, <1>15, <1>16, <1>17

LEMMA InitLower == Init => Lower
<1> SUFFICES ASSUME Init, NEW j \in Joints PROVE Low(j) < 2 * Stroke
  BY DEF Lower
<1>1. IInv /\ phys[j] \in 0 .. Stroke /\ pv[j] = 0
  BY InitInv, InputsAssumption DEF Init, None
<1>2. Low(j) = -2 * Depth(j) - 2 /\ Stroke \in Int
  BY <1>1, LowTypes
<1>3. Depth(j) >= -Stroke /\ Depth(j) \in Int
  BY <1>1, <1>2 DEF Depth, DepthOf
<1> HIDE DEF Low, Depth
<1> QED BY <1>2, <1>3

LEMMA PlantLower ==
  ASSUME Base, OutwardSet, Inside, Lower, EndstopPoll \/ StepperStep
  PROVE  Lower'
<1>0. IInv /\ IInv' /\ UNCHANGED <<unsure, wiring>>
  <2>1. IInv /\ UNCHANGED <<unsure, wiring>>
    BY DEF EndstopPoll, StepperStep, FetchVelocity, FetchOther, TickVelocity, TickPositional,
         TickIdle, historyVars, machineVars, Base
  <2>2. [Next]_vars
    BY DEF Next
  <2> QED BY <2>1, <2>2, NextInv
<1> SUFFICES ASSUME NEW j \in Joints, j \notin unsure, wiring[j] = "good", Low(j) < 2 * Stroke
             PROVE  Low(j)' < 2 * Stroke
  BY <1>0 DEF Lower
<1>1. CASE EndstopPoll \/ TickIdle \/ FetchVelocity \/ FetchOther
  <2>1. phys' = phys /\ (pv'[j] = pv[j] \/ pv'[j] = 0)
    BY <1>1 DEF EndstopPoll, TickIdle, FetchVelocity, FetchOther, plantVars, motorVars, None
  <2> QED BY <1>0, <2>1, StillLower
<1>2. CASE TickVelocity
  BY <1>2, TickLower
<1>3. CASE TickPositional
  <2>1. pv[j] = 0 /\ pv'[j] = 0
    BY <1>3 DEF TickPositional, Base, Alone, Calm
  <2>2. \/ phys'[j] = phys[j]
        \/ phys'[j] > phys[j] /\ phys'[j] <= Stroke
        \/ phys'[j] < phys[j] /\ phys'[j] >= 0
    BY <1>0, <1>3, MoveTick
  <2>3. phys[j] \in Int /\ phys'[j] \in Int /\ Stroke \in Int
    BY <1>0, SpeedFacts DEF IInv, Machine
  <2>4. Depth(j)' >= Depth(j) \/ Depth(j)' >= -Stroke
    BY <2>2, <2>3 DEF Depth, DepthOf
  <2>5. Low(j) = -2 * Depth(j) - 2 /\ Depth(j) \in Int
    BY <1>0, <2>1, LowTypes
  <2>6. Low(j)' = -2 * Depth(j)' - 2 /\ Depth(j)' \in Int
    <3>1. (IInv => Depth(j) \in Int /\ (pv[j] = 0 => Low(j) = -2 * Depth(j) - 2))'
      BY LowTypes, PTL
    <3> QED BY <1>0, <2>1, <3>1
  <2> HIDE DEF Low, Depth
  <2> QED BY <2>3, <2>4, <2>5, <2>6
<1> QED BY <1>1, <1>2, <1>3 DEF StepperStep

\* A joint that is homed is just past its switch, on either side.
LEMMA HomedLower ==
  ASSUME Base, Legs, Found, Latching, StepSeen, ~overlap, NEW j \in Joints, pc = "handle", todo = j,
         seen[j].stopped,
         \/ stage[j] = "RELEASE" /\ seen[j].limit = {}
         \/ stage[j] = "LATCH" /\ seen[j].limit = {IF LatchVel[j] < 0 THEN "Min" ELSE "Max"}
  PROVE  Low(j) < 2 * Stroke
<1>1. Far(j) >= 0 /\ Crossed(j) /\ pv[j] = 0
  BY HomedPast
<1>2. Low(j) = -2 * Depth(j) - 2 /\ Depth(j) \in Int /\ Stroke \in Int
  BY <1>1, LowTypes DEF Base
<1>3. /\ Far(j) \in Int /\ Top(j) \in Int /\ Top(j) * (Top(j) + 1) < 2 * Stroke
      /\ 1 <= Top(j) /\ Top(j) < Stroke
  BY PastTypes DEF Base
<1>4. 2 * Far(j) + 2 + Rate(j) * (Rate(j) - 1) <= Top(j) * (Top(j) + 1)
  BY <1>1 DEF Crossed
<1>5. Rate(j) = 0
  BY <1>1, NaNFacts DEF Rate
<1>6. PICK T \in Int : T = Top(j) * (Top(j) + 1)
  BY <1>3
<1>7. 2 * Far(j) + 2 < 2 * Stroke
  <2>1. 2 * Far(j) + 2 + 0 * (0 - 1) <= T
    BY <1>4, <1>5, <1>6
  <2>2. T < 2 * Stroke
    BY <1>3, <1>6
  <2> HIDE DEF Far
  <2> QED BY <1>2, <1>3, <2>1, <2>2
<1>8. Far(j) = Depth(j) \/ Far(j) = -Depth(j) - 1
  BY DEF Far, Past, Depth
<1> HIDE DEF Far, Depth, Low
<1> QED BY <1>1, <1>2, <1>3, <1>7, <1>8

LEMMA NextLower ==
  ASSUME Base, Legs, Found, Latching, StepSeen, OutwardSet, Inside, Lower, [Next]_vars
  PROVE  Lower'
<1>0. IInv /\ IInv'
  BY NextInv DEF Base
<1>1. CASE EndstopPoll \/ StepperStep
  BY <1>1, PlantLower
<1>2. CASE \/ HomingBegin \/ MoveBegin \/ SequenceBegin \/ HomingDone \/ Push \/ Check \/ Snapshot
           \/ StopCall \/ StopClear \/ UNCHANGED vars
  <2>1. /\ UNCHANGED <<phys, pv, wiring>>
        /\ \A j \in Joints : j \in unsure => j \in unsure'
    <3>1. CASE HomingBegin
      BY <3>1 DEF HomingBegin, motion, plantVars, motorVars, machineVars
    <3>2. CASE ~HomingBegin
      BY <1>2, <3>2 DEF MoveBegin, SequenceBegin, HomingDone, Push, Check, Snapshot, StopCall,
         StopClear, vars, motion, plantVars, motorVars, machineVars, historyVars
    <3> QED BY <3>1, <3>2
  <2> QED BY <1>0, <2>1, StillLower DEF Lower
<1>3. ASSUME NEW j \in Joints, Handle(j) PROVE Lower'
  <2>1. Look(j) /\ Turns(j)
    BY <1>0, <1>3, HandleLooks, HandleTurns
  <2>2. UNCHANGED <<phys, pv, wiring>> /\ pc = "handle" /\ todo = j
    BY <2>1 DEF Look
  <2> SUFFICES ASSUME NEW k \in Joints, k \notin unsure', wiring[k] = "good" PROVE Low(k)' < 2 * Stroke
    BY <2>2 DEF Lower
  <2>3. CASE k \notin unsure
    BY <1>0, <2>2, <2>3, StillLower DEF Lower
  <2>4. CASE k \in unsure
    <3>1. /\ k = j /\ ~overlap /\ seen[j].stopped
          /\ \/ stage[j] = "RELEASE" /\ seen[j].limit = {}
             \/ stage[j] = "LATCH" /\ seen[j].limit = {IF LatchVel[j] < 0 THEN "Min" ELSE "Max"}
      BY <2>1, <2>4 DEF Turns, To, SameCounter
    <3>2. Low(k) < 2 * Stroke
      BY <2>2, <3>1, HomedLower
    <3> QED BY <1>0, <2>2, <3>2, StillLower
  <2> QED BY <2>3, <2>4
<1> QED BY <1>1, <1>2, <1>3 DEF Next, HomingStep

-----------------------------------------------------------------------------
\* Where the carriage was, by the counter, when homing began to count a joint's way,
\* and when it looked at the joint last.
LastAt(j) == DepthOf(j, lastPos[j] - (pos[j] - phys[j]))
SeenAt(j) == DepthOf(j, seen[j].pos - (pos[j] - phys[j]))
TripOf(j) ==
  /\ stage[j] = "SEARCH" => -Stroke <= LastAt(j) /\ LastAt(j) <= Depth(j)
  /\ stage[j] \in Returning => 0 <= LastAt(j) /\ 2 * LastAt(j) <= Reach(j)
  /\ stage[j] = "LATCH" => -Reach(j) <= 2 * Depth(j)
  /\ pc \in {"handle", "push"} =>
       /\ stage[j] = "SEARCH" => LastAt(j) <= SeenAt(j) /\ 2 * SeenAt(j) <= Reach(j)
       /\ stage[j] \in Returning => -Reach(j) <= 2 * SeenAt(j) /\ 2 * SeenAt(j) <= Reach(j)
Trip ==
  Underway => \A j \in Joints \ unsure : wiring[j] = "good" => TripOf(j)

LEMMA TripTypes ==
  ASSUME IInv, NEW j \in Joints
  PROVE  /\ LastAt(j) \in Int /\ SeenAt(j) \in Int /\ Depth(j) \in Int
         /\ Reach(j) \in Nat /\ Stroke \in Int
         /\ Abs(lastPos[j] - seen[j].pos) = Abs(LastAt(j) - SeenAt(j))
<1>1. /\ pos[j] \in Int /\ phys[j] \in Int /\ lastPos[j] \in Int /\ seen[j].pos \in Int
      /\ Stroke \in Int /\ SearchVel[j] \in Int
  BY SeenType, SpeedFacts DEF IInv, Machine, Working
<1>2. Reach(j) \in Nat
  BY ReachFacts
<1>3. /\ LastAt(j) \in Int /\ SeenAt(j) \in Int /\ Depth(j) \in Int
      /\ Abs(lastPos[j] - seen[j].pos) = Abs(LastAt(j) - SeenAt(j))
  BY <1>1 DEF LastAt, SeenAt, Depth, DepthOf, Abs
<1> QED BY <1>1, <1>2, <1>3

\* A joint that backs off is stopped by its switch as it is when it searches.
LEMMA FarBound ==
  ASSUME Base, Legs, Latching, Underway, NEW j \in Joints, wiring[j] = "good",
         stage[j] \in {"BACKOFF", "RELEASE"}
  PROVE  -Reach(j) <= 2 * Depth(j)
<1>1. Crossing(j) \/ Crossed(j)
  BY DEF Latching, Returning
<1>2. /\ Far(j) \in Int /\ Rate(j) \in Int /\ Top(j) \in Int /\ 1 <= Top(j)
      /\ Depth(j) \in Int /\ Reach(j) \in Nat /\ Fast(j) \in Nat /\ Top(j) <= Fast(j)
  <2>1. Top(j) <= Fast(j) /\ Fast(j) \in Nat
    BY SpeedFacts DEF Top
  <2> QED BY <2>1, PastTypes, TripTypes DEF Base
<1>3. Far(j) = -Depth(j) - 1
  BY DEF Far, Past, Depth
<1>4. 0 <= Rate(j)
  <2>1. Between(Into(j, pv[j]), LegSpeed(j))
    BY DEF Legs, Leg
  <2>2. LegSpeed(j) \in {-Fast(j), -Slow(j)} /\ Slow(j) \in Nat
    BY SpeedFacts DEF LegSpeed
  <2>3. Rate(j) = -Into(j, pv[j]) /\ Into(j, pv[j]) \in Int
    <3>1. pv[j] \in Int
      BY DEF Base, IInv, Motors
    <3> QED BY <3>1, DepthFacts DEF Rate
  <2> HIDE DEF Fast, Slow, Into, Rate, LegSpeed
  <2> QED BY <1>2, <2>1, <2>2, <2>3 DEF Between
<1>5. PICK T \in Int : T = Top(j) * (Top(j) + 1)
  BY <1>2
<1>6. PICK R \in Int : R = Rate(j) * (Rate(j) - 1)
  BY <1>2
<1>7. T <= Reach(j)
  <2>1. Top(j) \in Nat
    BY <1>2
  <2> QED BY <1>2, <1>5, <2>1, Squares DEF Reach
<1>8. R >= 0
  <2>1. CASE Rate(j) = 0
    BY <1>6, <2>1
  <2>2. CASE Rate(j) # 0
    <3>1. Rate(j) - 1 \in Nat /\ (Rate(j) - 1) * ((Rate(j) - 1) + 1) = R
      BY <1>2, <1>4, <1>6, <2>2
    <3>2. 0 <= (Rate(j) - 1) * ((Rate(j) - 1) + 1)
      BY <3>1, Squares
    <3> QED BY <3>1, <3>2
  <2> QED BY <2>1, <2>2
<1>9. 2 * Far(j) + 2 <= T
  <2>1. CASE Crossing(j)
    <3>1. Far(j) < Top(j)
      BY <2>1 DEF Crossing
    <3>2. 2 * Top(j) <= T
      <4>1. PICK t \in Nat : t = Top(j) - 1
        BY <1>2
      <4>2. 0 <= t * (t + 1)
        BY Squares
      <4>3. T = t * (t + 1) + 2 * Top(j)
        <5>1. Top(j) = t + 1
          BY <1>2, <4>1
        <5>2. (t + 1) * ((t + 1) + 1) = t * (t + 1) + 2 * (t + 1)
          OBVIOUS
        <5> QED BY <1>5, <5>1, <5>2
      <4>4. PICK m \in Int : m = t * (t + 1)
        OBVIOUS
      <4> HIDE DEF Top
      <4> QED BY <1>2, <4>2, <4>3, <4>4
    <3> HIDE DEF Far, Top
    <3> QED BY <1>2, <3>1, <3>2
  <2>2. CASE Crossed(j)
    <3>1. 2 * Far(j) + 2 + R <= T
      BY <1>5, <1>6, <2>2 DEF Crossed
    <3> HIDE DEF Far
    <3> QED BY <1>2, <1>8, <3>1
  <2> QED BY <1>1, <2>1, <2>2
<1> HIDE DEF Far, Depth, Reach
<1> QED BY <1>2, <1>3, <1>7, <1>9

LEMMA DepthBelow ==
  ASSUME IInv, Bounded, NEW j \in Joints, wiring[j] = "good", j \notin unsure
  PROVE  2 * Depth(j) <= Reach(j)
<1>1. Ends(Depth(j), Into(j, pv[j])) <= Reach(j)
  BY DEF Bounded
<1>2. Depth(j) \in Int /\ Into(j, pv[j]) \in Int /\ Reach(j) \in Nat
  BY TripTypes, LowTypes
<1>3. 2 * Depth(j) <= Ends(Depth(j), Into(j, pv[j])) /\ Ends(Depth(j), Into(j, pv[j])) \in Int
  BY <1>2, EndsFacts
<1> HIDE DEF Depth, Into, Reach
<1> QED BY <1>1, <1>2, <1>3

LEMMA InitTrip == Init => Trip
  BY DEF Init, Trip, Underway

LEMMA PlantTrip ==
  ASSUME Base, Legs, Trip, EndstopPoll \/ StepperStep
  PROVE  Trip'
<1>0. IInv /\ UNCHANGED <<pc, stage, overlap, unsure, wiring, seen, lastPos>>
  BY DEF EndstopPoll, StepperStep, FetchVelocity, FetchOther, TickVelocity, TickPositional,
         TickIdle, homingVars, historyVars, machineVars, Base
<1> SUFFICES ASSUME Underway, NEW j \in Joints, wiring[j] = "good", TripOf(j)
             PROVE  TripOf(j)'
  BY <1>0 DEF Trip, Underway
<1>1. LastAt(j)' = LastAt(j) /\ SeenAt(j)' = SeenAt(j)
  BY <1>0, CounterFollows DEF LastAt, SeenAt
<1>2. stage[j] \in {"SEARCH", "LATCH"} => Depth(j)' >= Depth(j) /\ Depth(j)' \in Int
  <2> SUFFICES ASSUME stage[j] \in {"SEARCH", "LATCH"} PROVE Depth(j)' >= Depth(j) /\ Depth(j)' \in Int
    OBVIOUS
  <2>1. CASE TickVelocity
    <3>1. /\ Between(Into(j, pv'[j]), LegSpeed(j)) /\ Into(j, pv'[j]) \in Int
          /\ Depth(j) \in Int /\ Depth(j)' = Depth(j) + Into(j, pv'[j])
      BY <2>1, LegTick
    <3>2. LegSpeed(j) \in Nat
      BY SpeedFacts DEF LegSpeed
    <3> HIDE DEF Depth, Into, LegSpeed
    <3> QED BY <3>1, <3>2 DEF Between
  <2>2. CASE TickPositional
    BY <2>2 DEF TickPositional, Base, Alone, NoMove, Underway
  <2>3. CASE ~TickVelocity /\ ~TickPositional
    <3>1. phys' = phys
      BY <2>3 DEF EndstopPoll, StepperStep, FetchVelocity, FetchOther, TickIdle, plantVars
    <3>2. Depth(j)' = Depth(j) /\ Depth(j) \in Int
      BY <1>0, <3>1, TripTypes DEF Depth
    <3> HIDE DEF Depth
    <3> QED BY <3>2
  <2> QED BY <2>1, <2>2, <2>3
<1>3. LastAt(j) \in Int /\ SeenAt(j) \in Int /\ Depth(j) \in Int /\ Reach(j) \in Nat /\ Stroke \in Int
  BY <1>0, TripTypes
<1>4. Reach(j)' = Reach(j)
  BY DEF Reach
<1> HIDE DEF LastAt, SeenAt, Depth, Reach
<1> QED BY <1>0, <1>1, <1>2, <1>3, <1>4 DEF TripOf

\* What touches neither a joint nor what is known of its way.
LEMMA TripKept ==
  ASSUME NEW j \in Joints, TripOf(j), stage'[j] = stage[j], phys'[j] = phys[j], pos'[j] = pos[j],
         lastPos'[j] = lastPos[j], seen'[j] = seen[j],
         pc' \in {"handle", "push"} => pc \in {"handle", "push"}
  PROVE  TripOf(j)'
<1>1. /\ LastAt(j)' = LastAt(j) /\ SeenAt(j)' = SeenAt(j) /\ Depth(j)' = Depth(j) /\ Reach(j)' = Reach(j)
  BY DEF LastAt, SeenAt, Depth, Reach
<1> HIDE DEF LastAt, SeenAt, Depth, Reach
<1> QED BY <1>1 DEF TripOf

LEMMA ThreadTrip ==
  ASSUME Base, Legs, Latching, Bounded, Lower, Trip,
         \/ HomingBegin \/ MoveBegin \/ SequenceBegin \/ HomingDone \/ Push \/ Check \/ Snapshot
         \/ StopCall \/ StopClear
  PROVE  Trip'
<1>0. IInv
  BY DEF Base
<1>1. CASE HomingBegin \/ MoveBegin \/ HomingDone
  <2>1. pc' \in {"ready", "sequence"}
    BY <1>1 DEF HomingBegin, MoveBegin, HomingDone
  <2> QED BY <2>1 DEF Trip, Underway
<1>2. CASE SequenceBegin
  <2>1. /\ pc = "sequence" /\ UNCHANGED <<phys, pos, wiring, overlap, unsure>>
        /\ pc' \in {"sequence", "first"}
        /\ \A j \in Joints : stage'[j] \in {"NONE", "AT_LIMIT", "SEARCH"}
        /\ \A j \in Joints : stage'[j] = "SEARCH" => lastPos'[j] = pos[j]
    BY <1>2 DEF SequenceBegin, plantVars, machineVars, historyVars
  <2> SUFFICES ASSUME Underway', NEW j \in Joints, j \notin unsure, wiring[j] = "good",
                      stage'[j] = "SEARCH"
               PROVE  -Stroke <= LastAt(j)' /\ LastAt(j)' <= Depth(j)'
    BY <2>1 DEF Trip, TripOf, Underway, Returning
  <2>2. pv[j] = 0
    BY <2>1 DEF Underway, Base, Quiet, Watched, Parks, Rest
  <2>3. Low(j) = -2 * Depth(j) - 2 /\ Low(j) < 2 * Stroke /\ Depth(j) \in Int /\ Stroke \in Int
    BY <1>0, <2>2, LowTypes DEF Lower
  <2>4. LastAt(j)' = Depth(j) /\ Depth(j)' = Depth(j)
    <3>1. pos[j] - (pos[j] - phys[j]) = phys[j]
      BY <1>0 DEF IInv, Machine
    <3>2. lastPos'[j] = pos[j] /\ pos'[j] = pos[j] /\ phys'[j] = phys[j]
      BY <2>1
    <3> QED BY <3>1, <3>2 DEF LastAt, Depth
  <2> HIDE DEF Low, Depth, LastAt
  <2> QED BY <2>3, <2>4
<1>3. CASE Push \/ Check \/ StopCall \/ StopClear
  <2>1. /\ UNCHANGED <<phys, pos, wiring, overlap, unsure, stage, lastPos>>
        /\ pc' \in {"handle", "push"} => pc \in {"handle", "push"} /\ seen' = seen
        /\ pc' \in {"ready", "sequence"} \/ pc \notin {"ready", "sequence"}
    BY <1>3 DEF Push, Check, StopCall, StopClear, motion, plantVars, machineVars, historyVars, homingVars
  <2> SUFFICES ASSUME Underway, NEW j \in Joints, TripOf(j) PROVE TripOf(j)'
    BY <2>1 DEF Trip, Underway
  <2>2. CASE pc' \in {"handle", "push"}
    BY <2>1, <2>2, TripKept
  <2>3. CASE pc' \notin {"handle", "push"}
    <3>1. LastAt(j)' = LastAt(j) /\ Depth(j)' = Depth(j) /\ Reach(j)' = Reach(j)
      BY <2>1 DEF LastAt, Depth, Reach
    <3> HIDE DEF LastAt, Depth, Reach
    <3> QED BY <2>1, <2>3, <3>1 DEF TripOf
  <2> QED BY <2>2, <2>3
<1>4. CASE Snapshot
  <2>1. /\ UNCHANGED <<phys, pos, wiring, overlap, unsure, stage, lastPos>> /\ pc = "sleep"
        /\ \A j \in Joints : seen'[j].pos = pos[j]
    BY <1>4 DEF Snapshot, motion, plantVars, machineVars, historyVars
  <2> SUFFICES ASSUME Underway, NEW j \in Joints, j \notin unsure, wiring[j] = "good", TripOf(j)
               PROVE  TripOf(j)'
    BY <2>1 DEF Trip, Underway
  <2>2. LastAt(j)' = LastAt(j) /\ Depth(j)' = Depth(j) /\ Reach(j)' = Reach(j) /\ SeenAt(j)' = Depth(j)
    <3>1. pos[j] - (pos[j] - phys[j]) = phys[j]
      BY <1>0 DEF IInv, Machine
    <3> QED BY <2>1, <3>1 DEF LastAt, Depth, Reach, SeenAt
  <2>3. 2 * Depth(j) <= Reach(j)
    BY <1>0, DepthBelow
  <2>4. stage[j] \in Returning => -Reach(j) <= 2 * Depth(j)
    <3>1. CASE stage[j] = "LATCH"
      BY <3>1 DEF TripOf
    <3>2. CASE stage[j] \in {"BACKOFF", "RELEASE"}
      BY <3>2, FarBound
    <3> QED BY <3>1, <3>2 DEF Returning
  <2> HIDE DEF LastAt, Depth, Reach, SeenAt
  <2> QED BY <2>1, <2>2, <2>3, <2>4 DEF TripOf
<1> QED BY <1>1, <1>2, <1>3, <1>4

LEMMA LookTrip ==
  ASSUME Base, Legs, Found, Latching, Bounded, Trip,
         NEW j \in Joints, Look(j), Sends(j), Turns(j)
  PROVE  Trip'
<1>0. /\ IInv /\ UNCHANGED <<phys, wiring, overlap, seen>>
      /\ pc = "handle" /\ todo = j
      /\ \A k \in Joints \ {j} : stage'[k] = stage[k] /\ pos'[k] = pos[k] /\ lastPos'[k] = lastPos[k]
      /\ unsure' = unsure \/ (unsure' = unsure \ {j})
      /\ stage'[j] \in {"SEARCH", "BACKOFF", "RELEASE", "LATCH"} => unsure' = unsure /\ pos' = pos
  <2>1. stage'[j] \in {"SEARCH", "BACKOFF", "RELEASE", "LATCH"} => unsure' = unsure /\ pos' = pos
    BY DEF Turns, To, SameCounter
  <2> QED BY <2>1 DEF Look, Base
<1> SUFFICES ASSUME Underway', NEW k \in Joints, k \notin unsure', wiring[k] = "good"
             PROVE  TripOf(k)'
  BY <1>0 DEF Trip
<1>1. Underway /\ ~overlap
  BY <1>0 DEF Underway
<1>2. CASE k # j
  <2>1. TripOf(k)
    BY <1>0, <1>1, <1>2 DEF Trip
  <2> QED BY <1>0, <1>2, <2>1, TripKept
<1>3. CASE k = j /\ stage'[j] \notin {"SEARCH", "BACKOFF", "RELEASE", "LATCH"}
  BY <1>3 DEF TripOf, Returning
<1>4. CASE k = j /\ stage'[j] \in {"SEARCH", "BACKOFF", "RELEASE", "LATCH"}
  <2>0. unsure' = unsure /\ pos' = pos /\ TripOf(j) /\ j \notin unsure /\ wiring[j] = "good"
    BY <1>0, <1>1, <1>4 DEF Trip
  <2>1. CASE stage' = stage
    <3>1. lastPos'[j] = lastPos[j]
      <4>1. CASE pc' = "push"
        <5>1. Aims(j)
          BY <4>1 DEF Sends
        <5> QED BY <2>1, <5>1 DEF Aims
      <4>2. CASE pc' # "push"
        BY <4>2 DEF Sends
      <4> QED BY <4>1, <4>2
    <3> QED BY <1>0, <1>4, <2>0, <2>1, <3>1, TripKept
  <2>2. CASE To(j, "AT_LIMIT", "BACKOFF") \/ To(j, "AT_LIMIT", "RELEASE")
    <3>1. pc' = "push" /\ stage[j] = "AT_LIMIT" /\ stage'[j] \in {"BACKOFF", "RELEASE"}
      BY <2>2 DEF Turns, To, Sends
    <3>2. lastPos'[j] = seen[j].pos
      BY <3>1 DEF Sends, Aims
    <3>3. seen[j].pos = pos[j]
      <4>1. j >= todo
        BY <1>0, JointsFacts
      <4> QED BY <1>0, <1>1, <3>1, <4>1 DEF Base, Quiet, SeenStill
    <3>4. Depth(j) >= 0
      <4>1. Side(j) \in Contacts(j)
        BY <1>1, <3>1 DEF Found, FoundAt
      <4> QED BY <1>0, <2>0, <4>1, GoodContacts
    <3>5. 2 * Depth(j) <= Reach(j) /\ Depth(j) \in Int /\ Reach(j) \in Nat
      BY <1>0, <2>0, DepthBelow, TripTypes
    <3>6. LastAt(j)' = Depth(j) /\ SeenAt(j)' = Depth(j) /\ Reach(j)' = Reach(j)
      <4>1. pos[j] - (pos[j] - phys[j]) = phys[j]
        BY <1>0 DEF IInv, Machine
      <4>2. lastPos'[j] = pos[j] /\ seen'[j].pos = pos[j] /\ pos'[j] = pos[j] /\ phys'[j] = phys[j]
        BY <1>0, <2>0, <3>2, <3>3
      <4> QED BY <4>1, <4>2 DEF LastAt, SeenAt, Depth, Reach
    <3> HIDE DEF LastAt, SeenAt, Depth, Reach
    <3> QED BY <1>4, <3>1, <3>4, <3>5, <3>6 DEF TripOf, Returning
  <2>3. CASE To(j, "BACKOFF", "LATCH")
    <3>1. pc' = "push" /\ stage[j] = "BACKOFF" /\ stage'[j] = "LATCH"
      BY <2>3 DEF Turns, To, Sends
    <3>2. lastPos'[j] = lastPos[j]
      BY <3>1 DEF Sends, Aims
    <3>3. -Reach(j) <= 2 * Depth(j)
      BY <1>1, <2>0, <3>1, FarBound
    <3>4. LastAt(j)' = LastAt(j) /\ SeenAt(j)' = SeenAt(j) /\ Reach(j)' = Reach(j) /\ Depth(j)' = Depth(j)
      BY <1>0, <2>0, <3>2 DEF LastAt, SeenAt, Depth, Reach
    <3> HIDE DEF LastAt, SeenAt, Depth, Reach
    <3> QED BY <1>0, <1>4, <2>0, <3>1, <3>3, <3>4 DEF TripOf, Returning
  <2> QED BY <1>4, <2>1, <2>2, <2>3 DEF Turns, To
<1> QED BY <1>2, <1>3, <1>4

LEMMA NextTrip ==
  ASSUME Base, Legs, Found, Latching, Bounded, Lower, Trip, [Next]_vars
  PROVE  Trip'
<1>1. CASE EndstopPoll \/ StepperStep
  BY <1>1, PlantTrip
<1>2. CASE \/ HomingBegin \/ MoveBegin \/ SequenceBegin \/ HomingDone \/ Push \/ Check \/ Snapshot
           \/ StopCall \/ StopClear
  BY <1>2, ThreadTrip
<1>3. ASSUME NEW j \in Joints, Handle(j) PROVE Trip'
  <2>1. Look(j) /\ Sends(j) /\ Turns(j)
    BY <1>3, HandleLooks, HandleSends, HandleTurns DEF Base
  <2> QED BY <2>1, LookTrip
<1>4. CASE UNCHANGED vars
  <2>1. UNCHANGED <<phys, pos, wiring, overlap, unsure, stage, lastPos, seen, pc>>
    BY <1>4 DEF vars, plantVars, machineVars, historyVars, homingVars
  <2> QED BY <2>1, TripKept DEF Trip, Underway
<1> QED BY <1>1, <1>2, <1>3, <1>4 DEF Next, HomingStep

-----------------------------------------------------------------------------
\* What makes a look at a joint stop the machine.
LEMMA HandleStops ==
  ASSUME NEW j \in Joints, Handle(j), halted', ~halted
  PROVE  /\ pc = "handle" /\ todo = j
         /\ \/ stage[j] = "SEARCH" /\ Travelled(j) > SearchTravel
            \/ /\ stage[j] = "SEARCH" /\ seen[j].stopped
               /\ seen[j].limit \cup seen[j].changed # {} /\ ~SwitchSeen(j)
            \/ stage[j] \in Returning /\ Travelled(j) > LatchTravel
            \/ stage[j] \in {"BACKOFF", "RELEASE"} /\ seen[j].stopped /\ seen[j].limit # {}
            \/ /\ stage[j] = "LATCH" /\ seen[j].stopped
               /\ seen[j].limit # {IF LatchVel[j] < 0 THEN "Min" ELSE "Max"}
<1>0. ~NoStop
  BY DEF NoStop
<1>1. CASE HandleSearch(j)
  BY <1>0, <1>1 DEF HandleSearch, At
<1>2. CASE HandleAtLimit(j) \/ HandlePreFinal(j)
  BY <1>0, <1>2 DEF HandleAtLimit, HandlePreFinal
<1>3. CASE HandleBackoff(j)
  BY <1>0, <1>3 DEF HandleBackoff, At, OffTravel, Returning
<1>4. CASE HandleRelease(j)
  BY <1>0, <1>4 DEF HandleRelease, At, OffTravel, Returning
<1>5. CASE HandleLatch(j)
  BY <1>0, <1>5 DEF HandleLatch, At, OffTravel, Returning
<1> QED BY <1>1, <1>2, <1>3, <1>4, <1>5 DEF Handle

\* A joint whose place is known and whose switch works gets no farther on a leg than
\* homing lets it.
LEMMA TravelShort ==
  ASSUME IInv, Trip, Underway, pc \in {"handle", "push"},
         NEW j \in Joints, j \notin unsure, wiring[j] = "good"
  PROVE  /\ stage[j] = "SEARCH" => ~(Travelled(j) > SearchTravel)
         /\ stage[j] \in Returning => ~(Travelled(j) > LatchTravel)
<1>1. /\ LastAt(j) \in Int /\ SeenAt(j) \in Int /\ Depth(j) \in Int /\ Reach(j) \in Nat
      /\ Stroke \in Int /\ Travelled(j) = Abs(LastAt(j) - SeenAt(j))
  BY TripTypes DEF Travelled
<1>2. /\ SearchTravel \in Int /\ LatchTravel \in Int /\ Fast(j) \in Nat
      /\ SearchTravel > Stroke + Fast(j) * Fast(j) /\ Reach(j) <= LatchTravel
  BY MachineAssumption, TravelAssumption, LatchAssumption, SpeedFacts DEF Reach, Fast
<1>3. TripOf(j)
  BY DEF Trip
<1>4. PICK Q \in Nat : Q = Fast(j) * Fast(j)
  BY <1>2
<1>5. Reach(j) <= 2 * Q
  <2>1. PICK f \in Nat : f = Fast(j)
    BY <1>2
  <2>2. f * (f + 1) = f * f + f
    OBVIOUS
  <2>3. f <= f * f
    <3>1. CASE f = 0
      BY <3>1
    <3>2. CASE f # 0
      <4>1. f - 1 \in Nat /\ 0 <= (f - 1) * ((f - 1) + 1) /\ (f - 1) * ((f - 1) + 1) = f * f - f
        <5>1. f - 1 \in Nat
          BY <3>2
        <5> QED BY <5>1, Squares
      <4>2. PICK s \in Int : s = f * f
        OBVIOUS
      <4> QED BY <4>1, <4>2
    <3> QED BY <3>1, <3>2
  <2>4. Reach(j) = f * f + f /\ Q = f * f
    BY <1>4, <2>1, <2>2 DEF Reach
  <2>5. PICK s \in Int : s = f * f
    OBVIOUS
  <2> HIDE DEF Reach
  <2> QED BY <1>1, <1>4, <2>3, <2>4, <2>5
<1>6. PICK l \in Int, s \in Int : l = LastAt(j) /\ s = SeenAt(j)
  BY <1>1
<1>7. PICK R \in Nat : R = Reach(j)
  BY <1>1
<1>8. ASSUME stage[j] = "SEARCH" PROVE ~(Travelled(j) > SearchTravel)
  <2>1. -Stroke <= l /\ l <= s /\ 2 * s <= R
    BY <1>3, <1>6, <1>7, <1>8 DEF TripOf
  <2>2. Travelled(j) = s - l
    BY <1>1, <1>6, <2>1 DEF Abs
  <2> HIDE DEF Travelled
  <2>3. SearchTravel > Stroke + Q /\ R <= 2 * Q
    BY <1>2, <1>4, <1>5, <1>7
  <2>4. s - l < SearchTravel
    BY <1>1, <1>2, <2>1, <2>3
  <2> QED BY <1>2, <2>2, <2>4
<1>9. ASSUME stage[j] \in Returning PROVE ~(Travelled(j) > LatchTravel)
  <2>1. 0 <= l /\ 2 * l <= R /\ -R <= 2 * s /\ 2 * s <= R
    BY <1>3, <1>6, <1>7, <1>9 DEF TripOf
  <2>2. Travelled(j) = Abs(l - s) /\ R <= LatchTravel
    BY <1>1, <1>2, <1>6, <1>7
  <2>3. Abs(l - s) <= R /\ Abs(l - s) \in Int
    BY <2>1 DEF Abs
  <2> HIDE DEF Travelled, Abs
  <2> QED BY <1>2, <2>2, <2>3
<1> QED BY <1>8, <1>9

\* A joint seen at rest while it backs off, releases or latches has crossed the edge.
LEMMA RestsCrossed ==
  ASSUME Base, Legs, Latching, Drives, Clean, Underway, pc = "handle",
         NEW j \in Joints, todo = j, wiring[j] = "good", stage[j] \in Returning, seen[j].stopped
  PROVE  seen[j].limit = (IF stage[j] = "LATCH" THEN {Side(j)} ELSE {})
<1>0. IInv /\ ~overlap /\ j >= todo /\ ~Blocking
  BY JointsFacts DEF Base, Underway, Blocking
<1>1. pv[j] = 0 /\ sv[j] = 0 /\ Rest(j) /\ seen[j].limit = Contacts(j)
  BY <1>0, SeenRests DEF Base, Polled
<1>2. ~Going(j)
  <2>1. Into(j, sv[j]) = 0 /\ LegSpeed(j) # 0
    BY <1>1, NaNFacts, LegMoves DEF Moving, Returning
  <2> HIDE DEF Into, LegSpeed
  <2> QED BY <1>0, <1>1, <2>1, RestUnsent DEF Going
<1>3. Crossed(j)
  BY <1>2 DEF Latching, Drives, Driving
<1>4. 0 <= Rate(j) /\ Rate(j) <= Top(j)
  <2>1. Into(j, pv[j]) = 0
    BY <1>1, NaNFacts
  <2>2. 0 <= Rate(j) /\ Rate(j) <= 0
    <3> HIDE DEF Into
    <3> QED BY <2>1 DEF Rate
  <2>3. Rate(j) \in Int /\ Top(j) \in Int /\ 1 <= Top(j)
    BY <1>0, PastTypes
  <2> HIDE DEF Rate, Top
  <2> QED BY <2>2, <2>3
<1>5. Contacts(j) = base[j]
  BY <1>0, <1>3, <1>4, CrossedSeen
<1> QED BY <1>1, <1>3, <1>5 DEF Crossed

Purposeful ==
  /\ Bounded /\ Inside /\ OutwardSet /\ Lower /\ Trip
  /\ Cleared /\ NoZero /\ SearchSide /\ Drives
Stopping == stops \in Nat
Reasoned == Surely /\ Purposeful /\ Stopping

LEMMA InitReasoned == Init => Reasoned
<1> SUFFICES ASSUME Init PROVE Reasoned
  OBVIOUS
<1>1. Surely
  BY InitSurely
<1>2. Purposeful
  BY InitKept, InitOutwardSet, InitLower, InitTrip, InitCleared, InitNoZero, InitSearchSide,
     InitDrives DEF Purposeful
<1>3. Stopping
  BY DEF Init, Stopping
<1> QED BY <1>1, <1>2, <1>3 DEF Reasoned

LEMMA NextStopping == Stopping /\ [Next]_vars => Stopping'
<1> SUFFICES ASSUME Stopping, [Next]_vars PROVE Stopping'
  OBVIOUS
<1>1. CASE StopCall
  BY <1>1 DEF StopCall, Stopping
<1>2. CASE ~StopCall
  <2>1. stops' = stops
    <3>1. CASE EndstopPoll \/ StepperStep \/ HomingBegin \/ MoveBegin \/ StopClear \/ UNCHANGED vars
      BY <3>1 DEF EndstopPoll, StepperStep, FetchVelocity, FetchOther, TickVelocity, TickPositional,
         TickIdle, HomingBegin, MoveBegin, StopClear, vars, boundVars
    <3>2. CASE SequenceBegin \/ HomingDone \/ Push \/ Check \/ Snapshot
      BY <3>2 DEF SequenceBegin, HomingDone, Push, Check, Snapshot, boundVars
    <3>3. ASSUME NEW j \in Joints, Handle(j) PROVE stops' = stops
      BY <3>3 DEF Handle, HandleSearch, HandleAtLimit, HandleBackoff, HandleRelease, HandleLatch,
         HandlePreFinal, handleRest, boundVars
    <3> QED BY <1>2, <3>1, <3>2, <3>3 DEF Next, HomingStep
  <2> QED BY <2>1 DEF Stopping
<1> QED BY <1>1, <1>2

LEMMA NextReasoned == Reasoned /\ [Next]_vars => Reasoned'
<1> SUFFICES ASSUME Reasoned, [Next]_vars PROVE Reasoned'
  OBVIOUS
<1>1. Surely' /\ Stopping'
  BY NextSurely, NextStopping DEF Reasoned
<1>2. Bounded' /\ Inside'
  BY NextKept DEF Reasoned, Surely, Purposeful
<1>3. OutwardSet' /\ Lower' /\ Trip'
  BY NextOutward, NextLower, NextTrip DEF Reasoned, Surely, Purposeful
<1>4. Cleared' /\ NoZero' /\ SearchSide' /\ Drives'
  BY NextCleared, NextNoZero, NextSearchSide, NextDrives DEF Reasoned, Surely, Purposeful
<1> QED BY <1>1, <1>2, <1>3, <1>4 DEF Reasoned, Purposeful

\* Only a look at a joint, or a stop from outside, stops the machine.
LEMMA WhoStops ==
  ASSUME Stopping, [Next]_vars, halted', ~halted, stops' = stops
  PROVE  \E j \in Joints : Handle(j)
<1>1. ~StopCall
  BY DEF StopCall, Stopping
<1>2. CASE EndstopPoll \/ StepperStep \/ HomingBegin \/ MoveBegin \/ StopClear \/ UNCHANGED vars
  BY <1>2 DEF EndstopPoll, StepperStep, FetchVelocity, FetchOther, TickVelocity, TickPositional,
     TickIdle, HomingBegin, MoveBegin, StopClear, vars, stopVars
<1>3. CASE SequenceBegin \/ HomingDone \/ Push \/ Check \/ Snapshot
  BY <1>3 DEF SequenceBegin, HomingDone, Push, Check, Snapshot, stopVars
<1> QED BY <1>1, <1>2, <1>3 DEF Next, HomingStep

LEMMA StopReason ==
  ASSUME Reasoned, [Next]_vars, halted', ~halted, stops' = stops, unsure = {}, ~missed,
         \A j \in Joints : wiring[j] = "good"
  PROVE  FALSE
<1>0. IInv /\ Base /\ Legs /\ Latching /\ Trip /\ Drives /\ Clean /\ 1 \in Joints
  BY JointsFacts DEF Reasoned, Surely, Purposeful, Base, Clean
<1>1. PICK j \in Joints : Handle(j)
  BY WhoStops DEF Reasoned
<1>2. /\ pc = "handle" /\ todo = j
      /\ \/ stage[j] = "SEARCH" /\ Travelled(j) > SearchTravel
         \/ /\ stage[j] = "SEARCH" /\ seen[j].stopped
            /\ seen[j].limit \cup seen[j].changed # {} /\ ~SwitchSeen(j)
         \/ stage[j] \in Returning /\ Travelled(j) > LatchTravel
         \/ stage[j] \in {"BACKOFF", "RELEASE"} /\ seen[j].stopped /\ seen[j].limit # {}
         \/ /\ stage[j] = "LATCH" /\ seen[j].stopped
            /\ seen[j].limit # {IF LatchVel[j] < 0 THEN "Min" ELSE "Max"}
  BY <1>1, HandleStops
<1>3. Underway
  BY <1>0, <1>2 DEF Underway, Base, Geared, OverlapDoubts
<1>4. /\ stage[j] = "SEARCH" => ~(Travelled(j) > SearchTravel)
      /\ stage[j] \in Returning => ~(Travelled(j) > LatchTravel)
  BY <1>0, <1>2, <1>3, TravelShort
<1>5. ~(/\ stage[j] = "SEARCH" /\ seen[j].stopped
        /\ seen[j].limit \cup seen[j].changed # {} /\ ~SwitchSeen(j))
  <2> SUFFICES ASSUME stage[j] = "SEARCH", seen[j].stopped,
                      seen[j].limit \cup seen[j].changed # {}, ~SwitchSeen(j)
               PROVE  FALSE
    OBVIOUS
  <2>1. seen[j].limit \cup seen[j].changed \subseteq {Side(j), Other(Side(j))}
    BY <1>0, SidesFacts DEF IInv, Working, Snapshots, Limits
  <2>2. Other(Side(j)) \notin seen[j].limit \cup seen[j].changed
    BY <1>0, <1>2, <1>3 DEF Drives, SeenCaught
  <2> QED BY <2>1, <2>2 DEF SwitchSeen
<1>6. stage[j] \in Returning /\ seen[j].stopped =>
        seen[j].limit = (IF stage[j] = "LATCH" THEN {Side(j)} ELSE {})
  BY <1>0, <1>1, <1>2, <1>3, RestsCrossed
<1>7. stage[j] = "LATCH" => Side(j) = IF LatchVel[j] < 0 THEN "Min" ELSE "Max"
  <2>1. stage[j] = "LATCH" => LatchesInward(j)
    BY <1>0, <1>3 DEF Legs
  <2>2. SearchVel[j] \in Int /\ LatchVel[j] \in Int /\ SearchVel[j] # 0 /\ LatchVel[j] # 0
    BY SpeedFacts, HomeAssumption DEF Abs
  <2> QED BY <2>1, <2>2 DEF LatchesInward, Side
<1> QED BY <1>2, <1>4, <1>5, <1>6, <1>7 DEF Returning

\* Homing stops the machine only for a reason, for every machine with room to stop: a
\* switch that does not work, a stop from outside it has slept through, or an earlier
\* homing that overlapped a move.  Neither the distance it allows (homing.h:108, 143, 158, 174)
\* is ever covered on working switches, nor is a joint found at rest on a leg with its
\* switches as they should not be (homing.h:123, 153, 169, 189): until it has crossed
\* the edge a block of its own drives it (Drives), and it gets no farther from the edge
\* than it takes to stop, on either side of it (Bounded, Lower, Trip).
THEOREM StopsForAReason == Spec => NoSpuriousStop
<1>1. Init => Reasoned
  BY InitReasoned
<1>2. Reasoned /\ [Next]_vars => Reasoned'
  BY NextReasoned
<1>3. Reasoned /\ [Next]_vars =>
        [halted' /\ ~halted /\ stops' = stops =>
           unsure # {} \/ missed \/ \E j \in Joints : wiring[j] # "good"]_vars
  BY StopReason
<1> QED BY <1>1, <1>2, <1>3, PTL DEF Spec, NoSpuriousStop
=============================================================================
