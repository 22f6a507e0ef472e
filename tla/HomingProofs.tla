---------------------------- MODULE HomingProofs ----------------------------
(***************************************************************************)
(* Homing, for any machine: the joints' velocities are numbers whatever     *)
(* blocks follow one another, the joints still to home are counted right,   *)
(* and only the joints of one sequence move, whatever is stopped and        *)
(* cleared meanwhile.                                                       *)
(***************************************************************************)
EXTENDS Homing, FiniteSetTheorems, WellFoundedInduction, SequenceTheorems, TLAPS

Blocks == [mode : Modes, v : Velocities]
Snapshots == [pos : Int, stopped : BOOLEAN, limit : Limits, changed : Limits, step : Int]
ToHome == {j \in Joints : Busy(j)}

\* The machine: carriages, switches, counters.
Machine ==
  /\ phys \in [Joints -> Int] /\ pos \in [Joints -> Int] /\ limitStep \in [Joints -> Int]
  /\ wiring \in [Joints -> {"good", "open", "stuck", "swapped"}]
  /\ seqOf \in [Joints -> Int]
  /\ limit \in [Joints -> Limits] /\ base \in [Joints -> Limits]
  /\ changed \in [Joints -> Limits]

\* The stepper, and the joints' state it keeps.
Motors ==
  /\ pv \in [Joints -> Int] /\ sv \in [Joints -> Int] /\ togo \in [Joints -> Int]
  /\ hit \in [Joints -> BOOLEAN] /\ stopped \in [Joints -> BOOLEAN]
  /\ active \in {"Idle", "Velocity", "Positional"}

\* The queue; a positional block has a displacement for every joint.
Queued ==
  /\ queue \in Seq(Blocks)
  /\ \A i \in 1 .. Len(queue) :
       queue[i].mode = "Positional" => queue[i].v \in [Joints -> Int]
  /\ estop \in BOOLEAN /\ halted \in BOOLEAN

\* The printer thread.
Working ==
  /\ pc \in {"ready", "sequence", "first", "push", "check", "sleep", "handle"}
  /\ mask \subseteq Joints
  /\ sequence \in -1 .. NumJoints
  /\ stage \in [Joints -> Stages] /\ lastPos \in [Joints -> Int]
  /\ homed \in [Joints -> BOOLEAN]
  /\ seen \in [Joints -> Snapshots]
  /\ todo \in 1 .. NumJoints + 1
  /\ block \in IF pc \in {"first", "push"} THEN Velocities ELSE {NoBlock}
  /\ ticks \in 0 .. MaxTicks

Counted == count = Cardinality(ToHome)

IInv == Machine /\ Motors /\ Queued /\ Working /\ Counted

-----------------------------------------------------------------------------
LEMMA JointsFacts ==
  /\ NumJoints \in Nat /\ NumJoints >= 1 /\ 1 \in Joints
  /\ \A j \in Joints : j \in Nat /\ j >= 1 /\ j <= NumJoints
  /\ IsFiniteSet(Joints) /\ Cardinality(Joints) = NumJoints
<1>1. NumJoints \in Nat /\ NumJoints >= 1
  BY TimesAssumption
<1> QED BY <1>1, FS_Interval DEF Joints

\* The next joint to look at exists, be it one past the last.
LEMMA AfterExists ==
  ASSUME NEW j \in 0 .. NumJoints
  PROVE  After(j) \in j + 1 .. NumJoints + 1 /\ After(j) \in 1 .. NumJoints + 1
<1> DEFINE T == {k \in j + 1 .. NumJoints + 1 : k <= NumJoints => Busy(k)}
           Less == OpToRel(<, Nat)
<1>1. j \in Nat /\ NumJoints \in Nat /\ j <= NumJoints
  BY JointsFacts
<1>2. T \subseteq Nat /\ NumJoints + 1 \in T
  BY <1>1
<1>3. PICK k \in T : \A i \in T : <<i, k>> \notin Less
  <2> HIDE DEF T, Less
  <2>1. T # {}
    BY <1>2
  <2>2. IsWellFoundedOn(Less, Nat)
    BY NatLessThanWellFounded DEF Less
  <2> QED BY <1>2, <2>1, <2>2, WFMin
<1>4. \A i \in T : ~(i < k)
  BY <1>2, <1>3 DEF OpToRel
<1>5. k \in j + 1 .. NumJoints + 1 /\ (k <= NumJoints => Busy(k))
  OBVIOUS
<1>6. ASSUME NEW i \in j + 1 .. k - 1 PROVE ~Busy(i)
  <2>1. i < k /\ i \in j + 1 .. NumJoints + 1 /\ k \in Nat
    BY <1>1, <1>5
  <2>2. i \notin T
    BY <1>4, <2>1
  <2> QED BY <2>1, <2>2
<1>7. After(j) \in j + 1 .. NumJoints + 1
  BY <1>5, <1>6 DEF After
<1> QED BY <1>1, <1>7

LEMMA BlocksAreFull ==
  \A v \in Velocities : v # NoBlock
<1>1. SUFFICES ASSUME NEW v \in Velocities PROVE v # NoBlock
  OBVIOUS
<1>2. 1 \in DOMAIN v
  BY JointsFacts DEF Velocities
<1>3. 1 \notin DOMAIN NoBlock
  BY DEF NoBlock
<1> QED BY <1>2, <1>3

LEMMA CountType ==
  ASSUME Working, Counted
  PROVE  count \in 0 .. NumJoints
<1>1. ToHome \in SUBSET Joints
  BY DEF ToHome
<1>2. Cardinality(ToHome) \in Nat /\ Cardinality(ToHome) <= NumJoints
  BY <1>1, JointsFacts, FS_Subset, FS_CardinalityType
<1> QED BY <1>2, JointsFacts DEF Counted

LEMMA InvariantTypes == IInv => TypeOK
<1> SUFFICES ASSUME IInv PROVE TypeOK
  OBVIOUS
<1>1. \A i \in 1 .. Len(queue) : queue[i].mode \in Modes /\ queue[i].v \in Velocities
  <2>1. \A i \in 1 .. Len(queue) : queue[i] \in Blocks
    BY ElementOfSeq DEF IInv, Queued
  <2> QED BY <2>1 DEF Blocks
<1>2. pc = "first" \/ pc = "push" <=> block # NoBlock
  BY BlocksAreFull DEF IInv, Working
<1>3. count \in 0 .. NumJoints
  BY CountType DEF IInv
<1> QED BY <1>1, <1>2, <1>3 DEF IInv, Machine, Motors, Queued, Working, TypeOK

-----------------------------------------------------------------------------
LEMMA InitInv == Init => IInv
<1> SUFFICES ASSUME Init PROVE IInv
  OBVIOUS
<1>1. Machine
  BY MachineAssumption, InputsAssumption DEF Init, Machine, None, Limits
<1>2. Motors
  BY DEF Init, Motors, None
<1>3. Queued
  <2>1. <<>> \in Seq(Blocks) /\ Len(<<>>) = 0
    BY EmptySeq
  <2>2. queue \in Seq(Blocks) /\ Len(queue) = 0 /\ estop \in BOOLEAN /\ halted \in BOOLEAN
    BY <2>1 DEF Init
  <2>3. 1 .. Len(queue) = {}
    BY <2>2
  <2> QED BY <2>2, <2>3 DEF Queued
<1>4. Working
  BY JointsFacts, TimesAssumption
     DEF Init, Working, None, FirstSequence, Stages, Snapshots, Unseen, Limits, NoBlock
<1>5. ToHome = {}
  BY DEF Init, ToHome, Busy, None
<1>6. Counted
  BY <1>5, FS_EmptySet DEF Init, Counted
<1> QED BY <1>1, <1>2, <1>3, <1>4, <1>6 DEF IInv

-----------------------------------------------------------------------------
(* The endstop thread and the stepper *)

LEMMA ContactsType ==
  ASSUME NEW j \in Joints, Machine
  PROVE  Contacts(j) \in Limits
<1>1. wiring[j] \in {"good", "open", "stuck", "swapped"} /\ Endstops[j] \subseteq {"Min", "Max"}
  BY MachineAssumption DEF Machine
<1> QED BY <1>1 DEF Contacts, Limits, Side

\* What changes nothing the printer thread keeps leaves its part of the invariant.
LEMMA ThreadUntouched ==
  ASSUME IInv, UNCHANGED homingVars, UNCHANGED pc, ticks' \in 0 .. MaxTicks
  PROVE  Working' /\ Counted'
<1>1. Working'
  BY DEF IInv, Working, homingVars
<1>2. ToHome' = ToHome
  BY DEF ToHome, Busy, homingVars
<1> QED BY <1>1, <1>2 DEF IInv, Counted, homingVars

LEMMA ClockBounds ==
  ASSUME IInv, MayTick, Clock
  PROVE  ticks' \in 0 .. MaxTicks
  BY TimesAssumption DEF IInv, Working, MayTick, TimeLeft, Clock

LEMMA TowardType ==
  \A p, s \in Int : Toward(p, s) \in Int
  BY DEF Toward

LEMMA TailKeeps ==
  ASSUME Queued, queue # <<>>
  PROVE  /\ Head(queue) \in Blocks
         /\ Head(queue).mode = "Positional" => Head(queue).v \in [Joints -> Int]
         /\ Tail(queue) \in Seq(Blocks)
         /\ \A i \in 1 .. Len(Tail(queue)) :
              Tail(queue)[i].mode = "Positional" => Tail(queue)[i].v \in [Joints -> Int]
<1>1. queue \in Seq(Blocks)
  BY DEF Queued
<1>2. /\ Head(queue) = queue[1] /\ Head(queue) \in Blocks
      /\ Tail(queue) \in Seq(Blocks) /\ Len(Tail(queue)) = Len(queue) - 1
      /\ \A i \in 1 .. Len(Tail(queue)) : Tail(queue)[i] = queue[i + 1]
      /\ Len(queue) \in Nat \ {0}
  BY <1>1, HeadTailProperties, EmptySeq
<1>3. 1 \in 1 .. Len(queue) /\ \A i \in 1 .. Len(Tail(queue)) : i + 1 \in 1 .. Len(queue)
  BY <1>2
<1> QED BY <1>2, <1>3 DEF Queued

LEMMA EndstopStep ==
  ASSUME IInv, EndstopPoll
  PROVE  IInv'
<1>1. \A j \in Joints : Contacts(j) \in Limits /\ ChangedAfter(j) \in Limits
  BY ContactsType DEF IInv, Machine, ChangedAfter, Delta, Limits
<1>2. Machine'
  BY <1>1 DEF IInv, Machine, EndstopPoll, motorVars, plantVars, machineVars
<1>3. Motors' /\ Queued'
  BY DEF IInv, Motors, Queued, EndstopPoll, motorVars, stopVars
<1>4. Working' /\ Counted'
  BY ThreadUntouched DEF EndstopPoll, IInv, Working
<1> QED BY <1>2, <1>3, <1>4 DEF IInv

LEMMA FetchVelocityStep ==
  ASSUME IInv, FetchVelocity
  PROVE  IInv'
<1>1. /\ Head(queue) \in Blocks /\ queue' = Tail(queue) /\ queue' \in Seq(Blocks)
      /\ \A i \in 1 .. Len(queue') :
           queue'[i].mode = "Positional" => queue'[i].v \in [Joints -> Int]
  BY TailKeeps DEF IInv, FetchVelocity, MayFetch
<1>2. Machine'
  BY DEF IInv, Machine, FetchVelocity, switchVars, plantVars, machineVars
<1>3. \A j \in Joints : SetSpeed(Head(queue).v, j) \in Int
  BY <1>1 DEF SetSpeed, IInv, Motors, Blocks, Velocities
<1>4. Motors'
  BY <1>3 DEF IInv, Motors, FetchVelocity, FlagsAfterFetch, None
<1>5. Queued'
  BY <1>1 DEF IInv, Queued, FetchVelocity, stopVars
<1>6. Working' /\ Counted'
  BY ThreadUntouched DEF FetchVelocity, IInv, Working
<1> QED BY <1>2, <1>4, <1>5, <1>6 DEF IInv

LEMMA FetchOtherStep ==
  ASSUME IInv, FetchOther
  PROVE  IInv'
<1>1. /\ Head(queue) \in Blocks /\ queue' = Tail(queue) /\ queue' \in Seq(Blocks)
      /\ Head(queue).mode = "Positional" => Head(queue).v \in [Joints -> Int]
      /\ \A i \in 1 .. Len(queue') :
           queue'[i].mode = "Positional" => queue'[i].v \in [Joints -> Int]
  BY TailKeeps DEF IInv, FetchOther, MayFetch
<1>2. Machine'
  BY DEF IInv, Machine, FetchOther, switchVars, plantVars, machineVars
<1>3. togo' \in [Joints -> Int] /\ active' \in {"Idle", "Positional"}
  BY <1>1, TimesAssumption DEF FetchOther
<1>4. Motors'
  BY <1>3 DEF IInv, Motors, FetchOther, None
<1>5. Queued'
  BY <1>1 DEF IInv, Queued, FetchOther
<1>6. Working' /\ Counted'
  BY ThreadUntouched DEF FetchOther, IInv, Working
<1> QED BY <1>2, <1>4, <1>5, <1>6 DEF IInv

LEMMA TickVelocityStep ==
  ASSUME IInv, TickVelocity
  PROVE  IInv'
<1>1. \A j \in Joints : Goal(j) \in Int /\ Toward(pv[j], Goal(j)) \in Int
  <2>1. \A j \in Joints : Goal(j) \in Int /\ pv[j] \in Int
    BY DEF Goal, IInv, Motors
  <2> QED BY <2>1, TowardType
<1>2. pv' \in [Joints -> Int] /\ sv' \in [Joints -> Int]
  BY <1>1 DEF TickVelocity
<1>3. Machine'
  BY <1>2 DEF IInv, Machine, TickVelocity, machineVars, Limits
<1>4. \A j \in Joints : HitNow(j) \in BOOLEAN /\ StoppedNow(j) \in BOOLEAN
  BY DEF HitNow, StoppedNow, IInv, Motors
<1>5. Motors'
  BY <1>2, <1>4 DEF IInv, Motors, TickVelocity
<1>6. Queued'
  BY DEF IInv, Queued, TickVelocity, stopVars
<1>7. Working' /\ Counted'
  BY ThreadUntouched, ClockBounds DEF TickVelocity
<1> QED BY <1>3, <1>5, <1>6, <1>7 DEF IInv

LEMMA TickPositionalStep ==
  ASSUME IInv, TickPositional
  PROVE  IInv'
<1> DEFINE left == [j \in Joints |-> Toward(togo[j], 0)]
           step == [j \in Joints |-> IF left[j] % Pace = 0 THEN togo[j] - left[j] ELSE 0]
<1>1. left \in [Joints -> Int]
  BY TowardType DEF IInv, Motors
<1>2. step \in [Joints -> Int]
  <2> HIDE DEF left
  <2> QED BY <1>1 DEF IInv, Motors
<1>3. /\ phys' = [j \in Joints |-> phys[j] + step[j]]
      /\ pos' = [j \in Joints |-> pos[j] + step[j]]
      /\ togo' = left /\ active' \in {"Idle", "Positional"}
  BY DEF TickPositional
<1> HIDE DEF left, step
<1>4. Machine'
  BY <1>2, <1>3 DEF IInv, Machine, TickPositional, switchVars, machineVars
<1>5. Motors'
  BY <1>1, <1>3 DEF IInv, Motors, TickPositional
<1>6. Queued'
  BY DEF IInv, Queued, TickPositional, stopVars
<1>7. Working' /\ Counted'
  BY ThreadUntouched, ClockBounds DEF TickPositional
<1> QED BY <1>4, <1>5, <1>6, <1>7 DEF IInv

LEMMA TickIdleStep ==
  ASSUME IInv, TickIdle
  PROVE  IInv'
<1>1. Machine' /\ Motors' /\ Queued'
  BY DEF IInv, Machine, Motors, Queued, TickIdle, switchVars, motorVars, plantVars,
         machineVars, stopVars
<1>2. Working' /\ Counted'
  BY ThreadUntouched, ClockBounds DEF TickIdle
<1> QED BY <1>1, <1>2 DEF IInv

-----------------------------------------------------------------------------
(* What puts blocks into the queue *)

\* A block is put behind the others.
LEMMA AppendKeeps ==
  ASSUME Queued, NEW b \in Blocks, queue' = Append(queue, b),
         b.mode = "Positional" => b.v \in [Joints -> Int],
         estop' = estop, halted' \in BOOLEAN
  PROVE  Queued'
<1>1. /\ queue' \in Seq(Blocks) /\ Len(queue') = Len(queue) + 1 /\ Len(queue) \in Nat
      /\ queue'[Len(queue) + 1] = b
      /\ \A i \in 1 .. Len(queue) : queue'[i] = queue[i]
  BY AppendProperties, LenProperties DEF Queued
<1>2. ASSUME NEW i \in 1 .. Len(queue')
      PROVE  queue'[i].mode = "Positional" => queue'[i].v \in [Joints -> Int]
  <2>1. i \in 1 .. Len(queue) \/ i = Len(queue) + 1
    BY <1>1
  <2> QED BY <1>1, <2>1 DEF Queued
<1> QED BY <1>1, <1>2 DEF Queued

\* ... or instead of them.
LEMMA AloneKeeps ==
  ASSUME Queued, NEW b \in Blocks, queue' = <<b>>,
         b.mode = "Positional" => b.v \in [Joints -> Int],
         estop' = estop, halted' \in BOOLEAN
  PROVE  Queued'
<1>1. queue' \in Seq(Blocks) /\ Len(queue') = 1 /\ queue'[1] = b
  OBVIOUS
<1> QED BY <1>1 DEF Queued

LEMMA StopBlocks ==
  /\ [mode |-> "Estop", v |-> None(NaN)] \in Blocks
  /\ [mode |-> "Estop_Clear", v |-> None(NaN)] \in Blocks
  BY DEF Blocks, Modes, Velocities, None

LEMMA StopOrNotKeeps ==
  ASSUME IInv, EmergencyStop \/ NoStop, estop' = estop
  PROVE  Queued'
<1>1. CASE EmergencyStop
  <2>1. queue' = <<[mode |-> "Estop", v |-> None(NaN)]>> /\ halted' = TRUE
    BY <1>1 DEF EmergencyStop
  <2> QED BY <2>1, StopBlocks, AloneKeeps DEF IInv
<1>2. CASE NoStop
  BY <1>2 DEF IInv, Queued, NoStop
<1> QED BY <1>1, <1>2

LEMMA MoveBeginStep ==
  ASSUME IInv, MoveBegin
  PROVE  IInv'
<1>1. PICK m \in Moves : queue' = <<[mode |-> "Positional", v |-> m]>>
  BY DEF MoveBegin
<1>2. m \in [Joints -> Int] /\ [mode |-> "Positional", v |-> m] \in Blocks
  BY InputsAssumption DEF Blocks, Modes, Velocities
<1>3. Queued'
  BY <1>1, <1>2, AloneKeeps DEF IInv, Queued, MoveBegin, stopVars
<1>4. Machine' /\ Motors'
  BY DEF IInv, Machine, Motors, MoveBegin, motion, switchVars, motorVars, plantVars, machineVars
<1>5. Working' /\ Counted'
  BY ThreadUntouched DEF MoveBegin, IInv, Working
<1> QED BY <1>3, <1>4, <1>5 DEF IInv

LEMMA StopCallStep ==
  ASSUME IInv, StopCall
  PROVE  IInv'
<1>1. Queued'
  BY StopOrNotKeeps DEF StopCall
<1>2. Machine' /\ Motors'
  BY DEF IInv, Machine, Motors, StopCall, motion, switchVars, motorVars, plantVars, machineVars
<1>3. Working' /\ Counted'
  BY ThreadUntouched DEF StopCall, IInv, Working
<1> QED BY <1>1, <1>2, <1>3 DEF IInv

LEMMA StopClearStep ==
  ASSUME IInv, StopClear
  PROVE  IInv'
<1>1. Queued'
  BY StopBlocks, AppendKeeps DEF StopClear, IInv
<1>2. Machine' /\ Motors'
  BY DEF IInv, Machine, Motors, StopClear, motion, switchVars, motorVars, plantVars, machineVars
<1>3. Working' /\ Counted'
  BY ThreadUntouched DEF StopClear, IInv, Working
<1> QED BY <1>1, <1>2, <1>3 DEF IInv

-----------------------------------------------------------------------------
(* The printer thread between its looks at the joints *)

\* As long as no joint's stage changes, as many are left to home.
LEMMA CountKept ==
  ASSUME IInv, stage' = stage, count' = count
  PROVE  Counted'
<1>1. ToHome' = ToHome
  BY DEF ToHome, Busy
<1> QED BY <1>1 DEF IInv, Counted

LEMMA HomingBeginStep ==
  ASSUME IInv, HomingBegin
  PROVE  IInv'
<1>1. Machine' /\ Motors'
  BY DEF IInv, Machine, Motors, HomingBegin, motion, switchVars, motorVars, plantVars, machineVars
<1>2. Queued'
  BY DEF IInv, Queued, HomingBegin, stopVars
<1>3. mask' \subseteq Joints /\ sequence' \in -1 .. NumJoints /\ ticks' \in 0 .. MaxTicks
  BY InputsAssumption, TimesAssumption, JointsFacts DEF HomingBegin, FirstSequence
<1>4. pc = "ready" /\ pc' = "sequence" /\ UNCHANGED <<stage, lastPos, todo, seen, block, homed, count>>
  BY DEF HomingBegin
<1>5. Working'
  BY <1>3, <1>4 DEF IInv, Working
<1>6. Counted'
  BY <1>4, CountKept
<1> QED BY <1>1, <1>2, <1>5, <1>6 DEF IInv

LEMMA SequenceBeginStep ==
  ASSUME IInv, SequenceBegin
  PROVE  IInv'
<1> DEFINE stages == [j \in Joints |-> IF j \notin Group THEN "NONE"
                                       ELSE IF AtLimit(j) THEN "AT_LIMIT" ELSE "SEARCH"]
<1>1. stage' = stages /\ count' = Cardinality(Group) /\ pc = "sequence"
      /\ sequence' = sequence + 1 /\ sequence < NumJoints
  BY DEF SequenceBegin
<1>2. stage' \in [Joints -> Stages]
  BY <1>1 DEF Stages
<1>3. \A j \in Joints : stage'[j] \notin {"NONE", "FINAL"} <=> j \in Group
  BY <1>1
<1> HIDE DEF stages
<1>4. ToHome' = Group
  BY <1>3 DEF ToHome, Busy, Group
<1>5. Counted'
  BY <1>1, <1>4 DEF Counted
<1>6. Machine'
  BY DEF IInv, Machine, SequenceBegin, plantVars, machineVars, motorVars, Limits
<1>7. Motors' /\ Queued'
  BY DEF IInv, Motors, Queued, SequenceBegin, motorVars, stopVars
<1>8. lastPos' \in [Joints -> Int]
  BY DEF SequenceBegin, IInv, Machine
<1>9. block' \in IF pc' \in {"first", "push"} THEN Velocities ELSE {NoBlock}
  <2>1. CASE Group = {}
    BY <1>1, <2>1 DEF SequenceBegin, IInv, Working
  <2>2. CASE Group # {}
    <3>1. pc' = "first"
          /\ block' = [j \in Joints |-> IF stage'[j] = "SEARCH" THEN SearchVel[j] ELSE 0]
      BY <2>2 DEF SequenceBegin
    <3> QED BY <3>1, MachineAssumption DEF Velocities
  <2> QED BY <2>1, <2>2
<1>10. /\ pc' \in {"sequence", "first"} /\ sequence' \in -1 .. NumJoints
       /\ UNCHANGED <<mask, homed, seen, todo, ticks>>
  BY <1>1, JointsFacts DEF SequenceBegin, IInv, Working
<1>11. Working'
  BY <1>2, <1>8, <1>9, <1>10 DEF IInv, Working
<1> QED BY <1>5, <1>6, <1>7, <1>11 DEF IInv

LEMMA HomingDoneStep ==
  ASSUME IInv, HomingDone
  PROVE  IInv'
<1>1. Machine' /\ Motors' /\ Queued'
  BY DEF IInv, Machine, Motors, Queued, HomingDone, motion, switchVars, motorVars, plantVars,
         machineVars, homingVars, stopVars
<1>2. /\ pc = "sequence" /\ pc' = "ready"
      /\ UNCHANGED <<mask, sequence, stage, lastPos, count, todo, seen, block, homed, ticks>>
  BY DEF HomingDone, homingVars
<1>3. Working'
  BY <1>2 DEF IInv, Working
<1>4. Counted'
  BY <1>2, CountKept
<1> QED BY <1>1, <1>3, <1>4 DEF IInv

LEMMA PushStep ==
  ASSUME IInv, Push
  PROVE  IInv'
<1>1. Machine' /\ Motors'
  BY DEF IInv, Machine, Motors, Push, motion, switchVars, motorVars, plantVars, machineVars
<1>2. block \in Velocities
  BY DEF IInv, Working, Push
<1>3. [mode |-> "Velocity", v |-> block] \in Blocks
  BY <1>2 DEF Blocks, Modes
<1>4. Queued'
  BY <1>3, AppendKeeps DEF Push, stopVars, IInv, Queued
<1>5. /\ block' = NoBlock /\ pc' \in {"handle", "check"}
      /\ UNCHANGED <<mask, sequence, stage, lastPos, count, todo, seen, homed, ticks>>
  BY DEF Push
<1>6. Working'
  BY <1>5 DEF IInv, Working
<1>7. Counted'
  BY <1>5, CountKept
<1> QED BY <1>1, <1>4, <1>6, <1>7 DEF IInv

LEMMA CheckStep ==
  ASSUME IInv, Check
  PROVE  IInv'
<1>1. Machine' /\ Motors' /\ Queued'
  BY DEF IInv, Machine, Motors, Queued, Check, motion, switchVars, motorVars, plantVars,
         machineVars, stopVars
<1>2. /\ pc \in {"check", "handle"} /\ pc' \in {"sequence", "ready", "sleep"}
      /\ ticks' = 0 /\ todo' = 1 /\ seen' = None(Unseen)
      /\ UNCHANGED <<mask, sequence, stage, lastPos, count, block, homed>>
  BY DEF Check
<1>3. seen' \in [Joints -> Snapshots] /\ ticks' \in 0 .. MaxTicks /\ todo' \in 1 .. NumJoints + 1
  BY <1>2, JointsFacts, TimesAssumption DEF None, Unseen, Snapshots, Limits
<1>4. Working'
  BY <1>2, <1>3 DEF IInv, Working
<1>5. Counted'
  BY <1>2, CountKept
<1> QED BY <1>1, <1>4, <1>5 DEF IInv

LEMMA SnapshotStep ==
  ASSUME IInv, Snapshot
  PROVE  IInv'
<1>1. Machine' /\ Motors' /\ Queued'
  BY DEF IInv, Machine, Motors, Queued, Snapshot, motion, switchVars, motorVars, plantVars,
         machineVars, stopVars
<1>2. /\ pc = "sleep" /\ pc' = "handle" /\ ticks' = 0 /\ todo' = After(0)
      /\ UNCHANGED <<mask, sequence, stage, lastPos, count, block, homed>>
  BY DEF Snapshot
<1>3. todo' \in 1 .. NumJoints + 1 /\ ticks' \in 0 .. MaxTicks
  BY <1>2, AfterExists, JointsFacts, TimesAssumption
<1>4. seen' \in [Joints -> Snapshots]
  BY DEF Snapshot, IInv, Machine, Motors, Snapshots
<1>5. Working'
  BY <1>2, <1>3, <1>4 DEF IInv, Working
<1>6. Counted'
  BY <1>2, CountKept
<1> QED BY <1>1, <1>5, <1>6 DEF IInv

-----------------------------------------------------------------------------
(* The pass over the joints *)

\* A joint that goes on to another stage that is neither the first nor the last
\* is still to home.
LEMMA StillToHome ==
  ASSUME IInv, NEW j \in Joints, Busy(j), count' = count,
         NEW s \in Stages \ {"NONE", "FINAL"},
         stage' = stage \/ stage' = [stage EXCEPT ![j] = s]
  PROVE  stage' \in [Joints -> Stages] /\ Counted'
<1>1. stage \in [Joints -> Stages]
  BY DEF IInv, Working
<1>2. stage' \in [Joints -> Stages]
  BY <1>1
<1>3. \A k \in Joints : stage'[k] \in {"NONE", "FINAL"} <=> stage[k] \in {"NONE", "FINAL"}
  BY <1>1 DEF Busy
<1>4. ToHome' = ToHome
  BY <1>3 DEF ToHome, Busy
<1> QED BY <1>2, <1>4 DEF IInv, Counted

\* What a look at a joint may do, its stage apart.
LEMMA LookKeeps ==
  ASSUME IInv, NEW j \in Joints, pc = "handle", todo = j,
         UNCHANGED handleRest,
         EmergencyStop \/ NoStop,
         todo' \in {todo, After(j)},
         \/ pc' \in {"handle", "ready"} /\ block' = block
         \/ pc' = "push" /\ \E v \in Int : block' = [None(NaN) EXCEPT ![j] = v],
         UNCHANGED <<base, changed>> \/ ResetLimit(j),
         lastPos' \in [Joints -> Int], pos' \in [Joints -> Int],
         homed' \in [Joints -> BOOLEAN],
         stage' \in [Joints -> Stages], Counted'
  PROVE  IInv'
<1>1. /\ UNCHANGED <<limit, phys, wiring, seqOf, limitStep>>
      /\ UNCHANGED <<pv, sv, hit, stopped, active, togo>>
      /\ UNCHANGED <<mask, sequence, seen, estop, ticks>>
  BY DEF handleRest, motorVars, machineVars
<1>2. base' \in [Joints -> Limits] /\ changed' \in [Joints -> Limits]
  BY DEF ResetLimit, IInv, Machine, Limits
<1>3. Machine' /\ Motors'
  BY <1>1, <1>2 DEF IInv, Machine, Motors
<1>4. Queued'
  BY <1>1, StopOrNotKeeps
<1>5. todo' \in 1 .. NumJoints + 1
  BY AfterExists, JointsFacts DEF IInv, Working
<1>6. block' \in IF pc' \in {"first", "push"} THEN Velocities ELSE {NoBlock}
  <2>1. CASE pc' = "push"
    <3>1. PICK v \in Int : block' = [None(NaN) EXCEPT ![j] = v]
      BY <2>1
    <3> QED BY <2>1, <3>1 DEF None, Velocities
  <2>2. CASE pc' # "push"
    BY <2>2 DEF IInv, Working
  <2> QED BY <2>1, <2>2
<1>7. Working'
  BY <1>1, <1>5, <1>6 DEF IInv, Working
<1> QED BY <1>3, <1>4, <1>7 DEF IInv

\* What the joint's record of the last look holds.
LEMMA SeenType ==
  ASSUME IInv, NEW j \in Joints
  PROVE  seen[j].pos \in Int /\ seen[j].step \in Int
  BY DEF IInv, Working, Snapshots

LEMMA SearchStep ==
  ASSUME IInv, NEW j \in Joints, HandleSearch(j)
  PROVE  IInv'
<1>1. /\ pc = "handle" /\ todo = j /\ Busy(j) /\ UNCHANGED handleRest
      /\ UNCHANGED <<count, homed, pos>> /\ (EmergencyStop \/ NoStop)
  BY DEF HandleSearch, At, Busy
<1>2. SearchVel[j] \in Int
  BY MachineAssumption
<1>3. /\ UNCHANGED <<lastPos, base, changed>>
      /\ stage' = stage \/ stage' = [stage EXCEPT ![j] = "AT_LIMIT"]
      /\ todo' \in {todo, After(j)}
      /\ \/ pc' \in {"handle", "ready"} /\ block' = block
         \/ pc' = "push" /\ block' = [None(NaN) EXCEPT ![j] = SearchVel[j]]
  BY DEF HandleSearch, At, Skip, Send, Enter
<1>4. stage' \in [Joints -> Stages] /\ Counted'
  BY <1>1, <1>3, StillToHome DEF Stages
<1>5. lastPos' \in [Joints -> Int] /\ pos' \in [Joints -> Int] /\ homed' \in [Joints -> BOOLEAN]
  BY <1>1, <1>3 DEF IInv, Machine, Working
<1> QED BY <1>1, <1>2, <1>3, <1>4, <1>5, LookKeeps

LEMMA AtLimitStep ==
  ASSUME IInv, NEW j \in Joints, HandleAtLimit(j)
  PROVE  IInv'
<1>1. /\ pc = "handle" /\ todo = j /\ Busy(j) /\ UNCHANGED handleRest
      /\ UNCHANGED <<count, homed, pos>> /\ NoStop /\ ResetLimit(j)
  BY DEF HandleAtLimit, At, Busy
<1>2. PICK v \in Int : block' = [None(NaN) EXCEPT ![j] = v]
  <2>1. -SearchVel[j] \in Int /\ LatchVel[j] \in Int
    BY MachineAssumption
  <2>2. \/ block' = [None(NaN) EXCEPT ![j] = -SearchVel[j]]
        \/ block' = [None(NaN) EXCEPT ![j] = LatchVel[j]]
    BY DEF HandleAtLimit, Send
  <2> QED BY <2>1, <2>2
<1>3. /\ lastPos' = [lastPos EXCEPT ![j] = seen[j].pos]
      /\ stage' = [stage EXCEPT ![j] = "BACKOFF"] \/ stage' = [stage EXCEPT ![j] = "RELEASE"]
      /\ todo' = After(j) /\ pc' = "push"
  BY DEF HandleAtLimit, Send
<1>4. stage' \in [Joints -> Stages] /\ Counted'
  BY <1>1, <1>3, StillToHome DEF Stages
<1>5. lastPos' \in [Joints -> Int] /\ pos' \in [Joints -> Int] /\ homed' \in [Joints -> BOOLEAN]
  BY <1>1, <1>3, SeenType DEF IInv, Machine, Working
<1> QED BY <1>1, <1>2, <1>3, <1>4, <1>5, LookKeeps

LEMMA BackoffStep ==
  ASSUME IInv, NEW j \in Joints, HandleBackoff(j)
  PROVE  IInv'
<1>1. /\ pc = "handle" /\ todo = j /\ Busy(j) /\ UNCHANGED handleRest
      /\ UNCHANGED <<count, homed, pos>> /\ (EmergencyStop \/ NoStop)
  BY DEF HandleBackoff, At, Busy
<1>2. LatchVel[j] \in Int
  BY MachineAssumption
<1>3. /\ UNCHANGED <<base, changed>> \/ ResetLimit(j)
      /\ lastPos' = lastPos
      /\ stage' = stage \/ stage' = [stage EXCEPT ![j] = "LATCH"]
      /\ todo' = After(j)
      /\ \/ pc' = "handle" /\ block' = block
         \/ pc' = "push" /\ block' = [None(NaN) EXCEPT ![j] = LatchVel[j]]
  BY <1>1 DEF HandleBackoff, Skip, Send
<1>4. stage' \in [Joints -> Stages] /\ Counted'
  BY <1>1, <1>3, StillToHome DEF Stages
<1>5. lastPos' \in [Joints -> Int] /\ pos' \in [Joints -> Int] /\ homed' \in [Joints -> BOOLEAN]
  BY <1>1, <1>3 DEF IInv, Machine, Working
<1> QED BY <1>1, <1>2, <1>3, <1>4, <1>5, LookKeeps

\* stepperSetHome may come at the end of the two stages that latch.
LEMMA LatchingKeeps ==
  ASSUME IInv, NEW j \in Joints, pc = "handle", todo = j, Busy(j),
         UNCHANGED handleRest, UNCHANGED <<count, homed>>, EmergencyStop \/ NoStop,
         (Skip(j) /\ pos' = pos) \/ SetHome(j)
  PROVE  IInv'
<1>1. /\ UNCHANGED <<lastPos, base, changed, block, pc>>
      /\ stage' = stage \/ stage' = [stage EXCEPT ![j] = "PRE_FINAL"]
      /\ todo' = After(j)
      /\ pos' = pos \/ pos' = [pos EXCEPT ![j] = Homed(j)]
  BY DEF Skip, SetHome, Enter
<1>2. Homed(j) \in Int
  BY SeenType, MachineAssumption DEF Homed, IInv, Machine
<1>3. stage' \in [Joints -> Stages] /\ Counted'
  BY <1>1, StillToHome DEF Stages
<1>4. lastPos' \in [Joints -> Int] /\ pos' \in [Joints -> Int] /\ homed' \in [Joints -> BOOLEAN]
  BY <1>1, <1>2 DEF IInv, Machine, Working
<1> QED BY <1>1, <1>3, <1>4, LookKeeps

LEMMA ReleaseStep ==
  ASSUME IInv, NEW j \in Joints, HandleRelease(j)
  PROVE  IInv'
<1>1. /\ pc = "handle" /\ todo = j /\ Busy(j) /\ UNCHANGED handleRest
      /\ UNCHANGED <<count, homed>> /\ (EmergencyStop \/ NoStop)
      /\ (Skip(j) /\ pos' = pos) \/ SetHome(j)
  BY DEF HandleRelease, At, Busy
<1> QED BY <1>1, LatchingKeeps

LEMMA LatchStep ==
  ASSUME IInv, NEW j \in Joints, HandleLatch(j)
  PROVE  IInv'
<1>1. /\ pc = "handle" /\ todo = j /\ Busy(j) /\ UNCHANGED handleRest
      /\ UNCHANGED <<count, homed>> /\ (EmergencyStop \/ NoStop)
      /\ (Skip(j) /\ pos' = pos) \/ SetHome(j)
  BY DEF HandleLatch, At, Busy
<1> QED BY <1>1, LatchingKeeps

LEMMA PreFinalStep ==
  ASSUME IInv, NEW j \in Joints, HandlePreFinal(j)
  PROVE  IInv'
<1>1. /\ pc = "handle" /\ todo = j /\ stage[j] = "PRE_FINAL" /\ UNCHANGED handleRest
      /\ pos' = pos /\ NoStop /\ count' = count - 1
      /\ homed' = [homed EXCEPT ![j] = TRUE]
      /\ stage' = [stage EXCEPT ![j] = "FINAL"] /\ todo' = After(j)
      /\ UNCHANGED <<lastPos, base, changed, block, pc>>
  BY DEF HandlePreFinal, At, OneLess, Enter
<1>2. stage \in [Joints -> Stages]
  BY DEF IInv, Working
<1>3. stage' \in [Joints -> Stages]
  BY <1>1, <1>2 DEF Stages
<1>4. ToHome' = ToHome \ {j} /\ j \in ToHome
  BY <1>1, <1>2 DEF ToHome, Busy
<1>5. IsFiniteSet(ToHome)
  BY JointsFacts, FS_Subset DEF ToHome
<1>6. Counted'
  BY <1>1, <1>4, <1>5, FS_RemoveElement DEF IInv, Counted
<1>7. lastPos' \in [Joints -> Int] /\ pos' \in [Joints -> Int] /\ homed' \in [Joints -> BOOLEAN]
  BY <1>1 DEF IInv, Machine, Working
<1> QED BY <1>1, <1>3, <1>6, <1>7, LookKeeps

-----------------------------------------------------------------------------
LEMMA NextInv == IInv /\ [Next]_vars => IInv'
<1> SUFFICES ASSUME IInv, [Next]_vars PROVE IInv'
  OBVIOUS
<1>1. CASE EndstopPoll
  BY <1>1, EndstopStep
<1>2. CASE StepperStep
  BY <1>2, FetchVelocityStep, FetchOtherStep, TickVelocityStep, TickPositionalStep, TickIdleStep
     DEF StepperStep
<1>3. CASE HomingBegin \/ MoveBegin
  BY <1>3, HomingBeginStep, MoveBeginStep
<1>4. CASE HomingStep
  <2>1. CASE SequenceBegin \/ HomingDone \/ Push \/ Check \/ Snapshot
    BY <2>1, SequenceBeginStep, HomingDoneStep, PushStep, CheckStep, SnapshotStep
  <2>2. ASSUME NEW j \in Joints, Handle(j) PROVE IInv'
    BY <2>2, SearchStep, AtLimitStep, BackoffStep, ReleaseStep, LatchStep, PreFinalStep DEF Handle
  <2> QED BY <1>4, <2>1, <2>2 DEF HomingStep
<1>5. CASE StopCall \/ StopClear
  BY <1>5, StopCallStep, StopClearStep
<1>6. CASE UNCHANGED vars
  <2>1. Machine' /\ Motors' /\ Queued'
    BY <1>6 DEF IInv, Machine, Motors, Queued, vars, switchVars, motorVars, plantVars,
                homingVars, stopVars, machineVars
  <2>2. Working' /\ Counted'
    BY <1>6, ThreadUntouched DEF vars, IInv, Working
  <2> QED BY <2>1, <2>2 DEF IInv
<1> QED BY <1>1, <1>2, <1>3, <1>4, <1>5, <1>6 DEF Next

\* The joints left to home, an unsigned byte (homing.h:50), are never counted
\* below zero, and the velocity of a joint is a number, NAN in no block it is told
\* to keep its speed by: for every machine, wiring and sequence of moves and stops.
THEOREM TypeCorrect == Spec => []TypeOK
<1>1. Init => IInv
  BY InitInv
<1>2. IInv /\ [Next]_vars => IInv'
  BY NextInv
<1>3. IInv => TypeOK
  BY InvariantTypes
<1> QED BY <1>1, <1>2, <1>3, PTL DEF Spec

-----------------------------------------------------------------------------
(* Only the joints of one sequence move.  Homing knows that a joint rests     *)
(* from a flag it read earlier, and the blocks it has sent since are still to *)
(* come: the invariant says that they leave such a joint at rest.             *)

Driven == {"SEARCH", "AT_LIMIT", "BACKOFF", "RELEASE", "LATCH"}
Waiting == {queue[i] : i \in 1 .. Len(queue)}

\* The joints of the sequence under way; sequence is one ahead of it.
Chosen(j) == seqOf[j] = sequence - 1 /\ (seqOf[j] = -1 \/ j \in mask)

\* A joint that is not moved, neither now nor by a block in the queue.
Rest(j) ==
  /\ pv[j] = 0 /\ sv[j] = 0
  /\ \A b \in Waiting : b.mode = "Velocity" => b.v[j] \in {NaN, 0}

\* A stopped joint stays at rest, and nothing moves under velocity control
\* outside of a velocity block.
Calm ==
  \A j \in Joints : stopped[j] \/ active # "Velocity" => pv[j] = 0 /\ sv[j] = 0

\* No move is under way while joints home.
NoMove ==
  pc # "ready" /\ ~overlap =>
    active # "Positional" /\ \A b \in Waiting : b.mode # "Positional"

Grouped ==
  pc \notin {"ready", "sequence"} =>
    \A j \in Joints : stage[j] # "NONE" => Chosen(j)

\* The block on its way to the queue moves joints that are being driven.
Aimed ==
  pc \in {"first", "push"} =>
    \A j \in Joints : block[j] \notin {NaN, 0} => stage[j] \in Driven

Resting ==
  ~overlap =>
    \A j \in Joints :
      \/ Rest(j)
      \/ Chosen(j) /\ (pc = "ready" \/ (pc # "sequence" /\ stage[j] \in Driven))

\* A joint still to look at in this pass and seen at rest is at rest, and no
\* block sent in the pass changes that.
StillStopped ==
  ~overlap /\ pc \in {"handle", "push"} =>
    \A j \in Joints :
      j >= todo /\ seen[j].stopped =>
        /\ pv[j] = 0 /\ sv[j] = 0
        /\ \A b \in Waiting : b.mode = "Velocity" => b.v[j] = NaN
        /\ pc = "push" => block[j] = NaN

Alone == Calm /\ NoMove /\ Grouped /\ Aimed /\ Resting /\ StillStopped

LEMMA WaitingTail ==
  ASSUME Queued, queue # <<>>, queue' = Tail(queue)
  PROVE  Head(queue) \in Waiting /\ Waiting' \subseteq Waiting
<1>1. queue \in Seq(Blocks)
  BY DEF Queued
<1>2. /\ Head(queue) = queue[1] /\ Len(Tail(queue)) = Len(queue) - 1
      /\ \A i \in 1 .. Len(Tail(queue)) : Tail(queue)[i] = queue[i + 1]
      /\ Len(queue) \in Nat \ {0}
  BY <1>1, HeadTailProperties, EmptySeq
<1>3. 1 \in 1 .. Len(queue) /\ \A i \in 1 .. Len(Tail(queue)) : i + 1 \in 1 .. Len(queue)
  BY <1>2
<1> QED BY <1>2, <1>3 DEF Waiting

LEMMA WaitingAppend ==
  ASSUME Queued, NEW b, b \in Blocks, queue' = Append(queue, b)
  PROVE  Waiting' = Waiting \cup {b}
<1>1. /\ Len(queue') = Len(queue) + 1 /\ Len(queue) \in Nat
      /\ queue'[Len(queue) + 1] = b
      /\ \A i \in 1 .. Len(queue) : queue'[i] = queue[i]
  BY AppendProperties, LenProperties DEF Queued
<1>2. 1 .. Len(queue') = (1 .. Len(queue)) \cup {Len(queue) + 1}
  BY <1>1
<1> QED BY <1>1, <1>2 DEF Waiting

LEMMA WaitingAlone ==
  ASSUME NEW b, queue' = <<b>>
  PROVE  Waiting' = {b}
<1>1. Len(queue') = 1 /\ queue'[1] = b
  OBVIOUS
<1>2. 1 .. Len(queue') = {1}
  BY <1>1
<1> QED BY <1>1, <1>2 DEF Waiting

LEMMA WaitingNone ==
  ASSUME queue = <<>>
  PROVE  Waiting = {}
<1>1. Len(queue) = 0
  BY EmptySeq
<1>2. 1 .. Len(queue) = {}
  BY <1>1
<1> QED BY <1>2 DEF Waiting

LEMMA InitAlone == Init => Alone
<1> SUFFICES ASSUME Init PROVE Alone
  OBVIOUS
<1>1. Waiting = {}
  BY WaitingNone DEF Init
<1>2. Calm /\ Resting
  BY <1>1 DEF Init, Calm, Resting, Rest, None
<1>3. NoMove /\ Grouped /\ Aimed /\ StillStopped
  BY DEF Init, NoMove, Grouped, Aimed, StillStopped
<1> QED BY <1>2, <1>3 DEF Alone

-----------------------------------------------------------------------------
\* What the endstop thread and the stepper do to the joints while the printer
\* thread and its blocks wait.
LEMMA PlantAlone ==
  ASSUME Alone,
         UNCHANGED <<seqOf, sequence, mask, stage, pc, block, seen, todo, overlap>>,
         Waiting' \subseteq Waiting,
         Calm',
         active' = "Positional" =>
           active = "Positional" \/ \E b \in Waiting : b.mode = "Positional",
         \A j \in Joints : Rest(j) => pv'[j] = 0 /\ sv'[j] = 0
  PROVE  Alone'
<1>1. NoMove'
  BY DEF Alone, NoMove
<1>2. Grouped' /\ Aimed'
  BY DEF Alone, Grouped, Aimed, Chosen
<1>3. \A j \in Joints : Rest(j) => Rest(j)'
  BY DEF Rest
<1>4. Resting'
  BY <1>3 DEF Alone, Resting, Chosen
<1>5. StillStopped'
  BY DEF Alone, StillStopped, Rest
<1> QED BY <1>1, <1>2, <1>4, <1>5 DEF Alone

LEMMA EndstopAlone ==
  ASSUME IInv, Alone, EndstopPoll
  PROVE  Alone'
<1>1. /\ UNCHANGED <<seqOf, sequence, mask, stage, pc, block, seen, todo, overlap>>
      /\ UNCHANGED <<queue, active, pv, sv, stopped>>
  BY DEF EndstopPoll, machineVars, homingVars, historyVars, motorVars
<1>2. Waiting' = Waiting /\ Calm'
  BY <1>1 DEF Waiting, Alone, Calm
<1> QED BY <1>1, <1>2, PlantAlone DEF Rest

LEMMA FetchVelocityAlone ==
  ASSUME IInv, Alone, FetchVelocity
  PROVE  Alone'
<1> DEFINE v == Head(queue).v
<1>1. /\ Head(queue) \in Waiting /\ Head(queue).mode = "Velocity" /\ Waiting' \subseteq Waiting
      /\ Head(queue) \in Blocks
  BY WaitingTail, TailKeeps DEF IInv, FetchVelocity, MayFetch
<1>2. UNCHANGED <<seqOf, sequence, mask, stage, pc, block, seen, todo, overlap>>
  BY DEF FetchVelocity, machineVars, homingVars, historyVars
<1>3. /\ \A j \in Joints : stopped'[j] => v[j] = NaN /\ stopped[j]
      /\ sv' = [j \in Joints |-> IF estop THEN 0 ELSE SetSpeed(v, j)]
      /\ pv' = IF active = "Velocity" /\ ~estop THEN pv ELSE None(0)
      /\ active' = IF estop THEN "Idle" ELSE "Velocity"
  BY DEF FetchVelocity, Unflagged, v
<1>4. NaN # 0
  BY InputsAssumption
<1> HIDE DEF v
<1>5. Calm'
  <2> SUFFICES ASSUME NEW j \in Joints, stopped'[j] \/ active' # "Velocity"
               PROVE  pv'[j] = 0 /\ sv'[j] = 0
    BY DEF Calm
  <2>1. CASE estop
    BY <1>3, <2>1 DEF None
  <2>2. CASE ~estop
    <3>1. v[j] = NaN /\ stopped[j]
      BY <1>3, <2>2
    <3>2. pv[j] = 0 /\ sv[j] = 0
      BY <3>1 DEF Alone, Calm
    <3> QED BY <1>3, <2>2, <3>1, <3>2 DEF None, SetSpeed
  <2> QED BY <2>1, <2>2
<1>6. ASSUME NEW j \in Joints, Rest(j)
      PROVE  pv'[j] = 0 /\ sv'[j] = 0
  <2>1. pv[j] = 0 /\ sv[j] = 0 /\ v[j] \in {NaN, 0}
    BY <1>1, <1>6 DEF Rest, v
  <2> QED BY <1>3, <1>4, <2>1 DEF None, SetSpeed
<1>7. active' # "Positional"
  BY <1>3
<1> QED BY <1>1, <1>2, <1>5, <1>6, <1>7, PlantAlone

LEMMA FetchOtherAlone ==
  ASSUME IInv, Alone, FetchOther
  PROVE  Alone'
<1>1. Head(queue) \in Waiting /\ Waiting' \subseteq Waiting
  BY WaitingTail DEF IInv, FetchOther, MayFetch
<1>2. /\ UNCHANGED <<seqOf, sequence, mask, stage, pc, block, seen, todo, overlap>>
      /\ stopped' = stopped /\ pv' = None(0) /\ sv' = None(0)
  BY DEF FetchOther, machineVars, homingVars, historyVars
<1>3. active' = "Positional" => Head(queue).mode = "Positional"
  BY DEF FetchOther
<1>4. \A j \in Joints : pv'[j] = 0 /\ sv'[j] = 0
  BY <1>2 DEF None
<1>5. Calm'
  BY <1>4 DEF Calm
<1> QED BY <1>1, <1>2, <1>3, <1>4, <1>5, PlantAlone

LEMMA TickVelocityAlone ==
  ASSUME IInv, Alone, TickVelocity
  PROVE  Alone'
<1>1. /\ UNCHANGED <<seqOf, sequence, mask, stage, pc, block, seen, todo, overlap, queue>>
      /\ stopped' = [j \in Joints |-> StoppedNow(j)]
      /\ sv' = [j \in Joints |-> Goal(j)]
      /\ pv' = [j \in Joints |-> Toward(pv[j], Goal(j))]
      /\ active' = IF \A j \in Joints : StoppedNow(j) THEN "Idle" ELSE "Velocity"
      /\ active = "Velocity"
  BY DEF TickVelocity, machineVars, homingVars, historyVars
<1>2. \A j \in Joints : pv[j] = 0 /\ sv[j] = 0 => pv'[j] = 0 /\ sv'[j] = 0
  BY <1>1 DEF Goal, Toward
<1>3. \A j \in Joints : StoppedNow(j) => pv'[j] = 0 /\ sv'[j] = 0
  <2> SUFFICES ASSUME NEW j \in Joints, StoppedNow(j) PROVE pv'[j] = 0 /\ sv'[j] = 0
    OBVIOUS
  <2>1. CASE stopped[j]
    BY <1>2, <2>1 DEF Alone, Calm
  <2>2. CASE pv[j] = 0 /\ Goal(j) = 0
    BY <1>1, <2>2 DEF Toward
  <2> QED BY <2>1, <2>2 DEF StoppedNow
<1>4. Calm'
  BY <1>1, <1>3 DEF Calm
<1>5. Waiting' = Waiting
  BY <1>1 DEF Waiting
<1>6. active' # "Positional" /\ \A j \in Joints : Rest(j) => pv'[j] = 0 /\ sv'[j] = 0
  BY <1>1, <1>2 DEF Rest
<1> QED BY <1>1, <1>4, <1>5, <1>6, PlantAlone

LEMMA TickOtherAlone ==
  ASSUME IInv, Alone, TickPositional \/ TickIdle
  PROVE  Alone'
<1>1. /\ UNCHANGED <<seqOf, sequence, mask, stage, pc, block, seen, todo, overlap>>
      /\ UNCHANGED <<queue, pv, sv, stopped>>
      /\ active # "Velocity"
      /\ active' \in {active, "Idle"}
  BY DEF TickPositional, TickIdle, machineVars, homingVars, historyVars, motorVars
<1>2. Waiting' = Waiting /\ Calm'
  BY <1>1 DEF Waiting, Alone, Calm
<1>3. active' = "Positional" => active = "Positional"
  BY <1>1
<1> QED BY <1>1, <1>2, <1>3, PlantAlone DEF Rest

-----------------------------------------------------------------------------
(* What puts blocks into the queue *)

StopModes == {"Estop", "Estop_Clear"}

LEMMA StopsAlone ==
  ASSUME IInv, Alone, StopCall \/ StopClear
  PROVE  Alone'
<1>1. /\ UNCHANGED <<seqOf, sequence, mask, stage, pc, block, seen, todo, overlap>>
      /\ UNCHANGED <<active, pv, sv, stopped>>
  BY DEF StopCall, StopClear, motion, machineVars, homingVars, historyVars, motorVars
<1>2. \A b \in Waiting' : b \in Waiting \/ b.mode \in StopModes
  <2>1. CASE StopCall
    BY <2>1, WaitingAlone DEF StopCall, EmergencyStop, StopModes
  <2>2. CASE StopClear
    BY <2>2, WaitingAppend, StopBlocks DEF StopClear, IInv, StopModes
  <2> QED BY <2>1, <2>2
<1>3. Calm' /\ NoMove'
  BY <1>1, <1>2 DEF Alone, Calm, NoMove, StopModes
<1>4. Grouped' /\ Aimed'
  BY <1>1 DEF Alone, Grouped, Aimed, Chosen
<1>5. \A j \in Joints : Rest(j) => Rest(j)'
  BY <1>1, <1>2 DEF Rest, StopModes
<1>6. Resting'
  BY <1>1, <1>5 DEF Alone, Resting, Chosen
<1>7. StillStopped'
  BY <1>1, <1>2 DEF Alone, StillStopped, StopModes
<1> QED BY <1>3, <1>4, <1>6, <1>7 DEF Alone

LEMMA MoveAlone ==
  ASSUME IInv, Alone, MoveBegin
  PROVE  Alone'
<1>1. /\ UNCHANGED <<seqOf, sequence, mask, stage, pc, block, seen, todo, overlap>>
      /\ UNCHANGED <<active, pv, sv, stopped>> /\ pc = "ready"
  BY DEF MoveBegin, motion, machineVars, homingVars, historyVars, motorVars
<1>2. \A b \in Waiting' : b.mode = "Positional"
  BY WaitingAlone DEF MoveBegin
<1>3. Calm' /\ NoMove' /\ Grouped' /\ Aimed' /\ StillStopped'
  BY <1>1 DEF Alone, Calm, NoMove, Grouped, Aimed, StillStopped
<1>4. \A j \in Joints : Rest(j) => Rest(j)'
  BY <1>1, <1>2 DEF Rest
<1>5. Resting'
  BY <1>1, <1>4 DEF Alone, Resting, Chosen
<1> QED BY <1>3, <1>5 DEF Alone

LEMMA HomingBeginAlone ==
  ASSUME IInv, Alone, HomingBegin
  PROVE  Alone'
<1>1. /\ pc' = "sequence" /\ queue = <<>> /\ UNCHANGED <<queue, active, pv, sv, stopped>>
      /\ ~overlap' => active = "Idle"
  BY DEF HomingBegin, motion, motorVars
<1>2. Waiting' = {}
  BY <1>1, WaitingNone DEF Waiting
<1>3. Calm' /\ NoMove' /\ Grouped' /\ Aimed' /\ StillStopped'
  BY <1>1, <1>2 DEF Alone, Calm, NoMove, Grouped, Aimed, StillStopped
<1>4. Resting'
  BY <1>1, <1>2 DEF Alone, Calm, Resting, Rest
<1> QED BY <1>3, <1>4 DEF Alone

LEMMA SequenceAlone ==
  ASSUME IInv, Alone, SequenceBegin
  PROVE  Alone'
<1>1. /\ pc = "sequence" /\ pc' \in {"sequence", "first"}
      /\ UNCHANGED <<queue, active, pv, sv, stopped, seqOf, mask, overlap>>
      /\ sequence' = sequence + 1 /\ sequence \in Int
      /\ stage' = [j \in Joints |-> IF j \notin Group THEN "NONE"
                                    ELSE IF AtLimit(j) THEN "AT_LIMIT" ELSE "SEARCH"]
      /\ pc' = "first" =>
           block' = [j \in Joints |-> IF stage'[j] = "SEARCH" THEN SearchVel[j] ELSE 0]
  BY DEF SequenceBegin, motorVars, machineVars, historyVars, IInv, Working
<1>2. Waiting' = Waiting
  BY <1>1 DEF Waiting
<1>3. Calm' /\ NoMove' /\ StillStopped'
  BY <1>1, <1>2 DEF Alone, Calm, NoMove, StillStopped
<1>4. \A j \in Joints : stage'[j] # "NONE" => Chosen(j)'
  BY <1>1 DEF Chosen, Group
<1>5. Grouped'
  BY <1>4 DEF Grouped
<1>6. Aimed'
  BY <1>1 DEF Aimed, Driven
<1>7. Resting'
  BY <1>1, <1>2 DEF Alone, Resting, Rest
<1> QED BY <1>3, <1>5, <1>6, <1>7 DEF Alone

LEMMA HomingDoneAlone ==
  ASSUME IInv, Alone, HomingDone
  PROVE  Alone'
<1>1. /\ pc = "sequence" /\ pc' = "ready"
      /\ UNCHANGED <<queue, active, pv, sv, stopped, seqOf, sequence, mask, overlap>>
  BY DEF HomingDone, motion, motorVars, machineVars, homingVars, historyVars
<1>2. Waiting' = Waiting
  BY <1>1 DEF Waiting
<1>3. Calm' /\ NoMove' /\ Grouped' /\ Aimed' /\ StillStopped'
  BY <1>1 DEF Alone, Calm, NoMove, Grouped, Aimed, StillStopped
<1>4. Resting'
  BY <1>1, <1>2 DEF Alone, Resting, Rest
<1> QED BY <1>3, <1>4 DEF Alone

LEMMA PushAlone ==
  ASSUME IInv, Alone, Push
  PROVE  Alone'
<1> DEFINE b0 == [mode |-> "Velocity", v |-> block]
<1>1. /\ UNCHANGED <<active, pv, sv, stopped, seqOf, sequence, mask, overlap, stage, seen, todo>>
      /\ pc \in {"first", "push"}
      /\ pc' = IF pc = "push" THEN "handle" ELSE "check"
      /\ queue' = Append(queue, b0)
  BY DEF Push, motion, motorVars, machineVars, historyVars
<1>2. b0 \in Blocks
  <2>1. block \in Velocities
    BY <1>1 DEF IInv, Working
  <2> QED BY <2>1 DEF Blocks, Modes
<1>3. Waiting' = Waiting \cup {b0}
  <2> HIDE DEF b0
  <2> QED BY <1>1, <1>2, WaitingAppend DEF IInv
<1>4. Calm' /\ NoMove' /\ Grouped' /\ Aimed'
  BY <1>1, <1>3 DEF Alone, Calm, NoMove, Grouped, Aimed, Chosen
<1>5. \A j \in Joints : Rest(j) => Rest(j)' \/ stage[j] \in Driven
  BY <1>1, <1>3 DEF Alone, Aimed, Rest
<1>6. \A j \in Joints : stage[j] \in Driven => Chosen(j)
  BY <1>1 DEF Alone, Grouped, Driven
<1>7. Resting'
  BY <1>1, <1>5, <1>6 DEF Alone, Resting, Chosen
<1>8. StillStopped'
  BY <1>1, <1>3 DEF Alone, StillStopped
<1> QED BY <1>4, <1>7, <1>8 DEF Alone

\* No joint is left to home when the count says so, and then all are at rest.
LEMMA CheckAlone ==
  ASSUME IInv, Alone, Check
  PROVE  Alone'
<1>1. /\ UNCHANGED <<queue, active, pv, sv, stopped, seqOf, sequence, mask, overlap, stage>>
      /\ pc \in {"check", "handle"}
      /\ pc' = IF count = 0 THEN "sequence" ELSE IF halted THEN "ready" ELSE "sleep"
  BY DEF Check, motion, motorVars, machineVars, historyVars
<1>2. Waiting' = Waiting
  BY <1>1 DEF Waiting
<1>3. Calm' /\ NoMove' /\ Grouped' /\ Aimed' /\ StillStopped'
  BY <1>1, <1>2 DEF Alone, Calm, NoMove, Grouped, Aimed, StillStopped, Chosen
<1>4. count = 0 => \A j \in Joints : stage[j] \notin Driven
  <2> SUFFICES ASSUME count = 0 PROVE \A j \in Joints : stage[j] \notin Driven
    OBVIOUS
  <2>1. IsFiniteSet(ToHome)
    BY JointsFacts, FS_Subset DEF ToHome
  <2>2. ToHome = {}
    BY <2>1, FS_EmptySet DEF IInv, Counted
  <2> QED BY <2>2 DEF ToHome, Busy, Driven
<1>5. Resting'
  BY <1>1, <1>2, <1>4 DEF Alone, Resting, Rest, Chosen
<1> QED BY <1>3, <1>5 DEF Alone

\* The snapshot is made when the blocks sent so far are under way.
LEMMA SnapshotAlone ==
  ASSUME IInv, Alone, Snapshot
  PROVE  Alone'
<1>1. /\ UNCHANGED <<queue, active, pv, sv, stopped, seqOf, sequence, mask, overlap, stage>>
      /\ pc = "sleep" /\ pc' = "handle"
      /\ \A j \in Joints : seen'[j].stopped = stopped[j]
  BY DEF Snapshot, motion, motorVars, machineVars, historyVars
<1>2. Waiting' = Waiting
  BY <1>1 DEF Waiting
<1>3. Calm' /\ NoMove' /\ Grouped' /\ Aimed'
  BY <1>1, <1>2 DEF Alone, Calm, NoMove, Grouped, Aimed, Chosen
<1>4. ~overlap => Waiting = {}
  BY <1>1, WaitingNone DEF Snapshot, MayFetch, Alone, NoMove
<1>5. StillStopped'
  BY <1>1, <1>2, <1>4 DEF Alone, Calm, StillStopped
<1>6. Resting'
  BY <1>1, <1>2 DEF Alone, Resting, Rest, Chosen
<1> QED BY <1>3, <1>5, <1>6 DEF Alone

-----------------------------------------------------------------------------
(* The pass over the joints *)

LEMMA StopOrNotWaiting ==
  ASSUME IInv, EmergencyStop \/ NoStop
  PROVE  \A b \in Waiting' : b \in Waiting \/ b.mode \in StopModes
<1>1. CASE EmergencyStop
  BY <1>1, WaitingAlone DEF EmergencyStop, StopModes
<1>2. CASE NoStop
  BY <1>2 DEF NoStop, Waiting
<1> QED BY <1>1, <1>2

\* A look at a joint changes the stage of this joint only, out of the driven ones
\* only if the joint was seen at rest, and sends a block for this joint only.
LEMMA LookAlone ==
  ASSUME IInv, Alone, NEW j \in Joints, pc = "handle", todo = j, Busy(j),
         UNCHANGED handleRest, EmergencyStop \/ NoStop,
         NEW s \in Stages \ {"NONE"},
         stage' = stage \/ stage' = [stage EXCEPT ![j] = s],
         s \notin Driven => seen[j].stopped \/ stage[j] \notin Driven,
         s \in Driven => stage[j] \in Driven,
         \/ pc' = "ready"
         \/ pc' = "handle" /\ todo' = After(j)
         \/ /\ pc' = "push" /\ todo' = After(j)
            /\ stage'[j] \in Driven
            /\ \E v \in Int : block' = [None(NaN) EXCEPT ![j] = v]
  PROVE  Alone'
<1>1. /\ UNCHANGED <<pv, sv, stopped, active, mask, sequence, seqOf, seen, overlap>>
  BY DEF handleRest, motorVars, machineVars
<1>2. \A b \in Waiting' : b \in Waiting \/ b.mode \in StopModes
  BY StopOrNotWaiting
<1>3. Calm' /\ NoMove'
  BY <1>1, <1>2 DEF Alone, Calm, NoMove, StopModes
<1>4. /\ \A k \in Joints \ {j} : stage'[k] = stage[k]
      /\ stage'[j] = stage[j] \/ stage'[j] = s
      /\ stage[j] # "NONE"
  BY DEF IInv, Working, Busy
<1>5. Grouped'
  BY <1>1, <1>4 DEF Alone, Grouped, Chosen
<1>6. pc' = "push" => \A k \in Joints \ {j} : block'[k] = NaN
  BY DEF None
<1>7. Aimed'
  BY <1>6 DEF Aimed
<1>8. \A k \in Joints : Rest(k) => Rest(k)'
  BY <1>1, <1>2 DEF Rest, StopModes
<1>9. Resting'
  <2> SUFFICES ASSUME ~overlap, NEW k \in Joints
               PROVE  \/ Rest(k)'
                      \/ Chosen(k)' /\ (pc' = "ready" \/ (pc' # "sequence" /\ stage'[k] \in Driven))
    BY <1>1 DEF Resting
  <2>1. Rest(k) \/ (Chosen(k) /\ stage[k] \in Driven)
    BY DEF Alone, Resting
  <2>2. CASE Rest(k)
    BY <1>8, <2>2
  <2>3. CASE Chosen(k) /\ stage'[k] \in Driven
    BY <1>1, <2>3 DEF Chosen
  <2>4. CASE stage[k] \in Driven /\ stage'[k] \notin Driven
    <3>1. k = j /\ seen[j].stopped
      BY <1>4, <2>4
    <3>2. /\ pv[j] = 0 /\ sv[j] = 0
          /\ \A b \in Waiting : b.mode = "Velocity" => b.v[j] = NaN
      <4>1. j \in Nat
        BY JointsFacts
      <4> QED BY <3>1, <4>1 DEF Alone, StillStopped
    <3>3. Rest(j)
      BY <3>2 DEF Rest
    <3> QED BY <1>8, <3>1, <3>3
  <2> QED BY <2>1, <2>2, <2>3, <2>4
<1>10. StillStopped'
  <2> SUFFICES ASSUME ~overlap, pc' \in {"handle", "push"}, NEW k \in Joints,
                      k >= todo', seen[k].stopped
               PROVE  /\ pv[k] = 0 /\ sv[k] = 0
                      /\ \A b \in Waiting' : b.mode = "Velocity" => b.v[k] = NaN
                      /\ pc' = "push" => block'[k] = NaN
    BY <1>1 DEF StillStopped
  <2>1. k > j
    <3>1. todo' = After(j) /\ After(j) \in j + 1 .. NumJoints + 1 /\ j \in Nat /\ k \in Nat
      BY AfterExists, JointsFacts
    <3> QED BY <3>1
  <2>2. /\ pv[k] = 0 /\ sv[k] = 0
        /\ \A b \in Waiting : b.mode = "Velocity" => b.v[k] = NaN
    <3>1. k >= todo
      BY <2>1, JointsFacts
    <3> QED BY <3>1 DEF Alone, StillStopped
  <2>3. k # j
    BY <2>1, JointsFacts
  <2> QED BY <1>1, <1>2, <1>6, <2>2, <2>3 DEF StopModes
<1> QED BY <1>3, <1>5, <1>7, <1>9, <1>10 DEF Alone

LEMMA HandleAlone ==
  ASSUME IInv, Alone, NEW j \in Joints, Handle(j)
  PROVE  Alone'
<1>1. SearchVel[j] \in Int /\ -SearchVel[j] \in Int /\ LatchVel[j] \in Int
  BY MachineAssumption
<1>2. stage \in [Joints -> Stages]
  BY DEF IInv, Working
<1>3. CASE HandleSearch(j)
  <2>1. /\ pc = "handle" /\ todo = j /\ Busy(j) /\ stage[j] = "SEARCH"
        /\ UNCHANGED handleRest /\ (EmergencyStop \/ NoStop)
    BY <1>3 DEF HandleSearch, At, Busy
  <2>2. /\ stage' = stage \/ stage' = [stage EXCEPT ![j] = "AT_LIMIT"]
        /\ \/ pc' = "ready"
           \/ pc' = "handle" /\ todo' = After(j)
           \/ /\ pc' = "push" /\ todo' = After(j) /\ stage' = stage
              /\ block' = [None(NaN) EXCEPT ![j] = SearchVel[j]]
    BY <1>3 DEF HandleSearch, At, Skip, Send, Enter
  <2>3. "AT_LIMIT" \in Stages \ {"NONE"} /\ "AT_LIMIT" \in Driven /\ stage[j] \in Driven
    BY <2>1 DEF Stages, Driven
  <2>4. \/ pc' = "ready"
        \/ pc' = "handle" /\ todo' = After(j)
        \/ /\ pc' = "push" /\ todo' = After(j)
           /\ stage'[j] \in Driven
           /\ \E v \in Int : block' = [None(NaN) EXCEPT ![j] = v]
    BY <1>1, <2>2, <2>3
  <2> QED BY <2>1, <2>2, <2>3, <2>4, LookAlone
<1>4. CASE HandleAtLimit(j)
  <2>1. /\ pc = "handle" /\ todo = j /\ Busy(j) /\ stage[j] = "AT_LIMIT"
        /\ UNCHANGED handleRest /\ NoStop
    BY <1>4 DEF HandleAtLimit, At, Busy
  <2>2. PICK s \in {"BACKOFF", "RELEASE"} : stage' = [stage EXCEPT ![j] = s]
    BY <1>4 DEF HandleAtLimit
  <2>3. /\ pc' = "push" /\ todo' = After(j)
        /\ \E v \in Int : block' = [None(NaN) EXCEPT ![j] = v]
    BY <1>1, <1>4 DEF HandleAtLimit, Send
  <2>4. s \in Stages \ {"NONE"} /\ s \in Driven /\ stage[j] \in Driven /\ stage'[j] = s
    BY <1>2, <2>1, <2>2 DEF Stages, Driven
  <2> QED BY <2>1, <2>2, <2>3, <2>4, LookAlone
<1>5. CASE HandleBackoff(j)
  <2>1. /\ pc = "handle" /\ todo = j /\ Busy(j) /\ stage[j] = "BACKOFF"
        /\ UNCHANGED handleRest /\ (EmergencyStop \/ NoStop)
    BY <1>5 DEF HandleBackoff, At, Busy
  <2>2. \/ stage' = stage /\ pc' = "handle" /\ todo' = After(j)
        \/ /\ stage' = [stage EXCEPT ![j] = "LATCH"] /\ pc' = "push" /\ todo' = After(j)
           /\ block' = [None(NaN) EXCEPT ![j] = LatchVel[j]]
    BY <1>5 DEF HandleBackoff, At, Skip, Send
  <2>3. "LATCH" \in Stages \ {"NONE"} /\ "LATCH" \in Driven /\ stage[j] \in Driven
    BY <2>1 DEF Stages, Driven
  <2>4. \/ pc' = "ready"
        \/ pc' = "handle" /\ todo' = After(j)
        \/ /\ pc' = "push" /\ todo' = After(j)
           /\ stage'[j] \in Driven
           /\ \E v \in Int : block' = [None(NaN) EXCEPT ![j] = v]
    BY <1>1, <1>2, <2>2, <2>3
  <2> QED BY <2>1, <2>2, <2>3, <2>4, LookAlone
<1>6. CASE HandleRelease(j) \/ HandleLatch(j)
  <2>1. /\ pc = "handle" /\ todo = j /\ Busy(j) /\ stage[j] \in Driven
        /\ UNCHANGED handleRest /\ (EmergencyStop \/ NoStop)
    BY <1>6 DEF HandleRelease, HandleLatch, At, Busy, Driven
  <2>2. /\ stage' = stage \/ (seen[j].stopped /\ stage' = [stage EXCEPT ![j] = "PRE_FINAL"])
        /\ pc' = "handle" /\ todo' = After(j)
    BY <1>6 DEF HandleRelease, HandleLatch, At, Skip, SetHome, Enter
  <2>3. /\ "PRE_FINAL" \in Stages \ {"NONE"} /\ "PRE_FINAL" \notin Driven
        /\ "LATCH" \in Stages \ {"NONE"} /\ "LATCH" \in Driven
    BY DEF Stages, Driven
  <2>4. CASE stage' = stage
    BY <2>1, <2>2, <2>3, <2>4, LookAlone
  <2>5. CASE seen[j].stopped /\ stage' = [stage EXCEPT ![j] = "PRE_FINAL"]
    BY <2>1, <2>2, <2>3, <2>5, LookAlone
  <2> QED BY <2>2, <2>4, <2>5
<1>7. CASE HandlePreFinal(j)
  <2>1. /\ pc = "handle" /\ todo = j /\ Busy(j) /\ stage[j] \notin Driven
        /\ UNCHANGED handleRest /\ NoStop
        /\ stage' = [stage EXCEPT ![j] = "FINAL"] /\ pc' = "handle" /\ todo' = After(j)
    BY <1>7 DEF HandlePreFinal, At, Busy, Driven, Enter
  <2>2. "FINAL" \in Stages \ {"NONE"} /\ "FINAL" \notin Driven
    BY DEF Stages, Driven
  <2> QED BY <2>1, <2>2, LookAlone
<1> QED BY <1>3, <1>4, <1>5, <1>6, <1>7 DEF Handle

LEMMA NextAlone == IInv /\ Alone /\ [Next]_vars => Alone'
<1> SUFFICES ASSUME IInv, Alone, [Next]_vars PROVE Alone'
  OBVIOUS
<1>1. CASE EndstopPoll
  BY <1>1, EndstopAlone
<1>2. CASE StepperStep
  BY <1>2, FetchVelocityAlone, FetchOtherAlone, TickVelocityAlone, TickOtherAlone DEF StepperStep
<1>3. CASE HomingBegin \/ MoveBegin
  BY <1>3, HomingBeginAlone, MoveAlone
<1>4. CASE HomingStep
  <2>1. CASE SequenceBegin \/ HomingDone \/ Push \/ Check \/ Snapshot
    BY <2>1, SequenceAlone, HomingDoneAlone, PushAlone, CheckAlone, SnapshotAlone
  <2>2. ASSUME NEW j \in Joints, Handle(j) PROVE Alone'
    BY <2>2, HandleAlone
  <2> QED BY <1>4, <2>1, <2>2 DEF HomingStep
<1>5. CASE StopCall \/ StopClear
  BY <1>5, StopsAlone
<1>6. CASE UNCHANGED vars
  <2>1. /\ UNCHANGED <<seqOf, sequence, mask, stage, pc, block, seen, todo, overlap>>
        /\ UNCHANGED <<queue, active, pv, sv, stopped>>
    BY <1>6 DEF vars, machineVars, homingVars, historyVars, motorVars
  <2>2. Waiting' = Waiting /\ Calm'
    BY <2>1 DEF Waiting, Alone, Calm
  <2> QED BY <2>1, <2>2, PlantAlone DEF Rest
<1> QED BY <1>1, <1>2, <1>3, <1>4, <1>5, <1>6 DEF Next

LEMMA AloneMeans == Alone => OneSequenceMoves
<1> SUFFICES ASSUME Alone, active = "Velocity", ~overlap
             PROVE  \A j, k \in Joints :
                      /\ pv[j] # 0 /\ pv[k] # 0 => seqOf[j] = seqOf[k]
                      /\ pv[j] # 0 => seqOf[j] = -1 \/ j \in mask
  BY DEF OneSequenceMoves
<1>1. \A j \in Joints : pv[j] # 0 => Chosen(j)
  BY DEF Alone, Resting, Rest
<1> QED BY <1>1 DEF Chosen

\* Two sequences of joints never move at the same time under homing, nor does a
\* joint G28 was not asked for, for every machine and wiring, whatever is stopped
\* and cleared and however the 50 ms fall: the flags homing acts on (homing.h:112)
\* are old, but no block sent since the snapshot concerns a joint seen at rest.
THEOREM SequencesApart == Spec => []OneSequenceMoves
<1>1. Init => IInv /\ Alone
  BY InitInv, InitAlone
<1>2. IInv /\ Alone /\ [Next]_vars => IInv' /\ Alone'
  BY NextInv, NextAlone
<1>3. IInv /\ Alone => OneSequenceMoves
  BY AloneMeans
<1> QED BY <1>1, <1>2, <1>3, PTL DEF Spec
=============================================================================
