------------------------------- MODULE Homing -------------------------------
(***************************************************************************)
(* Homing (command/homing.h): the printer thread drives the joints to      *)
(* their endstops, sequence by sequence, with velocity blocks, and learns  *)
(* what became of them by reading the joints' state every 50 ms.  Two      *)
(* threads of higher priority change that state meanwhile: the endstop     *)
(* thread (endstop.c) polls the switches and the stepper thread            *)
(* (stepper.c) runs the blocks, stops a joint whose switch changes and     *)
(* flags the joint as stopped.                                             *)
(*                                                                         *)
(* A Tick is one pass of stepper_velocity_profile, 1/256 s: the joints     *)
(* change speed by one unit, move by their speed, and the endstop thread   *)
(* has polled at least once before the next one.  The block queue is the   *)
(* one of module PlannerQueue, here a sequence of at most Room blocks.     *)
(***************************************************************************)
EXTENDS Integers, Sequences, FiniteSets

CONSTANTS
  NumJoints,       \* RAD_NUMBER_JOINTS
  NumExtruders,    \* RAD_NUMBER_EXTRUDERS
  Stroke,          \* max_limit - min_limit of a joint
  Endstops,        \* Endstops[j]: which of "Min", "Max" joint j is fitted with
  SearchVel,       \* home_search_vel of each joint
  LatchVel,        \* home_latch_vel of each joint
  HomePos,         \* min_limit or max_limit, whichever the joint homes to
  SequencesOf,     \* the assignments of home_sequence to try
  Wirings,         \* the assignments of a wiring ("good", "open", "stuck", "swapped") to try
  Masks,           \* the sets of joints a G28 may ask for
  Starts,          \* positions of the carriages at power-up to try
  Moves,           \* displacements of the moves made between two homings
  Pace,            \* ticks such a move takes for a unit of it
  SearchTravel,    \* 1.2 * Stroke
  LatchTravel,     \* max(Stroke / 20, |home_search_vel| + 20)
  MinTicks, MaxTicks,  \* ticks in a sleep of 50 ms
  Room,            \* blocks the queue takes before a caller waits
  MaxHomings, MaxMoves, MaxStops,  \* bounds: commands and stops in a behaviour
  NaN              \* a joint's velocity that a block leaves alone

Joints == 1 .. NumJoints
FirstSequence == -1

Abs(x) == IF x < 0 THEN -x ELSE x
Delta(s, t) == (s \ t) \cup (t \ s)      \* bitwise exclusive or of limit states

\* The machine leaves room for a joint to slow down from its search speed.
ASSUME TravelAssumption ==
  \A j \in Joints : SearchTravel > Stroke + Abs(SearchVel[j]) * Abs(SearchVel[j])
\* A joint homes to a switch it is fitted with, at two speeds other than zero (those
\* without them are passed over, homing.h:61, and left out here) of which the latch
\* speed is not the greater.  The machine stops it from its search speed well within
\* its stroke.
ASSUME HomeAssumption ==
  \A j \in Joints :
    LET v == Abs(SearchVel[j])
    IN  /\ v # 0 /\ LatchVel[j] # 0 /\ Abs(LatchVel[j]) <= v
        /\ (IF SearchVel[j] < 0 THEN "Min" ELSE "Max") \in Endstops[j]
        /\ v * (v + 1) < 2 * Stroke
\* ... and within half of what homing lets it travel about its switch (homing.h:143).
ASSUME LatchAssumption ==
  \A j \in Joints : Abs(SearchVel[j]) * (Abs(SearchVel[j]) + 1) <= LatchTravel
ASSUME TimesAssumption ==
  /\ NumJoints \in Nat \ {0} /\ NumExtruders \in 0 .. NumJoints
  /\ Pace \in Nat \ {0} /\ MinTicks \in Nat /\ MaxTicks \in Nat \ {0}
ASSUME MachineAssumption ==
  /\ SearchVel \in [Joints -> Int] /\ LatchVel \in [Joints -> Int] /\ HomePos \in [Joints -> Int]
  /\ Endstops \in [Joints -> SUBSET {"Min", "Max"}]
  /\ Stroke \in Int /\ SearchTravel \in Int /\ LatchTravel \in Int
  /\ SequencesOf \subseteq [Joints -> Int]
  /\ Wirings \subseteq [Joints -> {"good", "open", "stuck", "swapped"}]
ASSUME InputsAssumption ==
  /\ Starts \subseteq [Joints -> 0 .. Stroke] /\ Moves \subseteq [Joints -> Int]
  /\ Masks \subseteq SUBSET Joints
  /\ NaN \notin Int

VARIABLES
  phys,       \* where each carriage is; a min switch closes at 0, a max one at Stroke
  wiring,     \* how the switch the joint homes to behaves
  seqOf,      \* home_sequence of each joint
  limit, base, changed,   \* limit_state, base_limit_state, changed_limit_state
  pos,        \* step counter of the joint's channel
  pv, sv,     \* last_velocity and the active block's sv
  hit,        \* limit_hit
  stopped, limitStep, homed,   \* of RadJointState
  active,     \* mode of the active block
  togo,       \* ticks left of the positional block being executed, with their sign
  queue,      \* committed blocks
  estop,      \* the stepper's flag
  halted,     \* printer state is Estopped
  pc, mask, sequence, stage, lastPos, count,   \* actionHoming
  todo,       \* joint the pass over the snapshot is at
  seen,       \* the snapshot: stepperGetJointsState after the sleep
  block,      \* velocities of the block being put into the queue
  ticks,      \* ticks since the sleep or the pass began
  homings, moves, stops,   \* how many so far
  overlap,    \* history: this homing began during a move, or before the switches
              \* it ended on had been polled
  unsure,     \* history: joints not homed anew since a homing overlapped so
  missed      \* history: a stop was cleared while homing was running

switchVars  == <<limit, base, changed>>
motorVars   == <<pv, sv, hit, stopped, limitStep, active, togo>>
plantVars   == <<phys, pos>>
homingVars  == <<mask, sequence, stage, lastPos, count, todo, seen, block, homed>>
stopVars    == <<estop, halted>>
machineVars == <<wiring, seqOf>>
boundVars   == <<homings, moves, stops>>
historyVars == <<overlap, unsure, missed>>
vars == <<switchVars, motorVars, plantVars, homingVars, stopVars, machineVars,
          boundVars, historyVars, queue, pc, ticks>>

Stages == {"NONE", "SEARCH", "AT_LIMIT", "BACKOFF", "RELEASE", "LATCH",
           "PRE_FINAL", "FINAL"}
None(x) == [j \in Joints |-> x]
NoBlock == <<>>
Unseen == [pos |-> 0, stopped |-> FALSE, limit |-> {}, changed |-> {}, step |-> 0]

\* The switch a joint searches for, and where the carriage is when homing takes
\* its step for the home position: at the edge it closes at, or, for a joint
\* that latches by moving away, one step off it.
Side(j) == IF SearchVel[j] < 0 THEN "Min" ELSE "Max"
LatchesInward(j) == (SearchVel[j] > 0) = (LatchVel[j] > 0)
EdgeAt(j, side) == IF side = "Min" THEN 0 ELSE Stroke
Edge(j) == EdgeAt(j, Side(j)) + IF LatchesInward(j) THEN 0 ELSE IF LatchVel[j] < 0 THEN -1 ELSE 1

Other(side) == IF side = "Min" THEN "Max" ELSE "Min"

\* palReadPin on the switches of a joint.
Contacts(j) ==
  LET closed == {s \in Endstops[j] : IF s = "Min" THEN phys[j] <= 0
                                                  ELSE phys[j] >= Stroke}
  IN  CASE wiring[j] = "good"  -> closed
        [] wiring[j] = "open"  -> closed \ {Side(j)}
        [] wiring[j] = "stuck" -> closed \cup {Side(j)}
        [] wiring[j] = "swapped" -> {s \in Endstops[j] : Other(s) \in closed}

Init ==
  /\ phys \in Starts
  /\ wiring \in Wirings
  /\ seqOf \in SequencesOf
  /\ pos = None(0)
  /\ limit = None({}) /\ base = None({}) /\ changed = None({})
  /\ pv = None(0) /\ sv = None(0) /\ togo = None(0)
  /\ hit = None(FALSE) /\ stopped = None(FALSE) /\ homed = None(FALSE)
  /\ limitStep = None(0)
  /\ active = "Idle"
  /\ queue = <<>>
  /\ estop = FALSE /\ halted = FALSE
  /\ pc = "ready" /\ mask = {} /\ sequence = FirstSequence /\ count = 0
  /\ stage = None("NONE") /\ lastPos = None(0)
  /\ todo = 1 /\ seen = None(Unseen) /\ block = NoBlock
  /\ ticks = 0
  /\ homings = 0 /\ moves = 0 /\ stops = 0
  /\ overlap = FALSE /\ unsure = {} /\ missed = FALSE

-----------------------------------------------------------------------------
(* The endstop thread *)

\* stepperSetLimitState for every joint: what has changed since the last reset
\* stays in changed_limit_state even if it changes back.
ChangedAfter(j) == changed[j] \cup Delta(base[j], Contacts(j))

EndstopPending == \E j \in Joints : limit[j] # Contacts(j) \/ changed[j] # ChangedAfter(j)

EndstopPoll ==
  /\ EndstopPending
  /\ limit' = [j \in Joints |-> Contacts(j)]
  /\ changed' = [j \in Joints |-> ChangedAfter(j)]
  /\ UNCHANGED <<base, motorVars, plantVars, homingVars, stopVars, machineVars,
                 boundVars, historyVars, queue, pc, ticks>>

-----------------------------------------------------------------------------
(* The stepper thread *)

\* plannerQueueFetchBlockI: only an emergency stop ends a positional block early.
MayFetch ==
  /\ queue # <<>>
  /\ active = "Positional" => Head(queue).mode = "Estop"

\* The joint's sv in a velocity block: NAN keeps what the velocity block before
\* it has come to, and means rest after anything else.
SetSpeedRaw(v, j) == v[j]                          \* mutant: NAN taken for a speed
SetSpeed(v, j) ==
  IF v[j] # NaN THEN v[j] ELSE IF active = "Velocity" THEN sv[j] ELSE 0

\* A limit change seen for the first time in this block asks the joint to stop.
HitNowByState(j) == ~hit[j] /\ limit[j] # {}     \* mutant: as without stop_on_limit_changes
HitNow(j) == ~hit[j] /\ changed[j] # {}

\* The joint's set speed after that, and its speed one unit nearer to it.
Goal(j) == IF HitNow(j) THEN 0 ELSE sv[j]
Toward(p, s) == IF p < s THEN p + 1 ELSE IF p > s THEN p - 1 ELSE p

\* The stopped flag is set when the joint is found at rest and asked to rest.
StoppedNow(j) == stopped[j] \/ (pv[j] = 0 /\ Goal(j) = 0)

\* The channels' limit_hit flags after a velocity block is fetched.
FlagsKept == hit                                   \* mutant: left as they were
FlagsAfterFetch == None(FALSE)

\* stepper_fetch_new_block: the first profile pass of the block is the next tick.
\* A block the estop flag makes the stepper drop has touched the joints' flags.
\* An extruder's speed, which homing always sets to zero, clears the flag of the
\* joint that has the extruder's number.
Unflagged(v, j) == v[j] # NaN \/ j <= NumExtruders
FetchVelocity ==
  /\ MayFetch
  /\ Head(queue).mode = "Velocity"
  /\ queue' = Tail(queue)
  /\ LET v == Head(queue).v
     IN  /\ stopped' = [j \in Joints |-> ~Unflagged(v, j) /\ stopped[j]]
         /\ hit' = FlagsAfterFetch
         /\ sv' = [j \in Joints |-> IF estop THEN 0 ELSE SetSpeed(v, j)]
         /\ pv' = IF active = "Velocity" /\ ~estop THEN pv ELSE None(0)
         /\ active' = IF estop THEN "Idle" ELSE "Velocity"
  /\ UNCHANGED <<switchVars, limitStep, plantVars, togo, homingVars, stopVars,
                 machineVars, boundVars, historyVars, pc, ticks>>

FetchOther ==
  /\ MayFetch
  /\ Head(queue).mode # "Velocity"
  /\ queue' = Tail(queue)
  /\ estop' = (estop \/ Head(queue).mode = "Estop") /\ Head(queue).mode # "Estop_Clear"
  /\ LET moves2 == Head(queue).mode = "Positional" /\ ~estop
     IN  /\ active' = IF moves2 THEN "Positional" ELSE "Idle"
         /\ togo' = [j \in Joints |-> IF moves2 THEN Pace * Head(queue).v[j] ELSE 0]
  /\ pv' = None(0) /\ sv' = None(0)
  /\ UNCHANGED <<switchVars, hit, stopped, limitStep, plantVars, homingVars, halted,
                 machineVars, boundVars, historyVars, pc, ticks>>

\* Time passes: as much as a sleep takes, one tick at most inside the printer
\* thread's work between two sleeps, and as much as it takes when the thread
\* waits for room in the queue.
WaitsForRoom == pc \in {"first", "push", "handle"} /\ Len(queue) = Room
TimeLeft ==
  \/ pc = "ready" \/ WaitsForRoom
  \/ ticks < IF pc = "sleep" THEN MaxTicks ELSE 1
Clock == ticks' = IF pc = "ready" \/ WaitsForRoom THEN ticks ELSE ticks + 1

MayTick == ~EndstopPending /\ ~MayFetch /\ TimeLeft

\* stepper_velocity_profile and the steps up to the next pass; when every joint
\* has stopped the stepper goes idle.
TickVelocity ==
  /\ active = "Velocity"
  /\ MayTick
  /\ base' = [j \in Joints |-> IF HitNow(j) THEN limit[j] ELSE base[j]]
  /\ changed' = [j \in Joints |-> IF HitNow(j) THEN {} ELSE changed[j]]
  /\ limitStep' = [j \in Joints |-> IF HitNow(j) THEN pos[j] ELSE limitStep[j]]
  /\ hit' = [j \in Joints |-> hit[j] \/ HitNow(j)]
  /\ stopped' = [j \in Joints |-> StoppedNow(j)]
  /\ sv' = [j \in Joints |-> Goal(j)]
  /\ pv' = [j \in Joints |-> Toward(pv[j], Goal(j))]
  /\ phys' = [j \in Joints |-> phys[j] + pv'[j]]
  /\ pos' = [j \in Joints |-> pos[j] + pv'[j]]
  /\ active' = IF \A j \in Joints : StoppedNow(j) THEN "Idle" ELSE "Velocity"
  /\ Clock
  /\ UNCHANGED <<limit, togo, homingVars, stopVars, machineVars, boundVars,
                 historyVars, queue, pc>>

\* A tick of a positional block, every Pace-th with a step; nothing looks at the
\* endstops, nothing touches the joints' stopped flags.
TickPositional ==
  /\ active = "Positional"
  /\ MayTick
  /\ LET left == [j \in Joints |-> Toward(togo[j], 0)]
         step == [j \in Joints |-> IF left[j] % Pace = 0 THEN togo[j] - left[j] ELSE 0]
     IN  /\ phys' = [j \in Joints |-> phys[j] + step[j]]
         /\ pos' = [j \in Joints |-> pos[j] + step[j]]
         /\ togo' = left
         /\ active' = IF left = None(0) THEN "Idle" ELSE "Positional"
  /\ Clock
  /\ UNCHANGED <<switchVars, pv, sv, hit, stopped, limitStep, homingVars, stopVars,
                 machineVars, boundVars, historyVars, queue, pc>>

\* The timer is off; a sleeping printer thread is all that waits for time.
TickIdle ==
  /\ active = "Idle"
  /\ MayTick
  /\ pc # "ready"
  /\ Clock
  /\ UNCHANGED <<switchVars, motorVars, plantVars, homingVars, stopVars, machineVars,
                 boundVars, historyVars, queue, pc>>

-----------------------------------------------------------------------------
(* The printer thread: G28 *)

motion == <<switchVars, motorVars, plantVars, machineVars>>

\* plannerAddAxisPoint for a move made between homings, one that stays between
\* the switches; the thread does not wait for it.
Ahead(j) == Toward(0, togo[j]) * ((Abs(togo[j]) + Pace - 1) \div Pace)
Fits(m) == \A j \in Joints : m[j] = 0 \/ phys[j] + Ahead(j) + m[j] \in 0 .. Stroke

MoveBegin ==
  /\ pc = "ready"
  /\ ~halted
  /\ moves < MaxMoves
  /\ queue = <<>>
  /\ \E m \in Moves : Fits(m) /\ queue' = <<[mode |-> "Positional", v |-> m]>>
  /\ moves' = moves + 1
  /\ UNCHANGED <<motion, homingVars, stopVars, homings, stops, historyVars, pc, ticks>>

\* printer_wait_motion returns when no committed block is left: the last one may
\* still be under way. commandHoming makes the
\* mask of the axes named in the command, or of all joints.
HomingBegin ==
  /\ pc = "ready"
  /\ ~halted
  /\ homings < MaxHomings
  /\ queue = <<>>
  /\ mask' \in Masks
  /\ sequence' = FirstSequence
  /\ homings' = homings + 1
  /\ ticks' = 0
  /\ overlap' = (active # "Idle" \/ EndstopPending)
  /\ unsure' = IF overlap' THEN Joints ELSE unsure
  /\ pc' = "sequence"
  /\ UNCHANGED <<motion, stage, lastPos, count, todo, seen, block, homed, stopVars,
                 moves, stops, missed, queue>>

\* The joints of the current sequence; those of sequence -1 home every time.
GroupAll == {j \in Joints : j \in mask}      \* mutant: sequences ignored
Group == {j \in Joints : seqOf[j] = sequence /\ (sequence = -1 \/ j \in mask)}

AtLimit(j) == Side(j) \in limit[j]

\* The top of the loop over sequences, up to plannerSetJointVelocity.
SequenceBegin ==
  /\ pc = "sequence"
  /\ sequence < NumJoints
  /\ sequence' = sequence + 1
  /\ count' = Cardinality(Group)
  /\ stage' = [j \in Joints |-> IF j \notin Group THEN "NONE"
                                ELSE IF AtLimit(j) THEN "AT_LIMIT" ELSE "SEARCH"]
  /\ lastPos' = [j \in Joints |-> IF stage'[j] = "SEARCH" THEN pos[j] ELSE 0]
  /\ base' = [j \in Joints |-> IF j \in Group THEN limit[j] ELSE base[j]]
  /\ changed' = [j \in Joints |-> IF j \in Group THEN {} ELSE changed[j]]
  /\ IF Group = {}
     THEN pc' = "sequence" /\ UNCHANGED block
     ELSE /\ pc' = "first"
          /\ block' = [j \in Joints |-> IF stage'[j] = "SEARCH" THEN SearchVel[j] ELSE 0]
  /\ UNCHANGED <<limit, motorVars, plantVars, mask, todo, seen, homed, stopVars,
                 machineVars, boundVars, historyVars, queue, ticks>>

HomingDone ==
  /\ pc = "sequence"
  /\ sequence = NumJoints
  /\ pc' = "ready"
  /\ UNCHANGED <<motion, homingVars, stopVars, boundVars, historyVars, queue, ticks>>

\* plannerSetJointVelocity waits for room and commits the block; after it the
\* pass over the joints goes on, or begins its waiting.
Push ==
  /\ pc \in {"first", "push"}
  /\ Len(queue) < Room
  /\ queue' = Append(queue, [mode |-> "Velocity", v |-> block])
  /\ block' = NoBlock
  /\ pc' = IF pc = "push" THEN "handle" ELSE "check"
  /\ UNCHANGED <<motion, mask, sequence, stage, lastPos, count, todo, seen, homed,
                 stopVars, boundVars, historyVars, ticks>>

\* The loop's condition and its first statement.
Check ==
  /\ pc = "check" \/ (pc = "handle" /\ todo > NumJoints)
  /\ pc' = IF count = 0 THEN "sequence" ELSE IF halted THEN "ready" ELSE "sleep"
  /\ ticks' = 0
  /\ todo' = 1
  /\ seen' = None(Unseen)
  /\ UNCHANGED <<motion, mask, sequence, stage, lastPos, count, block, homed,
                 stopVars, boundVars, historyVars, queue>>

\* The joints the pass has something to do for; the others are passed over.
Busy(j) == stage[j] \notin {"NONE", "FINAL"}
After(j) ==
  CHOOSE k \in j + 1 .. NumJoints + 1 :
    /\ k <= NumJoints => Busy(k)
    /\ \A i \in j + 1 .. k - 1 : ~Busy(i)

\* 50 ms later: stepperGetJointsState.
Snapshot ==
  /\ pc = "sleep"
  /\ ticks >= MinTicks
  /\ ~EndstopPending /\ ~MayFetch
  /\ seen' = [j \in Joints |->
               [pos |-> pos[j], stopped |-> stopped[j], limit |-> limit[j],
                changed |-> changed[j], step |-> limitStep[j]]]
  /\ ticks' = 0
  /\ todo' = After(0)
  /\ pc' = "handle"
  /\ UNCHANGED <<motion, mask, sequence, stage, lastPos, count, block, homed,
                 stopVars, boundVars, historyVars, queue>>

(* One joint of the pass, by its stage.  printerEstop does not return from    *)
(* actionHoming; only where the code says so does the pass end with it.       *)

At(j, s) == pc = "handle" /\ todo = j /\ stage[j] = s

Skip(j) ==
  /\ todo' = After(j)
  /\ UNCHANGED <<stage, lastPos, base, changed, block, pc>>

Enter(j, s) ==
  /\ todo' = After(j)
  /\ stage' = [stage EXCEPT ![j] = s]
  /\ UNCHANGED <<lastPos, base, changed, block, pc>>

\* movement_set_single_joint and plannerSetJointVelocity.
Send(j, v) ==
  /\ todo' = After(j)
  /\ block' = [None(NaN) EXCEPT ![j] = v]
  /\ pc' = "push"

\* stepperResetOldLimitState, on the limits as they are and not as in the snapshot.
ResetLimit(j) ==
  /\ base' = [base EXCEPT ![j] = limit[j]]
  /\ changed' = [changed EXCEPT ![j] = {}]

\* printerEstop: its block replaces the queue.
EmergencyStop ==
  /\ Len(queue) < Room
  /\ queue' = <<[mode |-> "Estop", v |-> None(NaN)]>>
  /\ halted' = TRUE
NoStop == UNCHANGED <<queue, halted>>

Travelled(j) == Abs(lastPos[j] - seen[j].pos)
SwitchSeen(j) == Side(j) \in seen[j].changed \cup seen[j].limit

handleRest == <<limit, motorVars, phys, mask, sequence, seen, estop, machineVars,
                boundVars, overlap, missed, ticks>>

HandleSearch(j) ==
  /\ At(j, "SEARCH")
  /\ \/ /\ Travelled(j) > SearchTravel
        /\ EmergencyStop
        /\ pc' = "ready"
        /\ UNCHANGED <<stage, lastPos, base, changed, block, todo>>
     \/ /\ Travelled(j) <= SearchTravel
        /\ ~seen[j].stopped
        /\ Skip(j)
        /\ NoStop
     \/ /\ Travelled(j) <= SearchTravel
        /\ seen[j].stopped
        /\ seen[j].limit = {} /\ seen[j].changed = {}
        /\ Send(j, SearchVel[j])
        /\ NoStop
        /\ UNCHANGED <<stage, lastPos, base, changed>>
     \/ /\ Travelled(j) <= SearchTravel
        /\ seen[j].stopped
        /\ SwitchSeen(j)
        /\ Enter(j, "AT_LIMIT")
        /\ NoStop
     \/ /\ Travelled(j) <= SearchTravel
        /\ seen[j].stopped
        /\ seen[j].limit \cup seen[j].changed # {} /\ ~SwitchSeen(j)
        /\ Skip(j)
        /\ EmergencyStop
  /\ UNCHANGED <<handleRest, count, homed, pos, unsure>>

HandleAtLimit(j) ==
  /\ At(j, "AT_LIMIT")
  /\ ResetLimit(j)
  /\ lastPos' = [lastPos EXCEPT ![j] = seen[j].pos]
  /\ stage' = [stage EXCEPT ![j] = IF LatchesInward(j) THEN "BACKOFF" ELSE "RELEASE"]
  /\ Send(j, IF LatchesInward(j) THEN -SearchVel[j] ELSE LatchVel[j])
  /\ NoStop
  /\ UNCHANGED <<handleRest, count, homed, pos, unsure>>

\* Too far from the switch: a stop, and on with the stage all the same.
OffTravel(j) == Travelled(j) > LatchTravel

HandleBackoff(j) ==
  /\ At(j, "BACKOFF")
  /\ \/ /\ ~seen[j].stopped
        /\ Skip(j)
        /\ IF OffTravel(j) THEN EmergencyStop ELSE NoStop
     \/ /\ seen[j].stopped
        /\ seen[j].limit = {}
        /\ stage' = [stage EXCEPT ![j] = "LATCH"]
        /\ ResetLimit(j)
        /\ Send(j, LatchVel[j])
        /\ IF OffTravel(j) THEN EmergencyStop ELSE NoStop
        /\ UNCHANGED lastPos
     \/ /\ seen[j].stopped
        /\ seen[j].limit # {}
        /\ Skip(j)
        /\ EmergencyStop
  /\ UNCHANGED <<handleRest, count, homed, pos, unsure>>

\* stepperSetHome: the counter is shifted so that it read HomePos at the step
\* where the switch changed.
HomeHere(j) == HomePos[j]                                   \* mutant: overshoot forgotten
Homed(j) == (pos[j] - seen[j].step) + HomePos[j]

SetHome(j) ==
  /\ pos' = [pos EXCEPT ![j] = Homed(j)]
  /\ unsure' = IF overlap THEN unsure ELSE unsure \ {j}
  /\ Enter(j, "PRE_FINAL")

HandleRelease(j) ==
  /\ At(j, "RELEASE")
  /\ \/ /\ ~seen[j].stopped
        /\ Skip(j)
        /\ IF OffTravel(j) THEN EmergencyStop ELSE NoStop
        /\ UNCHANGED <<pos, unsure>>
     \/ /\ seen[j].stopped
        /\ seen[j].limit = {}
        /\ SetHome(j)
        /\ IF OffTravel(j) THEN EmergencyStop ELSE NoStop
     \/ /\ seen[j].stopped
        /\ seen[j].limit # {}
        /\ Skip(j)
        /\ EmergencyStop
        /\ UNCHANGED <<pos, unsure>>
  /\ UNCHANGED <<handleRest, count, homed>>

HandleLatch(j) ==
  /\ At(j, "LATCH")
  /\ \/ /\ ~seen[j].stopped
        /\ Skip(j)
        /\ IF OffTravel(j) THEN EmergencyStop ELSE NoStop
        /\ UNCHANGED <<pos, unsure>>
     \/ /\ seen[j].stopped
        /\ seen[j].limit = {IF LatchVel[j] < 0 THEN "Min" ELSE "Max"}
        /\ SetHome(j)
        /\ IF OffTravel(j) THEN EmergencyStop ELSE NoStop
     \/ /\ seen[j].stopped
        /\ seen[j].limit # {IF LatchVel[j] < 0 THEN "Min" ELSE "Max"}
        /\ Skip(j)
        /\ EmergencyStop
        /\ UNCHANGED <<pos, unsure>>
  /\ UNCHANGED <<handleRest, count, homed>>

\* Joints left to home once one more is.
Remaining == count                                 \* mutant: not counted off
OneLess == count - 1

\* One poll later than SetHome: stepperSetHomed.
HandlePreFinal(j) ==
  /\ At(j, "PRE_FINAL")
  /\ count' = OneLess
  /\ homed' = [homed EXCEPT ![j] = TRUE]
  /\ Enter(j, "FINAL")
  /\ NoStop
  /\ UNCHANGED <<handleRest, pos, unsure>>

-----------------------------------------------------------------------------
(* The host, a menu or a heater's fault: a stop, and a stop cleared *)

StopCall ==
  /\ ~halted
  /\ stops < MaxStops
  /\ EmergencyStop
  /\ stops' = stops + 1
  /\ UNCHANGED <<motion, homingVars, estop, homings, moves, historyVars, pc, ticks>>

StopClear ==
  /\ halted
  /\ Len(queue) < Room
  /\ queue' = Append(queue, [mode |-> "Estop_Clear", v |-> None(NaN)])
  /\ halted' = FALSE
  /\ missed' = (missed \/ pc # "ready")
  /\ UNCHANGED <<motion, homingVars, estop, boundVars, overlap, unsure, pc, ticks>>

-----------------------------------------------------------------------------
Handle(j) ==
  \/ HandleSearch(j)
  \/ HandleAtLimit(j)
  \/ HandleBackoff(j)
  \/ HandleRelease(j)
  \/ HandleLatch(j)
  \/ HandlePreFinal(j)

StepperStep == FetchVelocity \/ FetchOther \/ TickVelocity \/ TickPositional \/ TickIdle

HomingStep ==
  \/ SequenceBegin \/ HomingDone \/ Push \/ Check \/ Snapshot
  \/ \E j \in Joints : Handle(j)

Next ==
  \/ EndstopPoll
  \/ StepperStep
  \/ HomingBegin \/ MoveBegin
  \/ HomingStep
  \/ StopCall \/ StopClear

Spec == Init /\ [][Next]_vars

\* The three threads run: the stepper and the endstop thread outrank the
\* printer thread, which nothing else keeps from running for ever.
FairSpec ==
  /\ Spec
  /\ WF_vars(EndstopPoll)
  /\ WF_vars(StepperStep)
  /\ WF_vars(HomingStep)

-----------------------------------------------------------------------------
(* Properties *)

Modes == {"Velocity", "Positional", "Estop", "Estop_Clear"}
Limits == SUBSET {"Min", "Max"}
Velocities == [Joints -> Int \cup {NaN}]

\* Types: velocities are numbers once they are in the active block.
TypeOK ==
  /\ phys \in [Joints -> Int] /\ pos \in [Joints -> Int]
  /\ wiring \in [Joints -> {"good", "open", "stuck", "swapped"}]
  /\ seqOf \in [Joints -> Int]
  /\ limit \in [Joints -> Limits] /\ base \in [Joints -> Limits] /\ changed \in [Joints -> Limits]
  /\ pv \in [Joints -> Int] /\ sv \in [Joints -> Int] /\ togo \in [Joints -> Int]
  /\ hit \in [Joints -> BOOLEAN]
  /\ stopped \in [Joints -> BOOLEAN] /\ homed \in [Joints -> BOOLEAN]
  /\ limitStep \in [Joints -> Int]
  /\ active \in {"Idle", "Velocity", "Positional"}
  /\ \A i \in 1 .. Len(queue) : queue[i].mode \in Modes /\ queue[i].v \in Velocities
  /\ estop \in BOOLEAN /\ halted \in BOOLEAN
  /\ pc \in {"ready", "sequence", "first", "push", "check", "sleep", "handle"}
  /\ mask \subseteq Joints
  /\ sequence \in -1 .. NumJoints
  /\ stage \in [Joints -> Stages]
  /\ lastPos \in [Joints -> Int]
  /\ count \in 0 .. NumJoints
  /\ todo \in 1 .. NumJoints + 1
  /\ pc = "first" \/ pc = "push" <=> block # NoBlock
  /\ ticks \in 0 .. MaxTicks

\* Homing that begins while a move is under way, which printer_wait_motion allows
\* (dispatch.h:25), takes what an earlier homing left in the joints' stopped flags
\* for the end of its own movement (homing.h:112): it sets homes at old limit steps,
\* drives a joint on that has met its switch, and starts the next sequence too
\* early. What follows is true of all other homings, `unsure' apart.

\* A joint that reports itself homed has a working switch, and its step counter
\* reads the home position at the edge of that switch, to within what the joint
\* moves between two polls of it: however far it overshoots while it slows down
\* and whatever moves and stops come in between (stepperSetHome, homing.h:164, 183).
HomedAccurate ==
  \A j \in Joints \ unsure :
    homed[j] =>
      /\ wiring[j] = "good"
      /\ Abs((pos[j] - phys[j]) - (HomePos[j] - Edge(j))) < Abs(LatchVel[j])

\* How far past a switch a joint gets before the switch stops it: the distance
\* it takes to be seen and to slow down from the search speed.
StopDistance(j) == (Abs(SearchVel[j]) * (Abs(SearchVel[j]) + 1)) \div 2

\* A joint that homing drives into its switch, fast or slowly, once or again
\* after a stop, is stopped by it.
SwitchRespected ==
  \A j \in Joints \ unsure :
    wiring[j] = "good" =>
      IF Side(j) = "Min" THEN phys[j] >= -StopDistance(j)
                         ELSE phys[j] <= Stroke + StopDistance(j)

\* Homing stops the machine only for a reason: a switch that does not work, or a
\* stop from outside that it slept through.
NoSpuriousStop ==
  [][halted' /\ ~halted /\ stops' = stops =>
       unsure # {} \/ missed \/ \E j \in Joints : wiring[j] # "good"]_vars

\* Joints of two sequences never move at the same time under homing, nor does
\* a joint that G28 was not asked for.
OneSequenceMoves ==
  active = "Velocity" /\ ~overlap =>
    \A j, k \in Joints :
      /\ pv[j] # 0 /\ pv[k] # 0 => seqOf[j] = seqOf[k]
      /\ pv[j] # 0 => seqOf[j] = -1 \/ j \in mask

\* Every homing comes to an end, done or stopped, with any wiring and over any
\* move, unless a stop was made and cleared while it slept: the stepper has then
\* dropped the blocks whose end homing waits for (homing.h:94).
HomingEnds == pc = "sequence" ~> pc = "ready" \/ missed
=============================================================================
