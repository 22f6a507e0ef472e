------------------------------- MODULE Stepper -------------------------------
(***************************************************************************)
(* The stepper thread (stepper.c): blocks become pulses.  A tick of the    *)
(* timer has two phases: in the first the thread fetches a block, or goes  *)
(* on with the one it has, and works out speeds; in the second it lowers   *)
(* or raises the step signals.  Every channel has a residue, `current', to *)
(* which each tick adds the steps of the channel in the block; when it is  *)
(* above zero the channel is given a pulse.                                *)
(*                                                                         *)
(* A position is counted in steps, a target in grains, parts of a step.    *)
(* The speeds of a positional block are those of module LookAhead: here    *)
(* only the speed it ends with matters, which is kept in storage that      *)
(* velocity blocks use for the velocities of the joints.  Limit switches   *)
(* and homing are in module Homing, the ring of blocks in PlannerQueue.    *)
(***************************************************************************)
EXTENDS Integers, Sequences

CONSTANTS
  NumJoints, NumExtruders,   \* RAD_NUMBER_JOINTS, RAD_NUMBER_EXTRUDERS
  Grain,            \* grains in a step
  Targets,          \* targets of blocks, in grains, for each channel
  Velocities,       \* velocities of blocks for each channel; NaN leaves it alone
  NaN,
  Acceleration,     \* gained or lost in a period of the velocity profile
  EndSpeeds,        \* speeds a positional block may end with
  VelocityFreq,     \* STEPPER_VELOCITY_STEP_FREQ: ticks for a velocity of one step
  ProfilePeriod,    \* ... / STEPPER_VELOCITY_PROFILE_FREQ
  Room,             \* blocks the queue takes
  MaxBlocks, MaxTicks   \* bounds: blocks in a behaviour, ticks at a velocity

Joints == 1 .. NumJoints
Channels == 1 .. NumJoints + NumExtruders

ASSUME NumbersAssumption ==
  /\ NumJoints \in Nat \ {0, 1} /\ NumExtruders \in 0 .. NumJoints
  /\ Grain \in Nat \ {0} /\ Acceleration \in Nat \ {0}
  /\ VelocityFreq \in Nat \ {0} /\ ProfilePeriod \in Nat \ {0}
ASSUME EndSpeedsAssumption == EndSpeeds \subseteq Nat
ASSUME TargetsAssumption == Targets \subseteq [Channels -> Int]

\* A joint asked for more than a step each tick would be left behind (machine.c
\* limits the joints to far less), and NaN is no velocity.
ASSUME VelocitiesAssumption ==
  /\ Velocities \subseteq [Channels -> (-VelocityFreq .. VelocityFreq) \cup {NaN}]
  /\ NaN \notin Int

VARIABLES
  queue,      \* committed blocks
  mode,       \* of active_block
  to,         \* target or velocities of active_block
  estop,      \* the stepper's flag
  phase,      \* 0: set up the tick; 1: give its pulses
  spent,      \* total_step_spent
  stepMax,    \* step_max
  dir, step, current, pos,   \* of each channel
  words,      \* the union of StepperStepState, by the joint whose velocity it holds
  stopped,    \* joints_state: the joint has come to rest
  enabled,    \* the drivers are
  blocks, ticks,    \* how many so far
  from,       \* history: pos when the active block was fetched
  ended,      \* history: nothing happened since a positional block was finished
  aliased     \* history: a velocity is where the speed of a block is looked for,
              \* as a block was fetched while joints were moving

blockVars == <<mode, to, spent, stepMax>>
channelVars == <<dir, step, current>>
historyVars == <<from, ended, aliased>>
boundVars == <<blocks, ticks>>
vars == <<queue, blockVars, estop, phase, channelVars, pos, words, stopped, enabled,
          boundVars, historyVars>>

Abs(n) == IF n < 0 THEN -n ELSE n
All(x) == [c \in Channels |-> x]

\* A word of the union, and what it was written as. All bits zero is a zero
\* for each of them.
Zero == <<"zero", 0>>
Written(kind, v) == IF v = 0 THEN Zero ELSE <<kind, v>>
Velocity(v) == Written("velocity", v)
Speed(v) == Written("speed", v)
Other == <<"other", 1>>
Value(w) == w[2]

\* last_block_speed lies where the velocity of the second joint does.
SpeedWord == 2

Block(m, t) == [mode |-> m, to |-> t]
Estop == Block("Estop", All(0))
Offered ==
  {Block("Positional", t) : t \in Targets} \cup {Block("Reset", t) : t \in Targets}
    \cup {Block("Velocity", v) : v \in Velocities} \cup {Block("Estop_Clear", All(0))}

Init ==
  /\ queue = <<>>
  /\ mode = "Idle" /\ to = All(0) /\ spent = 0 /\ stepMax = 0
  /\ estop = FALSE /\ phase = 0
  /\ dir = All(0) /\ step = All(0) /\ current = All(0) /\ pos = All(0)
  /\ words = All(Zero)
  /\ stopped = [j \in Joints |-> FALSE] /\ enabled = FALSE
  /\ blocks = 0 /\ ticks = 0
  /\ from = All(0) /\ ended = FALSE /\ aliased = FALSE

-----------------------------------------------------------------------------
(* Those who queue blocks *)

stepperVars == <<blockVars, estop, phase, channelVars, pos, words, stopped, enabled,
                 ticks, historyVars>>

Offer ==
  /\ blocks < MaxBlocks /\ Len(queue) < Room
  /\ \E b \in Offered : queue' = Append(queue, b)
  /\ blocks' = blocks + 1
  /\ UNCHANGED stepperVars

\* plannerQueueInterruptCommit
Interrupt ==
  /\ blocks < MaxBlocks
  /\ queue' = <<Estop>>
  /\ blocks' = blocks + 1
  /\ UNCHANGED stepperVars

-----------------------------------------------------------------------------
(* Fetching *)

First == Head(queue)
MayFetch == queue # <<>> /\ (mode = "Positional" => First.mode = "Estop")
Fetch(m) ==
  /\ phase = 0 /\ MayFetch /\ First.mode = m
  /\ queue' = Tail(queue)
  /\ ended' = FALSE

\* active_block.p.target * scale - pos, as an integer.
Whole(grains) == IF grains < 0 THEN -((-grains) \div Grain) ELSE grains \div Grain
Delta(c) == Whole(First.to[c] - Grain * pos[c])

StartFull(n) == -n                     \* mutant: half a step late
StartResidue(n) == -(n \div 2)

\* The channels take over a block whose longest channel has n steps.
LoadPositional(n) ==
  /\ n \in {1} \cup {Abs(Delta(c)) : c \in Channels}
  /\ n >= 1 /\ \A c \in Channels : Abs(Delta(c)) <= n
  /\ stepMax' = n
  /\ dir' = [c \in Channels |-> IF Delta(c) > 0 THEN 1 ELSE -1]
  /\ current' = All(StartResidue(n))
  /\ from' = pos
  /\ to' = First.to

\* Drivers on. last_tick_pace and the others are written, last_block_speed is read.
StartPositional ==
  /\ Fetch("Positional") /\ ~estop
  /\ \E n \in {1} \cup {Abs(Delta(c)) : c \in Channels} :
       LoadPositional(n) /\ spent' = 1 % n
  /\ step' = [c \in Channels |-> Abs(Delta(c))]
  /\ mode' = "Positional" /\ phase' = 1
  /\ words' = [c \in Channels |-> IF c = SpeedWord THEN words[c] ELSE Other]
  /\ enabled' = TRUE
  /\ aliased' = (aliased \/ mode = "Velocity")
  /\ UNCHANGED <<estop, pos, stopped, boundVars>>

\* stepper_reset_velocity, when no velocity block was running.
WordsKept == words                     \* mutant: not reset
WordsAtFetch == IF mode = "Velocity" THEN words ELSE All(Zero)
StepsAtFetch == IF mode = "Velocity" THEN step ELSE All(0)

\* NaN keeps the velocity; a joint given one is no longer at rest, and neither is
\* the joint with the number of an extruder that was given one.
Given(c) == First.to[c] # NaN
LoadVelocity ==
  /\ stepMax' = VelocityFreq
  /\ current' = All(StartResidue(VelocityFreq))
  /\ to' = [c \in Channels |-> CASE Given(c) -> First.to[c]
                                 [] ~Given(c) /\ mode = "Velocity" -> to[c]
                                 [] OTHER -> 0]
  /\ from' = pos

StoppedAtFetch ==
  [j \in Joints |-> stopped[j] /\ ~Given(j) /\ (j <= NumExtruders => ~Given(NumJoints + j))]

-----------------------------------------------------------------------------
(* The velocity profile *)

Towards(v, goal) ==
  CASE v < goal -> IF v + Acceleration > goal THEN goal ELSE v + Acceleration
    [] v > goal -> IF v - Acceleration < goal THEN goal ELSE v - Acceleration
    [] OTHER -> v

\* stepper_idle
IdleKeepsSpeed(w) == w                 \* mutant: last_block_speed is left
IdleWords(w) == [w EXCEPT ![SpeedWord] = Zero]

\* stepper_velocity_profile on these words, steps and flags; `to' is that of
\* after a fetch. When all is at rest the block is over.
Profile(w, s, rest) ==
  LET pv(c) == Value(w[c])
      AtRest(c) == pv(c) = 0 /\ to'[c] = 0
      changed(c) == pv(c) # to'[c]
      v(c) == Towards(pv(c), to'[c])
      AllStopped == \A c \in Channels : AtRest(c) \/ (c \in Joints /\ rest[c])
      w1 == [c \in Channels |-> IF changed(c) THEN Velocity(v(c)) ELSE w[c]]
  IN  /\ stopped' = [j \in Joints |-> rest[j] \/ AtRest(j)]
      /\ step' = [c \in Channels |-> IF changed(c) THEN Abs(v(c)) ELSE s[c]]
      /\ dir' = [c \in Channels |-> IF ~changed(c) THEN dir[c] ELSE IF v(c) < 0 THEN -1 ELSE 1]
      /\ IF AllStopped
         THEN mode' = "Idle" /\ phase' = 0 /\ words' = IdleWords(w1) /\ aliased' = FALSE
         ELSE mode' = "Velocity" /\ phase' = 1 /\ words' = w1 /\ UNCHANGED aliased

StartVelocity ==
  /\ Fetch("Velocity") /\ ~estop
  /\ LoadVelocity
  /\ Profile(WordsAtFetch, StepsAtFetch, StoppedAtFetch)
  /\ spent' = 1 % VelocityFreq
  /\ enabled' = TRUE
  /\ UNCHANGED <<estop, pos, boundVars>>

-----------------------------------------------------------------------------
(* The other blocks, and a tick without one *)

\* stepper_disable_all and stepper_idle
Stop ==
  /\ mode' = "Idle"
  /\ step' = All(0) /\ words' = All(Zero)
  /\ enabled' = FALSE /\ aliased' = FALSE

FetchEstop ==
  /\ Fetch("Estop")
  /\ Stop
  /\ estop' = TRUE
  /\ spent' = 0 /\ to' = First.to
  /\ UNCHANGED <<phase, stepMax, dir, current, pos, stopped, boundVars, from>>

\* A block for motion is taken in and thrown away while the stepper is stopped.
DropPositional ==
  /\ Fetch("Positional") /\ estop
  /\ \E n \in {1} \cup {Abs(Delta(c)) : c \in Channels} : LoadPositional(n)
  /\ Stop
  /\ spent' = 0
  /\ UNCHANGED <<estop, phase, pos, stopped, boundVars>>

DropVelocity ==
  /\ Fetch("Velocity") /\ estop
  /\ LoadVelocity
  /\ stopped' = StoppedAtFetch
  /\ Stop
  /\ spent' = 0
  /\ UNCHANGED <<estop, phase, dir, pos, boundVars>>

FetchEstopClear ==
  /\ Fetch("Estop_Clear")
  /\ estop' = FALSE
  /\ mode' = "Idle" /\ words' = IdleWords(words) /\ aliased' = FALSE
  /\ spent' = 0 /\ to' = First.to
  /\ UNCHANGED <<phase, stepMax, channelVars, pos, stopped, enabled, boundVars, from>>

\* reset_step_state
FetchReset ==
  /\ Fetch("Reset")
  /\ pos' = [c \in Channels |-> Whole(First.to[c])]
  /\ mode' = "Idle"
  /\ aliased' = (aliased \/ mode = "Velocity")
  /\ spent' = 0 /\ to' = First.to
  /\ UNCHANGED <<estop, phase, stepMax, channelVars, words, stopped, enabled, boundVars, from>>

\* No block, or none that may be fetched.
GoOnPositional ==
  /\ phase = 0 /\ ~MayFetch /\ mode = "Positional"
  /\ spent' = (spent + 1) % stepMax
  /\ phase' = 1
  /\ UNCHANGED <<queue, mode, to, stepMax, estop, channelVars, pos, words, stopped,
                 enabled, boundVars, historyVars>>

GoOnVelocity ==
  /\ phase = 0 /\ ~MayFetch /\ mode = "Velocity"
  /\ ticks < MaxTicks /\ ticks' = ticks + 1
  /\ to' = to
  /\ IF spent % ProfilePeriod = 0
     THEN Profile(words, step, stopped)
     ELSE phase' = 1 /\ UNCHANGED <<mode, step, dir, words, stopped, aliased>>
  /\ spent' = (spent + 1) % stepMax
  /\ UNCHANGED <<queue, stepMax, estop, current, pos, enabled, blocks, from, ended>>

-----------------------------------------------------------------------------
(* The pulses *)

\* A pulse is due.
DueEarly(residue) == residue >= 0      \* mutant
Due(residue) == residue > 0

Residue(c) == current[c] + step[c]
Finished == mode = "Positional" /\ spent = 0

Pulse ==
  /\ phase = 1 /\ phase' = 0
  /\ current' = [c \in Channels |-> Residue(c) - IF Due(Residue(c)) THEN stepMax ELSE 0]
  /\ pos' = [c \in Channels |-> pos[c] + IF Due(Residue(c)) THEN dir[c] ELSE 0]
  /\ IF Finished
     THEN /\ mode' = "Idle" /\ ended' = TRUE /\ aliased' = FALSE
          /\ \E v \in EndSpeeds : words' = [words EXCEPT ![SpeedWord] = Speed(v)]
     ELSE UNCHANGED <<mode, words, ended, aliased>>
  /\ UNCHANGED <<queue, to, spent, stepMax, estop, dir, step, stopped, enabled, boundVars, from>>

Next ==
  \/ Offer \/ Interrupt
  \/ StartPositional \/ StartVelocity
  \/ FetchEstop \/ FetchEstopClear \/ FetchReset
  \/ DropPositional \/ DropVelocity
  \/ GoOnPositional \/ GoOnVelocity
  \/ Pulse

Spec == Init /\ [][Next]_vars

-----------------------------------------------------------------------------
(* Properties *)

Modes == {"Idle", "Positional", "Velocity"}
WordKinds == {"zero", "velocity", "speed", "other"}

\* Types; no residue leaves its range, so that no pulse is lost or given twice;
\* and the motors are driven, at most a step at a time, when pulses are given.
TypeOK ==
  /\ mode \in Modes /\ estop \in BOOLEAN /\ phase \in {0, 1} /\ enabled \in BOOLEAN
  /\ stepMax \in Nat /\ spent \in Nat
  /\ to \in [Channels -> Int]
  /\ pos \in [Channels -> Int] /\ from \in [Channels -> Int]
  /\ step \in [Channels -> Nat] /\ dir \in [Channels -> {-1, 0, 1}]
  /\ words \in [Channels -> WordKinds \X Int]
  /\ stopped \in [Joints -> BOOLEAN] /\ ended \in BOOLEAN /\ aliased \in BOOLEAN
  /\ current \in [Channels -> Int]
  /\ phase = 1 => mode # "Idle"
  /\ mode # "Idle" =>
       /\ enabled /\ ~estop
       /\ spent < stepMax
       /\ \A c \in Channels : step[c] <= stepMax /\ current[c] \in 1 - stepMax .. 0

\* Ticks of the active positional block whose pulses have been given.
TicksDone == IF phase = 0 THEN spent ELSE IF spent = 0 THEN stepMax - 1 ELSE spent - 1

\* ... and the pulses they gave a channel.
Gone(c) == dir[c] * (pos[c] - from[c])

\* The channels of a positional block go together: each is always within half a
\* step of the straight line, and when the block is finished it is less than a
\* step short of its target, whatever was stopped, dropped or reset before: errors
\* do not add up.
OnTheLine ==
  /\ mode = "Positional" =>
       \A c \in Channels :
         2 * Abs(stepMax * Gone(c) - TicksDone * step[c]) <= stepMax
  /\ ended => \A c \in Channels : Abs(to[c] - Grain * pos[c]) < Grain

\* The two uses of the union do not meet: a velocity block moves the joints by
\* velocities, and a positional block is entered at the speed the last one was
\* left with, or zero, unless it was fetched while joints were moving at a
\* velocity, or after a position was set while they were.
OneReading ==
  /\ mode = "Velocity" => \A c \in Channels : words[c][1] \in {"zero", "velocity"}
  /\ mode # "Velocity" /\ ~aliased => words[SpeedWord][1] \in {"zero", "speed"}
=============================================================================
