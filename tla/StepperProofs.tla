---------------------------- MODULE StepperProofs ----------------------------
(***************************************************************************)
(* The properties of Stepper for any numbers of joints and extruders, any  *)
(* targets and velocities and any number of blocks.  What has to be added  *)
(* to make them inductive: what a queued block may be, that the velocities *)
(* of a running velocity block are in range, and the equation that ties    *)
(* the residue of a channel to the ticks and pulses it has had.            *)
(***************************************************************************)
EXTENDS Stepper, SequenceTheorems, TLAPS

\* A length in grains is cut to whole steps towards zero.
LEMMA WholeFacts ==
  ASSUME NEW g \in Int
  PROVE  /\ Whole(g) \in Int
         /\ g - Grain * Whole(g) < Grain
         /\ Grain * Whole(g) - g < Grain
<1> Grain \in Nat /\ Grain > 0
  BY NumbersAssumption
<1>1. ASSUME NEW n \in Nat
      PROVE  /\ n \div Grain \in Int
             /\ Grain * (n \div Grain) <= n
             /\ n < Grain * (n \div Grain) + Grain
  BY <1>1
<1> QED BY <1>1 DEF Whole

LEMMA HalfFacts ==
  ASSUME NEW n \in Nat
  PROVE  n \div 2 \in Nat /\ 2 * (n \div 2) <= n /\ n <= 2 * (n \div 2) + 1
OBVIOUS

\* total_step_spent goes through 0 .. n - 1.
LEMMA NextTick ==
  ASSUME NEW n \in Nat, NEW k \in Nat, k < n
  PROVE  (k + 1) % n = IF k + 1 = n THEN 0 ELSE k + 1
OBVIOUS

\* The equation of the line, from tick k to the next: h is the half step the
\* residue began with, g the pulses given.
LEMMA LineTick ==
  ASSUME NEW n \in Nat, NEW s \in Nat, NEW k \in Nat, NEW g \in Int, NEW h \in Int,
         NEW r \in Int, r = k * s - n * g - h
  PROVE  /\ r + s = (k + 1) * s - n * g - h
         /\ r + s - n = (k + 1) * s - n * (g + 1) - h
OBVIOUS

\* A residue in its range is half a step, at most, off the line.
LEMMA LineBound ==
  ASSUME NEW n \in Nat \ {0}, NEW s \in Nat, NEW k \in Nat, NEW g \in Int,
         NEW r \in 1 - n .. 0, r = k * s - n * g - (n \div 2)
  PROVE  2 * Abs(n * g - k * s) <= n
<1> DEFINE h == n \div 2
           x == n * g
           y == k * s
<1>1. h \in Nat /\ 2 * h <= n /\ n <= 2 * h + 1
  BY HalfFacts
<1>2. x \in Int /\ y \in Int /\ r = y - x - h
  OBVIOUS
<1> HIDE DEF h, x, y
<1>3. 2 * Abs(x - y) <= n
  BY <1>1, <1>2 DEF Abs
<1> QED BY <1>3 DEF x, y

\* After as many ticks as the block has steps, a channel has had all of its own.
LEMMA LineEnd ==
  ASSUME NEW n \in Nat \ {0}, NEW s \in Nat, NEW g \in Int,
         NEW r \in 1 - n .. 0, r = n * s - n * g - (n \div 2)
  PROVE  g = s
<1> DEFINE h == n \div 2
           d == s - g
<1>1. h \in Nat /\ 2 * h <= n /\ n <= 2 * h + 1
  BY HalfFacts
<1>2. d \in Int /\ n * d = r + h
  BY <1>1
<1> HIDE DEF h, d
<1>3. -n < n * d /\ n * d < n
  BY <1>1, <1>2
<1>4. ~(d >= 1)
  <2>1. d >= 1 => n * d >= n
    BY <1>2
  <2> QED BY <2>1, <1>2, <1>3
<1>5. ~(d <= -1)
  <2>1. d <= -1 => n * d <= -n
    BY <1>2
  <2> QED BY <2>1, <1>2, <1>3
<1>6. d = 0
  BY <1>2, <1>4, <1>5
<1> QED BY <1>6 DEF d

-----------------------------------------------------------------------------
(* The inductive invariant *)

\* What may be in the queue.
QueueType == queue \in Seq(Offered \cup {Estop})

\* A channel of the active positional block goes from where it was to its target,
\* cut to whole steps.
Whole1(c) == Whole(to[c] - Grain * from[c])
Aimed(c) == step[c] = Abs(Whole1(c)) /\ dir[c] = IF Whole1(c) > 0 THEN 1 ELSE -1

Balanced(c) == current[c] = TicksDone * step[c] - stepMax * Gone(c) - (stepMax \div 2)

Line == mode = "Positional" => \A c \in Channels : Aimed(c) /\ Balanced(c)
Arrived == ended => \A c \in Channels : Abs(to[c] - Grain * pos[c]) < Grain

InRange(v) == v \in -VelocityFreq .. VelocityFreq
Rated(w) == w[1] \in {"zero", "velocity"} /\ InRange(Value(w))
Velocities1 ==
  mode = "Velocity" =>
    /\ stepMax = VelocityFreq
    /\ \A c \in Channels : InRange(to[c]) /\ Rated(words[c])

EntryWord == mode # "Velocity" /\ ~aliased => words[SpeedWord][1] \in {"zero", "speed"}

Ending == ended => mode = "Idle"

IInv == TypeOK /\ Ending /\ QueueType /\ Line /\ Arrived /\ Velocities1 /\ EntryWord

LEMMA AbsNat == ASSUME NEW n \in Int PROVE Abs(n) \in Nat
BY DEF Abs

LEMMA SpeedWordIsChannel == SpeedWord \in Channels
BY NumbersAssumption DEF SpeedWord, Channels

LEMMA JointsAreChannels == \A j \in Joints : j \in Channels
BY NumbersAssumption DEF Joints, Channels

LEMMA VelocityFreqPositive == VelocityFreq \in Nat \ {0}
BY NumbersAssumption

LEMMA WordsWritten ==
  ASSUME NEW v \in Int
  PROVE  /\ Velocity(v) \in WordKinds \X Int /\ Velocity(v)[1] \in {"zero", "velocity"}
         /\ Value(Velocity(v)) = v
         /\ Speed(v) \in WordKinds \X Int /\ Speed(v)[1] \in {"zero", "speed"}
BY DEF Velocity, Speed, Written, Zero, Value, WordKinds

LEMMA FixedWords ==
  /\ Zero \in WordKinds \X Int /\ Zero[1] = "zero" /\ Value(Zero) = 0
  /\ Other \in WordKinds \X Int
BY DEF Zero, Other, Value, WordKinds

\* What a block carries.
LEMMA BlockFacts ==
  ASSUME NEW b \in Offered \cup {Estop}
  PROVE  /\ b.mode \in {"Positional", "Reset", "Estop", "Estop_Clear"}
              => b.to \in [Channels -> Int]
         /\ b.mode = "Velocity" =>
              \A c \in Channels : b.to[c] = NaN \/ InRange(b.to[c])
<1>1. All(0) \in [Channels -> Int]
  BY DEF All
<1>2. CASE \E t \in Targets : b = Block("Positional", t) \/ b = Block("Reset", t)
  BY <1>2, TargetsAssumption DEF Block
<1>3. CASE \E v \in Velocities : b = Block("Velocity", v)
  <2>1. PICK v \in Velocities : b = Block("Velocity", v)
    BY <1>3
  <2>2. b.mode = "Velocity" /\ b.to = v
    BY <2>1 DEF Block
  <2>3. v \in [Channels -> (-VelocityFreq .. VelocityFreq) \cup {NaN}]
    BY VelocitiesAssumption
  <2> QED BY <2>2, <2>3 DEF InRange
<1>4. CASE b = Block("Estop_Clear", All(0)) \/ b = Estop
  BY <1>1, <1>4 DEF Block, Estop
<1> QED BY <1>2, <1>3, <1>4 DEF Offered

LEMMA Fetched ==
  ASSUME QueueType, queue # <<>>
  PROVE  First \in Offered \cup {Estop} /\ Tail(queue) \in Seq(Offered \cup {Estop})
<1> DEFINE B == Offered \cup {Estop}
<1>1. queue \in Seq(B) /\ queue # <<>>
  BY DEF QueueType
<1> HIDE DEF B
<1>2. Head(queue) \in B /\ Tail(queue) \in Seq(B)
  BY <1>1
<1> QED BY <1>2 DEF B, First

LEMMA InitIInv == Init => IInv
<1> SUFFICES ASSUME Init PROVE IInv
  OBVIOUS
<1> USE DEF Init
<1>1. \A c \in Channels : All(0)[c] = 0 /\ All(Zero)[c] = Zero
  BY DEF All
<1>2. TypeOK
  <2>1. to \in [Channels -> Int] /\ pos \in [Channels -> Int] /\ from \in [Channels -> Int]
        /\ step \in [Channels -> Nat] /\ dir \in [Channels -> {-1, 0, 1}]
        /\ current \in [Channels -> Int]
    BY DEF All
  <2>2. words \in [Channels -> WordKinds \X Int]
    BY FixedWords DEF All
  <2>3. stopped \in [Joints -> BOOLEAN]
    OBVIOUS
  <2>4. /\ mode \in Modes /\ estop \in BOOLEAN /\ phase \in {0, 1} /\ enabled \in BOOLEAN
        /\ stepMax \in Nat /\ spent \in Nat
        /\ ended \in BOOLEAN /\ aliased \in BOOLEAN
    BY DEF Modes
  <2>5. phase # 1 /\ mode = "Idle"
    OBVIOUS
  <2> HIDE DEF Init
  <2> QED BY <2>1, <2>2, <2>3, <2>4, <2>5 DEF TypeOK
<1>3. QueueType
  BY DEF QueueType
<1>4. Ending /\ Line /\ Arrived /\ Velocities1
  BY DEF Ending, Line, Arrived, Velocities1
<1>5. EntryWord
  BY <1>1, SpeedWordIsChannel, FixedWords DEF EntryWord
<1> QED BY <1>2, <1>3, <1>4, <1>5 DEF IInv

-----------------------------------------------------------------------------
(* Every step preserves it *)

LEMMA QueueStep ==
  ASSUME IInv, Offer \/ Interrupt
  PROVE  IInv'
<1>1. queue' \in Seq(Offered \cup {Estop})
  <2> DEFINE B == Offered \cup {Estop}
  <2>1. queue \in Seq(B) /\ Estop \in B /\ \A b \in Offered : b \in B
    BY DEF IInv, QueueType
  <2> HIDE DEF B
  <2>2. CASE Offer
    BY <2>1, <2>2 DEF Offer, B
  <2>3. CASE Interrupt
    BY <2>1, <2>3 DEF Interrupt, B
  <2> QED BY <2>2, <2>3
<1>2. /\ UNCHANGED <<mode, to, spent, stepMax>> /\ UNCHANGED <<dir, step, current>>
      /\ UNCHANGED <<estop, phase, pos, words, stopped, enabled, from, ended, aliased>>
  BY DEF Offer, Interrupt, stepperVars, blockVars, channelVars, historyVars
<1>3. TypeOK'
  BY <1>2 DEF IInv, TypeOK
<1>4. Ending' /\ Line' /\ Arrived' /\ Velocities1' /\ EntryWord'
  BY <1>2 DEF IInv, Ending, Line, Arrived, Velocities1, EntryWord, Aimed, Balanced, Whole1,
              TicksDone, Gone
<1> QED BY <1>1, <1>3, <1>4 DEF IInv, QueueType

\* What a fetch of a block of mode m tells.
LEMMA FetchFacts ==
  ASSUME IInv, NEW m, Fetch(m)
  PROVE  /\ phase = 0 /\ queue' \in Seq(Offered \cup {Estop})
         /\ ended' = FALSE /\ First.mode = m
         /\ m \in {"Positional", "Reset", "Estop", "Estop_Clear"} =>
              First.to \in [Channels -> Int]
         /\ m = "Velocity" => \A c \in Channels : First.to[c] = NaN \/ InRange(First.to[c])
         /\ mode = "Positional" => m = "Estop"
<1>1. queue # <<>> /\ First.mode = m /\ phase = 0 /\ queue' = Tail(queue) /\ ended' = FALSE
      /\ (mode = "Positional" => m = "Estop")
  BY DEF Fetch, MayFetch
<1>2. First \in Offered \cup {Estop} /\ queue' \in Seq(Offered \cup {Estop})
  BY <1>1, Fetched DEF IInv
<1> QED BY <1>1, <1>2, BlockFacts

\* The channels of a block that is taken over.
LEMMA LoadFacts ==
  ASSUME TypeOK, First.to \in [Channels -> Int], NEW n, LoadPositional(n)
  PROVE  /\ n \in Nat \ {0} /\ stepMax' = n
         /\ \A c \in Channels : /\ Delta(c) \in Int /\ Abs(Delta(c)) \in Nat
                                /\ Abs(Delta(c)) <= n
                                /\ current'[c] = -(n \div 2)
                                /\ current'[c] \in 1 - n .. 0
                                /\ dir'[c] = (IF Delta(c) > 0 THEN 1 ELSE -1)
         /\ dir' \in [Channels -> {-1, 0, 1}] /\ current' \in [Channels -> Int]
         /\ to' \in [Channels -> Int] /\ from' \in [Channels -> Int]
         /\ to' = First.to /\ from' = pos
<1> Grain \in Nat
  BY NumbersAssumption
<1>1. ASSUME NEW c \in Channels
      PROVE  Delta(c) \in Int /\ Abs(Delta(c)) \in Nat
  <2>1. First.to[c] \in Int /\ pos[c] \in Int
    BY DEF TypeOK
  <2>2. First.to[c] - Grain * pos[c] \in Int
    BY <2>1
  <2>3. Delta(c) \in Int
    BY <2>2, WholeFacts DEF Delta
  <2> QED BY <2>3, AbsNat
<1>2. n \in Int /\ n >= 1 /\ \A c \in Channels : Abs(Delta(c)) <= n
  <2>1. n \in {1} \cup {Abs(Delta(c)) : c \in Channels}
    BY DEF LoadPositional
  <2>2. n \in Int
    BY <2>1, <1>1
  <2> QED BY <2>2 DEF LoadPositional
<1>3. n \in Nat \ {0}
  BY <1>2
<1>4. -(n \div 2) \in 1 - n .. 0
  BY <1>3, HalfFacts
<1>5. current' = All(-(n \div 2)) /\ stepMax' = n /\ from' = pos /\ to' = First.to
      /\ dir' = [c \in Channels |-> IF Delta(c) > 0 THEN 1 ELSE -1]
  BY DEF LoadPositional, StartResidue
<1>6. current' \in [Channels -> Int] /\ \A c \in Channels : current'[c] = -(n \div 2)
  BY <1>4, <1>5 DEF All
<1>7. dir' \in [Channels -> {-1, 0, 1}]
      /\ \A c \in Channels : dir'[c] = (IF Delta(c) > 0 THEN 1 ELSE -1)
  BY <1>5
<1> QED BY <1>1, <1>2, <1>3, <1>4, <1>5, <1>6, <1>7 DEF TypeOK

\* Standing still, the union and the flags of a running block say little.
LEMMA AtRest ==
  ASSUME mode' = "Idle", ended' = FALSE
  PROVE  Ending' /\ Line' /\ Arrived' /\ Velocities1'
BY DEF Ending, Line, Arrived, Velocities1

LEMMA TypeAtRest ==
  ASSUME mode' = "Idle", phase' = 0, estop' \in BOOLEAN, enabled' \in BOOLEAN,
         stepMax' \in Nat, spent' \in Nat, to' \in [Channels -> Int],
         pos' \in [Channels -> Int], from' \in [Channels -> Int],
         step' \in [Channels -> Nat], dir' \in [Channels -> {-1, 0, 1}],
         current' \in [Channels -> Int], words' \in [Channels -> WordKinds \X Int],
         stopped' \in [Joints -> BOOLEAN], ended' \in BOOLEAN, aliased' \in BOOLEAN
  PROVE  TypeOK'
<1>1. mode' \in Modes /\ phase' \in {0, 1} /\ phase' # 1
  BY DEF Modes
<1> QED BY <1>1 DEF TypeOK

LEMMA StopFacts ==
  ASSUME Stop
  PROVE  /\ mode' = "Idle" /\ enabled' = FALSE /\ aliased' = FALSE
         /\ step' \in [Channels -> Nat] /\ words' \in [Channels -> WordKinds \X Int]
         /\ EntryWord'
<1>1. mode' = "Idle" /\ step' = All(0) /\ words' = All(Zero)
      /\ enabled' = FALSE /\ aliased' = FALSE
  BY DEF Stop
<1>2. step' \in [Channels -> Nat] /\ words' \in [Channels -> WordKinds \X Int]
  BY <1>1, FixedWords DEF All
<1>3. words'[SpeedWord][1] = "zero"
  BY <1>1, FixedWords, SpeedWordIsChannel DEF All
<1> QED BY <1>1, <1>2, <1>3 DEF EntryWord

LEMMA FetchEstopStep ==
  ASSUME IInv, FetchEstop
  PROVE  IInv'
<1>1. Fetch("Estop") /\ Stop
      /\ estop' = TRUE /\ spent' = 0 /\ to' = First.to
      /\ UNCHANGED <<phase, stepMax, dir, current, pos, stopped, boundVars, from>>
  BY DEF FetchEstop
<1>2. phase = 0 /\ queue' \in Seq(Offered \cup {Estop}) /\ ended' = FALSE
      /\ First.to \in [Channels -> Int]
  BY <1>1, FetchFacts
<1>3. /\ mode' = "Idle" /\ enabled' = FALSE /\ aliased' = FALSE
      /\ step' \in [Channels -> Nat] /\ words' \in [Channels -> WordKinds \X Int]
      /\ EntryWord'
  BY <1>1, StopFacts
<1>4. /\ phase' = 0 /\ stepMax' \in Nat /\ dir' \in [Channels -> {-1, 0, 1}]
      /\ current' \in [Channels -> Int] /\ pos' \in [Channels -> Int]
      /\ stopped' \in [Joints -> BOOLEAN] /\ from' \in [Channels -> Int]
  BY <1>1, <1>2 DEF IInv, TypeOK
<1>5. estop' \in BOOLEAN /\ spent' \in Nat /\ to' \in [Channels -> Int]
  BY <1>1, <1>2
<1>6. TypeOK'
  BY <1>2, <1>3, <1>4, <1>5, TypeAtRest
<1> QED BY <1>2, <1>3, <1>6, AtRest DEF IInv, QueueType

LEMMA DropPositionalStep ==
  ASSUME IInv, DropPositional
  PROVE  IInv'
<1>1. Fetch("Positional") /\ Stop /\ spent' = 0
      /\ UNCHANGED <<estop, phase, pos, stopped, boundVars>>
  BY DEF DropPositional
<1>2. PICK n : LoadPositional(n)
  BY DEF DropPositional
<1>3. phase = 0 /\ queue' \in Seq(Offered \cup {Estop}) /\ ended' = FALSE
      /\ First.to \in [Channels -> Int]
  BY <1>1, FetchFacts
<1>4. /\ mode' = "Idle" /\ enabled' = FALSE /\ aliased' = FALSE
      /\ step' \in [Channels -> Nat] /\ words' \in [Channels -> WordKinds \X Int]
      /\ EntryWord'
  BY <1>1, StopFacts
<1>5. /\ stepMax' \in Nat
      /\ dir' \in [Channels -> {-1, 0, 1}] /\ current' \in [Channels -> Int]
      /\ to' \in [Channels -> Int] /\ from' \in [Channels -> Int]
  BY <1>2, <1>3, LoadFacts DEF IInv
<1>6. /\ phase' = 0 /\ spent' \in Nat /\ estop' \in BOOLEAN
      /\ pos' \in [Channels -> Int] /\ stopped' \in [Joints -> BOOLEAN]
  BY <1>1, <1>3 DEF IInv, TypeOK
<1>7. TypeOK'
  BY <1>3, <1>4, <1>5, <1>6, TypeAtRest
<1> QED BY <1>3, <1>4, <1>7, AtRest DEF IInv, QueueType

LEMMA LoadVelocityFacts ==
  ASSUME IInv, Fetch("Velocity"), LoadVelocity
  PROVE  /\ stepMax' = VelocityFreq /\ from' = pos
         /\ to' \in [Channels -> Int] /\ \A c \in Channels : InRange(to'[c])
         /\ current' \in [Channels -> Int]
         /\ \A c \in Channels : current'[c] \in 1 - VelocityFreq .. 0
<1>1. VelocityFreq \in Nat \ {0} /\ -(VelocityFreq \div 2) \in 1 - VelocityFreq .. 0
  BY VelocityFreqPositive, HalfFacts
<1>2. current' = All(-(VelocityFreq \div 2)) /\ stepMax' = VelocityFreq /\ from' = pos
  BY DEF LoadVelocity, StartResidue
<1>3. current' \in [Channels -> Int]
      /\ \A c \in Channels : current'[c] \in 1 - VelocityFreq .. 0
  <2>1. -(VelocityFreq \div 2) \in Int
    BY <1>1
  <2> QED BY <1>1, <1>2, <2>1 DEF All
<1>4. to' = [c \in Channels |-> CASE Given(c) -> First.to[c]
                                  [] ~Given(c) /\ mode = "Velocity" -> to[c]
                                  [] OTHER -> 0]
  BY DEF LoadVelocity
<1>5. ASSUME NEW c \in Channels
      PROVE  InRange(to'[c])
  <2>1. CASE Given(c)
    <3>1. First.to[c] = NaN \/ InRange(First.to[c])
      BY FetchFacts
    <3>2. to'[c] = First.to[c]
      BY <2>1, <1>4
    <3> QED BY <2>1, <3>1, <3>2 DEF Given
  <2>2. CASE ~Given(c) /\ mode = "Velocity"
    <3>1. to'[c] = to[c]
      BY <2>2, <1>4
    <3> QED BY <3>1, <2>2 DEF IInv, Velocities1
  <2>3. CASE ~Given(c) /\ mode # "Velocity"
    <3>1. to'[c] = 0
      BY <2>3, <1>4
    <3> QED BY <3>1, <1>1 DEF InRange
  <2> QED BY <2>1, <2>2, <2>3
<1>6. to' \in [Channels -> Int]
  <2>1. \A c \in Channels : to'[c] \in Int
    BY <1>5, <1>1 DEF InRange
  <2> QED BY <1>4, <2>1
<1> QED BY <1>2, <1>3, <1>5, <1>6

LEMMA StoppedType ==
  ASSUME TypeOK
  PROVE  StoppedAtFetch \in [Joints -> BOOLEAN]
BY DEF StoppedAtFetch

LEMMA DropVelocityStep ==
  ASSUME IInv, DropVelocity
  PROVE  IInv'
<1>1. Fetch("Velocity") /\ LoadVelocity /\ stopped' = StoppedAtFetch /\ Stop /\ spent' = 0
      /\ UNCHANGED <<estop, phase, dir, pos, boundVars>>
  BY DEF DropVelocity
<1>2. phase = 0 /\ queue' \in Seq(Offered \cup {Estop}) /\ ended' = FALSE
  BY <1>1, FetchFacts
<1>3. /\ mode' = "Idle" /\ enabled' = FALSE /\ aliased' = FALSE
      /\ step' \in [Channels -> Nat] /\ words' \in [Channels -> WordKinds \X Int]
      /\ EntryWord'
  BY <1>1, StopFacts
<1>4. /\ stepMax' \in Nat /\ from' \in [Channels -> Int]
      /\ to' \in [Channels -> Int] /\ current' \in [Channels -> Int]
  BY <1>1, LoadVelocityFacts, VelocityFreqPositive DEF IInv, TypeOK
<1>5. /\ phase' = 0 /\ spent' \in Nat /\ estop' \in BOOLEAN
      /\ pos' \in [Channels -> Int] /\ dir' \in [Channels -> {-1, 0, 1}]
      /\ stopped' \in [Joints -> BOOLEAN]
  BY <1>1, <1>2, StoppedType DEF IInv, TypeOK
<1>6. TypeOK'
  BY <1>2, <1>3, <1>4, <1>5, TypeAtRest
<1> QED BY <1>2, <1>3, <1>6, AtRest DEF IInv, QueueType

\* stepper_idle clears the word the next block is entered with.
LEMMA IdleWordsFacts ==
  ASSUME NEW w \in [Channels -> WordKinds \X Int]
  PROVE  IdleWords(w) \in [Channels -> WordKinds \X Int]
         /\ IdleWords(w)[SpeedWord][1] = "zero"
BY FixedWords, SpeedWordIsChannel DEF IdleWords

LEMMA FetchEstopClearStep ==
  ASSUME IInv, FetchEstopClear
  PROVE  IInv'
<1>1. Fetch("Estop_Clear") /\ estop' = FALSE
      /\ mode' = "Idle" /\ words' = IdleWords(words) /\ aliased' = FALSE
      /\ spent' = 0 /\ to' = First.to
      /\ UNCHANGED <<phase, stepMax, channelVars, pos, stopped, enabled, boundVars, from>>
  BY DEF FetchEstopClear
<1>2. phase = 0 /\ queue' \in Seq(Offered \cup {Estop}) /\ ended' = FALSE
      /\ First.to \in [Channels -> Int]
  BY <1>1, FetchFacts
<1>3. /\ phase' = 0 /\ stepMax' \in Nat /\ dir' \in [Channels -> {-1, 0, 1}]
      /\ current' \in [Channels -> Int] /\ pos' \in [Channels -> Int]
      /\ step' \in [Channels -> Nat] /\ enabled' \in BOOLEAN
      /\ stopped' \in [Joints -> BOOLEAN] /\ from' \in [Channels -> Int]
      /\ words \in [Channels -> WordKinds \X Int]
  BY <1>1, <1>2 DEF IInv, TypeOK, channelVars
<1>4. words' \in [Channels -> WordKinds \X Int] /\ words'[SpeedWord][1] = "zero"
  BY <1>1, <1>3, IdleWordsFacts
<1>5. TypeOK'
  BY <1>1, <1>2, <1>3, <1>4, TypeAtRest
<1>6. EntryWord'
  BY <1>4 DEF EntryWord
<1> QED BY <1>1, <1>2, <1>5, <1>6, AtRest DEF IInv, QueueType

LEMMA FetchResetStep ==
  ASSUME IInv, FetchReset
  PROVE  IInv'
<1>1. Fetch("Reset") /\ pos' = [c \in Channels |-> Whole(First.to[c])]
      /\ mode' = "Idle" /\ aliased' = (aliased \/ mode = "Velocity")
      /\ spent' = 0 /\ to' = First.to
      /\ UNCHANGED <<estop, phase, stepMax, channelVars, words, stopped, enabled,
                     boundVars, from>>
  BY DEF FetchReset
<1>2. phase = 0 /\ queue' \in Seq(Offered \cup {Estop}) /\ ended' = FALSE
      /\ First.to \in [Channels -> Int]
  BY <1>1, FetchFacts
<1>3. pos' \in [Channels -> Int]
  <2>1. \A c \in Channels : Whole(First.to[c]) \in Int
    BY <1>2, WholeFacts
  <2> QED BY <1>1, <2>1
<1>4. /\ phase' = 0 /\ stepMax' \in Nat /\ dir' \in [Channels -> {-1, 0, 1}]
      /\ current' \in [Channels -> Int] /\ estop' \in BOOLEAN
      /\ step' \in [Channels -> Nat] /\ enabled' \in BOOLEAN
      /\ stopped' \in [Joints -> BOOLEAN] /\ from' \in [Channels -> Int]
      /\ words' \in [Channels -> WordKinds \X Int] /\ aliased' \in BOOLEAN
  BY <1>1, <1>2 DEF IInv, TypeOK, channelVars
<1>5. TypeOK'
  BY <1>1, <1>2, <1>3, <1>4, TypeAtRest
<1>6. EntryWord'
  BY <1>1 DEF IInv, EntryWord
<1> QED BY <1>1, <1>2, <1>5, <1>6, AtRest DEF IInv, QueueType

\* A block that begins is balanced: no tick, no pulse, half a step to go.
LEMMA StartPositionalStep ==
  ASSUME IInv, StartPositional
  PROVE  IInv'
<1> Grain \in Nat
  BY NumbersAssumption
<1>1. /\ Fetch("Positional") /\ ~estop
      /\ step' = [c \in Channels |-> Abs(Delta(c))]
      /\ mode' = "Positional" /\ phase' = 1
      /\ words' = [c \in Channels |-> IF c = SpeedWord THEN words[c] ELSE Other]
      /\ enabled' = TRUE /\ aliased' = (aliased \/ mode = "Velocity")
      /\ UNCHANGED <<estop, pos, stopped, boundVars>>
  BY DEF StartPositional
<1>2. PICK n : LoadPositional(n) /\ spent' = 1 % n
  BY DEF StartPositional
<1>3. phase = 0 /\ queue' \in Seq(Offered \cup {Estop}) /\ ended' = FALSE
      /\ First.to \in [Channels -> Int]
  BY <1>1, FetchFacts
<1>4. TypeOK
  BY DEF IInv
<1>5. /\ n \in Nat \ {0} /\ stepMax' = n
      /\ \A c \in Channels : /\ Delta(c) \in Int /\ Abs(Delta(c)) \in Nat
                             /\ Abs(Delta(c)) <= n
                             /\ current'[c] = -(n \div 2)
                             /\ current'[c] \in 1 - n .. 0
                             /\ dir'[c] = (IF Delta(c) > 0 THEN 1 ELSE -1)
      /\ dir' \in [Channels -> {-1, 0, 1}] /\ current' \in [Channels -> Int]
      /\ to' \in [Channels -> Int] /\ from' \in [Channels -> Int]
      /\ to' = First.to /\ from' = pos
  BY <1>2, <1>3, <1>4, LoadFacts
<1>6. spent' \in Nat /\ spent' < n /\ spent' = (IF n = 1 THEN 0 ELSE 1)
  BY <1>2, <1>5, NextTick
<1>7. step' \in [Channels -> Nat]
      /\ \A c \in Channels : step'[c] = Abs(Delta(c)) /\ step'[c] <= n
  BY <1>1, <1>5
<1>8. words' \in [Channels -> WordKinds \X Int] /\ words'[SpeedWord] = words[SpeedWord]
  BY <1>1, <1>4, FixedWords, SpeedWordIsChannel DEF TypeOK
<1>9. TypeOK'
  <2>1. /\ pos' \in [Channels -> Int] /\ stopped' \in [Joints -> BOOLEAN]
        /\ estop' = FALSE /\ aliased' \in BOOLEAN
    BY <1>1, <1>4 DEF TypeOK
  <2>2. \A c \in Channels : step'[c] <= stepMax' /\ current'[c] \in 1 - stepMax' .. 0
    BY <1>5, <1>7
  <2>3. stepMax' \in Nat /\ spent' \in Nat /\ spent' < stepMax'
    BY <1>5, <1>6
  <2> QED BY <1>1, <1>3, <1>5, <1>7, <1>8, <2>1, <2>2, <2>3 DEF TypeOK, Modes
<1>10. Line'
  <2>1. TicksDone' = 0
    BY <1>1, <1>5, <1>6 DEF TicksDone
  <2>2. ASSUME NEW c \in Channels
        PROVE  Aimed(c)' /\ Balanced(c)'
    <3>1. pos'[c] = from'[c] /\ pos[c] \in Int
      BY <1>1, <1>4, <1>5 DEF TypeOK
    <3>2. Gone(c)' = 0
      <4>1. dir'[c] \in Int /\ pos'[c] - from'[c] = 0
        BY <1>5, <3>1
      <4> QED BY <4>1 DEF Gone
    <3>3. Whole1(c)' = Delta(c)
      BY <1>1, <1>5, <3>1 DEF Whole1, Delta
    <3>4. Aimed(c)'
      BY <1>5, <1>7, <3>3 DEF Aimed
    <3>5. current'[c] = TicksDone' * step'[c] - stepMax' * Gone(c)' - (stepMax' \div 2)
      <4>1. step'[c] \in Nat /\ current'[c] = -(n \div 2) /\ n \div 2 \in Nat
        BY <1>5, <1>7, HalfFacts
      <4>2. 0 * step'[c] = 0 /\ n * 0 = 0
        BY <4>1, <1>5
      <4>3. 0 - 0 - (n \div 2) = -(n \div 2)
        BY <4>1
      <4> QED BY <2>1, <3>2, <1>5, <4>1, <4>2, <4>3
    <3> QED BY <3>4, <3>5 DEF Balanced
  <2> QED BY <2>2 DEF Line
<1>11. Ending' /\ Arrived' /\ Velocities1'
  BY <1>1, <1>3 DEF Ending, Arrived, Velocities1
<1>12. EntryWord'
  BY <1>1, <1>8 DEF IInv, EntryWord
<1> QED BY <1>3, <1>9, <1>10, <1>11, <1>12 DEF IInv, QueueType

-----------------------------------------------------------------------------
(* The velocity profile *)

LEMMA TowardsInRange ==
  ASSUME NEW v, NEW goal, InRange(v), InRange(goal)
  PROVE  InRange(Towards(v, goal)) /\ Abs(Towards(v, goal)) \in Nat
         /\ Abs(Towards(v, goal)) <= VelocityFreq
<1>1. Acceleration \in Nat \ {0} /\ VelocityFreq \in Nat
  BY NumbersAssumption
<1>2. v \in Int /\ goal \in Int /\ -VelocityFreq <= v /\ v <= VelocityFreq
      /\ -VelocityFreq <= goal /\ goal <= VelocityFreq
  BY <1>1 DEF InRange
<1>3. Towards(v, goal) \in Int /\ -VelocityFreq <= Towards(v, goal)
      /\ Towards(v, goal) <= VelocityFreq
  BY <1>1, <1>2 DEF Towards
<1> QED BY <1>1, <1>3 DEF InRange, Abs

LEMMA ProfileFacts ==
  ASSUME NEW w \in [Channels -> WordKinds \X Int], NEW s \in [Channels -> Nat],
         NEW rest \in [Joints -> BOOLEAN],
         \A c \in Channels : Rated(w[c]) /\ InRange(to'[c]) /\ s[c] <= VelocityFreq,
         dir \in [Channels -> {-1, 0, 1}],
         Profile(w, s, rest)
  PROVE  /\ stopped' \in [Joints -> BOOLEAN]
         /\ step' \in [Channels -> Nat] /\ \A c \in Channels : step'[c] <= VelocityFreq
         /\ dir' \in [Channels -> {-1, 0, 1}]
         /\ words' \in [Channels -> WordKinds \X Int]
         /\ \/ /\ mode' = "Idle" /\ phase' = 0 /\ aliased' = FALSE
               /\ words'[SpeedWord][1] = "zero"
            \/ /\ mode' = "Velocity" /\ phase' = 1 /\ aliased' = aliased
               /\ \A c \in Channels : Rated(words'[c])
<1> DEFINE pv(c) == Value(w[c])
           AtRst(c) == pv(c) = 0 /\ to'[c] = 0
           changed(c) == pv(c) # to'[c]
           v(c) == Towards(pv(c), to'[c])
           AllStopped == \A c \in Channels : AtRst(c) \/ (c \in Joints /\ rest[c])
           w1 == [c \in Channels |-> IF changed(c) THEN Velocity(v(c)) ELSE w[c]]
<1>1. /\ stopped' = [j \in Joints |-> rest[j] \/ AtRst(j)]
      /\ step' = [c \in Channels |-> IF changed(c) THEN Abs(v(c)) ELSE s[c]]
      /\ dir' = [c \in Channels |-> IF ~changed(c) THEN dir[c] ELSE IF v(c) < 0 THEN -1 ELSE 1]
      /\ IF AllStopped
         THEN mode' = "Idle" /\ phase' = 0 /\ words' = IdleWords(w1) /\ aliased' = FALSE
         ELSE mode' = "Velocity" /\ phase' = 1 /\ words' = w1 /\ UNCHANGED aliased
  BY DEF Profile
<1>2. ASSUME NEW c \in Channels
      PROVE  /\ v(c) \in Int /\ Abs(v(c)) \in Nat /\ Abs(v(c)) <= VelocityFreq
             /\ Velocity(v(c)) \in WordKinds \X Int /\ Rated(Velocity(v(c)))
  <2>1. InRange(pv(c)) /\ InRange(to'[c])
    BY DEF Rated
  <2>2. InRange(v(c)) /\ Abs(v(c)) \in Nat /\ Abs(v(c)) <= VelocityFreq
    BY <2>1, TowardsInRange
  <2>3. v(c) \in Int
    BY <2>2, VelocityFreqPositive DEF InRange
  <2>4. /\ Velocity(v(c)) \in WordKinds \X Int /\ Velocity(v(c))[1] \in {"zero", "velocity"}
        /\ Value(Velocity(v(c))) = v(c)
    BY <2>3, WordsWritten
  <2>5. Rated(Velocity(v(c)))
    BY <2>2, <2>4 DEF Rated
  <2> QED BY <2>2, <2>3, <2>4, <2>5
<1>3. w1 \in [Channels -> WordKinds \X Int] /\ \A c \in Channels : Rated(w1[c])
  <2> HIDE DEF v, changed
  <2>1. \A c \in Channels : w1[c] \in WordKinds \X Int /\ Rated(w1[c])
    BY <1>2
  <2> QED BY <2>1
<1>4. step' \in [Channels -> Nat] /\ (\A c \in Channels : step'[c] <= VelocityFreq)
      /\ dir' \in [Channels -> {-1, 0, 1}]
  <2>1. \A c \in Channels : Abs(v(c)) \in Nat /\ Abs(v(c)) <= VelocityFreq
    BY <1>2
  <2>2. /\ step' = [c \in Channels |-> IF changed(c) THEN Abs(v(c)) ELSE s[c]]
        /\ dir' = [c \in Channels |-> IF ~changed(c) THEN dir[c] ELSE IF v(c) < 0 THEN -1 ELSE 1]
    BY <1>1
  <2> HIDE DEF v, changed
  <2> QED BY <2>1, <2>2
<1>5. stopped' \in [Joints -> BOOLEAN]
  <2>1. stopped' = [j \in Joints |-> rest[j] \/ AtRst(j)]
    BY <1>1
  <2> HIDE DEF AtRst
  <2>2. \A j \in Joints : (rest[j] \/ AtRst(j)) \in BOOLEAN
    OBVIOUS
  <2> QED BY <2>1, <2>2
<1>6. CASE AllStopped
  <2>1. mode' = "Idle" /\ phase' = 0 /\ words' = IdleWords(w1) /\ aliased' = FALSE
    BY <1>1, <1>6
  <2> HIDE DEF w1
  <2>2. words' \in [Channels -> WordKinds \X Int] /\ words'[SpeedWord][1] = "zero"
    BY <2>1, <1>3, IdleWordsFacts
  <2> QED BY <1>4, <1>5, <2>1, <2>2
<1>7. CASE ~AllStopped
  <2>1. mode' = "Velocity" /\ phase' = 1 /\ words' = w1 /\ aliased' = aliased
    BY <1>1, <1>7
  <2> HIDE DEF w1
  <2> QED BY <1>3, <1>4, <1>5, <2>1
<1> QED BY <1>6, <1>7

\* The state after a step of the profile.
LEMMA AfterProfile ==
  ASSUME IInv,
         stopped' \in [Joints -> BOOLEAN], step' \in [Channels -> Nat],
         \A c \in Channels : step'[c] <= VelocityFreq,
         dir' \in [Channels -> {-1, 0, 1}], words' \in [Channels -> WordKinds \X Int],
         \/ /\ mode' = "Idle" /\ phase' = 0 /\ aliased' = FALSE
            /\ words'[SpeedWord][1] = "zero"
         \/ /\ mode' = "Velocity" /\ phase' = 1 /\ aliased' = aliased
            /\ \A c \in Channels : Rated(words'[c]),
         queue' \in Seq(Offered \cup {Estop}), ended' = FALSE, estop' = FALSE, enabled' = TRUE,
         stepMax' = VelocityFreq, spent' \in Nat, spent' < VelocityFreq,
         to' \in [Channels -> Int], \A c \in Channels : InRange(to'[c]),
         current' \in [Channels -> Int],
         \A c \in Channels : current'[c] \in 1 - VelocityFreq .. 0,
         pos' \in [Channels -> Int], from' \in [Channels -> Int]
  PROVE  IInv'
<1>1. VelocityFreq \in Nat /\ aliased \in BOOLEAN
  BY VelocityFreqPositive DEF IInv, TypeOK
<1>2. CASE mode' = "Idle" /\ phase' = 0 /\ aliased' = FALSE /\ words'[SpeedWord][1] = "zero"
  <2>1. TypeOK'
    BY <1>1, <1>2, TypeAtRest
  <2>2. EntryWord'
    BY <1>2 DEF EntryWord
  <2> QED BY <1>2, <2>1, <2>2, AtRest DEF IInv, QueueType
<1>3. CASE /\ mode' = "Velocity" /\ phase' = 1 /\ aliased' = aliased
           /\ \A c \in Channels : Rated(words'[c])
  <2>1. mode' \in Modes /\ phase' \in {0, 1} /\ mode' # "Idle" /\ estop' \in BOOLEAN
        /\ enabled' \in BOOLEAN /\ ended' \in BOOLEAN /\ aliased' \in BOOLEAN /\ stepMax' \in Nat
    BY <1>1, <1>3 DEF Modes
  <2>2. \A c \in Channels : step'[c] <= stepMax' /\ current'[c] \in 1 - stepMax' .. 0
    OBVIOUS
  <2>3. TypeOK'
    BY <2>1, <2>2 DEF TypeOK
  <2>4. Velocities1'
    BY <1>3 DEF Velocities1
  <2>5. Ending' /\ Line' /\ Arrived' /\ EntryWord'
    BY <1>3 DEF Ending, Line, Arrived, EntryWord
  <2> QED BY <2>3, <2>4, <2>5 DEF IInv, QueueType
<1> QED BY <1>2, <1>3

LEMMA StartVelocityStep ==
  ASSUME IInv, StartVelocity
  PROVE  IInv'
<1>1. /\ Fetch("Velocity") /\ estop = FALSE /\ LoadVelocity
      /\ Profile(WordsAtFetch, StepsAtFetch, StoppedAtFetch)
      /\ spent' = 1 % VelocityFreq /\ enabled' = TRUE
      /\ UNCHANGED <<estop, pos, boundVars>>
  BY DEF StartVelocity, IInv, TypeOK
<1>2. TypeOK /\ VelocityFreq \in Nat \ {0}
  BY VelocityFreqPositive DEF IInv
<1>3. WordsAtFetch \in [Channels -> WordKinds \X Int]
      /\ \A c \in Channels : Rated(WordsAtFetch[c])
  <2>1. CASE mode = "Velocity"
    BY <2>1, <1>2 DEF WordsAtFetch, IInv, Velocities1, TypeOK
  <2>2. CASE mode # "Velocity"
    <3>1. WordsAtFetch = All(Zero)
      BY <2>2 DEF WordsAtFetch
    <3>2. Rated(Zero)
      BY <1>2, FixedWords DEF Rated, InRange
    <3> QED BY <3>1, <3>2, FixedWords DEF All
  <2> QED BY <2>1, <2>2
<1>4. StepsAtFetch \in [Channels -> Nat]
      /\ \A c \in Channels : StepsAtFetch[c] <= VelocityFreq
  <2>1. CASE mode = "Velocity"
    BY <2>1, <1>2 DEF StepsAtFetch, IInv, Velocities1, TypeOK
  <2>2. CASE mode # "Velocity"
    BY <2>2, <1>2 DEF StepsAtFetch, All
  <2> QED BY <2>1, <2>2
<1>5. /\ stepMax' = VelocityFreq /\ from' = pos
      /\ to' \in [Channels -> Int] /\ \A c \in Channels : InRange(to'[c])
      /\ current' \in [Channels -> Int]
      /\ \A c \in Channels : current'[c] \in 1 - VelocityFreq .. 0
  BY <1>1, LoadVelocityFacts
<1>6. StoppedAtFetch \in [Joints -> BOOLEAN] /\ dir \in [Channels -> {-1, 0, 1}]
      /\ pos' \in [Channels -> Int] /\ from' \in [Channels -> Int] /\ estop' = FALSE
  BY <1>1, <1>2, <1>5, StoppedType DEF TypeOK
<1>7. spent' \in Nat /\ spent' < VelocityFreq
  BY <1>1, <1>2, NextTick
<1>8. queue' \in Seq(Offered \cup {Estop}) /\ ended' = FALSE
  BY <1>1, FetchFacts
<1> DEFINE w == WordsAtFetch
           s == StepsAtFetch
           rest == StoppedAtFetch
<1>9. /\ w \in [Channels -> WordKinds \X Int] /\ s \in [Channels -> Nat]
      /\ rest \in [Joints -> BOOLEAN] /\ Profile(w, s, rest)
      /\ \A c \in Channels : Rated(w[c]) /\ InRange(to'[c]) /\ s[c] <= VelocityFreq
  BY <1>1, <1>3, <1>4, <1>5, <1>6
<1> HIDE DEF w, s, rest
<1>10. /\ stopped' \in [Joints -> BOOLEAN]
       /\ step' \in [Channels -> Nat] /\ \A c \in Channels : step'[c] <= VelocityFreq
       /\ dir' \in [Channels -> {-1, 0, 1}]
       /\ words' \in [Channels -> WordKinds \X Int]
       /\ \/ /\ mode' = "Idle" /\ phase' = 0 /\ aliased' = FALSE
             /\ words'[SpeedWord][1] = "zero"
          \/ /\ mode' = "Velocity" /\ phase' = 1 /\ aliased' = aliased
             /\ \A c \in Channels : Rated(words'[c])
  BY <1>6, <1>9, ProfileFacts
<1> QED BY <1>1, <1>5, <1>6, <1>7, <1>8, <1>10, AfterProfile

LEMMA GoOnVelocityStep ==
  ASSUME IInv, GoOnVelocity
  PROVE  IInv'
<1>1. /\ phase = 0 /\ mode = "Velocity" /\ to' = to
      /\ IF spent % ProfilePeriod = 0
         THEN Profile(words, step, stopped)
         ELSE phase' = 1 /\ UNCHANGED <<mode, step, dir, words, stopped, aliased>>
      /\ spent' = (spent + 1) % stepMax
      /\ UNCHANGED <<queue, stepMax, estop, current, pos, enabled, blocks, from, ended>>
  BY DEF GoOnVelocity
<1>2. /\ TypeOK /\ stepMax = VelocityFreq /\ VelocityFreq \in Nat \ {0}
      /\ \A c \in Channels : InRange(to[c]) /\ Rated(words[c])
  BY <1>1, VelocityFreqPositive DEF IInv, Velocities1
<1>3. /\ estop = FALSE /\ enabled = TRUE /\ spent \in Nat /\ spent < VelocityFreq
      /\ \A c \in Channels : step[c] <= VelocityFreq /\ current[c] \in 1 - VelocityFreq .. 0
      /\ words \in [Channels -> WordKinds \X Int] /\ step \in [Channels -> Nat]
      /\ stopped \in [Joints -> BOOLEAN] /\ dir \in [Channels -> {-1, 0, 1}]
      /\ to \in [Channels -> Int] /\ current \in [Channels -> Int]
      /\ pos \in [Channels -> Int] /\ from \in [Channels -> Int] /\ ended \in BOOLEAN
  BY <1>1, <1>2 DEF TypeOK
<1>4. spent' \in Nat /\ spent' < VelocityFreq
  BY <1>1, <1>2, <1>3, NextTick
<1>5. /\ stopped' \in [Joints -> BOOLEAN]
      /\ step' \in [Channels -> Nat] /\ \A c \in Channels : step'[c] <= VelocityFreq
      /\ dir' \in [Channels -> {-1, 0, 1}]
      /\ words' \in [Channels -> WordKinds \X Int]
      /\ \/ /\ mode' = "Idle" /\ phase' = 0 /\ aliased' = FALSE
            /\ words'[SpeedWord][1] = "zero"
         \/ /\ mode' = "Velocity" /\ phase' = 1 /\ aliased' = aliased
            /\ \A c \in Channels : Rated(words'[c])
  <2>1. CASE spent % ProfilePeriod = 0
    <3>1. Profile(words, step, stopped)
          /\ \A c \in Channels : Rated(words[c]) /\ InRange(to'[c]) /\ step[c] <= VelocityFreq
      BY <2>1, <1>1, <1>2, <1>3
    <3> QED BY <3>1, <1>3, ProfileFacts
  <2>2. CASE spent % ProfilePeriod # 0
    BY <2>2, <1>1, <1>2, <1>3
  <2> QED BY <2>1, <2>2
<1>6. ended = FALSE
  BY <1>1 DEF IInv, Ending
<1> QED BY <1>1, <1>2, <1>3, <1>4, <1>5, <1>6, AfterProfile DEF IInv, QueueType

-----------------------------------------------------------------------------
(* Ticks and pulses *)

LEMMA GoOnPositionalStep ==
  ASSUME IInv, GoOnPositional
  PROVE  IInv'
<1>1. /\ phase = 0 /\ mode = "Positional" /\ phase' = 1
      /\ spent' = (spent + 1) % stepMax
      /\ UNCHANGED <<queue, mode, to, stepMax, estop, channelVars, pos, words, stopped,
                     enabled, boundVars, historyVars>>
  BY DEF GoOnPositional
<1>2. UNCHANGED <<dir, step, current, from, ended, aliased>>
  BY <1>1 DEF channelVars, historyVars
<1>3. TypeOK /\ stepMax \in Nat /\ spent \in Nat /\ spent < stepMax
  BY <1>1 DEF IInv, TypeOK
<1>4. spent' = IF spent + 1 = stepMax THEN 0 ELSE spent + 1
  BY <1>1, <1>3, NextTick
<1>5. TicksDone' = TicksDone
  BY <1>1, <1>3, <1>4 DEF TicksDone
<1>6. TypeOK'
  BY <1>1, <1>2, <1>3, <1>4 DEF TypeOK
<1>7. Line'
  <2>1. ASSUME NEW c \in Channels
        PROVE  Aimed(c)' /\ Balanced(c)'
    <3>1. Aimed(c) /\ Balanced(c)
      BY <1>1 DEF IInv, Line
    <3>2. Gone(c)' = Gone(c)
      BY <1>1, <1>2 DEF Gone
    <3> QED BY <1>1, <1>2, <1>5, <3>1, <3>2 DEF Aimed, Balanced, Whole1
  <2> QED BY <2>1 DEF Line
<1>8. Ending' /\ Arrived' /\ Velocities1' /\ EntryWord'
  BY <1>1, <1>2 DEF IInv, Ending, Arrived, Velocities1, EntryWord
<1> QED BY <1>1, <1>6, <1>7, <1>8 DEF IInv, QueueType

\* A pulse brings the residue back into its range.
LEMMA PulseFacts ==
  ASSUME IInv, Pulse, NEW c \in Channels
  PROVE  /\ current'[c] \in 1 - stepMax .. 0 /\ pos'[c] \in Int
         /\ \/ current'[c] = current[c] + step[c] /\ pos'[c] = pos[c]
            \/ current'[c] = current[c] + step[c] - stepMax /\ pos'[c] = pos[c] + dir[c]
<1>1. /\ phase = 1
      /\ current' = [d \in Channels |-> Residue(d) - IF Due(Residue(d)) THEN stepMax ELSE 0]
      /\ pos' = [d \in Channels |-> pos[d] + IF Due(Residue(d)) THEN dir[d] ELSE 0]
  BY DEF Pulse
<1>2. /\ current[c] \in 1 - stepMax .. 0 /\ step[c] <= stepMax /\ step[c] \in Nat
      /\ stepMax \in Nat /\ pos[c] \in Int /\ dir[c] \in Int /\ current[c] \in Int
  BY <1>1 DEF IInv, TypeOK
<1>3. /\ current'[c] = Residue(c) - IF Due(Residue(c)) THEN stepMax ELSE 0
      /\ pos'[c] = pos[c] + IF Due(Residue(c)) THEN dir[c] ELSE 0
  BY <1>1
<1>4. Residue(c) = current[c] + step[c] /\ Residue(c) \in Int
  BY <1>2 DEF Residue
<1>5. CASE Residue(c) > 0
  <2>1. current'[c] = Residue(c) - stepMax /\ pos'[c] = pos[c] + dir[c]
    BY <1>3, <1>5 DEF Due
  <2> QED BY <1>2, <1>4, <1>5, <2>1
<1>6. CASE ~(Residue(c) > 0)
  <2>1. current'[c] = Residue(c) - 0 /\ pos'[c] = pos[c] + 0
    BY <1>3, <1>6 DEF Due
  <2> QED BY <1>2, <1>4, <1>6, <2>1
<1> QED BY <1>5, <1>6

\* In a positional block it keeps the balance.
LEMMA PulseBalanced ==
  ASSUME IInv, Pulse, mode = "Positional", NEW c \in Channels
  PROVE  /\ Gone(c)' \in Int
         /\ current'[c] = (TicksDone + 1) * step[c] - stepMax * Gone(c)' - (stepMax \div 2)
<1> DEFINE h == stepMax \div 2
           g == Gone(c)
           k == TicksDone
<1>1. /\ stepMax \in Nat /\ step[c] \in Nat /\ current[c] \in Int /\ spent \in Nat
      /\ spent < stepMax /\ pos[c] \in Int /\ from[c] \in Int /\ dir[c] \in {-1, 0, 1}
  BY DEF IInv, TypeOK
<1>2. dir[c] \in {-1, 1} /\ dir'[c] = dir[c] /\ from'[c] = from[c]
  <2>1. Aimed(c)
    BY DEF IInv, Line
  <2> QED BY <2>1 DEF Aimed, Pulse
<1>3. k \in Nat /\ h \in Nat /\ g \in Int
  BY <1>1, <1>2, HalfFacts DEF TicksDone, Gone
<1>4. current[c] = k * step[c] - stepMax * g - h
  BY DEF IInv, Line, Balanced
<1>5. PICK r \in Int : r = current[c]
  BY <1>1
<1> HIDE DEF h, g, k
<1>6. /\ current[c] + step[c] = (k + 1) * step[c] - stepMax * g - h
      /\ current[c] + step[c] - stepMax = (k + 1) * step[c] - stepMax * (g + 1) - h
  BY <1>1, <1>3, <1>4, LineTick
<1>7. CASE current'[c] = current[c] + step[c] /\ pos'[c] = pos[c]
  <2>1. Gone(c)' = g
    BY <1>2, <1>7 DEF Gone, g
  <2> QED BY <1>3, <1>6, <1>7, <2>1 DEF k, h
<1>8. CASE current'[c] = current[c] + step[c] - stepMax /\ pos'[c] = pos[c] + dir[c]
  <2>1. dir[c] * (pos[c] + dir[c] - from[c]) = dir[c] * (pos[c] - from[c]) + 1
    <3>1. CASE dir[c] = 1
      BY <1>1, <3>1
    <3>2. CASE dir[c] = -1
      BY <1>1, <3>2
    <3> QED BY <1>2, <3>1, <3>2
  <2>2. Gone(c)' = dir[c] * (pos[c] + dir[c] - from[c])
    <3>1. Gone(c)' = dir'[c] * (pos'[c] - from'[c])
      BY DEF Gone
    <3>2. dir'[c] = dir[c] /\ pos'[c] = pos[c] + dir[c] /\ from'[c] = from[c]
      BY <1>2, <1>8
    <3>3. PICK a \in Int, d \in Int : a = pos[c] + dir[c] - from[c] /\ d = dir[c]
      BY <1>1
    <3>4. pos'[c] - from'[c] = a
      BY <1>1, <3>2, <3>3
    <3>5. dir'[c] * (pos'[c] - from'[c]) = d * a
      BY <1>1, <3>2, <3>3, <3>4
    <3> QED BY <3>1, <3>3, <3>5
  <2>3. g = dir[c] * (pos[c] - from[c])
    BY DEF Gone, g
  <2>4. Gone(c)' = g + 1
    BY <2>1, <2>2, <2>3
  <2> QED BY <1>3, <1>6, <1>8, <2>4 DEF k, h
<1> QED BY <1>7, <1>8, PulseFacts

\* The last pulses of a block leave every channel where it was to go.
LEMMA PulseArrives ==
  ASSUME IInv, Pulse, Finished, NEW c \in Channels
  PROVE  Abs(to'[c] - Grain * pos'[c]) < Grain
<1> Grain \in Nat /\ Grain > 0
  BY NumbersAssumption
<1>1. mode = "Positional" /\ spent = 0 /\ phase = 1 /\ to' = to
  BY DEF Finished, Pulse
<1>2. /\ stepMax \in Nat \ {0} /\ step[c] \in Nat /\ pos[c] \in Int /\ from[c] \in Int
      /\ to[c] \in Int /\ dir'[c] = dir[c] /\ from'[c] = from[c]
  BY <1>1 DEF IInv, TypeOK, Pulse
<1>3. TicksDone + 1 = stepMax
  BY <1>1, <1>2 DEF TicksDone
<1>4. current'[c] \in 1 - stepMax .. 0 /\ pos'[c] \in Int
  BY PulseFacts
<1>5. Gone(c)' \in Int
      /\ current'[c] = stepMax * step[c] - stepMax * Gone(c)' - (stepMax \div 2)
  BY <1>1, <1>3, PulseBalanced
<1>6. PICK g \in Int : g = Gone(c)'
  BY <1>5
<1>7. PICK r \in 1 - stepMax .. 0 : r = current'[c]
  BY <1>4
<1>8. r = stepMax * step[c] - stepMax * g - (stepMax \div 2)
  BY <1>5, <1>6, <1>7
<1>9. g = step[c]
  <2>1. PICK n \in Nat \ {0} : n = stepMax
    BY <1>2
  <2>2. PICK s \in Nat : s = step[c]
    BY <1>2
  <2>3. r \in 1 - n .. 0 /\ r = n * s - n * g - (n \div 2)
    BY <1>7, <1>8, <2>1, <2>2
  <2>4. g = s
    BY <2>1, <2>2, <2>3, <1>6, LineEnd
  <2> QED BY <2>2, <2>4
<1> DEFINE d == to[c] - Grain * from[c]
           w == Whole(d)
<1>10. d \in Int
  BY <1>2
<1>11. w \in Int /\ d - Grain * w < Grain /\ Grain * w - d < Grain
  BY <1>10, WholeFacts
<1>12. step[c] = Abs(w) /\ dir[c] = (IF w > 0 THEN 1 ELSE -1)
  BY <1>1 DEF IInv, Line, Aimed, Whole1
<1>13. dir[c] * (pos'[c] - from[c]) = step[c]
  BY <1>2, <1>6, <1>9 DEF Gone
<1> HIDE DEF w
<1>14. pos'[c] - from[c] = w
  <2>1. CASE w > 0
    <3>1. dir[c] = 1 /\ step[c] = w
      BY <2>1, <1>11, <1>12 DEF Abs
    <3> QED BY <3>1, <1>13, <1>4, <1>2, <1>11
  <2>2. CASE ~(w > 0)
    <3>1. dir[c] = -1 /\ step[c] = -w
      BY <2>2, <1>11, <1>12 DEF Abs
    <3> QED BY <3>1, <1>13, <1>4, <1>2, <1>11
  <2> QED BY <2>1, <2>2
<1>15. pos'[c] = from[c] + w
  BY <1>14, <1>2, <1>4, <1>11
<1>16. Grain * pos'[c] = Grain * from[c] + Grain * w
  BY <1>15, <1>2, <1>11
<1>17. PICK x \in Int, y \in Int : x = Grain * from[c] /\ y = Grain * w
  BY <1>2, <1>11
<1>18. to[c] - Grain * pos'[c] = d - y
  BY <1>2, <1>16, <1>17
<1>19. d - y \in Int /\ d - y < Grain /\ -(d - y) < Grain
  BY <1>10, <1>11, <1>17
<1>20. PICK z \in Int : z = d - y
  BY <1>19
<1>21. Abs(z) < Grain
  BY <1>19, <1>20 DEF Abs
<1> QED BY <1>1, <1>18, <1>20, <1>21

LEMMA PulseStep ==
  ASSUME IInv, Pulse
  PROVE  IInv'
<1>1. /\ phase = 1 /\ phase' = 0
      /\ UNCHANGED <<queue, to, spent, stepMax, estop, dir, step, stopped, enabled,
                     boundVars, from>>
      /\ DOMAIN current' = Channels /\ DOMAIN pos' = Channels
      /\ current' = [d \in Channels |-> current'[d]] /\ pos' = [d \in Channels |-> pos'[d]]
  BY DEF Pulse
<1>2. TypeOK /\ mode # "Idle" /\ ended = FALSE
  <2>1. TypeOK /\ mode # "Idle"
    BY <1>1 DEF IInv, TypeOK
  <2> QED BY <2>1 DEF IInv, Ending, TypeOK
<1>3. /\ stepMax \in Nat \ {0} /\ spent \in Nat /\ spent < stepMax
      /\ words \in [Channels -> WordKinds \X Int]
  BY <1>2 DEF TypeOK
<1>4. /\ current' \in [Channels -> Int] /\ pos' \in [Channels -> Int]
      /\ \A c \in Channels : current'[c] \in 1 - stepMax .. 0
  <2>1. \A c \in Channels : current'[c] \in 1 - stepMax .. 0 /\ pos'[c] \in Int
    BY PulseFacts
  <2>2. \A c \in Channels : current'[c] \in Int
    BY <2>1, <1>3
  <2> QED BY <1>1, <2>1, <2>2
<1>5. CASE Finished
  <2>1. PICK v \in EndSpeeds : words' = [words EXCEPT ![SpeedWord] = Speed(v)]
    BY <1>5 DEF Pulse
  <2>2. mode' = "Idle" /\ ended' = TRUE /\ aliased' = FALSE
    BY <1>5 DEF Pulse
  <2>3. v \in Int
    BY EndSpeedsAssumption
  <2>4. words' \in [Channels -> WordKinds \X Int] /\ words'[SpeedWord][1] \in {"zero", "speed"}
    BY <1>3, <2>1, <2>3, WordsWritten, SpeedWordIsChannel
  <2>5. /\ estop' \in BOOLEAN /\ enabled' \in BOOLEAN /\ stepMax' \in Nat /\ spent' \in Nat
        /\ to' \in [Channels -> Int] /\ from' \in [Channels -> Int]
        /\ step' \in [Channels -> Nat] /\ dir' \in [Channels -> {-1, 0, 1}]
        /\ stopped' \in [Joints -> BOOLEAN]
    BY <1>1, <1>2 DEF TypeOK
  <2>6. TypeOK'
    BY <1>1, <1>4, <2>2, <2>4, <2>5, TypeAtRest
  <2>7. Arrived'
    <3>1. \A c \in Channels : Abs(to'[c] - Grain * pos'[c]) < Grain
      BY <1>5, PulseArrives
    <3> QED BY <3>1 DEF Arrived
  <2>8. Ending' /\ Line' /\ Velocities1' /\ EntryWord'
    BY <2>2, <2>4 DEF Ending, Line, Velocities1, EntryWord
  <2> QED BY <1>1, <2>6, <2>7, <2>8 DEF IInv, QueueType
<1>6. CASE ~Finished
  <2>1. UNCHANGED <<mode, words, ended, aliased>>
    BY <1>6 DEF Pulse
  <2>2. TypeOK'
    BY <1>1, <1>2, <1>3, <1>4, <2>1 DEF TypeOK
  <2>3. Line'
    <3> SUFFICES ASSUME mode = "Positional", NEW c \in Channels
                 PROVE  Aimed(c)' /\ Balanced(c)'
      BY <2>1 DEF Line
    <3>1. spent # 0
      BY <1>6 DEF Finished
    <3>2. TicksDone' = TicksDone + 1
      BY <1>1, <1>3, <3>1 DEF TicksDone
    <3>3. Aimed(c)
      BY DEF IInv, Line
    <3>4. Aimed(c)'
      BY <1>1, <3>3 DEF Aimed, Whole1
    <3>5. current'[c] = (TicksDone + 1) * step[c] - stepMax * Gone(c)' - (stepMax \div 2)
      BY PulseBalanced
    <3>6. Balanced(c)'
      BY <1>1, <3>2, <3>5 DEF Balanced
    <3> QED BY <3>4, <3>6
  <2>4. Ending' /\ Arrived' /\ Velocities1' /\ EntryWord'
    BY <1>1, <1>2, <2>1 DEF IInv, Ending, Arrived, Velocities1, EntryWord
  <2> QED BY <1>1, <2>2, <2>3, <2>4 DEF IInv, QueueType
<1> QED BY <1>5, <1>6

-----------------------------------------------------------------------------
LEMMA StutterStep ==
  ASSUME IInv, UNCHANGED vars
  PROVE  IInv'
<1>1. /\ UNCHANGED <<queue, mode, to, spent, stepMax, estop, phase, dir, step, current>>
      /\ UNCHANGED <<pos, words, stopped, enabled, from, ended, aliased>>
  BY DEF vars, blockVars, channelVars, boundVars, historyVars
<1> QED BY <1>1 DEF IInv, TypeOK, Ending, QueueType, Line, Arrived, Velocities1,
                    EntryWord, Aimed, Balanced, Whole1, TicksDone, Gone

LEMMA Inductive == IInv /\ [Next]_vars => IInv'
<1> SUFFICES ASSUME IInv, [Next]_vars PROVE IInv'
  OBVIOUS
<1>1. CASE Offer \/ Interrupt
  BY <1>1, QueueStep
<1>2. CASE StartPositional
  BY <1>2, StartPositionalStep
<1>3. CASE StartVelocity
  BY <1>3, StartVelocityStep
<1>4. CASE FetchEstop
  BY <1>4, FetchEstopStep
<1>5. CASE FetchEstopClear
  BY <1>5, FetchEstopClearStep
<1>6. CASE FetchReset
  BY <1>6, FetchResetStep
<1>7. CASE DropPositional
  BY <1>7, DropPositionalStep
<1>8. CASE DropVelocity
  BY <1>8, DropVelocityStep
<1>9. CASE GoOnPositional
  BY <1>9, GoOnPositionalStep
<1>10. CASE GoOnVelocity
  BY <1>10, GoOnVelocityStep
<1>11. CASE Pulse
  BY <1>11, PulseStep
<1>12. CASE UNCHANGED vars
  BY <1>12, StutterStep
<1> QED BY <1>1, <1>2, <1>3, <1>4, <1>5, <1>6, <1>7, <1>8, <1>9, <1>10, <1>11, <1>12 DEF Next

\* Nothing ever leaves its type: in particular no residue leaves its range, so
\* that no pulse is lost or given twice, whatever blocks follow each other.
THEOREM TypeCorrect == Spec => []TypeOK
<1>1. IInv => TypeOK
  BY DEF IInv
<1> QED BY <1>1, InitIInv, Inductive, PTL DEF Spec

\* The channels of a positional block stay within half a step of the straight
\* line, and when it is over each is less than a step short of its target.
THEOREM StaysOnTheLine == Spec => []OnTheLine
<1>1. IInv => OnTheLine
  <2> SUFFICES ASSUME IInv PROVE OnTheLine
    OBVIOUS
  <2>1. ASSUME mode = "Positional", NEW c \in Channels
        PROVE  2 * Abs(stepMax * Gone(c) - TicksDone * step[c]) <= stepMax
    <3>1. /\ stepMax \in Nat \ {0} /\ step[c] \in Nat /\ spent \in Nat /\ spent < stepMax
          /\ pos[c] \in Int /\ from[c] \in Int /\ dir[c] \in {-1, 0, 1}
          /\ current[c] \in 1 - stepMax .. 0
      BY <2>1 DEF IInv, TypeOK
    <3>2. TicksDone \in Nat
      BY <3>1 DEF TicksDone
    <3>3. Gone(c) \in Int
      BY <3>1 DEF Gone
    <3>4. current[c] = TicksDone * step[c] - stepMax * Gone(c) - (stepMax \div 2)
      BY <2>1 DEF IInv, Line, Balanced
    <3> QED BY <3>1, <3>2, <3>3, <3>4, LineBound
  <2>2. ended => \A c \in Channels : Abs(to[c] - Grain * pos[c]) < Grain
    BY DEF IInv, Arrived
  <2> QED BY <2>1, <2>2 DEF OnTheLine
<1> QED BY <1>1, InitIInv, Inductive, PTL DEF Spec

\* A velocity block reads velocities and a positional block a speed, although
\* they share their storage, but for blocks fetched while joints are moving.
THEOREM ReadsWhatWasWritten == Spec => []OneReading
<1>1. IInv => OneReading
  BY DEF IInv, Velocities1, EntryWord, OneReading, Rated
<1> QED BY <1>1, InitIInv, Inductive, PTL DEF Spec
=============================================================================
