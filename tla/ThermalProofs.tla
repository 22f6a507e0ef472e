---------------------------- MODULE ThermalProofs ----------------------------
(***************************************************************************)
(* Theorems about Thermal, for every set of heaters, range of              *)
(* temperatures, number of converters and length of a tuning.              *)
(***************************************************************************)
EXTENDS Thermal, TLAPS

-----------------------------------------------------------------------------
(* Types *)

USE DEF Duty, Low, Full

\* What the counters need to stay above zero.
CountersAbove ==
  /\ round = "convert" => finishing > 0
  /\ tuner # Nobody => remains[tuner] > 0

\* A command names the heater it sets and waits for.
CommandNames ==
  cmd.at # "idle" => cmd.set \in Heaters \/ (cmd.set = Nobody /\ cmd.wait = {"all"})

Types == TypeOK /\ CountersAbove /\ CommandNames

LEMMA InitTypes == Init => Types
<1> SUFFICES ASSUME Init PROVE Types
  OBVIOUS
<1> USE LevelsAssumption, CyclesAssumption, CountsAssumption DEF Init
<1>0. Ambient \in Temps
  BY DEF Temps
<1>1. tuning \in Tunings
  BY DEF NoTuning, Gains, Tunings
<1>2. cmd \in Commanded
  BY DEF NoCommand, Commanded
<1>3. /\ temp \in [Heaters -> Temps]
      /\ sv \in [Heaters -> Nat] /\ pv \in [Heaters -> Nat]
      /\ heating \in [Heaters -> BOOLEAN]
      /\ reached \in [Heaters -> {"no", "just", "long"}]
      /\ duty \in [Heaters -> Duty] /\ pwm \in [Heaters -> BOOLEAN]
  BY <1>0
<1>4. /\ remains \in [Heaters -> 0 .. Cycles] /\ gains \in [Heaters -> Gains]
      /\ integral \in [Heaters -> 0 .. Windup]
      /\ seen \in [Heaters -> SUBSET {"below", "above"}]
      /\ asked \in [Heaters -> {"nobody", "now", "before", "late", "stale"}]
      /\ coast \in [Heaters -> Nat]
  BY DEF Gains
<1>5. /\ pending \in [h : Heaters \cup {Nobody}, d : Duty]
      /\ finishing \in 0 .. NumAdcs
  OBVIOUS
<1>6. TypeOK
  BY <1>1, <1>2, <1>3, <1>4, <1>5 DEF TypeOK
<1> QED BY <1>6 DEF Types, CountersAbove, CommandNames, NoCommand

\* The conversions: none is waited for that has not been started.
LEMMA RoundTypes ==
  ASSUME Types, AdcStart \/ AdcEnd \/ AdcError
  PROVE  Types'
<1> USE CountsAssumption
    DEF Types, TypeOK, CountersAbove, CommandNames, stateVars, outputVars, pidVars,
        tunerVars, stopVars, boundVars, historyVars
<1>1. CASE AdcStart
  <2>1. finishing' \in 0 .. NumAdcs /\ finishing' > 0
    BY <1>1 DEF AdcStart, Conversions
  <2>2. /\ badAdc' \in BOOLEAN
        /\ round' \in {"sleep", "convert", "run"}
    BY <1>1 DEF AdcStart
  <2> QED BY <1>1, <2>1, <2>2 DEF AdcStart
<1>2. ASSUME NEW error \in BOOLEAN, AdcCallback(error)
      PROVE  Types'
  <2>1. /\ finishing' \in 0 .. NumAdcs
        /\ badAdc' \in BOOLEAN /\ round' \in {"sleep", "convert", "run"}
        /\ round' = "convert" => finishing' > 0
    BY <1>2 DEF AdcCallback
  <2>2. todo' \subseteq Heaters
    BY <1>2 DEF AdcCallback
  <2> QED BY <1>2, <2>1, <2>2 DEF AdcCallback
<1> HIDE DEF Types
<1>3. \A error \in BOOLEAN : AdcCallback(error) => Types'
  BY <1>2
<1>4. CASE AdcEnd
  BY <1>3, <1>4, Zenon DEF AdcEnd
<1>5. CASE AdcError
  BY <1>3, <1>5, Zenon DEF AdcError
<1> QED BY <1>1, <1>4, <1>5

\* Setting an output and a temperature.
LEMMA DriveTypes ==
  ASSUME Types, NEW h \in Heaters, NEW d \in Duty, Drive(h, d)
  PROVE  duty' \in [Heaters -> Duty] /\ pwm' \in [Heaters -> BOOLEAN]
BY DEF Types, TypeOK, Drive

LEMMA SetTypes ==
  ASSUME Types, NEW h \in Heaters, NEW t \in Nat, SetTemperature(h, t)
  PROVE  /\ sv' \in [Heaters -> Nat] /\ heating' \in [Heaters -> BOOLEAN]
         /\ reached' \in [Heaters -> {"no", "just", "long"}]
         /\ seen' \in [Heaters -> SUBSET {"below", "above"}]
BY DEF Types, TypeOK, SetTemperature, Sides

LEMMA AskTypes ==
  ASSUME Types, NEW h \in Heaters, NEW how \in {"now", "late"}, Ask(h, how)
  PROVE  /\ asked' \in [Heaters -> {"nobody", "now", "before", "late", "stale"}]
         /\ coast' \in [Heaters -> Nat]
BY DEF Types, TypeOK, Ask

\* The integral stays within its limits, above the set value it shrinks unless it
\* is zero, and only below the set value or from the integral is there heat.
LEMMA WoundTypes ==
  ASSUME NEW i \in 0 .. Windup, NEW set \in Nat, NEW read \in Nat
  PROVE  /\ Wound(i, set, read) \in 0 .. Windup
         /\ read > set => Wound(i, set, read) = 0 \/ Wound(i, set, read) < i
BY CountsAssumption DEF Wound

LEMMA DutiesTypes ==
  ASSUME NEW set \in Nat, NEW read \in Nat, NEW i \in 0 .. Windup, NEW d \in Duties(set, read, i)
  PROVE  /\ d \in Duty
         /\ read > set /\ d # 0 => i > 0
BY DEF Duties

\* The controller.
LEMMA OutputTypes ==
  ASSUME Types, NEW h \in Heaters, NEW d \in Duty, Output(h, d)
  PROVE  /\ duty' \in [Heaters -> Duty] /\ pwm' \in [Heaters -> BOOLEAN]
         /\ pending' \in [h : Heaters \cup {Nobody}, d : Duty]
         /\ coast' \in [Heaters -> Nat]
<1>1. CASE MaySet(d)
  <2>1. /\ Drive(h, d) /\ pending' = pending
        /\ coast' = [coast EXCEPT ![h] = IF d > 0 /\ asked[h] \in {"before", "stale"}
                                        THEN @ + 1 ELSE @]
    BY <1>1 DEF Output
  <2> QED BY <2>1, DriveTypes DEF Types, TypeOK
<1>2. CASE ~MaySet(d)
  BY <1>2 DEF Output, outputVars, Types, TypeOK
<1> QED BY <1>1, <1>2

LEMMA PidTypes ==
  ASSUME Types, NEW h \in Heaters, PidStep(h)
  PROVE  Types'
<1> USE DEF Types, TypeOK, CountersAbove, CommandNames, PidStep, tunerVars, stopVars, boundVars
<1>1. /\ round' \in {"sleep", "convert", "run"} /\ round' # "convert"
      /\ todo' \subseteq Heaters
  OBVIOUS
<1>2. temp[h] \in Nat
  BY LevelsAssumption DEF Temps
<1>3. /\ pv' \in [Heaters -> Nat]
      /\ reached' \in [Heaters -> {"no", "just", "long"}]
  BY <1>2
<1>4. seen' \in [Heaters -> SUBSET {"below", "above"}]
  BY DEF Sides
<1>5. /\ duty' \in [Heaters -> Duty] /\ pwm' \in [Heaters -> BOOLEAN]
      /\ pending' \in [h : Heaters \cup {Nobody}, d : Duty]
      /\ integral' \in [Heaters -> 0 .. Windup]
      /\ asked' \in [Heaters -> {"nobody", "now", "before", "late", "stale"}]
      /\ coast' \in [Heaters -> Nat]
  <2>1. CASE Controlled(h)
    <3>1. /\ integral' = [integral EXCEPT ![h] = Wound(@, sv[h], temp[h])]
          /\ asked' = [asked EXCEPT ![h] = IF @ = "stale" THEN "before" ELSE @]
          /\ \E d \in Duties(sv[h], temp[h], integral'[h]) : Output(h, d)
      BY <2>1
    <3>2. Wound(integral[h], sv[h], temp[h]) \in 0 .. Windup
      BY <1>2, WoundTypes
    <3>3. /\ integral' \in [Heaters -> 0 .. Windup] /\ integral'[h] \in 0 .. Windup
          /\ asked' \in [Heaters -> {"nobody", "now", "before", "late", "stale"}]
      BY <3>1, <3>2
    <3>4. PICK d \in Duties(sv[h], temp[h], integral'[h]) : Output(h, d)
      BY <3>1
    <3>5. d \in Duty
      BY <1>2, <3>3, DutiesTypes
    <3> QED BY <3>3, <3>4, <3>5, OutputTypes
  <2>2. CASE ~Controlled(h)
    BY <2>2 DEF outputVars
  <2> QED BY <2>1, <2>2
<1> HIDE DEF PidStep
<1>6. UNCHANGED <<temp, sv, heating, remains, gains, finishing, badAdc, tunerVars, cmd, stopVars,
                  boundVars>>
  BY DEF PidStep
<1> QED BY <1>1, <1>3, <1>4, <1>5, <1>6

LEMMA ResumeTypes ==
  ASSUME Types, PidResume
  PROVE  Types'
<1> USE DEF Types, TypeOK, CountersAbove, CommandNames, PidResume, stateVars, pidVars,
            tunerVars, stopVars, boundVars
<1>1. pending.h \in Heaters /\ pending.d \in Duty
  OBVIOUS
<1>2. duty' \in [Heaters -> Duty] /\ pwm' \in [Heaters -> BOOLEAN]
  BY <1>1, DriveTypes
<1>3. /\ pending' \in [h : Heaters \cup {Nobody}, d : Duty]
      /\ asked' \in [Heaters -> {"nobody", "now", "before", "late", "stale"}]
  OBVIOUS
<1>4. tuning' \in Tunings
  BY DEF Tunings
<1> QED BY <1>2, <1>3, <1>4

\* Time and the heaters.
LEMMA HeaterTypes ==
  ASSUME Types, NEW h \in Heaters, Residency(h) \/ HeatUp(h) \/ CoolDown(h)
  PROVE  Types'
<1> USE LevelsAssumption
    DEF Types, TypeOK, CountersAbove, CommandNames, outputVars, pidVars, roundVars,
        tunerVars, stopVars, boundVars, historyVars
<1>1. CASE Residency(h)
  BY <1>1 DEF Residency
<1>2. CASE HeatUp(h)
  <2>1. temp' \in [Heaters -> Temps]
    BY <1>2 DEF HeatUp, Temps
  <2> QED BY <1>2, <2>1 DEF HeatUp, stateVars
<1>3. CASE CoolDown(h)
  <2>1. temp' \in [Heaters -> Temps]
    BY <1>3 DEF CoolDown, Temps
  <2> QED BY <1>3, <2>1 DEF CoolDown, stateVars
<1> QED BY <1>1, <1>2, <1>3

\* The commands.
LEMMA CommandTypes ==
  ASSUME Types, CommandBegin \/ CommandSet \/ CommandDone \/ (\E h \in Heaters : ShellTemp(h))
  PROVE  Types'
<1> USE TargetsAssumption
    DEF Types, TypeOK, CountersAbove, CommandNames, otherThanCommand, outputVars, pidVars,
        roundVars, tunerVars, stopVars, boundVars, historyVars, Commanded
<1>1. CASE CommandBegin
  <2>1. cmd' \in Commanded /\ CommandNames'
    <3>1. CASE \E h \in Heaters, t \in Targets, w \in {{}, {"one"}} :
                 cmd' = [at |-> "motion", set |-> h, target |-> t, wait |-> w, late |-> FALSE]
      <4>1. PICK h \in Heaters, t \in Targets, w \in {{}, {"one"}} :
              cmd' = [at |-> "motion", set |-> h, target |-> t, wait |-> w, late |-> FALSE]
        BY <3>1
      <4>2. t \in Nat /\ w \in SUBSET {"one", "all"}
        OBVIOUS
      <4> QED BY <4>1, <4>2
    <3>2. CASE cmd' = [at |-> "motion", set |-> Nobody, target |-> 0, wait |-> {"all"}, late |-> FALSE]
      BY <3>2
    <3> QED BY <1>1, <3>1, <3>2 DEF CommandBegin, Commands
  <2>2. commands' \in Nat
    BY <1>1 DEF CommandBegin
  <2> QED BY <1>1, <2>1, <2>2 DEF CommandBegin
<1>2. CASE CommandSet
  <2>1. cmd' \in Commanded /\ CommandNames'
    <3>1. CASE cmd.wait = {}
      <4>1. cmd' = NoCommand
        BY <1>2, <3>1 DEF CommandSet
      <4>2. NoCommand \in Commanded /\ NoCommand.at = "idle"
        BY DEF NoCommand
      <4> QED BY <4>1, <4>2
    <3>2. CASE cmd.wait # {}
      <4>1. cmd' = [cmd EXCEPT !.at = "wait"] /\ cmd.at = "motion"
        BY <1>2, <3>2 DEF CommandSet
      <4> QED BY <4>1
    <3> QED BY <3>1, <3>2
  <2>2. CASE cmd.set = Nobody
    BY <1>2, <2>1, <2>2 DEF CommandSet
  <2>3. CASE cmd.set # Nobody
    <3>1. cmd.set \in Heaters /\ cmd.target \in Nat /\ SetTemperature(cmd.set, cmd.target)
      BY <1>2, <2>3 DEF CommandSet
    <3>2. /\ asked' \in [Heaters -> {"nobody", "now", "before", "late", "stale"}]
          /\ coast' \in [Heaters -> Nat]
      BY <1>2, <2>3, <3>1, AskTypes DEF CommandSet
    <3>3. /\ sv' \in [Heaters -> Nat] /\ heating' \in [Heaters -> BOOLEAN]
          /\ reached' \in [Heaters -> {"no", "just", "long"}]
          /\ seen' \in [Heaters -> SUBSET {"below", "above"}]
      BY <3>1, SetTypes
    <3> QED BY <1>2, <2>1, <3>2, <3>3 DEF CommandSet
  <2> QED BY <2>2, <2>3
<1>3. CASE CommandDone
  <2>1. cmd' \in Commanded /\ CommandNames'
    BY <1>3 DEF CommandDone, NoCommand
  <2> QED BY <1>3, <2>1 DEF CommandDone
<1>4. ASSUME NEW h \in Heaters, ShellTemp(h)
      PROVE  Types'
  <2>1. PICK t \in Targets : SetTemperature(h, t)
    BY <1>4 DEF ShellTemp
  <2>2. /\ sv' \in [Heaters -> Nat] /\ heating' \in [Heaters -> BOOLEAN]
        /\ reached' \in [Heaters -> {"no", "just", "long"}]
        /\ seen' \in [Heaters -> SUBSET {"below", "above"}]
    BY <2>1, SetTypes
  <2>3. /\ asked' \in [Heaters -> {"nobody", "now", "before", "late", "stale"}]
        /\ coast' \in [Heaters -> Nat] /\ commands' \in Nat
    BY <1>4, AskTypes DEF ShellTemp
  <2> QED BY <1>4, <2>2, <2>3 DEF ShellTemp
<1> QED BY <1>1, <1>2, <1>3, <1>4

\* The emergency stop.
LEMMA StopTypes ==
  ASSUME Types, StopCall \/ StopTemperatures \/ StopOutputs \/ StopClear
  PROVE  Types'
<1> USE DEF Types, TypeOK, CountersAbove, CommandNames, stateVars, outputVars, pidVars,
            roundVars, tunerVars, boundVars, historyVars
<1>1. CASE StopCall
  <2>1. halted' \in BOOLEAN /\ stop' \in {"none", "planner", "outputs"}
    BY <1>1 DEF StopCall, TakeStop
  <2>2. cmd' \in Commanded /\ CommandNames'
    BY <1>1 DEF StopCall, TakeStop, Commanded
  <2>3. stops' \in Nat
    BY <1>1 DEF StopCall
  <2> QED BY <1>1, <2>1, <2>2, <2>3 DEF StopCall
<1>2. CASE StopTemperatures
  <2>1. /\ sv' \in [Heaters -> Nat] /\ heating' \in [Heaters -> BOOLEAN]
        /\ reached' \in [Heaters -> {"no", "just", "long"}]
        /\ seen' \in [Heaters -> SUBSET {"below", "above"}]
        /\ asked' \in [Heaters -> {"nobody", "now", "before", "late", "stale"}]
    BY <1>2 DEF StopTemperatures, SetValuesZero, Sides
  <2> QED BY <1>2, <2>1 DEF StopTemperatures
<1>3. CASE StopOutputs
  <2>1. duty' \in [Heaters -> Duty] /\ pwm' \in [Heaters -> BOOLEAN]
    BY <1>3 DEF StopOutputs
  <2>2. stop' \in {"none", "planner", "outputs"}
    BY <1>3 DEF StopOutputs
  <2> QED BY <1>3, <2>1, <2>2 DEF StopOutputs
<1>4. CASE StopClear
  <2>1. halted' \in BOOLEAN
    BY <1>4 DEF StopClear
  <2> QED BY <1>4, <2>1 DEF StopClear, stopVars
<1> QED BY <1>1, <1>2, <1>3, <1>4

\* What the tuner does to its locals.
LEMMA TuningsClosed ==
  ASSUME NEW t \in Tunings, NEW b \in BOOLEAN, NEW d \in Duty, NEW age \in 0 .. Patience
  PROVE  /\ [Written(t, d) EXCEPT !.heating = b] \in Tunings
         /\ [Written(t, d) EXCEPT !.heating = b, !.cycles = @ + 1] \in Tunings
         /\ [t EXCEPT !.age = age] \in Tunings
<1>1. ASSUME NEW u \in Tunings
      PROVE  /\ [u EXCEPT !.heating = b] \in Tunings
             /\ [u EXCEPT !.age = age] \in Tunings
             /\ [u EXCEPT !.age = 0] \in Tunings
             /\ [u EXCEPT !.drive = d] \in Tunings
             /\ [u EXCEPT !.behind = IF @ = "wrote" THEN "no" ELSE @] \in Tunings
             /\ \A n \in Nat : [u EXCEPT !.cycles = n] \in Tunings
  BY CountsAssumption DEF Tunings
<1>2. Written(t, d) = [[[t EXCEPT !.age = 0] EXCEPT !.drive = d]
                         EXCEPT !.behind = IF @ = "wrote" THEN "no" ELSE @]
  BY DEF Tunings, Written
<1>3. Written(t, d) \in Tunings
  BY <1>1, <1>2
<1>4. ASSUME NEW u \in Tunings
      PROVE  [u EXCEPT !.heating = b, !.cycles = @ + 1] \in Tunings
  <2>1. [u EXCEPT !.heating = b, !.cycles = @ + 1] =
          [[u EXCEPT !.heating = b] EXCEPT !.cycles = u.cycles + 1]
    BY DEF Tunings
  <2>2. u.cycles + 1 \in Nat
    BY DEF Tunings
  <2> QED BY <1>1, <2>1, <2>2
<1> HIDE DEF Duty
<1> QED BY <1>1, <1>3, <1>4

\* The autotuner.
LEMMA TunerTypes ==
  ASSUME Types, (\E h \in Heaters : TuneBegin(h)) \/ Tune
  PROVE  Types'
<1> USE NobodyAssumption, CyclesAssumption, CountsAssumption
    DEF Types, TypeOK, CountersAbove, CommandNames, otherThanTuner, stateVars, outputVars,
        roundVars, stopVars, boundVars
<1> DEFINE Remaining == [Heaters -> 0 .. Cycles]
<1>0. NoTuning \in Tunings
  BY DEF NoTuning, Gains, Tunings
<1>t. tuning \in Tunings
  OBVIOUS
<1>1. ASSUME NEW h \in Heaters, TuneBegin(h)
      PROVE  Types'
  <2>0. /\ Drive(h, 0) /\ tuner' = h
        /\ tuning' = [NoTuning EXCEPT !.gains = gains[h], !.remains = remains[h], !.since = stops,
                                     !.behind = IF pending.h = h THEN "waits" ELSE "no"]
        /\ remains' = [remains EXCEPT ![h] = Cycles]
        /\ Ask(h, "now") /\ tunes' = tunes + 1
        /\ UNCHANGED <<otherThanTuner, gains, cmd, stopVars, stops>>
    BY <1>1 DEF TuneBegin
  <2>1. duty' \in [Heaters -> Duty] /\ pwm' \in [Heaters -> BOOLEAN]
    BY <2>0, DriveTypes
  <2>2. remains' \in Remaining /\ CountersAbove'
    BY <2>0
  <2>3. tuning' \in Tunings
    <3>1. gains[h] \in Gains /\ remains[h] \in 0 .. Cycles /\ stops \in Nat
      OBVIOUS
    <3> QED BY <2>0, <1>0, <3>1 DEF Tunings
  <2>4. /\ asked' \in [Heaters -> {"nobody", "now", "before", "late", "stale"}]
        /\ coast' \in [Heaters -> Nat] /\ tunes' \in Nat
    BY <2>0, AskTypes
  <2> QED BY <1>1, <2>1, <2>2, <2>3, <2>4 DEF TuneBegin
<1>2. CASE TuneCool
  <2>1. PICK d \in IF tuning.cycles > 1 THEN {0, Low} ELSE {0} :
          Drive(tuner, d) /\ tuning' = [Written(tuning, d) EXCEPT !.heating = FALSE]
    BY <1>2 DEF TuneCool
  <2>2. d \in Duty /\ tuner \in Heaters /\ 0 \in 0 .. Patience
    BY <1>2 DEF TuneCool, Iterates
  <2>3. duty' \in [Heaters -> Duty] /\ pwm' \in [Heaters -> BOOLEAN]
    BY <2>1, <2>2, DriveTypes
  <2>4. tuning' \in Tunings
    BY <1>t, <2>1, <2>2, TuningsClosed
  <2> QED BY <1>2, <2>3, <2>4 DEF TuneCool
<1>3. CASE TuneHeat
  <2>1. tuner \in Heaters /\ remains[tuner] \in 1 .. Cycles
    BY <1>3 DEF TuneHeat, Iterates
  <2>2. remains' \in Remaining /\ gains' \in [Heaters -> Gains]
    BY <1>3, <2>1 DEF TuneHeat, Gains
  <2>3. CASE remains[tuner] = 1
    <3>1. Drive(tuner, 0) /\ tuner' = Nobody /\ tuning' = NoTuning
      BY <1>3, <2>3 DEF TuneHeat
    <3>2. duty' \in [Heaters -> Duty] /\ pwm' \in [Heaters -> BOOLEAN]
      BY <2>1, <3>1, DriveTypes
    <3> QED BY <1>3, <1>0, <2>2, <3>1, <3>2 DEF TuneHeat
  <2>4. CASE remains[tuner] # 1
    <3>1. PICK d \in {Low, Full} :
            /\ Drive(tuner, d)
            /\ tuning' = [Written(tuning, d) EXCEPT !.heating = TRUE, !.cycles = @ + 1]
      BY <1>3, <2>4 DEF TuneHeat
    <3>2. d \in Duty /\ 0 \in 0 .. Patience /\ tuner' = tuner
      BY <1>3, <2>4 DEF TuneHeat
    <3>3. duty' \in [Heaters -> Duty] /\ pwm' \in [Heaters -> BOOLEAN]
      BY <2>1, <3>1, <3>2, DriveTypes
    <3>4. tuning' \in Tunings
      BY <1>t, <3>1, <3>2, TuningsClosed
    <3>5. remains'[tuner] > 0
      BY <1>3, <2>1, <2>4 DEF TuneHeat
    <3> QED BY <1>3, <2>2, <3>2, <3>3, <3>4, <3>5 DEF TuneHeat
  <2> QED BY <2>3, <2>4
<1>4. CASE TuneWait
  <2>1. tuning.age + 1 \in 0 .. Patience /\ tuning' = [tuning EXCEPT !.age = tuning.age + 1]
    BY <1>4, <1>t DEF TuneWait, Tunings
  <2>2. tuning' \in Tunings
    <3>1. 0 \in Duty /\ TRUE \in BOOLEAN
      OBVIOUS
    <3> QED BY <1>t, <2>1, <3>1, TuningsClosed
  <2> QED BY <1>4, <2>2 DEF TuneWait
<1>5. CASE TuneFail
  <2>1. halted' \in BOOLEAN /\ stop' \in {"none", "planner", "outputs"}
    BY <1>5 DEF TuneFail, TakeStop
  <2>2. cmd' \in Commanded /\ CommandNames'
    BY <1>5 DEF TuneFail, TakeStop, Commanded
  <2>3. tuning' \in Tunings
    <3>1. tuning' = [tuning EXCEPT !.leaving = TRUE]
      BY <1>5 DEF TuneFail
    <3> QED BY <1>t, <3>1 DEF Tunings
  <2> QED BY <1>5, <2>1, <2>2, <2>3 DEF TuneFail
<1>6. CASE TuneLeave
  <2>1. remains' \in Remaining /\ gains' \in [Heaters -> Gains]
    <3>1. /\ tuner \in Heaters /\ tuning.gains \in Gains /\ tuning.remains \in 0 .. Cycles
          /\ gains' = [gains EXCEPT ![tuner] = tuning.gains]
          /\ remains' = [remains EXCEPT ![tuner] = tuning.remains]
      BY <1>6, <1>t DEF TuneLeave, Restore, Tunings
    <3> QED BY <3>1
  <2>2. tuner' = Nobody /\ tuning' \in Tunings
    BY <1>6, <1>0 DEF TuneLeave
  <2> QED BY <1>6, <2>1, <2>2 DEF TuneLeave
<1> HIDE DEF Types
<1> QED BY <1>1, <1>2, <1>3, <1>4, <1>5, <1>6 DEF Tune

LEMMA NextTypes == Types /\ [Next]_vars => Types'
<1> SUFFICES ASSUME Types, [Next]_vars PROVE Types'
  OBVIOUS
<1>1. CASE UNCHANGED vars
  BY <1>1 DEF Types, TypeOK, CountersAbove, CommandNames, vars, stateVars, outputVars,
    pidVars, roundVars, tunerVars, stopVars, boundVars, historyVars
<1>2. CASE Next
  BY <1>2, RoundTypes, PidTypes, ResumeTypes, HeaterTypes, CommandTypes, StopTypes, TunerTypes
     DEF Next
<1> QED BY <1>1, <1>2

\* Every variable keeps its type: in particular the conversions waited for and
\* the heating phases left of a tuning are never counted below zero.
THEOREM TypeCorrect == Spec => []TypeOK
<1>1. Types => TypeOK
  BY DEF Types
<1> QED BY InitTypes, NextTypes, <1>1, PTL DEF Spec

-----------------------------------------------------------------------------
(* The invariant behind the safety properties *)

\* estop_mtx is held only while a stop is carried out.
StopsHalted == stop # "none" => halted

\* What the tuner has put by, and that only a controller that waited before it
\* still waits to drive its heater.
TuningKept ==
  /\ tuner # Nobody =>
       /\ tuning.cycles + remains[tuner] = Cycles
       /\ tuning.remains = 0 /\ tuning.gains # "partial"
       /\ tuning.since <= stops
       /\ pending.h = tuner => tuning.behind = "waits"
  /\ tuner # Nobody /\ ~tuning.leaving /\ tuning.since = stops => Free /\ ~halted

\* A heater is asked to heat by somebody, and after a stop no longer.
SetByAsking ==
  /\ \A h \in Heaters : sv[h] > 0 => asked[h] \in {"now", "late"}
  /\ \A h \in Heaters : asked[h] = "nobody" => integral[h] = 0
  /\ pending.h # Nobody /\ pending.d > 0 => asked[pending.h] # "nobody"
  /\ tuner # Nobody /\ tuning.leaving /\ Free =>
       ~pwm[tuner] \/ asked[tuner] \in {"now", "late", "stale"}

\* Each round of coasting has taken its part of the integral.
Unwinding ==
  \A h \in Heaters :
    /\ coast[h] + integral[h] <= Windup
    /\ sv[h] > 0 => coast[h] = 0

\* A target counts as reached when readings were on both sides of it.
Measured ==
  \A h \in Heaters :
    /\ reached[h] # "no" => seen[h] = {"below", "above"}
    /\ heating[h] => "below" \in seen[h]
    /\ ~heating[h] => sv[h] = 0 \/ "above" \in seen[h]

Guarded == Types /\ StopsHalted /\ OffWhileStopped
Tuned == Guarded /\ TuningKept /\ TunerOwnsHeater
Cold == Tuned /\ SetByAsking /\ Unwinding /\ ColdAfterStop

-----------------------------------------------------------------------------
(* Off while stopped *)

\* Only a duty above zero, set while estop_mtx is free and nothing is stopped,
\* turns a channel on.
LEMMA DriveGuarded ==
  ASSUME Guarded, NEW h \in Heaters, NEW d \in Duty, MaySet(d), Drive(h, d), UNCHANGED stopVars
  PROVE  OffWhileStopped'
BY DEF Guarded, Types, TypeOK, OffWhileStopped, Free, MaySet, Drive, stopVars

LEMMA PidGuarded ==
  ASSUME Guarded, NEW h \in Heaters, PidStep(h)
  PROVE  OffWhileStopped' /\ StopsHalted'
<1>1. UNCHANGED stopVars
  BY DEF PidStep
<1>2. ASSUME NEW d \in Duty, Output(h, d)
      PROVE  OffWhileStopped' /\ StopsHalted'
  <2>1. CASE MaySet(d)
    <3>1. Drive(h, d)
      BY <1>2, <2>1 DEF Output
    <3> QED BY <1>1, <2>1, <3>1, DriveGuarded DEF Guarded, StopsHalted, stopVars
  <2>2. CASE ~MaySet(d)
    BY <1>1, <1>2, <2>2 DEF Output, Guarded, StopsHalted, OffWhileStopped, Free, stopVars, outputVars
  <2> QED BY <2>1, <2>2
<1>3. CASE Controlled(h)
  <2>1. PICK d \in Duties(sv[h], temp[h], integral'[h]) : Output(h, d)
    BY <1>3 DEF PidStep
  <2>2. d \in Duty
    BY DEF Duties
  <2> QED BY <1>2, <2>1, <2>2
<1>4. CASE ~Controlled(h)
  BY <1>1, <1>4 DEF PidStep, Guarded, StopsHalted, OffWhileStopped, Free, stopVars, outputVars
<1> QED BY <1>3, <1>4

LEMMA ResumeGuarded ==
  ASSUME Guarded, PidResume
  PROVE  OffWhileStopped' /\ StopsHalted'
<1>1. pending.h \in Heaters /\ pending.d \in Duty /\ MaySet(pending.d)
  BY DEF PidResume, Guarded, Types, TypeOK, MaySet
<1>2. Drive(pending.h, pending.d) /\ UNCHANGED stopVars
  BY DEF PidResume
<1> QED BY <1>1, <1>2, DriveGuarded DEF Guarded, StopsHalted, stopVars

LEMMA TunerGuarded ==
  ASSUME Guarded, (\E h \in Heaters : TuneBegin(h)) \/ Tune
  PROVE  OffWhileStopped' /\ StopsHalted'
<1> USE DEF Guarded, StopsHalted
<1>1. ASSUME NEW h \in Heaters, TuneBegin(h)
      PROVE  OffWhileStopped' /\ StopsHalted'
  <2>1. MaySet(0) /\ Drive(h, 0) /\ UNCHANGED stopVars
    BY <1>1 DEF TuneBegin, MaySet
  <2> QED BY <2>1, DriveGuarded DEF stopVars
<1>2. CASE TuneCool \/ TuneHeat
  <2>1. tuner \in Heaters /\ Free /\ UNCHANGED stopVars
    BY <1>2 DEF TuneCool, TuneHeat, Iterates, Types, TypeOK
  <2>2. \E d \in Duty : Drive(tuner, d)
    BY <1>2 DEF TuneCool, TuneHeat
  <2> QED BY <2>1, <2>2, DriveGuarded DEF MaySet, stopVars
<1>3. CASE TuneWait \/ TuneLeave
  BY <1>3 DEF TuneWait, TuneLeave, OffWhileStopped, Free, outputVars, stopVars
<1>4. CASE TuneFail
  BY <1>4 DEF TuneFail, TakeStop, OffWhileStopped, Free
<1> QED BY <1>1, <1>2, <1>3, <1>4 DEF Tune

LEMMA NextGuarded == Guarded /\ [Next]_vars => Guarded'
<1> SUFFICES ASSUME Guarded, [Next]_vars PROVE OffWhileStopped' /\ StopsHalted'
  BY NextTypes DEF Guarded
<1> USE DEF Guarded, StopsHalted
<1>1. CASE UNCHANGED vars \/ AdcStart \/ AdcEnd \/ AdcError
  BY <1>1 DEF OffWhileStopped, Free, vars, outputVars, stopVars, AdcStart, AdcEnd, AdcError,
    AdcCallback
<1>2. ASSUME NEW h \in Heaters, Residency(h) \/ HeatUp(h) \/ CoolDown(h) \/ ShellTemp(h)
      PROVE  OffWhileStopped' /\ StopsHalted'
  BY <1>2 DEF OffWhileStopped, Free, Residency, HeatUp, CoolDown, ShellTemp, otherThanCommand,
    outputVars, stopVars
<1>3. CASE CommandBegin \/ CommandSet \/ CommandDone
  BY <1>3 DEF OffWhileStopped, Free, CommandBegin, CommandSet, CommandDone, otherThanCommand,
    outputVars, stopVars
<1>4. CASE StopCall \/ StopTemperatures \/ StopClear
  BY <1>4 DEF OffWhileStopped, Free, StopCall, TakeStop, StopTemperatures, StopClear, outputVars,
    Types, TypeOK
<1>5. CASE StopOutputs
  BY <1>5 DEF OffWhileStopped, Free, StopOutputs
<1> QED
  BY <1>1, <1>2, <1>3, <1>4, <1>5, PidGuarded, ResumeGuarded, TunerGuarded DEF Next

\* Once a stop has returned every heater is off until it is cleared.
THEOREM StoppedIsOff == Spec => []OffWhileStopped
<1>1. Init => Guarded
  BY InitTypes DEF Init, Guarded, StopsHalted, OffWhileStopped
<1>2. Guarded => OffWhileStopped
  BY DEF Guarded
<1> QED BY <1>1, NextGuarded, <1>2, PTL DEF Spec

-----------------------------------------------------------------------------
(* One driver per heater *)

\* The controller leaves the heater that is tuned alone, now and after a wait.
LEMMA ControllerTuned ==
  ASSUME Tuned, (\E h \in Heaters : PidStep(h)) \/ PidResume
  PROVE  TuningKept' /\ TunerOwnsHeater'
<1> USE NobodyAssumption DEF Tuned, Guarded, Types, TypeOK, CountersAbove
<1>1. ASSUME NEW h \in Heaters, PidStep(h)
      PROVE  TuningKept' /\ TunerOwnsHeater'
  <2>1. UNCHANGED <<remains, gains, tuner, tuning, halted, stop, stops>>
    BY <1>1 DEF PidStep, tunerVars, stopVars, boundVars
  <2>2. CASE h = tuner
    <3>1. UNCHANGED <<duty, pending>>
      BY <1>1, <2>2 DEF PidStep, Controlled, outputVars
    <3> QED BY <2>1, <3>1 DEF TuningKept, TunerOwnsHeater, Free
  <2>3. CASE h # tuner
    <3>1. ASSUME NEW d, Output(h, d)
          PROVE  /\ pending' = pending \/ pending'.h = h
                 /\ \A k \in Heaters \ {h} : duty'[k] = duty[k]
      BY <3>1 DEF Output, Drive, outputVars
    <3>2. /\ pending' = pending \/ pending'.h = h
          /\ \A k \in Heaters \ {h} : duty'[k] = duty[k]
      <4>1. CASE Controlled(h)
        <5>1. \E d : Output(h, d)
          BY <1>1, <4>1 DEF PidStep
        <5> QED BY <3>1, <5>1
      <4>2. CASE ~Controlled(h)
        BY <1>1, <4>2 DEF PidStep, outputVars
      <4> QED BY <4>1, <4>2
    <3>3. TuningKept'
      BY <2>1, <2>3, <3>2 DEF TuningKept, Free
    <3>4. TunerOwnsHeater'
      BY <2>1, <2>3, <3>2 DEF TunerOwnsHeater
    <3> QED BY <3>3, <3>4
  <2> QED BY <2>2, <2>3
<1>2. CASE PidResume
  <2>1. UNCHANGED <<remains, gains, tuner, halted, stop, stops>>
    BY <1>2 DEF PidResume, pidVars, stopVars, boundVars
  <2>2. /\ tuning' = [tuning EXCEPT !.behind = IF @ = "waits" THEN "wrote" ELSE @]
        /\ pending'.h = Nobody
    BY <1>2 DEF PidResume
  <2>3. \A k \in Heaters \ {pending.h} : duty'[k] = duty[k]
    BY <1>2 DEF PidResume, Drive
  <2>4. /\ tuning'.cycles = tuning.cycles /\ tuning'.remains = tuning.remains
        /\ tuning'.gains = tuning.gains /\ tuning'.since = tuning.since
        /\ tuning'.leaving = tuning.leaving /\ tuning'.drive = tuning.drive
        /\ tuning.behind \in {"waits", "wrote"} => tuning'.behind = "wrote"
    BY <2>2 DEF Tunings
  <2>5. TuningKept'
    BY <2>1, <2>2, <2>4 DEF TuningKept, Free
  <2>6. tuner # Nobody => pending.h # tuner \/ tuning'.behind = "wrote"
    BY <2>4 DEF TuningKept
  <2>7. TunerOwnsHeater'
    BY <2>1, <2>3, <2>4, <2>6 DEF TunerOwnsHeater
  <2> QED BY <2>5, <2>7
<1> QED BY <1>1, <1>2

\* What an output of the tuner leaves of its locals.
Kept(t, u) ==
  /\ u.leaving = t.leaving /\ u.since = t.since /\ u.gains = t.gains
  /\ u.remains = t.remains /\ u.cycles = t.cycles

LEMMA WrittenFields ==
  ASSUME NEW t \in Tunings, NEW d \in Duty, NEW b \in BOOLEAN
  PROVE  /\ LET u == [Written(t, d) EXCEPT !.heating = b]
            IN  /\ u.drive = d /\ u.leaving = t.leaving /\ u.since = t.since
                /\ u.gains = t.gains /\ u.remains = t.remains /\ u.cycles = t.cycles
                /\ t.behind = "waits" => u.behind = "waits"
         /\ LET u == [Written(t, d) EXCEPT !.heating = b, !.cycles = @ + 1]
            IN  /\ u.drive = d /\ u.leaving = t.leaving /\ u.since = t.since
                /\ u.gains = t.gains /\ u.remains = t.remains /\ u.cycles = t.cycles + 1
                /\ t.behind = "waits" => u.behind = "waits"
<1> HIDE DEF Duty
<1> DEFINE w == Written(t, d)
<1>1. /\ w \in Tunings
      /\ w.drive = d /\ w.leaving = t.leaving /\ w.since = t.since
      /\ w.gains = t.gains /\ w.remains = t.remains /\ w.cycles = t.cycles
      /\ t.behind = "waits" => w.behind = "waits"
  <2>1. 0 \in 0 .. Patience
    BY CountsAssumption
  <2>2. Written(t, d) = [[[t EXCEPT !.age = 0] EXCEPT !.drive = d]
                           EXCEPT !.behind = IF @ = "wrote" THEN "no" ELSE @]
    BY DEF Tunings, Written
  <2> DEFINE a == [t EXCEPT !.age = 0]
             c == [a EXCEPT !.drive = d]
             e == [c EXCEPT !.behind = IF @ = "wrote" THEN "no" ELSE @]
  <2>3. a \in Tunings /\ Kept(t, a) /\ a.behind = t.behind
    BY <2>1 DEF Tunings, Kept
  <2> HIDE DEF a
  <2>4. c \in Tunings /\ Kept(a, c) /\ c.drive = d /\ c.behind = a.behind
    BY <2>3 DEF Tunings, Kept
  <2> HIDE DEF c
  <2>5. e \in Tunings /\ Kept(c, e) /\ e.drive = c.drive /\ (c.behind = "waits" => e.behind = "waits")
    BY <2>4 DEF Tunings, Kept
  <2>6. w = e
    BY <2>2 DEF a, c
  <2> HIDE DEF e, w
  <2> QED BY <2>3, <2>4, <2>5, <2>6 DEF Kept
<1> HIDE DEF w
<1>2. ASSUME NEW v \in Tunings
      PROVE  /\ LET u == [v EXCEPT !.heating = b]
                IN  Kept(v, u) /\ u.drive = v.drive /\ u.behind = v.behind
             /\ LET u == [v EXCEPT !.heating = b, !.cycles = @ + 1]
                IN  /\ u.leaving = v.leaving /\ u.since = v.since /\ u.gains = v.gains
                    /\ u.remains = v.remains /\ u.cycles = v.cycles + 1
                    /\ u.drive = v.drive /\ u.behind = v.behind
  BY DEF Tunings, Kept
<1> QED BY <1>1, <1>2 DEF w, Kept

\* The tuner itself.
LEMMA TunerTuned ==
  ASSUME Tuned, (\E h \in Heaters : TuneBegin(h)) \/ Tune
  PROVE  TuningKept' /\ TunerOwnsHeater'
<1> USE NobodyAssumption, CyclesAssumption DEF Tuned, Guarded, Types, TypeOK, CountersAbove
<1>0. tuning \in Tunings
  OBVIOUS
<1>1. ASSUME NEW h \in Heaters, TuneBegin(h)
      PROVE  TuningKept' /\ TunerOwnsHeater'
  <2>1. /\ tuner = Nobody /\ tuner' = h /\ Free' /\ ~halted' /\ stops' = stops
        /\ tuning'.cycles = 0 /\ tuning'.gains = gains[h] /\ tuning'.remains = remains[h]
        /\ tuning'.since = stops /\ ~tuning'.leaving /\ tuning'.drive = 0
        /\ tuning'.behind = IF pending.h = h THEN "waits" ELSE "no"
        /\ remains' = [remains EXCEPT ![h] = Cycles] /\ gains' = gains
        /\ pending' = pending
        /\ duty' = [duty EXCEPT ![h] = 0]
    BY <1>1 DEF TuneBegin, NoTuning, Drive, Free, stopVars, otherThanTuner, roundVars
  <2>2. remains[h] = 0 /\ gains[h] # "partial"
    BY <2>1 DEF TunerOwnsHeater
  <2>3. TuningKept'
    BY <2>1, <2>2 DEF TuningKept
  <2>4. TunerOwnsHeater'
    BY <2>1 DEF TunerOwnsHeater
  <2> QED BY <2>3, <2>4
<1>2. CASE TuneCool
  <2>1. PICK d \in IF tuning.cycles > 1 THEN {0, Low} ELSE {0} :
          Drive(tuner, d) /\ tuning' = [Written(tuning, d) EXCEPT !.heating = FALSE]
    BY <1>2 DEF TuneCool
  <2>2. /\ tuner \in Heaters /\ tuner' = tuner
        /\ duty' = [duty EXCEPT ![tuner] = d]
        /\ UNCHANGED <<remains, gains, halted, stop, stops, pending>>
    BY <1>2, <2>1 DEF TuneCool, Iterates, Drive, stopVars, otherThanTuner, roundVars
  <2>3. /\ tuning'.drive = d /\ tuning'.leaving = tuning.leaving
        /\ tuning'.cycles = tuning.cycles /\ tuning'.gains = tuning.gains
        /\ tuning'.remains = tuning.remains /\ tuning'.since = tuning.since
        /\ tuning.behind = "waits" => tuning'.behind = "waits"
    <3>1. d \in Duty /\ FALSE \in BOOLEAN /\ TRUE \in BOOLEAN
      OBVIOUS
    <3> QED BY <1>0, <2>1, <3>1, WrittenFields
  <2>4. TuningKept'
    BY <2>2, <2>3 DEF TuningKept, Free
  <2>5. TunerOwnsHeater'
    BY <2>2, <2>3 DEF TunerOwnsHeater
  <2> QED BY <2>4, <2>5
<1>3. CASE TuneHeat /\ remains[tuner] = 1
  <2>1. /\ tuner \in Heaters /\ tuner' = Nobody
        /\ remains' = [remains EXCEPT ![tuner] = 0]
        /\ gains' = [gains EXCEPT ![tuner] = IF tuning.cycles >= TuneFrom THEN "tuned" ELSE @]
    BY <1>3 DEF TuneHeat, Iterates
  <2>2. tuning.cycles = Cycles - 1
    BY <1>0, <1>3, <2>1 DEF TuningKept, Tunings
  <2>3. gains' = [gains EXCEPT ![tuner] = "tuned"]
    BY <2>1, <2>2
  <2> QED BY <2>1, <2>3 DEF TuningKept, TunerOwnsHeater
<1>4. CASE TuneHeat /\ remains[tuner] # 1
  <2>1. PICK d \in {Low, Full} :
          /\ Drive(tuner, d)
          /\ tuning' = [Written(tuning, d) EXCEPT !.heating = TRUE, !.cycles = @ + 1]
    BY <1>4 DEF TuneHeat
  <2>2. /\ tuner \in Heaters /\ tuner' = tuner
        /\ remains' = [remains EXCEPT ![tuner] = @ - 1]
        /\ \A h \in Heaters \ {tuner} : gains'[h] = gains[h]
        /\ duty' = [duty EXCEPT ![tuner] = d]
        /\ UNCHANGED <<halted, stop, stops, pending>>
    BY <1>4, <2>1 DEF TuneHeat, Iterates, Drive, stopVars, otherThanTuner, roundVars
  <2>3. /\ tuning'.drive = d /\ tuning'.leaving = tuning.leaving
        /\ tuning'.cycles = tuning.cycles + 1 /\ tuning'.gains = tuning.gains
        /\ tuning'.remains = tuning.remains /\ tuning'.since = tuning.since
        /\ tuning.behind = "waits" => tuning'.behind = "waits"
    <3>1. d \in Duty /\ FALSE \in BOOLEAN /\ TRUE \in BOOLEAN
      OBVIOUS
    <3> QED BY <1>0, <2>1, <3>1, WrittenFields
  <2>4. TuningKept'
    BY <1>0, <2>2, <2>3 DEF TuningKept, Free, Tunings
  <2>5. TunerOwnsHeater'
    BY <2>2, <2>3 DEF TunerOwnsHeater
  <2> QED BY <2>4, <2>5
<1>5. CASE TuneWait
  <2>1. /\ tuner' = tuner /\ tuning' = [tuning EXCEPT !.age = @ + 1]
        /\ UNCHANGED <<duty, remains, gains, halted, stop, stops, pending>>
    BY <1>5 DEF TuneWait, outputVars, stopVars, otherThanTuner, roundVars
  <2>2. /\ tuning'.drive = tuning.drive /\ tuning'.leaving = tuning.leaving
        /\ tuning'.cycles = tuning.cycles /\ tuning'.gains = tuning.gains
        /\ tuning'.remains = tuning.remains /\ tuning'.since = tuning.since
        /\ tuning'.behind = tuning.behind
    BY <1>0, <2>1 DEF Tunings
  <2> QED BY <2>1, <2>2 DEF TuningKept, TunerOwnsHeater, Free
<1>6. CASE TuneFail
  <2>1. /\ tuner' = tuner /\ tuning' = [tuning EXCEPT !.leaving = TRUE]
        /\ UNCHANGED <<duty, remains, gains, stops, pending>>
    BY <1>6 DEF TuneFail, outputVars, otherThanTuner, roundVars
  <2>2. /\ tuning'.leaving /\ tuning'.cycles = tuning.cycles /\ tuning'.gains = tuning.gains
        /\ tuning'.remains = tuning.remains /\ tuning'.since = tuning.since
        /\ tuning'.behind = tuning.behind
    BY <1>0, <2>1 DEF Tunings
  <2> QED BY <2>1, <2>2 DEF TuningKept, TunerOwnsHeater
<1>7. CASE TuneLeave
  <2>1. /\ tuner \in Heaters /\ tuner' = Nobody
        /\ gains' = [gains EXCEPT ![tuner] = tuning.gains]
        /\ remains' = [remains EXCEPT ![tuner] = tuning.remains]
    BY <1>7 DEF TuneLeave, Restore
  <2>2. tuning.remains = 0 /\ tuning.gains # "partial"
    BY <2>1 DEF TuningKept
  <2> QED BY <2>1, <2>2 DEF TuningKept, TunerOwnsHeater
<1> QED BY <1>1, <1>2, <1>3, <1>4, <1>5, <1>6, <1>7 DEF Tune

LEMMA NextTuned == Tuned /\ [Next]_vars => Tuned'
<1> SUFFICES ASSUME Tuned, [Next]_vars PROVE TuningKept' /\ TunerOwnsHeater'
  BY NextGuarded DEF Tuned
<1> USE DEF Tuned, TuningKept, TunerOwnsHeater, Free
<1>1. CASE UNCHANGED vars \/ AdcStart \/ AdcEnd \/ AdcError
  BY <1>1 DEF vars, outputVars, pidVars, roundVars, tunerVars, stopVars, boundVars, AdcStart,
    AdcEnd, AdcError, AdcCallback
<1>2. ASSUME NEW h \in Heaters, Residency(h) \/ HeatUp(h) \/ CoolDown(h) \/ ShellTemp(h)
      PROVE  TuningKept' /\ TunerOwnsHeater'
  BY <1>2 DEF Residency, HeatUp, CoolDown, ShellTemp, otherThanCommand, outputVars, pidVars, roundVars, tunerVars, stopVars,
    boundVars
<1>3. CASE CommandBegin \/ CommandSet \/ CommandDone
  BY <1>3 DEF CommandBegin, CommandSet, CommandDone, otherThanCommand, outputVars, pidVars,
    roundVars, tunerVars, stopVars, boundVars
<1>4. CASE StopCall
  <2>1. tuning.since \in Nat /\ stops \in Nat
    BY DEF Guarded, Types, TypeOK, Tunings
  <2> QED BY <1>4, <2>1 DEF StopCall, TakeStop, outputVars, pidVars, roundVars, tunerVars
<1>5. CASE StopTemperatures \/ StopOutputs \/ StopClear
  <2>1. UNCHANGED <<remains, gains, tuner, tuning, stops, pending>>
    BY <1>5 DEF StopTemperatures, StopOutputs, StopClear, pidVars, roundVars, tunerVars, boundVars
  <2>2. stop # "none" \/ halted
    BY <1>5 DEF StopTemperatures, StopOutputs, StopClear
  <2>3. tuner # Nobody => tuning.leaving \/ tuning.since # stops
    BY <2>2
  <2>4. TuningKept'
    BY <2>1, <2>3
  <2>5. TunerOwnsHeater'
    BY <2>1, <2>3, NobodyAssumption
  <2> QED BY <2>4, <2>5
<1> QED
  BY <1>1, <1>2, <1>3, <1>4, <1>5, ControllerTuned, TunerTuned DEF Next

\* While a heater is tuned nobody else drives it, and after the tuning, done or
\* cut off by a stop, its controller is in charge with gains of one kind.
THEOREM OneDriver == Spec => []TunerOwnsHeater
<1>1. Init => Tuned
  <2>1. Init => Guarded
    BY InitTypes DEF Init, Guarded, StopsHalted, OffWhileStopped
  <2>2. Init => TuningKept /\ TunerOwnsHeater
    BY NobodyAssumption DEF Init, TuningKept, TunerOwnsHeater
  <2> QED BY <2>1, <2>2 DEF Tuned
<1>2. Tuned => TunerOwnsHeater
  BY DEF Tuned
<1> QED BY <1>1, NextTuned, <1>2, PTL DEF Spec

-----------------------------------------------------------------------------
(* Cold after a stop *)

\* A duty of zero turns the channel off, and no other.
LEMMA DriveOff ==
  ASSUME Types, NEW h \in Heaters, Drive(h, 0)
  PROVE  ~pwm'[h] /\ \A k \in Heaters \ {h} : pwm'[k] = pwm[k]
<1>1. DOMAIN pwm = Heaters
  BY DEF Types, TypeOK
<1>2. pwm' = [pwm EXCEPT ![h] = 0 > 0 /\ ~halted] /\ ~(0 > 0)
  BY DEF Drive
<1>3. pwm'[h] = (0 > 0 /\ ~halted)
  BY <1>1, <1>2, Zenon
<1> QED BY <1>1, <1>2, <1>3

\* The controller, when the output is its own to decide.
LEMMA OutputCold ==
  ASSUME Cold, NEW h \in Heaters, PidStep(h), Controlled(h)
  PROVE  SetByAsking' /\ Unwinding' /\ ColdAfterStop'
<1> USE NobodyAssumption DEF Cold, Tuned, Guarded, Types, TypeOK
<1>1. /\ UNCHANGED <<sv, tuner, tuning, halted, stop>>
      /\ integral' = [integral EXCEPT ![h] = Wound(@, sv[h], temp[h])]
      /\ asked' = [asked EXCEPT ![h] = IF @ = "stale" THEN "before" ELSE @]
      /\ pending.h = Nobody /\ temp[h] \in Nat \ {0}
  BY LevelsAssumption DEF PidStep, tunerVars, stopVars, Temps
<1>2. h # tuner
  BY DEF Controlled, CountersAbove
<1>3. integral'[h] \in 0 .. Windup /\ integral'[h] = Wound(integral[h], sv[h], temp[h])
  BY <1>1, WoundTypes
<1>4. PICK d \in Duties(sv[h], temp[h], integral'[h]) : Output(h, d)
  BY DEF PidStep
<1>5. d \in Duty
  BY <1>1, <1>3, <1>4, DutiesTypes
<1>6. sv[h] = 0 => /\ integral'[h] <= integral[h]
                   /\ d # 0 => integral'[h] > 0 /\ integral'[h] < integral[h]
  <2>1. sv[h] = 0 => temp[h] > sv[h]
    BY <1>1
  <2>2. sv[h] = 0 => integral'[h] = 0 \/ integral'[h] < integral[h]
    BY <1>1, <1>3, <2>1, WoundTypes
  <2>3. sv[h] = 0 /\ d # 0 => integral'[h] > 0
    BY <1>1, <1>3, <1>4, <2>1, DutiesTypes
  <2> QED BY <1>3, <2>2, <2>3
<1>7. asked[h] \notin {"now", "late"} => sv[h] = 0
  BY DEF SetByAsking
<1>8. asked[h] = "nobody" => integral'[h] = 0 /\ d = 0
  BY <1>3, <1>6, <1>7 DEF SetByAsking
<1>9. \A k \in Heaters \ {h} : integral'[k] = integral[k] /\ asked'[k] = asked[k]
  BY <1>1
<1>10. /\ asked[h] \in {"now", "late", "nobody"} => asked'[h] = asked[h]
       /\ asked[h] \in {"before", "stale"} => asked'[h] = "before"
  BY <1>1
<1>11. CASE MaySet(d)
  <2>1. /\ Drive(h, d) /\ pending' = pending
        /\ coast' = [coast EXCEPT ![h] = IF d > 0 /\ asked[h] \in {"before", "stale"}
                                        THEN @ + 1 ELSE @]
    BY <1>4, <1>11 DEF Output
  <2>2. /\ pwm'[h] => d # 0
        /\ \A k \in Heaters \ {h} : pwm'[k] = pwm[k] /\ coast'[k] = coast[k]
    <3>1. d # 0 \/ ~pwm'[h]
      BY <2>1, DriveOff
    <3> QED BY <2>1, <3>1 DEF Drive
  <2>3. coast'[h] = IF d > 0 /\ asked[h] \in {"before", "stale"} THEN coast[h] + 1 ELSE coast[h]
    BY <2>1
  <2>4. /\ coast'[h] + integral'[h] <= Windup
        /\ sv[h] > 0 => coast'[h] = 0
    <3>1. CASE sv[h] = 0
      <4>1. /\ coast[h] \in Nat /\ integral[h] \in Nat /\ integral'[h] \in Nat /\ Windup \in Nat
            /\ coast[h] + integral[h] <= Windup
        BY <1>3, CountsAssumption DEF Unwinding
      <4>2. CASE d = 0
        <5>1. coast'[h] = coast[h] /\ integral'[h] <= integral[h]
          BY <1>6, <2>3, <3>1, <4>2
        <5> QED BY <3>1, <4>1, <5>1
      <4>3. CASE d # 0
        <5>1. coast'[h] <= coast[h] + 1 /\ coast'[h] \in Nat /\ integral'[h] < integral[h]
          BY <1>6, <2>3, <3>1, <4>1, <4>3
        <5> QED BY <3>1, <4>1, <5>1
      <4> QED BY <4>2, <4>3
    <3>2. CASE sv[h] > 0
      <4>1. coast[h] = 0 /\ coast'[h] = 0
        BY <2>3, <3>2 DEF Unwinding, SetByAsking
      <4> QED BY <1>3, <4>1, CountsAssumption
    <3> QED BY <3>1, <3>2
  <2>5. Unwinding'
    BY <1>1, <1>9, <2>2, <2>4 DEF Unwinding
  <2>6. SetByAsking'
    BY <1>1, <1>2, <1>8, <1>9, <1>10, <2>1, <2>2 DEF SetByAsking, Free
  <2>7. pwm'[h] /\ ~halted' => asked'[h] \in {"now", "late", "stale"} \/ tuner' = h \/ Coasting(h)'
    <3>1. asked[h] \in {"now", "late"} \/ asked[h] = "nobody" \/ asked[h] \in {"before", "stale"}
      OBVIOUS
    <3>2. CASE asked[h] \in {"before", "stale"}
      BY <1>1, <1>6, <1>7, <1>10, <2>2, <2>4, <3>2 DEF Coasting
    <3> QED BY <1>8, <1>10, <2>2, <3>1, <3>2
  <2>8. ColdAfterStop'
    BY <1>1, <1>9, <2>2, <2>7 DEF ColdAfterStop, Coasting
  <2> QED BY <2>5, <2>6, <2>8
<1>12. CASE ~MaySet(d)
  <2>1. /\ pending' = [h |-> h, d |-> d] /\ UNCHANGED <<duty, pwm, coast>>
        /\ d # 0 /\ ~Free /\ halted
    BY <1>4, <1>12 DEF Output, MaySet, Free, StopsHalted, outputVars
  <2>2. Unwinding'
    <3>1. CASE sv[h] = 0
      <4>1. coast'[h] = coast[h] /\ integral'[h] <= integral[h] /\ UNCHANGED <<sv, coast>>
        BY <1>1, <1>6, <2>1, <3>1
      <4>2. coast'[h] + integral'[h] <= Windup
        BY <1>3, <4>1, CountsAssumption DEF Unwinding
      <4> QED BY <1>9, <3>1, <4>1, <4>2 DEF Unwinding
    <3>2. CASE sv[h] > 0
      <4>1. coast'[h] = 0 /\ integral'[h] <= Windup
        BY <1>3, <2>1, <3>2, CountsAssumption DEF Unwinding
      <4>2. coast'[h] + integral'[h] <= Windup
        BY <1>3, <4>1, CountsAssumption
      <4>3. UNCHANGED <<sv, coast>>
        BY <1>1, <2>1
      <4> QED BY <1>9, <4>1, <4>2, <4>3 DEF Unwinding
    <3> QED BY <3>1, <3>2
  <2>3. asked'[h] # "nobody"
    BY <1>8, <1>10, <2>1
  <2>4. SetByAsking'
    BY <1>1, <1>9, <1>10, <2>1, <2>3 DEF SetByAsking, Free
  <2> QED BY <1>1, <2>1, <2>2, <2>4 DEF ColdAfterStop
<1> QED BY <1>11, <1>12

\* The controller heats for its set value and for what is left of its integral.
LEMMA ControllerCold ==
  ASSUME Cold, (\E h \in Heaters : PidStep(h)) \/ PidResume
  PROVE  SetByAsking' /\ Unwinding' /\ ColdAfterStop'
<1> USE NobodyAssumption DEF Cold, Tuned, Guarded, Types, TypeOK
<1>1. ASSUME NEW h \in Heaters, PidStep(h), ~Controlled(h)
      PROVE  SetByAsking' /\ Unwinding' /\ ColdAfterStop'
  <2>1. UNCHANGED <<sv, tuner, tuning, halted, stop, pwm, pending, integral, asked, coast>>
    BY <1>1 DEF PidStep, tunerVars, stopVars, outputVars
  <2> QED BY <2>1 DEF SetByAsking, Unwinding, ColdAfterStop, Coasting, Free
<1>2. CASE PidResume
  <2>1. UNCHANGED <<sv, tuner, halted, stop, integral, coast>>
    BY <1>2 DEF PidResume, stateVars, pidVars, stopVars
  <2>2. /\ Free /\ pending.h \in Heaters /\ pending.d \in Duty /\ pending'.h = Nobody
        /\ asked' = [asked EXCEPT ![pending.h] = IF @ = "before" THEN "stale" ELSE @]
        /\ tuning'.leaving = tuning.leaving
        /\ Drive(pending.h, pending.d)
    BY <1>2 DEF PidResume, Tunings
  <2>3. pwm'[pending.h] => pending.d > 0
    <3>1. pending.d # 0 \/ ~pwm'[pending.h]
      BY <2>2, DriveOff
    <3> QED BY <2>2, <3>1
  <2>4. \A k \in Heaters \ {pending.h} : pwm'[k] = pwm[k] /\ asked'[k] = asked[k]
    BY <2>2 DEF Drive
  <2>5. pwm'[pending.h] => asked'[pending.h] \in {"now", "late", "stale"}
    <3>1. pending.d > 0 => asked[pending.h] # "nobody"
      BY <2>2 DEF SetByAsking
    <3>2. asked[pending.h] # "nobody" => asked'[pending.h] \in {"now", "late", "stale"}
      BY <2>2
    <3> QED BY <2>3, <3>1, <3>2
  <2>6. \A k \in Heaters : asked'[k] = asked[k] \/ (asked[k] = "before" /\ asked'[k] = "stale")
    BY <2>2
  <2>7. SetByAsking'
    BY <2>1, <2>2, <2>4, <2>5, <2>6 DEF SetByAsking, Free
  <2>8. Unwinding'
    BY <2>1 DEF Unwinding
  <2>9. ColdAfterStop'
    BY <2>1, <2>4, <2>5 DEF ColdAfterStop, Coasting
  <2> QED BY <2>7, <2>8, <2>9
<1> QED BY <1>1, <1>2, OutputCold

\* Whoever asks anew: a command, the shell, a tuning.
LEMMA AskCold ==
  ASSUME Types, SetByAsking, Unwinding, ColdAfterStop, NEW h \in Heaters, NEW how \in {"now", "late"},
         Ask(h, how), \A k \in Heaters \ {h} : sv'[k] = sv[k], UNCHANGED <<integral, pending>>
  PROVE  /\ \A k \in Heaters : sv'[k] > 0 => asked'[k] \in {"now", "late"}
         /\ \A k \in Heaters : asked'[k] = "nobody" => integral'[k] = 0
         /\ pending'.h # Nobody /\ pending'.d > 0 => asked'[pending'.h] # "nobody"
         /\ Unwinding'
<1> USE DEF Types, TypeOK
<1>1. /\ asked'[h] = how /\ coast'[h] = 0
      /\ \A k \in Heaters \ {h} : asked'[k] = asked[k] /\ coast'[k] = coast[k]
  BY DEF Ask
<1>2. integral[h] <= Windup /\ (pending.h # Nobody => pending.h \in Heaters)
  BY CountsAssumption
<1>3. Unwinding'
  BY <1>1, <1>2, CountsAssumption DEF Unwinding
<1> QED BY <1>1, <1>2, <1>3 DEF SetByAsking

\* The tuner: it lets go of a heater that is off.
LEMMA TunerCold ==
  ASSUME Cold, (\E h \in Heaters : TuneBegin(h)) \/ Tune
  PROVE  SetByAsking' /\ Unwinding' /\ ColdAfterStop'
<1> USE NobodyAssumption DEF Cold, Tuned, Guarded, Types, TypeOK
<1>0. tuning \in Tunings
  OBVIOUS
<1>1. ASSUME NEW h \in Heaters, TuneBegin(h)
      PROVE  SetByAsking' /\ Unwinding' /\ ColdAfterStop'
  <2>1. /\ UNCHANGED <<sv, halted, stop, pending, integral>>
        /\ tuner' = h /\ ~tuning'.leaving
        /\ \A k \in Heaters \ {h} : pwm'[k] = pwm[k]
        /\ Ask(h, "now")
    BY <1>1 DEF TuneBegin, NoTuning, Drive, stopVars, otherThanTuner, stateVars, roundVars
  <2>2. /\ \A k \in Heaters : sv'[k] > 0 => asked'[k] \in {"now", "late"}
        /\ \A k \in Heaters : asked'[k] = "nobody" => integral'[k] = 0
        /\ pending'.h # Nobody /\ pending'.d > 0 => asked'[pending'.h] # "nobody"
        /\ Unwinding'
    BY <2>1, AskCold
  <2>3. \A k \in Heaters \ {h} : asked'[k] = asked[k] /\ coast'[k] = coast[k]
    BY <2>1 DEF Ask
  <2>4. tuner = Nobody
    BY <1>1 DEF TuneBegin
  <2> QED BY <2>1, <2>2, <2>3, <2>4 DEF SetByAsking, ColdAfterStop, Coasting
<1>2. CASE TuneCool \/ TuneWait \/ (TuneHeat /\ remains[tuner] # 1)
  <2>1. /\ tuner \in Heaters
        /\ UNCHANGED <<sv, halted, stop, pending, tuner, asked, integral, coast>>
        /\ \A h \in Heaters \ {tuner} : pwm'[h] = pwm[h]
    BY <1>2 DEF TuneCool, TuneWait, TuneHeat, Iterates, Drive, outputVars, stopVars,
      otherThanTuner, stateVars, roundVars
  <2>2. ~tuning'.leaving
    <3>1. ASSUME NEW d \in Duty
          PROVE  /\ [Written(tuning, d) EXCEPT !.heating = FALSE].leaving = tuning.leaving
                 /\ [Written(tuning, d) EXCEPT !.heating = TRUE, !.cycles = @ + 1].leaving
                      = tuning.leaving
      BY <1>0, WrittenFields
    <3>2. CASE TuneCool
      BY <3>1, <3>2 DEF TuneCool, Iterates
    <3>3. CASE TuneHeat /\ remains[tuner] # 1
      <4>1. PICK d \in {Low, Full} :
              tuning' = [Written(tuning, d) EXCEPT !.heating = TRUE, !.cycles = @ + 1]
        BY <3>3 DEF TuneHeat
      <4>2. d \in Duty /\ ~tuning.leaving
        BY <3>3 DEF TuneHeat, Iterates
      <4> QED BY <3>1, <4>1, <4>2
    <3>4. CASE TuneWait
      BY <1>0, <3>4 DEF TuneWait, Iterates, Tunings
    <3> QED BY <1>2, <3>2, <3>3, <3>4
  <2> QED BY <2>1, <2>2 DEF SetByAsking, Unwinding, ColdAfterStop, Coasting, Free
<1>3. CASE TuneHeat /\ remains[tuner] = 1
  <2>1. /\ tuner \in Heaters /\ tuner' = Nobody
        /\ UNCHANGED <<sv, halted, stop, pending, asked, integral, coast>>
        /\ Drive(tuner, 0)
    BY <1>3 DEF TuneHeat, Iterates, stopVars, otherThanTuner, stateVars, roundVars
  <2>2. ~pwm'[tuner] /\ \A h \in Heaters \ {tuner} : pwm'[h] = pwm[h]
    BY <2>1, DriveOff
  <2> QED BY <2>1, <2>2 DEF SetByAsking, Unwinding, ColdAfterStop, Coasting
<1>4. CASE TuneFail
  <2>1. /\ UNCHANGED <<sv, pending, tuner, pwm, asked, integral, coast>>
        /\ halted' /\ stop' = "planner"
    BY <1>4 DEF TuneFail, TakeStop, outputVars, otherThanTuner, stateVars, roundVars
  <2> QED BY <2>1 DEF SetByAsking, Unwinding, ColdAfterStop, Free
<1>5. CASE TuneLeave
  <2>1. /\ tuner \in Heaters /\ tuner' = Nobody /\ Free
        /\ UNCHANGED <<sv, halted, stop, pending, asked, pwm, integral, coast>>
    BY <1>5 DEF TuneLeave, outputVars, stopVars, otherThanTuner, stateVars, roundVars
  <2>2. ~pwm[tuner] \/ halted \/ asked[tuner] \in {"now", "late", "stale"}
    BY <1>5, <2>1 DEF TuneLeave, SetByAsking
  <2> QED BY <2>1, <2>2 DEF SetByAsking, Unwinding, ColdAfterStop, Coasting
<1> QED BY <1>1, <1>2, <1>3, <1>4, <1>5 DEF Tune

LEMMA NextCold == Cold /\ [Next]_vars => Cold'
<1> SUFFICES ASSUME Cold, [Next]_vars PROVE SetByAsking' /\ Unwinding' /\ ColdAfterStop'
  BY NextTuned DEF Cold
<1> USE DEF Cold
<1>0. Types
  BY DEF Tuned, Guarded
<1>1. CASE UNCHANGED <<sv, integral, asked, coast, pwm, pending, tuner, tuning, halted, stop>>
  BY <1>1 DEF SetByAsking, Unwinding, ColdAfterStop, Coasting, Free
<1>2. CASE UNCHANGED vars \/ AdcStart \/ AdcEnd \/ AdcError
  BY <1>1, <1>2 DEF vars, stateVars, outputVars, pidVars, roundVars, tunerVars, stopVars,
    historyVars, AdcStart, AdcEnd, AdcError, AdcCallback
<1>3. ASSUME NEW h \in Heaters, Residency(h) \/ HeatUp(h) \/ CoolDown(h)
      PROVE  SetByAsking' /\ Unwinding' /\ ColdAfterStop'
  BY <1>1, <1>3 DEF Residency, HeatUp, CoolDown, stateVars, outputVars, pidVars, roundVars,
    tunerVars, stopVars, historyVars
<1>4. CASE CommandBegin \/ CommandDone
  BY <1>1, <1>4 DEF CommandBegin, CommandDone, otherThanCommand, outputVars, pidVars, roundVars,
    tunerVars, stopVars, historyVars
<1>5. ASSUME NEW h \in Heaters, NEW t, NEW how \in {"now", "late"}, SetTemperature(h, t),
             Ask(h, how), UNCHANGED otherThanCommand
      PROVE  SetByAsking' /\ Unwinding' /\ ColdAfterStop'
  <2>1. UNCHANGED <<pwm, pending, tuner, tuning, halted, stop, integral>>
    BY <1>5 DEF otherThanCommand, outputVars, pidVars, roundVars, tunerVars, stopVars
  <2>2. \A k \in Heaters \ {h} : sv'[k] = sv[k]
    BY <1>0, <1>5 DEF SetTemperature, Types, TypeOK
  <2>3. /\ \A k \in Heaters : sv'[k] > 0 => asked'[k] \in {"now", "late"}
        /\ \A k \in Heaters : asked'[k] = "nobody" => integral'[k] = 0
        /\ pending'.h # Nobody /\ pending'.d > 0 => asked'[pending'.h] # "nobody"
        /\ Unwinding'
    BY <1>0, <1>5, <2>1, <2>2, AskCold
  <2>4. /\ asked'[h] \in {"now", "late"}
        /\ \A k \in Heaters \ {h} : asked'[k] = asked[k] /\ coast'[k] = coast[k]
    BY <1>0, <1>5 DEF Ask, Types, TypeOK
  <2>5. tuner # Nobody => tuner \in Heaters
    BY <1>0 DEF Types, TypeOK
  <2>6. SetByAsking'
    BY <2>1, <2>3, <2>4, <2>5 DEF SetByAsking, Free
  <2> QED BY <2>1, <2>2, <2>3, <2>4, <2>6 DEF ColdAfterStop, Coasting
<1>6. CASE CommandSet
  <2>1. CASE cmd.set = Nobody
    BY <1>1, <1>6, <2>1 DEF CommandSet, otherThanCommand, outputVars, pidVars, roundVars,
      tunerVars, stopVars, historyVars
  <2>2. CASE cmd.set # Nobody
    <3>1. cmd.set \in Heaters
      BY <1>0, <2>2 DEF Types, TypeOK, Commanded
    <3> QED BY <1>5, <1>6, <2>2, <3>1 DEF CommandSet
  <2> QED BY <2>1, <2>2
<1>7. ASSUME NEW h \in Heaters, ShellTemp(h)
      PROVE  SetByAsking' /\ Unwinding' /\ ColdAfterStop'
  <2>1. PICK t \in Targets : SetTemperature(h, t)
    BY <1>7 DEF ShellTemp
  <2> QED BY <1>5, <1>7, <2>1 DEF ShellTemp
<1>8. CASE StopCall
  <2>1. /\ UNCHANGED <<sv, pending, tuner, pwm, asked, integral, coast>>
        /\ halted' /\ stop' = "planner"
    BY <1>8 DEF StopCall, TakeStop, stateVars, outputVars, pidVars, roundVars, tunerVars, historyVars
  <2> QED BY <2>1 DEF SetByAsking, Unwinding, ColdAfterStop, Free
<1>9. CASE StopTemperatures
  <2>1. /\ UNCHANGED <<pending, tuner, pwm, integral, coast, halted>>
        /\ halted /\ stop' = "outputs"
        /\ \A h \in Heaters : sv'[h] = 0
        /\ asked' = [h \in Heaters |-> IF asked[h] = "nobody" THEN "nobody" ELSE "before"]
    BY <1>9 DEF StopTemperatures, SetValuesZero, outputVars, pidVars, roundVars, tunerVars,
      Tuned, Guarded, StopsHalted
  <2>2. pending.h # Nobody => pending.h \in Heaters
    BY <1>0 DEF Types, TypeOK
  <2> QED BY <2>1, <2>2 DEF SetByAsking, Unwinding, ColdAfterStop, Free
<1>10. CASE StopOutputs
  <2>1. /\ UNCHANGED <<sv, pending, tuner, tuning, asked, integral, coast, halted>>
        /\ \A h \in Heaters : ~pwm'[h]
    BY <1>10 DEF StopOutputs, stateVars, pidVars, roundVars, tunerVars, historyVars
  <2>2. tuner # Nobody => tuner \in Heaters
    BY <1>0 DEF Types, TypeOK
  <2> QED BY <2>1, <2>2 DEF SetByAsking, Unwinding, ColdAfterStop
<1>11. CASE StopClear
  <2>1. \A h \in Heaters : ~pwm[h]
    BY <1>11 DEF StopClear, Tuned, Guarded, OffWhileStopped
  <2>2. UNCHANGED <<sv, integral, asked, coast, pwm, pending, tuner, tuning, stop>>
    BY <1>11 DEF StopClear, stateVars, outputVars, pidVars, roundVars, tunerVars, historyVars
  <2> QED BY <2>1, <2>2 DEF SetByAsking, Unwinding, ColdAfterStop, Free
<1> QED
  BY <1>2, <1>3, <1>4, <1>6, <1>7, <1>8, <1>9, <1>10, <1>11, ControllerCold, TunerCold DEF Next

\* After a stop and its clearing no heater comes on for what was asked before,
\* but in the four ways the property names.
THEOREM StopIsCold == Spec => []ColdAfterStop
<1>1. Init => Cold
  <2>1. Init => Guarded
    BY InitTypes DEF Init, Guarded, StopsHalted, OffWhileStopped
  <2>2. Init => TuningKept /\ TunerOwnsHeater
    BY NobodyAssumption DEF Init, TuningKept, TunerOwnsHeater
  <2>3. Init => SetByAsking /\ Unwinding /\ ColdAfterStop
    BY NobodyAssumption, CountsAssumption DEF Init, SetByAsking, Unwinding, ColdAfterStop
  <2> QED BY <2>1, <2>2, <2>3 DEF Cold, Tuned
<1>2. Cold => ColdAfterStop
  BY DEF Cold
<1> QED BY <1>1, NextCold, <1>2, PTL DEF Spec

-----------------------------------------------------------------------------
(* A wait that returns *)

LEMMA PidMeasured ==
  ASSUME Types, Measured, NEW h \in Heaters, PidStep(h)
  PROVE  Measured'
<1> USE DEF Types, TypeOK, Measured
<1>1. /\ UNCHANGED <<sv, heating>>
      /\ seen' = [seen EXCEPT ![h] = @ \cup Sides(sv[h], temp[h])]
      /\ reached' = [reached EXCEPT ![h] = IF @ = "no" /\ Crossed(h, temp[h]) THEN "just" ELSE @]
  BY DEF PidStep
<1>2. temp[h] \in Nat \ {0} /\ sv[h] \in Nat
  BY LevelsAssumption DEF Temps
<1>3. CASE reached[h] = "no" /\ Crossed(h, temp[h])
  <2>1. CASE heating[h]
    <3>1. "below" \in seen[h] /\ "above" \in Sides(sv[h], temp[h])
      BY <1>2, <1>3, <2>1 DEF Crossed, Sides
    <3>2. seen'[h] = {"below", "above"}
      BY <1>1, <3>1 DEF Sides
    <3> QED BY <1>1, <1>3, <2>1, <3>2
  <2>2. CASE ~heating[h]
    <3>1. "above" \in seen[h] /\ "below" \in Sides(sv[h], temp[h])
      BY <1>2, <1>3, <2>2 DEF Crossed, Sides
    <3>2. seen'[h] = {"below", "above"}
      BY <1>1, <3>1 DEF Sides
    <3> QED BY <1>1, <1>3, <2>2, <3>2
  <2> QED BY <2>1, <2>2
<1>4. CASE ~(reached[h] = "no" /\ Crossed(h, temp[h]))
  <2>1. reached' = reached
    BY <1>1, <1>4
  <2>2. /\ seen[h] \subseteq seen'[h] /\ seen'[h] \subseteq {"below", "above"}
        /\ \A k \in Heaters \ {h} : seen'[k] = seen[k]
    BY <1>1 DEF Sides
  <2> QED BY <1>1, <2>1, <2>2
<1> QED BY <1>3, <1>4

LEMMA SetMeasured ==
  ASSUME Types, Measured, NEW h \in Heaters, NEW t \in Nat, SetTemperature(h, t)
  PROVE  Measured'
<1> USE DEF Types, TypeOK
<1>1. /\ reached'[h] = "no" /\ seen'[h] = Sides(t, pv[h])
      /\ heating'[h] <=> t > pv[h]
      /\ pv[h] \in Nat
  BY DEF SetTemperature
<1>2. /\ heating'[h] => "below" \in seen'[h]
      /\ ~heating'[h] => "above" \in seen'[h]
  BY <1>1 DEF Sides
<1>3. \A k \in Heaters \ {h} :
        sv'[k] = sv[k] /\ heating'[k] = heating[k] /\ reached'[k] = reached[k] /\ seen'[k] = seen[k]
  BY DEF SetTemperature
<1> QED BY <1>1, <1>2, <1>3 DEF Measured

LEMMA NextMeasured == Types /\ Measured /\ [Next]_vars => Measured'
<1> SUFFICES ASSUME Types, Measured, [Next]_vars PROVE Measured'
  OBVIOUS
<1>1. CASE UNCHANGED <<sv, heating, reached, seen>>
  BY <1>1 DEF Measured
<1>2. ASSUME NEW h \in Heaters, Residency(h)
      PROVE  Measured'
  BY <1>2 DEF Residency, Measured, Types, TypeOK, historyVars
<1>3. CASE CommandSet
  <2>1. CASE cmd.set = Nobody
    BY <1>1, <1>3, <2>1 DEF CommandSet, historyVars
  <2>2. CASE cmd.set # Nobody
    <3>1. cmd.set \in Heaters /\ cmd.target \in Nat
      BY <1>3, <2>2 DEF CommandSet, Types, TypeOK, Commanded
    <3> QED BY <1>3, <2>2, <3>1, SetMeasured DEF CommandSet
  <2> QED BY <2>1, <2>2
<1>4. CASE StopTemperatures
  <2>1. ASSUME NEW h \in Heaters
        PROVE  reached'[h] = "no" /\ sv'[h] = 0 /\ ~heating'[h]
    <3>1. reached'[h] = "no" /\ sv'[h] = 0
      BY <1>4 DEF StopTemperatures, SetValuesZero
    <3>2. heating'[h] = (0 > pv[h])
      BY <1>4, Zenon DEF StopTemperatures
    <3>3. ~(0 > pv[h])
      BY DEF Types, TypeOK
    <3> QED BY <3>1, <3>2, <3>3
  <2> QED BY <2>1 DEF Measured
<1>5. CASE UNCHANGED vars \/ AdcStart \/ AdcEnd \/ AdcError \/ PidResume
  BY <1>1, <1>5 DEF vars, stateVars, historyVars, AdcStart, AdcEnd, AdcError, AdcCallback, PidResume
<1>6. ASSUME NEW h \in Heaters, HeatUp(h) \/ CoolDown(h) \/ TuneBegin(h)
      PROVE  Measured'
  BY <1>1, <1>6 DEF HeatUp, CoolDown, TuneBegin, otherThanTuner, stateVars, historyVars
<1>7. CASE CommandBegin \/ CommandDone \/ StopCall \/ StopOutputs \/ StopClear
  BY <1>1, <1>7 DEF CommandBegin, CommandDone, StopCall, StopOutputs, StopClear, stateVars, historyVars
<1>8. CASE Tune
  BY <1>1, <1>8 DEF Tune, TuneCool, TuneHeat, TuneWait, TuneFail, TuneLeave, otherThanTuner, stateVars
<1>9. ASSUME NEW h \in Heaters, ShellTemp(h)
      PROVE  Measured'
  <2>1. PICK t \in Targets : SetTemperature(h, t)
    BY <1>9 DEF ShellTemp
  <2>2. t \in Nat
    BY TargetsAssumption
  <2> QED BY <2>1, <2>2, SetMeasured
<1> QED
  BY <1>2, <1>3, <1>4, <1>5, <1>6, <1>7, <1>8, <1>9, PidMeasured DEF Next

\* M109 and M116 return, without a stop, only after readings on both sides of
\* the set value of every heater they wait for.
THEOREM WaitIsReached == Spec => WaitMeansReached
<1>1. Init => Types /\ Measured
  BY InitTypes DEF Init, Measured
<1>2. Types /\ Measured /\ [Next]_vars => (Types /\ Measured)'
  BY NextTypes, NextMeasured
<1>3. ASSUME Types, Measured, [Next]_vars, cmd.at = "wait", cmd'.at = "idle", ~halted
      PROVE  \A h \in Awaited : seen[h] = {"below", "above"}
  <2>1. cmd' # cmd /\ cmd'.at # "wait" /\ cmd'.at # "motion"
    BY <1>3
  <2>2. Awaited \subseteq Heaters
    BY <1>3 DEF Types, CommandNames, Awaited
  <2>3. CASE CommandDone
    BY <1>3, <2>2, <2>3 DEF CommandDone, Measured
  <2>4. CASE TakeStop
    BY <1>3, <2>4 DEF TakeStop, Types, TypeOK, Commanded
  <2>5. CommandDone \/ TakeStop
    <3>1. ~CommandBegin /\ ~CommandSet
      BY <1>3 DEF CommandBegin, CommandSet
    <3>2. ~UNCHANGED cmd
      BY <2>1
    <3> QED
      BY <1>3, <3>1, <3>2 DEF Next, vars, AdcStart, AdcEnd, AdcError, AdcCallback, PidResume, PidStep,
        Residency, HeatUp, CoolDown, TuneBegin, ShellTemp, StopCall, StopTemperatures, StopOutputs, StopClear,
        Tune, TuneCool, TuneHeat, TuneWait, TuneFail, TuneLeave
  <2> QED BY <2>3, <2>4, <2>5
<1>4. Types /\ Measured /\ [Next]_vars =>
        [cmd.at = "wait" /\ cmd'.at = "idle" /\ ~halted =>
           \A h \in Awaited : seen[h] = {"below", "above"}]_vars
  BY <1>3
<1> QED BY <1>1, <1>2, <1>4, PTL DEF Spec, WaitMeansReached
=============================================================================
