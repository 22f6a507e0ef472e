------------------------------ MODULE Thermal ------------------------------
(***************************************************************************)
(* The heaters: the temperature thread that reads the sensors and runs one *)
(* controller per heater (temperature.c, temperature_core_real.h,          *)
(* temperature_pid.h), the autotuner the debug shell runs beside it, the   *)
(* PWM outputs both write (output.c), the commands that set temperatures   *)
(* and wait for them (command/dispatch.h), and what an emergency stop does *)
(* to all of them (printer.c).                                             *)
(*                                                                         *)
(* These threads have one priority and no time slice: a step is what one   *)
(* of them does up to where it sleeps, waits for estop_mtx or unlocks the  *)
(* kernel.  An emergency stop may come from a thread of lower priority, so *)
(* the others run between its steps until they need the mutex it holds.    *)
(* Those who wait for it get it in the order they came, whatever that was. *)
(* Temperatures are levels, Ambient the lowest one a heater ever has; zero *)
(* is the set value of a heater that is off. Any level above TuneTarget    *)
(* may be too hot for the tuner. The derivative term of the controllers is *)
(* left out: it shifts an output, and is taken to be less than one level's *)
(* difference in the other two.                                            *)
(***************************************************************************)
EXTENDS Integers, FiniteSets

CONSTANTS
  Heaters,         \* the temperature devices with a heating output
  Ambient, Hottest,\* range of the real temperatures
  Targets,         \* values a command may ask for
  TuneTarget,      \* target of the autotuner
  Cycles,          \* total_cycles of an autotune, always 5 in the shell
  TuneFrom,        \* heating phases before the gains are computed, 3 in the code
  Windup,          \* what the integral of a controller is limited to, limit / Ki
  Patience,        \* iterations without a phase change before a timeout
  NumAdcs,         \* RAD_NUMBER_ADCS
  MaxOps, MaxTunes,\* bounds: commands, tunings and stops in a behaviour, and tunings
  Nobody

ASSUME LevelsAssumption ==
  /\ Ambient \in Nat \ {0} /\ TuneTarget \in Nat /\ Hottest \in Nat
  /\ Ambient < TuneTarget /\ TuneTarget < Hottest
ASSUME TargetsAssumption == Targets \subseteq Nat
ASSUME CyclesAssumption == Cycles \in Nat \ {0} /\ TuneFrom \in 0 .. Cycles - 1
ASSUME CountsAssumption ==
  Patience \in Nat /\ Windup \in Nat \ {0} /\ NumAdcs \in Nat \ {0}
ASSUME NobodyAssumption == Nobody \notin Heaters

VARIABLES
  temp,       \* real temperature of each heater
  sv, pv,     \* RadTempState: set value, last reading
  heating,    \* is_heating
  reached,    \* target_reached_at: "no", "just", or "long" ago (residency_time)
  duty, pwm,  \* outputs[] and whether the PWM channel is on
  remains,    \* tuning_cycle_remains
  integral,   \* pid_states[].i_error
  gains,      \* pid_states[].config: "given", "partial" or "tuned"
  round,      \* threadTemp: "sleep", "convert" or "run"
  todo,       \* heaters left in the round
  finishing,  \* finishing_count
  badAdc,     \* has_error
  pending,    \* the heater and duty of an outputSet that waits for estop_mtx
  tuner,      \* the heater being tuned
  tuning,     \* the autotuner's locals, and its backup of the state
  cmd,        \* curr_command and where the printer thread is in it
  halted,     \* printer state is Estopped
  stop,       \* printerEstopCore: next step of the caller that holds estop_mtx
  commands, tunes, stops,   \* how many so far
  seen,       \* history: sides of its set value on which a heater was read since
  asked,      \* history: what last asked the heater to heat: "nobody"; "now"; a
              \* command or tuning from "before" the last stop; or a command
              \* checked before that stop and executed "late", after it; or an
              \* output computed before the stop and set, "stale", after its end
  coast       \* history: for how many rounds the controller has heated since the
              \* stop put an end to what was asked

stateVars == <<sv, pv, heating, reached>>
outputVars == <<duty, pwm>>
pidVars == <<remains, integral, gains>>
roundVars == <<round, todo, finishing, badAdc, pending>>
tunerVars == <<tuner, tuning>>
stopVars == <<halted, stop>>
boundVars == <<commands, tunes, stops>>
historyVars == <<seen, asked, coast>>
vars == <<temp, stateVars, outputVars, pidVars, roundVars, tunerVars, cmd, stopVars,
          boundVars, historyVars>>

More == commands + tunes + stops < MaxOps
Temps == Ambient .. Hottest
Low == 1                          \* a duty at which a heater may warm or cool
Full == 2
Duty == 0 .. Full
Free == stop = "none"             \* estop_mtx is free
NoTuning == [heating |-> FALSE, age |-> 0, cycles |-> 0, leaving |-> FALSE, since |-> 0,
             gains |-> "given", remains |-> 0, drive |-> 0, behind |-> "no"]
NoCommand == [at |-> "idle", set |-> Nobody, target |-> 0, wait |-> {}, late |-> FALSE]

Init ==
  /\ temp = [h \in Heaters |-> Ambient]
  /\ sv = [h \in Heaters |-> 0]
  /\ pv = [h \in Heaters |-> 0]
  /\ heating = [h \in Heaters |-> FALSE]
  /\ reached = [h \in Heaters |-> "no"]
  /\ duty = [h \in Heaters |-> 0] /\ pwm = [h \in Heaters |-> FALSE]
  /\ remains = [h \in Heaters |-> 0] /\ gains = [h \in Heaters |-> "given"]
  /\ integral = [h \in Heaters |-> 0]
  /\ round = "sleep" /\ todo = {} /\ finishing = 0 /\ badAdc = FALSE
  /\ pending = [h |-> Nobody, d |-> 0]
  /\ tuner = Nobody /\ tuning = NoTuning
  /\ cmd = NoCommand
  /\ halted = FALSE /\ stop = "none"
  /\ commands = 0 /\ tunes = 0 /\ stops = 0
  /\ seen = [h \in Heaters |-> {}]
  /\ asked = [h \in Heaters |-> "nobody"] /\ coast = [h \in Heaters |-> 0]

-----------------------------------------------------------------------------
(* Setting a temperature, setting an output *)

\* The sides of a set value a reading is on.
Sides(set, read) == {side \in {"below", "above"} :
                       IF side = "below" THEN read <= set ELSE read >= set}

\* temperatureSetI. The history starts again from the reading it is compared to.
SetStale(h, t) ==                        \* mutant: the old target stays reached
  /\ sv' = [sv EXCEPT ![h] = t]
  /\ heating' = [heating EXCEPT ![h] = t > pv[h]]
  /\ seen' = [seen EXCEPT ![h] = Sides(t, pv[h])]
  /\ UNCHANGED reached
SetTemperature(h, t) ==
  /\ sv' = [sv EXCEPT ![h] = t]
  /\ heating' = [heating EXCEPT ![h] = t > pv[h]]
  /\ reached' = [reached EXCEPT ![h] = "no"]
  /\ seen' = [seen EXCEPT ![h] = Sides(t, pv[h])]

\* Somebody asks for heat anew.
Ask(h, how) ==
  /\ asked' = [asked EXCEPT ![h] = how]
  /\ coast' = [coast EXCEPT ![h] = 0]

\* outputSetI: the duty is noted even when the stop keeps the channel off. Only
\* a duty above zero asks printerIsEstopped, which takes estop_mtx.
DriveUnchecked(h, d) ==                  \* mutant: the stop is not looked at
  /\ pwm' = [pwm EXCEPT ![h] = d > 0]
  /\ duty' = [duty EXCEPT ![h] = d]
Drive(h, d) ==
  /\ pwm' = [pwm EXCEPT ![h] = d > 0 /\ ~halted]
  /\ duty' = [duty EXCEPT ![h] = d]

MaySet(d) == d = 0 \/ Free

-----------------------------------------------------------------------------
(* threadTemp and the ADC *)

ConversionsShort == NumAdcs - 1          \* mutant: one converter is not counted
Conversions == NumAdcs

AdcStart ==
  /\ round = "sleep" /\ pending.h = Nobody
  /\ round' = "convert"
  /\ finishing' = Conversions
  /\ badAdc' = FALSE
  /\ UNCHANGED <<temp, stateVars, outputVars, pidVars, todo, pending, tunerVars, cmd,
                 stopVars, boundVars, historyVars>>

\* radadc_end_callback and radadc_error_callback: the last one of either wakes
\* the thread, which drops the round when one was an error.
AdcCallback(error) ==
  /\ round = "convert"
  /\ finishing' = finishing - 1
  /\ badAdc' = (badAdc \/ error)
  /\ round' = IF finishing' # 0 THEN "convert" ELSE IF badAdc' THEN "sleep" ELSE "run"
  /\ todo' = IF round' = "run" THEN Heaters ELSE {}
  /\ UNCHANGED <<temp, stateVars, outputVars, pidVars, pending, tunerVars, cmd,
                 stopVars, boundVars, historyVars>>
AdcEnd == AdcCallback(FALSE)
AdcError == AdcCallback(TRUE)

\* i_error with another reading, kept between zero and its limit.
Wound(i, set, read) ==
  IF i + set - read > Windup THEN Windup ELSE IF i + set - read < 0 THEN 0 ELSE i + set - read

\* What the controller may put out. At its limit the integral alone is the full
\* output; above the set value the proportional term works against it.
Duties(set, read, i) ==
  IF read < set THEN IF i = Windup THEN {Full} ELSE {Low, Full}
  ELSE IF read = set THEN Duty
  ELSE IF i > 0 THEN {0, Low} ELSE {0}

Crossed(h, read) == IF heating[h] THEN read >= sv[h] ELSE read <= sv[h]

TuningIgnored(h) == TRUE                 \* mutant: the controller runs all the same
Controlled(h) == remains[h] = 0

\* outputSet by the controller, which may have to wait in it.
Output(h, d) ==
  IF MaySet(d)
  THEN /\ Drive(h, d)
       /\ coast' = [coast EXCEPT ![h] = IF d > 0 /\ asked[h] \in {"before", "stale"}
                                       THEN @ + 1 ELSE @]
       /\ UNCHANGED pending
  ELSE /\ pending' = [h |-> h, d |-> d]
       /\ UNCHANGED <<outputVars, coast>>

\* A reading, and temperature_pid_loop on it.
PidStep(h) ==
  /\ round = "run" /\ pending.h = Nobody
  /\ h \in todo
  /\ todo' = todo \ {h}
  /\ round' = IF todo' = {} THEN "sleep" ELSE "run"
  /\ pv' = [pv EXCEPT ![h] = temp[h]]
  /\ seen' = [seen EXCEPT ![h] = @ \cup Sides(sv[h], temp[h])]
  /\ reached' = [reached EXCEPT ![h] = IF @ = "no" /\ Crossed(h, temp[h]) THEN "just" ELSE @]
  /\ IF Controlled(h)
     THEN /\ integral' = [integral EXCEPT ![h] = Wound(@, sv[h], temp[h])]
          /\ \E d \in Duties(sv[h], temp[h], integral'[h]) : Output(h, d)
          /\ asked' = [asked EXCEPT ![h] = IF @ = "stale" THEN "before" ELSE @]
     ELSE UNCHANGED <<integral, outputVars, pending, asked, coast>>
  /\ UNCHANGED <<temp, sv, heating, remains, gains, finishing, badAdc, tunerVars, cmd,
                 stopVars, boundVars>>

\* The controller gets estop_mtx at last, maybe after someone who waited to
\* clear the stop, and after a tuner that takes the heater over.
PidResume ==
  /\ pending.h # Nobody
  /\ Free
  /\ Drive(pending.h, pending.d)
  /\ pending' = [h |-> Nobody, d |-> 0]
  /\ asked' = [asked EXCEPT ![pending.h] = IF @ = "before" THEN "stale" ELSE @]
  /\ tuning' = [tuning EXCEPT !.behind = IF @ = "waits" THEN "wrote" ELSE @]
  /\ UNCHANGED <<temp, stateVars, pidVars, round, todo, finishing, badAdc, tuner, cmd,
                 stopVars, boundVars, seen, coast>>

\* Time: residency_time since the target was reached.
Residency(h) ==
  /\ reached[h] = "just"
  /\ reached' = [reached EXCEPT ![h] = "long"]
  /\ UNCHANGED <<temp, sv, pv, heating, outputVars, pidVars, roundVars, tunerVars, cmd,
                 stopVars, boundVars, historyVars>>

\* The heater itself.
HeatUp(h) ==
  /\ pwm[h] /\ temp[h] < Hottest
  /\ temp' = [temp EXCEPT ![h] = @ + 1]
  /\ UNCHANGED <<stateVars, outputVars, pidVars, roundVars, tunerVars, cmd, stopVars,
                 boundVars, historyVars>>
CoolDown(h) ==
  /\ ~pwm[h] \/ duty[h] = Low
  /\ temp[h] > Ambient
  /\ temp' = [temp EXCEPT ![h] = @ - 1]
  /\ UNCHANGED <<stateVars, outputVars, pidVars, roundVars, tunerVars, cmd, stopVars,
                 boundVars, historyVars>>

-----------------------------------------------------------------------------
(* The printer thread: M104, M140, M109, M190, M116; the shell's temp *)

otherThanCommand == <<temp, pv, outputVars, pidVars, roundVars, tunerVars, stopVars>>

Commands ==
  {[at |-> "motion", set |-> h, target |-> t, wait |-> w, late |-> FALSE] :
     h \in Heaters, t \in Targets, w \in {{}, {"one"}}}
  \cup {[at |-> "motion", set |-> Nobody, target |-> 0, wait |-> {"all"}, late |-> FALSE]}

\* printer_dispatch: the last look at the stop before printer_wait_motion.
CommandBegin ==
  /\ cmd.at = "idle"
  /\ Free /\ ~halted
  /\ More
  /\ commands' = commands + 1
  /\ cmd' \in Commands
  /\ UNCHANGED <<otherThanCommand, sv, heating, reached, tunes, stops, historyVars>>

\* The heaters printer_wait_temperature looks at.
Awaited == IF cmd.wait = {"one"} THEN {cmd.set} ELSE Heaters

\* The moves before it are done, or were dropped by a stop; the temperature is
\* set in either case.
CommandSet ==
  /\ cmd.at = "motion"
  /\ cmd' = IF cmd.wait = {} THEN NoCommand ELSE [cmd EXCEPT !.at = "wait"]
  /\ IF cmd.set = Nobody
     THEN UNCHANGED <<sv, heating, reached, historyVars>>
     ELSE /\ SetTemperature(cmd.set, cmd.target)
          /\ Ask(cmd.set, IF cmd.late THEN "late" ELSE "now")
  /\ UNCHANGED <<otherThanCommand, boundVars>>

\* printer_wait_temperature, one look every 250 ms.
CommandDone ==
  /\ cmd.at = "wait"
  /\ Free
  /\ halted \/ \A h \in Awaited : reached[h] = "long"
  /\ cmd' = NoCommand
  /\ UNCHANGED <<otherThanCommand, sv, heating, reached, boundVars, historyVars>>

\* The debug shell sets a temperature without a look at the stop. Its one thread
\* runs the autotuner too.
ShellTemp(h) ==
  /\ tuner = Nobody
  /\ More
  /\ commands' = commands + 1
  /\ \E t \in Targets : SetTemperature(h, t)
  /\ Ask(h, "now")
  /\ UNCHANGED <<otherThanCommand, cmd, tunes, stops>>

-----------------------------------------------------------------------------
(* printerEstopCore and printerEstopClear *)

\* Taking estop_mtx and setting the state. The rest follows with the mutex held.
TakeStop ==
  /\ Free
  /\ halted' = TRUE
  /\ stop' = "planner"
  /\ cmd' = [cmd EXCEPT !.late = cmd.at # "idle"]

StopCall ==
  /\ TakeStop
  /\ More
  /\ stops' = stops + 1
  /\ UNCHANGED <<temp, stateVars, outputVars, pidVars, roundVars, tunerVars, commands,
                 tunes, historyVars>>

SetValuesKept == sv                      \* mutant: the set values survive the stop
SetValuesZero == [h \in Heaters |-> 0]

\* plannerEstop may have waited for a free block; temperatureAllZero, which
\* leaves the controllers' integrals alone.
StopTemperatures ==
  /\ stop = "planner"
  /\ stop' = "outputs"
  /\ sv' = SetValuesZero
  /\ heating' = [h \in Heaters |-> 0 > pv[h]]
  /\ reached' = [h \in Heaters |-> "no"]
  /\ seen' = [h \in Heaters |-> Sides(0, pv[h])]
  /\ asked' = [h \in Heaters |-> IF asked[h] = "nobody" THEN "nobody" ELSE "before"]
  /\ UNCHANGED <<temp, pv, outputVars, pidVars, roundVars, tunerVars, cmd, halted,
                 boundVars, coast>>

\* outputAllZero, and estop_mtx is free again.
StopOutputs ==
  /\ stop = "outputs"
  /\ stop' = "none"
  /\ duty' = [h \in Heaters |-> 0]
  /\ pwm' = [h \in Heaters |-> FALSE]
  /\ UNCHANGED <<temp, stateVars, pidVars, roundVars, tunerVars, cmd, halted, boundVars,
                 historyVars>>

StopClear ==
  /\ halted /\ Free
  /\ halted' = FALSE
  /\ UNCHANGED <<temp, stateVars, outputVars, pidVars, roundVars, tunerVars, cmd, stop,
                 boundVars, historyVars>>

-----------------------------------------------------------------------------
(* temperatureAutoTune, called by the debug shell *)

otherThanTuner == <<temp, stateVars, roundVars, seen, commands, integral>>

\* A controller may wait for estop_mtx with a duty for the heater all the while.
TuneBegin(h) ==
  /\ tuner = Nobody
  /\ Free /\ ~halted
  /\ More /\ tunes < MaxTunes
  /\ tunes' = tunes + 1
  /\ tuner' = h
  /\ tuning' = [NoTuning EXCEPT !.gains = gains[h], !.remains = remains[h], !.since = stops,
                               !.behind = IF pending.h = h THEN "waits" ELSE "no"]
  /\ remains' = [remains EXCEPT ![h] = Cycles]
  /\ Drive(h, 0)
  /\ Ask(h, "now")
  /\ UNCHANGED <<otherThanTuner, gains, cmd, stopVars, stops>>

\* One pass of its loop, every 50 ms; each ends with a look at the stop.
Iterates == tuner # Nobody /\ ~tuning.leaving /\ Free

\* outputSet by the tuner, whatever a controller wrote before.
Written(t, d) == [t EXCEPT !.age = 0, !.drive = d,
                           !.behind = IF @ = "wrote" THEN "no" ELSE @]

\* The cooling phase, from the second on at (bias - d) / 2: more than nothing when
\* bias has come to lie above half the limit.
TuneCool ==
  /\ Iterates
  /\ tuning.heating /\ pv[tuner] > TuneTarget
  /\ \E d \in IF tuning.cycles > 1 THEN {0, Low} ELSE {0} :
       /\ Drive(tuner, d)
       /\ tuning' = [Written(tuning, d) EXCEPT !.heating = FALSE]
  /\ UNCHANGED <<otherThanTuner, remains, gains, tuner, cmd, stopVars, tunes, stops, asked,
                 coast>>

\* The next heating phase, new gains from the third on; the phase that brings
\* tuning_cycle_remains to zero is cut off at once and the new gains stay.
TuneHeat ==
  /\ Iterates
  /\ ~tuning.heating /\ pv[tuner] < TuneTarget
  /\ remains' = [remains EXCEPT ![tuner] = @ - 1]
  /\ IF remains[tuner] = 1
     THEN /\ Drive(tuner, 0)
          /\ gains' = [gains EXCEPT ![tuner] = IF tuning.cycles >= TuneFrom THEN "tuned" ELSE @]
          /\ tuner' = Nobody /\ tuning' = NoTuning
     ELSE /\ \E d \in {Low, Full} :
               /\ Drive(tuner, d)
               /\ tuning' = [Written(tuning, d) EXCEPT !.heating = TRUE, !.cycles = @ + 1]
          /\ gains' = [gains EXCEPT ![tuner] = IF tuning.cycles >= TuneFrom THEN "partial" ELSE @]
          /\ UNCHANGED tuner
  /\ UNCHANGED <<otherThanTuner, cmd, stopVars, tunes, stops, asked, coast>>

\* Neither: the phase is too short, or the temperature not yet there.
TuneWait ==
  /\ Iterates /\ ~halted
  /\ tuning.age < Patience
  /\ tuning' = [tuning EXCEPT !.age = @ + 1]
  /\ UNCHANGED <<otherThanTuner, outputVars, remains, gains, tuner, cmd, stopVars, tunes,
                 stops, asked, coast>>

\* Too hot, or out of time: the tuner itself stops the machine.
TuneFail ==
  /\ Iterates
  /\ pv[tuner] > TuneTarget \/ tuning.age = Patience
  /\ TakeStop
  /\ tuning' = [tuning EXCEPT !.leaving = TRUE]
  /\ UNCHANGED <<otherThanTuner, outputVars, remains, gains, tuner, tunes, stops, asked,
                 coast>>

\* Out of the loop: the state from before is put back, tuning_cycle_remains too.
\* The integral in it is the one it has: no controller ran on it meanwhile.
RestoreGainsOnly ==                      \* mutant: the controller stays disabled
  /\ gains' = [gains EXCEPT ![tuner] = tuning.gains]
  /\ UNCHANGED remains
Restore ==
  /\ gains' = [gains EXCEPT ![tuner] = tuning.gains]
  /\ remains' = [remains EXCEPT ![tuner] = tuning.remains]

TuneLeave ==
  /\ tuner # Nobody /\ Free
  /\ tuning.leaving \/ halted
  /\ Restore
  /\ tuner' = Nobody /\ tuning' = NoTuning
  /\ UNCHANGED <<otherThanTuner, outputVars, cmd, stopVars, tunes, stops, asked, coast>>

-----------------------------------------------------------------------------
Tune == TuneCool \/ TuneHeat \/ TuneWait \/ TuneFail \/ TuneLeave

Next ==
  \/ AdcStart \/ AdcEnd \/ AdcError \/ PidResume
  \/ \E h \in Heaters : PidStep(h) \/ Residency(h) \/ HeatUp(h) \/ CoolDown(h) \/ TuneBegin(h)
                      \/ ShellTemp(h)
  \/ CommandBegin \/ CommandSet \/ CommandDone
  \/ StopCall \/ StopTemperatures \/ StopOutputs \/ StopClear
  \/ Tune

Spec == Init /\ [][Next]_vars

\* The threads run and heaters follow their outputs. Conversions may fail, but
\* not for ever: whoever waits for one that succeeds gets it.
FairSpec ==
  /\ Spec
  /\ WF_vars(AdcStart \/ PidResume \/ \E h \in Heaters : PidStep(h)) /\ SF_vars(AdcEnd)
  /\ \A h \in Heaters : WF_vars(Residency(h)) /\ WF_vars(HeatUp(h)) /\ WF_vars(CoolDown(h))
  /\ WF_vars(CommandSet \/ CommandDone)
  /\ WF_vars(StopTemperatures \/ StopOutputs)
  /\ WF_vars(Tune)

-----------------------------------------------------------------------------
(* Properties *)

Gains == {"given", "partial", "tuned"}
Tunings == [heating : BOOLEAN, age : 0 .. Patience, cycles : Nat, leaving : BOOLEAN,
            since : Nat, gains : Gains, remains : 0 .. Cycles, drive : Duty,
            behind : {"no", "waits", "wrote"}]
Commanded == [at : {"idle", "motion", "wait"}, set : Heaters \cup {Nobody}, target : Nat,
              wait : SUBSET {"one", "all"}, late : BOOLEAN]

\* Types; finishing_count and tuning_cycle_remains are never counted below zero.
TypeOK ==
  /\ temp \in [Heaters -> Temps]
  /\ sv \in [Heaters -> Nat] /\ pv \in [Heaters -> Nat]
  /\ heating \in [Heaters -> BOOLEAN]
  /\ reached \in [Heaters -> {"no", "just", "long"}]
  /\ duty \in [Heaters -> Duty] /\ pwm \in [Heaters -> BOOLEAN]
  /\ remains \in [Heaters -> 0 .. Cycles] /\ gains \in [Heaters -> Gains]
  /\ integral \in [Heaters -> 0 .. Windup]
  /\ round \in {"sleep", "convert", "run"} /\ todo \subseteq Heaters
  /\ finishing \in 0 .. NumAdcs /\ badAdc \in BOOLEAN
  /\ pending \in [h : Heaters \cup {Nobody}, d : Duty]
  /\ tuner \in Heaters \cup {Nobody}
  /\ tuning \in Tunings
  /\ cmd \in Commanded
  /\ halted \in BOOLEAN /\ stop \in {"none", "planner", "outputs"}
  /\ commands \in Nat /\ tunes \in Nat /\ stops \in Nat
  /\ seen \in [Heaters -> SUBSET {"below", "above"}]
  /\ asked \in [Heaters -> {"nobody", "now", "before", "late", "stale"}]
  /\ coast \in [Heaters -> Nat]

\* Once printerEstop has returned every heater is off until the stop is cleared,
\* whatever the controller, the tuner and a command were in the middle of.
OffWhileStopped == halted /\ Free => \A h \in Heaters : ~pwm[h]

\* Heat for what was asked before a stop, with no stop in force: what is left of
\* the controller's integral keeps the output above the set value of zero, each
\* round takes something off it, and nothing adds to it.
Coasting(h) ==
  asked[h] = "before" /\ sv[h] = 0 /\ integral[h] > 0 /\ coast[h] + integral[h] <= Windup

\* After a stop and its clearing no heater comes on for what was asked before
\* the stop. There are four ways round it in the code: a command that had passed
\* its last look at the stop and waited for motion; a tuner that slept through
\* stop and clearing; up to the next reading, a controller that waited for
\* estop_mtx behind the call that cleared the stop; and, for as many rounds as it
\* had been wound up at most, a controller whose integral the stop did not reset.
ColdAfterStop ==
  \A h \in Heaters :
    pwm[h] /\ ~halted => asked[h] \in {"now", "late", "stale"} \/ tuner = h \/ Coasting(h)

\* While a heater is tuned, up to a stop, it is driven by what the tuner wrote
\* last, whatever is read and set, and when tuning is over, done or not, its
\* controller is in charge again with gains of one kind. The exception is a
\* controller that waited for estop_mtx when the tuning began: its old duty
\* stands, once, until the tuner next writes.
TunerOwnsHeater ==
  \A h \in Heaters :
    /\ tuner = h /\ ~tuning.leaving /\ ~halted /\ stops = tuning.since =>
         duty[h] = tuning.drive \/ tuning.behind = "wrote"
    /\ tuner # h => remains[h] = 0 /\ gains[h] # "partial"

\* M109 and M116 return, without a stop, only when every heater they wait for has
\* been read on both sides of its set value, or at it, since that was set.
WaitMeansReached ==
  [][cmd.at = "wait" /\ cmd'.at = "idle" /\ ~halted =>
       \A h \in Awaited : seen[h] = {"below", "above"}]_vars

\* A wait for temperatures comes to an end, whatever fails or tunes meanwhile,
\* unless a heater it waits for is off: zero degrees are never reached. A stop
\* that is called and cleared between two looks leaves such a wait behind, and
\* M116 with a cold heater is one.
WaitEnds == cmd.at = "wait" ~> cmd.at # "wait" \/ \E h \in Awaited : sv[h] = 0
=============================================================================
