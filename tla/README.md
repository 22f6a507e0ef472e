# RAD firmware: specifications, model checking and proofs

RAD (`src/rad/src`) is the firmware of a 3D printer controller, written in C on
the ChibiOS/RT kernel. This directory holds TLA+ modules that model its core,
TLC configurations that check them on small instances, and theorems about them
checked by TLAPS. Paths below are relative to `src/rad/src`.

Vendored or generated code is out of scope: LUFA, the board files under
`radboards/`, `rad/format`, `rad/httpmmap`, fonts. The kernel is external; what
is used of it is modelled from the way the firmware uses it (mutexes with
priority inheritance, counting semaphores and their reset, mailboxes and their
reset, fixed priorities with preemption and no time slices).

## 1. Inventory

| component | files | state | operations | talks to | modules |
|---|---|---|---|---|---|
| planner queue | `planner_queue.c`, `planner.c` | ring of blocks, `q_rdptr`, `q_wrptr`, `q_counter`, `q_pending`, `q_sem` | reserve, add, commit, interrupt-commit, fetch | called by printer thread, homing, whoever stops; fetched by the stepper | `PlannerQueue`, `BlockQueue` |
| look-ahead | `planner_queue.c` | per block: exit speed, cached maximum and flags, trapezoid | `plannerQueueRecalculate` | runs unlocked beside the stepper | `LookAhead` |
| stepper | `stepper.c` | active block, estop flag, residues, positions, velocities, joint limits | fetch, distribute steps, velocity profile, stop, reset, set home | planner queue, endstops, homing | `Stepper`, `Homing` |
| printer core | `printer.c` | state, main and alternate source, two mailboxes, command pool, `estop_mtx` | acquire, release, push, interrupt, resume, estop, clear | every thread | `Printer` |
| host link | `data/datahost.c` | busy count, last line number, acknowledgement mailbox | lines, acknowledgements, release | decoder, printer core | `HostLink`, `Printer` |
| storage print | `data/datastorage.c` | line number, acknowledgement mailbox | start, lines, end of file | printer core, storage | `Printer` |
| homing | `command/homing.h` | stage of each joint, joints left | search, back off, latch, set home | planner, stepper's joint state | `Homing` |
| endstops | `endstop.c` | - | poll every 500 us | stepper's joint limits | `Homing` |
| dispatch, moves | `command/*.h` | modes | wait for motion, wait for and set temperatures, move | planner, temperature | `Thermal`, `Homing`, in part |
| temperature, autotune | `temperature*.{c,h}` | per sensor value, target, controller state | conversion round, control, tune | outputs, printer state | `Thermal` |
| outputs | `output.c` | duty cycles | set, all zero | printer state | `Thermal` |
| G-code decoder | `gcode.c` | decoded command | filter, decode | host link, storage | `Gcode`, in part |
| user interface | `ui.c`, `ui/` | page, menu | choose an item, act | printer core, storage | `Printer`, in part |
| storage, power, beeper, input, shell | `storage/`, `power.c`, `beeper.c`, `input*.c`, `raddebug.c` | small | - | - | the shell's calls only |

Threads, by priority: stepper (NORMALPRIO+32), endstop (+24), input (+1);
printer, data-host, temperature, beeper and shell (NORMALPRIO); user interface
(-2); data-storage (-20).

What is hard here, and what makes each part correct:

* *Planner queue.* A comment says that its functions are for one thread only,
  and they are called by every thread that can stop the machine. The stop resets
  a semaphore that others wait for (`planner_queue.c:124`). Right is: a bounded
  FIFO, no block overwritten, no motion while stopped, nobody blocked for ever.
* *Look-ahead.* The pass holds no lock and works with cached flags, beside a
  thread that consumes what it works on. Right is: corners respected, the plan
  executed as planned, a stop before the end of the queue.
* *Stepper.* Residues, steps and speeds survive from block to block, in storage
  that kinds of blocks share (`stepper.c:71`). Right is: no step lost or doubled,
  every channel on the straight line.
* *Printer core.* Ownership, state and mailboxes change in several threads,
  mailboxes are chosen without a lock, and some calls block inside critical
  sections, which the kernel then opens. The emergency stop changes the state,
  the sources, the planner and the mailboxes one after the other. Right is: no
  command lost or doubled, the owner keeps the printer, a stop is final.
* *Homing* learns from flags it polls every 50 ms what two faster threads have
  done to the joints. Right is: a homed joint is where it says, switches are
  respected, every homing ends.
* *Heaters* are driven by a controller, a tuner and commands that work out a duty
  before they know whether the machine has been stopped. Right is: off while
  stopped, cold after it, a wait that ends and means what it says.
* *Host link.* Numbers, repetitions and answers cross a line that loses things.
  Right is: lines in order and once, and all of them in the end.

`PROJECT.json` lists these hazards at their lines, with the properties that
cover them and, where none does, why.

## 2. Modules

| module | what it is |
|---|---|
| `BlockQueue` | what the queue promises: a bounded FIFO published in batches, which an emergency stop replaces by one Estop block |
| `Segments` | when a move of k segments runs the look-ahead pass |
| `PlannerQueue` | the ring, its callers (one program counter each), the stepper's fetching |
| `LookAhead` | the speeds: both passes, the trapezoid, the stepper's execution |
| `Stepper` | from blocks to pulses, and the storage the kinds of blocks share |
| `Printer` | printer core with the printer thread, host, storage and menu threads |
| `Homing` | G28 on the printer thread, the endstop thread and the stepper's velocity blocks |
| `Thermal` | heaters: conversions, controller, tuner, commands, emergency stop |
| `Gcode` | what `gcodeDecode` makes of the words of a line (operators only) |
| `HostLink` | a sender, a line that loses, `process_new_line` and the printer behind it |
| `...Proofs` | the theorems about the module they are named after; those about `Gcode` are in `HostLinkProofs` |
| `HomingMotionProofs` | the theorems about `Homing` that need the machine's dimensions: where the joints are taken |
| `MC...` | constants for TLC |

`PlannerQueue` and `LookAhead` share `Segments`; `HostLink` extends `Gcode`.
`Printer` sees the planner as something that is stopped or not; `Homing` and
`Stepper` see it as a short sequence of blocks, which is what the refinement of
`BlockQueue` allows.

### PlannerQueue

Every caller steps through `reserve -> (blocked) -> slot -> fill -> add ->
commit -> done`, or `interrupt` for an Estop; each step is what happens between
two points where another thread can run. `plannerQueueReserveBlock` is two
steps, because a thread woken from `chSemWait` reads `q_wrptr` only when it runs
again. `CanRun` is the scheduler: a caller steps only if no ready caller
outranks it, with the priority the owner of `estop_mtx` inherits. The stepper
outranks all, fetches and reacts in one step under the system lock. A slot is
the mode of its block. `halted` is `PRINTERSTATE_Estopped`; G0/G1 and G92 start
only if it is false, homing and the shell's velocity blocks do not ask.

The refinement: `Abstract == INSTANCE BlockQueue` takes the committed and the
pending part of the ring as two sequences. It holds with one calling thread.

### LookAhead

Speeds are squared and distances are `2 * acc * distance`, which makes
`v^2 - u^2 = 2as` a sum of integers; values are even so that the half way point
of a trapezoid is an integer. A block moves one axis in one direction, so the
corner speed of two blocks is 0 (another axis), the slower nominal speed (same
direction) or the own nominal speed (reversal: the compared duration is negative
and limits nothing). The pass is one step per block, backwards then forwards,
and the stepper may fetch between any two. Rounding to steps and ticks is left
out. What a planner cannot reckon with is recorded in `trouble`: a fetch in the
middle of a pass (`torn`), a move whose end no pass follows (`skipped`), a
positional block fetched out of a velocity block (`aliased`, `stepper.c:71`), a
block entered faster than its own speed (`overspeed`).

### Stepper

A tick of the timer is two steps, as in the thread: in phase 0 it fetches
(`StartPositional`, `StartVelocity`, `FetchEstop`, `FetchEstopClear`,
`FetchReset`, or the two `Drop`s while stopped) or goes on (`GoOnPositional`,
`GoOnVelocity`, the latter with `stepper_velocity_profile` every `ProfilePeriod`
ticks), in phase 1 it gives the pulses (`Pulse`). `current` is the residue of
the line algorithm with its half-step start, `stepMax` and `spent` its counters.
Positions are in steps and targets in grains of a step, so that truncation is
there. `words` is the union in `StepperStepState`: each word remembers what it
was last written as, and `last_block_speed` is the word of the second joint's
velocity. `from`, `ended` and `aliased` are history. The index of an extruder is
used for a joint's flags at `stepper.c:348`; the model does the same.

### Printer

A step is what a thread does between two points where the code lets another
one run or reads what another one writes; threads are interleaved freely. A
command is one of four kinds (sync, set, interrupt, resume) and the thread that
waits for its acknowledgement. `printerPushCommand` is three steps: allocate
(and choose the mailbox), post, wait for room. The emergency stop is four: the
state, the sources and the planner, the two mailboxes. The menus check what is
shown in one step (`UiChoose`) and act in another. `halted` is history: the
planner was stopped after it was last cleared. `dropped` counts the commands that
`chMBReset` throws away.

`STORAGE_STOP` is left out, nothing sends it. Storage lines that decode to
nothing, messages and the print clock are left out.

### Homing

A tick is one pass of `stepper_velocity_profile`, 1/256 s: joints gain or lose
one unit of speed and move by their speed. `EndstopPoll` (every 500 us in the
code) has always happened before the next tick; a switch is a function of where
the carriage is, and of its wiring: good, open, stuck, or the two plugs swapped.
`FetchVelocity`, `FetchOther`, `TickVelocity`, `TickPositional`, `TickIdle` are
the stepper. Homing gives every extruder the velocity zero, and the stepper then
clears `stopped` of the joint with the extruder's number (`stepper.c:348`):
`Unflagged`, with `NumExtruders`. The printer thread runs `SequenceBegin` (the top of the loop over
sequences), `Push` (`plannerSetJointVelocity`, waits for room), `Check` (the
loop's condition), `Snapshot` (`stepperGetJointsState` after the sleep) and one
`Handle...` per stage for one joint after the other: the pass works on a snapshot
while the machine goes on. `printerEstop` inside it does not return from
`actionHoming`; it does only where the code says `return`. `StopCall` and
`StopClear` are others who stop and clear at any moment. `Pace` is how many
ticks a positional block takes for a unit, so that a move may be still under way
when homing begins; `MoveBegin` keeps its target between the switches.

Histories: `overlap` (this homing began while a move was under way or before the
switches had been polled), `unsure` (joints not homed anew since such a homing)
and `missed` (a stop was cleared while homing ran).

### Thermal

Threads of one priority and no time slice: a step reaches to the next sleep, wait
for `estop_mtx` or unlocking. The temperature thread is `AdcStart`, the two
callbacks `AdcEnd` and `AdcError`, and `PidStep` for each heater; a duty above
zero needs `estop_mtx` (`printerIsEstopped` in `outputSetI`), so the controller
may wait there with the duty it has worked out (`pending`, `PidResume`), behind
whoever came first: a call that clears the stop, or the start of a tuning. The
tuner (`TuneBegin`, `TuneCool`, `TuneHeat`, `TuneWait`, `TuneFail`, `TuneLeave`)
runs in the shell's thread beside it and puts back what it saved. Commands look
at the stop once (`CommandBegin`), wait for motion, set (`CommandSet`) and wait
(`CommandDone`); the shell's `temp` sets without a look (`ShellTemp`). The stop is
three steps, with `estop_mtx` held: state, temperatures, outputs.

Temperatures are levels. A duty is nothing, `Low`, at which a heater may warm or
cool, or `Full`. The controller's output is chosen (`Duties`) within what its
proportional and integral parts allow. `integral` is `i_error`: each round adds the
difference to the set value and limits the sum (`Wound`; `Windup` stands for
`limit / Ki`), and a stop leaves it as it is, so that above the set value the output may
still be `Low` until it is used up. Left out are the derivative part, which shifts an
output and is taken to weigh less than a level's difference in the other two, and
machines whose `Ki` is zero. The tuner drives nothing in its first cooling
phase and `(bias - d) / 2` in later ones, which may be more than nothing.

`seen` (on which sides of its set value a heater was read), `asked` (who asked for
heat, before or after the last stop), `coast` (rounds heated since for what was
asked before) and `tuning.behind` (a controller waited when the tuning began, or
has written since) are history.

### Gcode and HostLink

A line is its M words and G words in their order and the set of its other
letters. `gcodeDecode` folds over them as the code does; `Meaningful` and
`DecodesAsMeant` say the same without an order. Values of `cmd.code` are those of
`gcode_definition.h`. No word needs a P: the decoder's test for one never fails
(section 4). A line that is refused keeps what was decoded before the error
(`Refused`), because the host looks at its code: an M110 in it is taken out of turn.

`HostLink` has three parties. The *sender* is any program that obeys the answers
(`Send`, `Timeout`, `ReceiveAnswer`): an `ok` moves its base, `rs` sets it, and
silence makes it start again from its base. The *line* loses lines and answers or
is reconnected. The *host thread* takes a line in the order of
`process_new_line`: wrong number (`Resend`, `Repeated`), no meaning (`BadLine`,
which stops the machine), no action (`HostLine`), refused (`PleasePingPong`,
`NotAcquired`), pushed (`CommandLine`, `Push`); and drains its acknowledgements
(`HostDrain`, `HostRelease`). The *printer* fetches and acknowledges; others stop
it, clear it and print. A stop resets the mailboxes: a host that waits for room in
one goes on and its command is lost, one that has not come so far posts after the
reset. Histories: `log`, `told`, `dropped`, `doubted` (an `ok`
that was not the one answer to one line), `renumbered` (an M110 out of turn),
`scolded`.

## 3. Runs

| run | bounds | shows |
|---|---|---|
| `QueueOne` | 5 slots, pass every 3 segments, moves of 1, 2, 4 segments, one caller with all operations but resets | refinement of `BlockQueue`, no overwrite, no motion while halted, commits, progress |
| `QueueTwo` | 4 slots, pass every 2, moves of 1 and 4 segments; printer thread and user interface | units bounded |
| `QueueRdptr` | same | **violation**: a queued block is overwritten |
| `LookAhead` | 3 slots, pass every 2, moves of 1 or 3 segments of four kinds, one kind of trouble | corners, profiles, plan kept, stops in time |
| `PrinterStorage` | mailboxes of 1 (pool of 5), storage and menus, one emergency stop | pool, finality of the stop, ownership |
| `PrinterHost` | mailboxes of 1, host and menus, no stop | interrupt taken, host served |
| `Homing` | two joints, a stroke of 6, room for 2 blocks, 2 homings, 1 move, 1 stop, four wirings, one sequence or two, polls 3 ticks apart | homes accurate, switches respected, sequences apart, no stop without a reason, homing ends |
| `Thermal` | one heater, three levels, an integral of at most 2, targets off and hot, three of: commands, one tuning of 3 cycles, stops | off while stopped, cold after it, one driver, waits mean something and end |
| `HostLink` | nine programs of up to 3 lines, windows 1 and 2, room for 2 on the way, mailboxes of 2, 2 losses, 1 stop, 1 print by others; the decoder on all lines of up to two M or G words with seven sets of letters | order, once, ping-pong suffices, decoder, all lines get through |
| `Stepper` | 2 joints and an extruder, 2 grains a step, room for 2 blocks, 4 blocks, 6 ticks at a velocity | on the line, types and residues, one reading of the shared words |
| `PrinterEstop` | mailboxes of 1, host and menus, one stop | **violation**: a stop that does not register |
| `PrinterPingPong` | mailboxes of 1, host alone | **violation**: a command nobody answers |

`Homing` and `Thermal` take about two minutes (eight hundred thousand states, with
liveness), `HostLink` and `Stepper` about one or less, the others less.

Why the bounds are enough:

* *Queue.* 5 slots with a pass every 3 segments have the full ring, the wrap, a
  move longer than the ring and the skipped commit (a move of 2 segments: as 11
  of 12), which are the cases of 50 and 12.
* *LookAhead.* Three blocks are a first, a middle and a last one, and the moves
  include one too short to reach its speed, a slow one, a reversal and a second
  axis. The constraint `OneTrouble` stops a behaviour after a second kind of
  disturbance; most properties say nothing after the first, and
  `CornerRespected`, which does, is proved without it.
* *Printer.* A mailbox of one command has full, empty and waiting senders, and
  the pool keeps the formula of the code, 2n + 3.
* *Homing.* One joint latches by hitting its min switch again, the other by
  leaving its max switch fast enough to overshoot. They start between the
  switches, on them and on the wrong one. Two homings and a move in between, the
  second homing for both or for one, are what a stale flag needs. The travel
  limits have the ratio of the code to the stroke, and `TravelAssumption` says
  that a joint can stop within what homing lets it overrun. The clock stands
  still between commands and a sleep is of one length; a queue of two blocks
  makes homing wait for room.
* *Thermal.* With targets off and hot, three levels have a reading below, at and
  above the set value; above its target the tuner may find it too hot. Of commands,
  stops from outside and a tuning, three happen in a behaviour (`MaxOps`): a second
  command overtakes the first, beside a tuning or a stop; a stop and its clearing separate
  what was asked before from a command or a tuning that comes after, and a tuning
  may stop the machine besides. An integral of 2 is wound up in one round below the
  set value or in two, lets a heater coast for one round and is then used up. Of
  three cycles the second cooling phase may drive, and gains are computed from the
  second on.
* *HostLink.* A program is there for each thing `process_new_line` may do with a
  line: a move, a report, an immediate code with a tool word, a temperature, a
  line with no meaning, a stop, an M110 alone and with a move. Two losses are a
  lost line and a lost answer to its repetition, the least that tells a repeated
  line from a new one.
* *Stepper.* Targets lie on and off whole steps, forwards, backwards and at rest;
  velocities are given to some channels, all or none. Four blocks are two moves
  with a stop, a clearing, a reset or a velocity block in between.

Deadlock is not checked: in every run operations are bounded, and when they are
used up the machine may rest. Besides, the queue with uncommitted blocks may stop
for good (that is `Unfetchable`), and printer and host can really wait for each
other (that is `MutualWait`).

### Properties and their exceptions

An exception in a property is behaviour of the code, and stands for a defect or a
limit of it (section 4), not for a limit of the model.

* `BlockedProceeds` and `EstopTakesEffect` except `Unfetchable`: all that is
  queued is uncommitted.
* `EstopTakesEffect` is checked with one caller, as the comment at `planner.c:62`
  asks. With the two callers of `MCPlannerQueue` (`TwoCallers`) TLC refutes it: a
  thread of low priority writes its Estop block at `q_wrptr`, the printer thread
  runs before it is committed, reserves the same slot and writes a move over it,
  and `plannerQueueInterruptCommit` then commits the move. The printer is stopped
  and the stepper goes on. The hazard is listed at `planner.c:329`.
* With one caller a stop falls between two moves, never into one: what
  `NoMotionWhileHalted` says is that whatever moves, velocity blocks and resets were
  queued before, none of them runs after it. The segments of a move that keep being
  queued after a stop by another thread (`planner.c:133`) are outside it.
* `KeepsPlan`, `ProfileCurrent`, `StopsBeforeTheEnd` hold while `trouble = {}`.
* `InterruptTaken` excepts an interrupt command that was parked in the alternate
  mailbox and the mutual wait of printer and client.
* `HostServed` says: if from some time on the host waits, no mutual wait, no
  interruption and no dropped or parked command stands in the way, answers keep
  coming.
* `HomedAccurate` and `SwitchRespected` speak of joints that are not `unsure`,
  `OneSequenceMoves` of homings without `overlap`, `NoSpuriousStop` of machines
  with good wiring and neither; `HomingEnds` excepts `missed`: the stepper dropped
  the block whose end homing waits for, and nobody tells it.
* `ColdAfterStop` lets a heater be on after a stop for what was asked since, and
  names the four ways round it: a command that had passed its last look at the
  stop (`late`); a controller that waited for `estop_mtx` behind the call that
  cleared the stop (`stale`, until the next reading); a tuner that slept through;
  and a controller whose integral the stop did not reset (`Coasting`: the set value
  is zero, and rounds heated and integral left are together no more than the
  integral can be).
* `TunerOwnsHeater` excepts a controller that waited for `estop_mtx` when the tuning
  began (`behind`): the duty it had worked out replaces the tuner's zero, until
  the tuner next writes.
* `WaitEnds` excepts a heater that is off: zero degrees are never reached.
* `ReceivedInOrder` excepts a repeated M110, and of the lines whose number was
  taken those that were refused (`told`) or that a stop threw away.
* `PingPongSuffices` excepts `doubted` and `renumbered`; `AllReceived` these, if
  the sender believes it is done, and a host that waits for what nobody answers
  (`Unanswerable`).
* `DecodedAsMeant` is about the decoder alone, which keeps nothing from line to
  line, and is evaluated in the states where nothing has been sent.
* `OneReading` excepts `aliased`. The shell's velocity commands lead there. G-code
  does only by way of a homing that overlapped a move, which may return while a
  joint runs (section 4); any other homing returns when its joints rest.

### Fairness

* `PlannerQueue`: weak fairness of the stepper's fetch, of the end of a positional
  block (a finite number of steps) and of each caller's progress, because the
  kernel runs the highest ready thread and nobody spins. A velocity block may run
  for ever.
* `Printer`: weak fairness of the printer thread, of an emergency stop in progress
  and of the threads that answer, because all wake up by events or timeouts;
  strong fairness of a client that waits for the pool or a mailbox, because the
  kernel queues waiters first come, first served. Nothing is asked of the
  outside: lines, files and the user need not come. Host and printer thread have
  the same priority and no time slice, and both block in every round.
* `Homing`: weak fairness of the endstop thread, of the stepper and of the printer
  thread's homing. The first two outrank the third and sleep between their
  periods. Stops, clearings and further commands need not come.
* `Thermal`: weak fairness of every thread's next step and of heaters following
  their outputs; strong fairness of `AdcEnd`, since conversions may fail but not
  for ever. Commands, stops, clearings and tunings need not come.
* `HostLink`: weak fairness of the sender, the host and the printer. Losses are
  bounded by `MaxLosses`, which says that the line works in the end.

## 4. Findings

Shown by a run that ends in a violation:

1. *Overwritten block* (`planner_queue.c:124`, run `QueueRdptr`). A printer
   thread that has reserved a slot, or waits for one, survives the reset of the
   semaphore by an emergency stop with a unit the reset has given out again. A
   second stop or clear and the ring holds one block too many.
2. *Emergency stop not registered* (`printer.c:319`, run `PrinterEstop`).
   `printerSetStateI` replaces Estopped by Standby when the print has no owner,
   which a resume after a release brings about.
3. *Command never answered* (`printer.c:290`, run `PrinterPingPong`). A command
   for no source, with no alternate source, goes to the alternate mailbox.

Met while modelling, and built into the models as the code has it:

* *Homing during a move* (`command/dispatch.h:25`). `printer_wait_motion` waits
  until no committed block is left, while the last one is still in execution. A
  homing that follows finds `stopped` flags of an earlier homing set, because a
  positional block does not touch them, and takes them for the end of its own
  search (`homing.h:112`). It then sends the search velocity again to a joint that
  has met its switch in the meantime, which drives the joint past it; it sets
  home at an old limit step (`homing.h:164`, `homing.h:183`); it begins the next sequence while
  joints still move; it may return while a joint runs. TLC finds each of them as
  soon as the exceptions `unsure` and `overlap` are dropped from the properties.
* *Homing after a stop it slept through* (`homing.h:94`) may go on for ever, as
  the blocks whose end it waits for are gone.
* *Queue cut short.* The comment at `planner_queue.c:181` says that the queue is
  never cut short. A fetch in the middle of a pass, or a move of 11, 23, ...
  segments, which no pass follows (`planner.c:138`), may leave the stepper without
  blocks at speed. This is `trouble` in `LookAhead`; what holds in spite of it
  is `CornerRespected`.
* *A heater on after the stop*: the four ways named at `ColdAfterStop`. The one a
  user is likely to meet is the integral: `temperatureAllZero`
  (`temperature.c:73`) sets the targets to zero and leaves `i_error`, which only
  shrinks by the reading each round (`temperature_pid.h:193`). After M112 and M999 in
  a burst a hot controller heats on at a set value of zero, at a falling duty. A wait for
  a heater that a stop has switched off, when the stop is cleared between two
  looks, never ends (`dispatch.h:44`).
* *A tuning that begins behind a stop.* A call that clears the stop, `tune_temp` and
  the controller may queue for `estop_mtx` in that order; the controller then writes
  the duty from before over the zero of the tuner (`temperature_pid.h:80`).
* *Host link.* A line refused as busy keeps its number (`datahost.c:138`), so the
  sender cannot send it again. A tool word in an immediate code (M105 T0) makes
  two `ok`s, after which a sender is one answer ahead and may lose its last lines.
  A repeated line gets an `ok` with no number. An M110 with axis words is executed
  again when it is repeated. Commands a stop drops are never answered, `busy`
  never returns to zero, and sync commands are refused from then on. A line
  number goes through a float (`gcode.c:78`), exact up to 2^24.
* *Decoder.* It refuses a G4 or G10 whose P is not a number (`gcode.c:233`,
  `gcode.c:238`), but P is an integer, -1 where the line has none (`gcode.c:62`), so
  the test never fails: such lines are accepted, and a G4 alone sleeps for -1
  milliseconds (`dispatch.h:145`). The same test at `dispatch.h:156` leaves a fan
  speed without a P to fan -1 instead of the tool's own. `DecodedAsMeant` takes
  these lines as the decoder does. The test for two power words compares `cmd->power`, which is never
  set (`gcode.c:131`). M109 and M190 without an S word, which the decoder provides
  for (`gcode.c:157`), are rejected after all (`gcode.c:211`). The code is kept in 16
  bits (`gcode_definition.h:84`), so M55536 and G65536 set none, and a second code
  behind one is accepted; such words are outside the model (`LinesAssumption`).
* *Stepper.* Flags of joints are indexed with the number of an extruder
  (`stepper.c:348`), so a velocity for an extruder clears `stopped` of a joint.
  A slow-down point below zero would be undefined at `stepper.c:397`, where it is
  made unsigned; `LookAheadProofs` shows that none arises.

## 5. Proofs

Every theorem holds for all values of the constants that satisfy the named
assumptions of the module it is about. TLC evaluates those assumptions in the
runs.

**`PlannerQueueProofs`**, for every `Size >= 3`, set of callers, priorities,
operations and segment counts (`SizeAssumption`, `CallersAssumption`,
`OpsAssumption`, `RecalcAssumption`, `SegmentsAssumption`):

* `TypeCorrect`: `Spec => []TypeOK`, inductive as it stands, one step per action.
* `PointersAlwaysAgree`: `Spec => []PointersAgree`. Inductive with the types,
  by arithmetic modulo `Size` (`ModSucc`, `ModAdd`). It holds with any number of
  callers: an overwritten block is not a lost pointer.
* `UnitsAlwaysBounded`: `Spec => []UnitsBounded`. Not inductive alone: that a
  woken waiter counts as a holder needs that whoever is in the semaphore's queue
  is at `blocked`, once (`WaitersBlocked`). The upper bound follows because a
  reset can turn at most every other caller into a holder with no unit.
* `OneCallerNeverOverwrites`: with one caller, `Spec => []NoOverwrite`. The
  strengthening is `SlotCurrent`, the slot in hand is the write pointer, and
  that units never exceed the slots; the ring then has a free place at the write
  pointer (`ModDistinct`).

In the same module, with one caller (`OneCaller`):

* `OneCallerImplementsQueue`: `Spec => ImplementsBlockQueue`. The ring's two parts are
  mapped to sequences, every action to a step of `BlockQueue` or a stutter. The
  argument needs that the caller's block is in its slot once written
  (`HandedOver`), the room that the semaphore's units promise, and how a step of a
  pointer modulo `Size` changes a sequence read off the ring.
* `OneCallerCommits`: what a caller leaves uncommitted is the tail of a move that
  no pass followed.
* `OneCallerStops`: `NoMotionWhileHalted`. The strengthening is `StoppedSafely`:
  once the Estop block is committed, the stepper's flag is set or the Estop block
  is the first that it will fetch, and the only Estop_Clear is the last block
  queued, by a caller that has not returned yet.

**`LookAheadProofs`**, for every set of moves and ring size. The invariant `LIInv`
says of every block in the ring that its speeds and its trapezoid are of a kind
(`Types`), that its maximum exit speed respects the corner behind it, also for
the block in execution (`Corners`, `RunCorner`), and which blocks a pass has given
a profile (`Profiles`).

* `CornersStayRespected`: with fetches between any two steps of a pass.
* `ProfiledBlocksRun`: a pass extends what is committed by just the blocks it has
  given a profile.
* `TypeCorrect`; in it that the slow-down point is within the block. This needs
  `Paced`: although a block may be fetched with an exit speed that the forward pass
  would have lowered, the blocks behind it could still brake from there, and the
  next reverse pass gives them speeds at least as high (`Braking`). `Counts`
  relates the position of the pass, what is committed and what was fetched.
* `ProfilesStayCurrent` (`ProfileCurrent`), `PlansAreKept` (`KeepsPlan`),
  `NoEndInMotion` (`StopsBeforeTheEnd`) and `OverspeedReverses`
  (`OverspeedOnlyOnReversal`), all as long as nothing disturbed the planner; a fetch
  in the middle of a pass is such a disturbance. The invariant is `Smooth`. Between
  passes the committed blocks are `Settled`: their exit speeds solve the equations
  of the two passes (`Back`, `Front`), and each has the trapezoid of its entry and
  exit speed. A pass decides by comparing exit speeds only. It is right to keep a
  profile because a block that the reverse pass leaves alone leaves at its corner
  speed, which no plan exceeds, so the old solution and the new one agree for all
  blocks before it: `Reversing` and `Forwarding` state this for every position of the
  pass, with the old solution, the new one and how far they agree (`Agree`).
  `Running` is the same for the block in execution, `NextCorner` for the last exit
  speed. From the trapezoid of two such speeds the stepper ends at the exit speed
  (`TrapezoidEnds`).

**`StepperProofs`**. The invariant holds the types of the queue (`QueueType`), the
kind each shared word was last written as, and the equation of the line algorithm
(`Line`): residue = ticks done * steps - pulses * longest channel - half the
longest channel, in every phase.

* `TypeCorrect`, with the range of the residues.
* `StaysOnTheLine`: that range is the distance from the line, and at the last tick
  it leaves no pulse missing.
* `ReadsWhatWasWritten`: by cases of which blocks follow each other.

**`PrinterProofs`**, for every pool, mailbox size, set of jobs and host commands:

* `TypeCorrect`. The host's `busy` never wraps, because it counts commands that
  exist (`HostOwed`), which needs the names under which commands are pushed
  (`PushNames`).
* `PoolStaysConserved`: the pool is what is free, in a mailbox, held by a thread
  (the cardinality of the set of holders) and dropped; each action moves one
  command from one place to another, and a stop what it drops.
* `StopStaysFinal` and `OwnerStays`, action properties, from: who is in a section
  under `estop_mtx` owns it (`Sections`), a printer that shows the stop is stopped
  or being stopped (`Stopping`), and one that is to be had is nobody's
  (`Ownerless`).

**`ThermalProofs`**, for all heaters, levels, targets and counts:

* `TypeCorrect`. `finishing_count` stays above zero while a round converts, a
  tuned heater's `tuning_cycle_remains` above zero (`CountersAbove`).
* `StoppedIsOff`: whoever drives a heater above zero holds or has just had
  `estop_mtx`. `OneDriver` (`TunerOwnsHeater`): a heater with cycles left is the
  tuner's, and until a stop its duty is what the tuner wrote, or what the one
  controller wrote that waited when the tuning began (`TuningKept`).
  `StopIsCold` (`ColdAfterStop`): a heater that is on was asked for, by the rules of
  `asked`; what was asked before the last stop has the set value zero
  (`SetByAsking`), and then no round adds to the integral, and one in which the
  controller heats takes something off it (`Unwinding`).
  `WaitIsReached`: `target_reached_at` is set only when a reading has crossed the
  set value, so both sides have been seen.

**`HomingProofs`**: `TypeCorrect`. The unsigned count of joints left to home
(`Counted`) is the number of joints whose stage is not done, which each step of a
pass keeps, and the pass always finds a next joint (`AfterExists`); velocities are
numbers once in the active block. `SequencesApart` (`OneSequenceMoves`): only the
joints of the sequence under way move. A joint whose stage is not one that drives
it (`Calm`, `Resting`) has no speed, neither now nor in a block still queued; one
that the pass has seen at rest and not looked at yet is still at rest, and no
block sent since concerns it (`StillStopped`); no move is in the queue while
joints home, unless homing began over one (`NoMove`).

**`HomingMotionProofs`**, for every number of joints, sequences, directions and
speeds of homing, strokes, wirings, tick counts and orders of the three threads:

* `SwitchesStop` (`SwitchRespected`): a joint driven by homing into a switch that
  works passes it by no more than it takes to stop from its search speed.
* `HomesAccurately` (`HomedAccurate`): after homing the counter of a joint is right
  to less than the distance of one tick at latch speed.
* `StopsForAReason` (`NoSpuriousStop`): homing stops the printer by itself only for a
  switch that does not work, a stop from outside that it slept through, or a
  joint an earlier homing left in doubt (`unsure`). That a joint with a working
  switch would ever use up the distance it is allowed is excluded.

They assume of the machine (`HomeAssumption`, `MachineAssumption`) that a joint has
a speed other than zero for the search and for the latch (`homing.h:61` passes over
the others, which the model leaves out), that the latch speed is not the greater,
that the switch it homes to is fitted, and that it stops from its search speed within
its stroke; and of the inputs that carriages start within the stroke. The last one
also needs `TravelAssumption`, room to slow down beyond the stroke in what the
search may travel, and `LatchAssumption`, that a joint stops from its search speed
within half of what it may travel about its switch (`homing.h:143`).

The invariant comes in layers, each of which a step keeps with the help of those
below it. `Base`: speeds are those homing asks for, a move and a homing do not
mix unless `overlap` says so, and a joint that homing is not driving, or has just seen
stopped, is at rest with its limits as its switches are. `Poised`: a block finds its
joint at rest and its limits reset, and drives it towards its switch only if the
switch was open; so at most one block asks something of a joint. `Bounded`: twice the
distance past the switch plus `v * (v - 1)`, what is left to brake from the
present speed, stays below what it is from the search speed; `Inside`: other moves end
within the stroke. `Legs` and `Found`: the speeds possible in each stage, and that a
joint past the search has met its own switch, and not the other one wired in its
place. `Latching`: until the last leg meets the edge of the switch the joint is before
it (`Crossing`), from the poll on it is at most one tick's way past it and the step
was taken there (`Crossed`), and braking does not bring it back over the edge.
`StepSeen` carries that step into the pass that reads it, for a joint that has turned
round at the edge since its block was fetched (`Turned`; `stopped` cannot say so, an
extruder's velocity clears it), and `Registered` into the counter.

For the third theorem the invariant is `Reasoned`, which adds `Purposeful`. Homing stops
the printer (`HandleStops`) when it finds a joint at rest on a leg with its switches
not as that leg should leave them, or a joint that has covered more than it is
allowed. The first needs that a joint asked to move moves until its switch is seen
to change (`Drives`; `RestsCrossed`): the stepper takes its block as it is
(`Cleared`), the block does not ask it to rest (`NoZero`), and a search that begins
at the wrong end of the stroke knows the switch there (`SearchSide`). The second
needs how far a joint gets on either side of its switch (`Bounded`, `OutwardSet`,
`Lower`) and where it was when homing began to count its way (`Trip`): the way
counted is then shorter than the one allowed (`TravelShort`).

**`HostLinkProofs`**, for every program, window, room and bound on losses:

* `TypeCorrect`: with it the equation of `busy` (`Counted`).
* `LinesInOrder`: what is pushed is increasing and below the last number taken
  (`Ordered`), and what is between is pushing, pushed or told.
* `PingPongEnough`: with a window of one and no answer in doubt (`Alone`), either
  the host has not taken the line and owes nothing, or it has, and one command or
  answer at most is under way (`Turn`).
* `DecodesEveryLine` (`DecodedAsMeant`): for lines of any number of words, in any order,
  whose codes fit the 16 bits the decoder keeps them in (`LinesAssumption`).
  `Meaningful` asks for no P, as the decoder in fact asks for none.
  `MWordIs` and `GWordIs` say what one word does to a command that was right so far,
  `MDecoded` and `GDecoded` carry it along the line, counting the words of each
  group; `LineDecoded` compares the counts with `Meaningful`. A fold of the community
  modules is a function on sets of positions that is chosen by its equation; that
  one exists (`FoldExists`) and every induction over the words rest on
  `UpTo`, induction on a set of numbers, so no operator is passed to a theorem.

*Model-checked only.* Liveness, and whatever needs fairness: `BlockedProceeds`,
`EstopTakesEffect`, `InterruptTaken`, `HostServed`, `HomingEnds`, `WaitEnds`,
`AllReceived`. Every invariant and every action property the runs check is also
a theorem.

## 6. Not modelled

* *Kinematics, numeric helpers, coordinates of a move* (`kinematics.c`,
  `radmath.c`, `command/move.h`): floating-point formulas without state. Their
  results are the moves and targets of the models. The same holds for the
  derivative part of the controllers, the gains the tuner computes, the thermistor
  tables and simulated sensors.
* *Modes and fans in dispatch*: assignments of one thread, read by the same. The
  shell's `out` (`raddebug.c:213`) hands a user's index and duty to `outputSet`: it
  drives an output past everything the models speak of, and `outputSet` lets the
  first index out of range through (`output.c:71`).
* *Character filter, number parsing and the line buffer*: strings, which TLC does
  not handle well and no other part depends on.
* *Storage and file system*: mounting and buffered reads over FatFs; a file is seen
  as lines and an end. USB mass storage with it.
* *Beeper, power supply*: a queue of one tune, a flag under a mutex.
* *Input devices*: levels of pins that reach the menus as events; the menus take
  any event at any time.
* *Display, localization, navigation between pages*: layout.
* *Board support, machine definition, start-up*: constants, which are parameters of
  the models, and the order of initialisation.
* *Printing of messages, print time, periodic reports*: output only.
* *Composition of `Printer` with `PlannerQueue`, or of host and storage clients*:
  the product is out of TLC's reach. They meet in the emergency stop, which each
  models with the other's part of it as a step.
