------------------------------- MODULE Printer -------------------------------
(***************************************************************************)
(* The printer core (printer.c): its state, the sources that own it, the   *)
(* two command mailboxes, the command pool, the printer thread that        *)
(* executes commands, and the emergency stop; with the threads that feed   *)
(* it: data-host (datahost.c), data-storage (datastorage.c) and the user   *)
(* interface (ui/viewmodel/common).                                        *)
(*                                                                         *)
(* A step is what a thread does between two points where the code lets     *)
(* another one run or reads what another one writes.  Threads are          *)
(* interleaved freely, whatever their priorities.  What a command does to  *)
(* the machine, the messages and the print clock are left out: a command   *)
(* is what printer.c tells apart and who waits for its acknowledgement.    *)
(***************************************************************************)
EXTENDS Integers, Sequences, FiniteSets

CONSTANTS
  BufferSize,   \* COMMAND_BUFFER_SIZE, 4 in printer.h
  Clients,      \* the threads that feed the printer
  MaxEstops     \* bound: emergency stops in a behaviour

ASSUME BufferAssumption == BufferSize \in Nat \ {0}
ASSUME ClientsAssumption == Clients \subseteq {"host", "storage", "ui"}
ASSUME EstopsAssumption == MaxEstops \in Nat

PoolSize == BufferSize * 2 + 3          \* TOTAL_COMMAND_BUFFER_SIZE
AckSize == BufferSize + 1               \* length of ack_mbox_buffer

None == "None"
Sources == {"Storage", "Host", "Lcd"}
Threads == Clients \cup {"printer"}
Nobody == "nobody"

\* What printer.c tells apart, and who is told when the command is done. Sync
\* commands move, change the mode or wait; Set commands do not.
Kinds == {"Sync", "Set", "Interrupt", "Resume"}
Command(kind, ack) == [kind |-> kind, ack |-> ack]
Commands == [kind : Kinds, ack : {"host", "storage", None}]
NoCommand == Command("Sync", None)

VARIABLES
  state,      \* the printer's state
  main, alt,  \* main_source, alt_source
  box,        \* the mailboxes: box["main"], box["alt"]
  free,       \* commands left in the pool
  cur,        \* curr_command
  reads,      \* the mailbox the printer thread fetches from
  mtx,        \* owner of estop_mtx
  pc,         \* where each thread is
  push,       \* push[c]: the source, command and mailbox of c's printerPushCommand
  acks,       \* acks[c]: commands in the ack_mbox of host and storage
  busy,       \* commands the host waits for
  reading,    \* the storage thread's line is not 0
  eof,        \* the open file has been read to its end
  start,      \* STORAGE_START is pending
  page,       \* the menu page the user is at
  stops,      \* emergency stops called for so far
  halted,     \* plannerEstop was called after the last plannerEstopClear
  dropped     \* commands chMBReset has taken out of circulation

ownerVars == <<state, main, alt>>
storageVars == <<reading, eof, start>>
vars == <<ownerVars, box, free, cur, reads, mtx, pc, push, acks, busy, storageVars,
          page, stops, halted, dropped>>

NoPush == [source |-> None, command |-> NoCommand, to |-> "main"]

Init ==
  /\ state = "Standby" /\ main = None /\ alt = None
  /\ box = [b \in {"main", "alt"} |-> <<>>]
  /\ free = PoolSize
  /\ cur = NoCommand
  /\ reads = "main"
  /\ mtx = Nobody
  /\ pc = [t \in Threads |-> IF t = "printer" THEN "fetch" ELSE "idle"]
  /\ push = [c \in Clients |-> NoPush]
  /\ acks = [c \in {"host", "storage"} |-> 0]
  /\ busy = 0
  /\ reading = FALSE /\ eof = FALSE /\ start = FALSE
  /\ page = "menu"
  /\ stops = 0 /\ halted = FALSE /\ dropped = 0

Goto(t, where) == pc' = [pc EXCEPT ![t] = where]

\* A thread is about to call printerEstop.
CallEstop(t) == stops < MaxEstops /\ stops' = stops + 1 /\ Goto(t, "estop")

-----------------------------------------------------------------------------
(* Ownership: printerTryAcquire, printerRelease, printerSetStateI *)

\* Who owns the printer after s has tried to acquire it ...
AcquireFrom == {"Standby", "Interrupted"}    \* mutant of AcquirableIn
AcquirableIn == {"Standby"}
TryAcquire(s) ==
  LET taken == state \in AcquirableIn
      manual == state \in {"Interrupting", "Interrupted"}
  IN  /\ state' = IF taken THEN "Printing" ELSE state
      /\ main' = IF taken THEN s ELSE main
      /\ alt' = IF main' # s /\ manual /\ alt = None THEN s ELSE alt

\* ... and whether it was told that it does.
Acquired(s) == main' = s \/ (alt' = s /\ state' \in {"Interrupting", "Interrupted"})

Release(s) ==
  /\ main' = IF main = s THEN None ELSE main
  /\ state' = IF main = s /\ state = "Printing" THEN "Standby" ELSE state
  /\ alt' = IF main # s /\ alt = s THEN None ELSE alt

\* printerSetStateI: an emergency stop is final, and a print without an owner is
\* none; it is the state before the change that is tested.
NextStateUnguarded(new) == IF state = "Printing" /\ main = None THEN "Standby" ELSE new \* mutant
NextState(new) ==
  CASE state = "Estopped" -> "Estopped"
    [] state = "Printing" /\ main = None -> "Standby"
    [] OTHER -> new

-----------------------------------------------------------------------------
(* printerPushCommand *)

\* printerAllocateCommand comes first: wait for a command of the pool.
StartPush(c, source, command) ==
  /\ Goto(c, "alloc")
  /\ push' = [push EXCEPT ![c] = [source |-> source, command |-> command, to |-> "main"]]

\* The mailbox for a command of a source. The state and the sources are read
\* without the lock.
Route(source) ==
  IF (state # "Interrupted" \/ source = main) /\ source # alt THEN "main" ELSE "alt"

Allocate(c) ==
  /\ pc[c] = "alloc"
  /\ free > 0
  /\ free' = free - 1
  /\ push' = [push EXCEPT ![c].to = Route(push[c].source)]
  /\ Goto(c, "post")
  /\ UNCHANGED <<ownerVars, box, cur, reads, mtx, acks, busy, storageVars, page,
                 halted, dropped, stops>>

\* chMBPost, and the wait for room in the mailbox.
Post(c) ==
  /\ pc[c] \in {"post", "full"}
  /\ IF Len(box[push[c].to]) < BufferSize
       THEN /\ box' = [box EXCEPT ![push[c].to] = Append(@, push[c].command)]
            /\ push' = [push EXCEPT ![c] = NoPush]
            /\ Goto(c, "idle")
       ELSE /\ pc[c] = "post"
            /\ Goto(c, "full")
            /\ UNCHANGED <<box, push, stops>>
  /\ UNCHANGED <<ownerVars, free, cur, reads, mtx, acks, busy, storageVars, page,
                 halted, dropped, stops>>

-----------------------------------------------------------------------------
(* printerEstop and printerEstopClear, by any thread *)

\* M112 or a bad line from the host, the menu's emergency stop and, at any time,
\* those of the debug shell and the autotuner.
EstopCall(c) ==
  /\ pc[c] = "idle"
  /\ CallEstop(c)
  /\ UNCHANGED <<ownerVars, box, free, cur, reads, mtx, push, acks, busy, storageVars,
                 page, halted, dropped>>

\* Under estop_mtx: the state first ...
EstopBegin(t) ==
  /\ pc[t] = "estop"
  /\ mtx = Nobody
  /\ mtx' = t
  /\ state' = NextState("Estopped")
  /\ Goto(t, "stopping")
  /\ UNCHANGED <<main, alt, box, free, cur, reads, push, acks, busy, storageVars,
                 page, halted, dropped, stops>>

\* ... then the sources, the planner, the heaters and the outputs ...
EstopMachine(t) ==
  /\ pc[t] = "stopping"
  /\ main' = None /\ alt' = None
  /\ halted' = TRUE
  /\ Goto(t, "resetMain")
  /\ UNCHANGED <<state, box, free, cur, reads, mtx, push, acks, busy, storageVars,
                 page, dropped, stops>>

\* The clients chMBReset wakes: their chMBPost fails and nobody looks at that.
Waiting(b) == {c \in Clients : pc[c] = "full" /\ push[c].to = b}

\* ... then chMBReset on the two mailboxes; what is in them is not freed.
EstopReset(t, b) ==
  /\ pc[t] = IF b = "main" THEN "resetMain" ELSE "resetAlt"
  /\ box' = [box EXCEPT ![b] = <<>>]
  /\ dropped' = dropped + Len(box[b]) + Cardinality(Waiting(b))
  /\ push' = [c \in Clients |-> IF c \in Waiting(b) THEN NoPush ELSE push[c]]
  /\ pc' = [u \in Threads |->
              IF u \in Waiting(b) THEN "idle"
              ELSE IF u # t THEN pc[u]
              ELSE IF b = "main" THEN "resetAlt"
              ELSE IF t = "printer" THEN "mark" ELSE "idle"]
  /\ mtx' = IF b = "alt" THEN Nobody ELSE mtx
  /\ UNCHANGED <<ownerVars, free, cur, reads, acks, busy, storageVars, page, halted,
                 stops>>

Estop(t) ==
  EstopBegin(t) \/ EstopMachine(t) \/ EstopReset(t, "main") \/ EstopReset(t, "alt")

\* printerEstopClear, for M999 or G28 of the host, M999 in a file and from the menu.
\* Nothing of it shows before the state changes.
EstopClear(c) ==
  /\ pc[c] = IF c = "storage" THEN "line" ELSE "idle"
  /\ mtx = Nobody
  /\ state = "Estopped"
  /\ state' = "Standby"
  /\ halted' = FALSE
  /\ Goto(c, "idle")
  /\ UNCHANGED <<main, alt, box, free, cur, reads, mtx, push, acks, busy, storageVars,
                 page, dropped, stops>>

-----------------------------------------------------------------------------
(* threadPrinter *)

\* The loop starts with the choice of a mailbox, and again after each timeout.
ChosenBoxEarly == IF state \in {"Interrupting", "Interrupted"} THEN "alt" ELSE "main" \* mutant
ChosenBox == IF state = "Interrupted" THEN "alt" ELSE "main"

FetchTimeout ==
  /\ pc["printer"] = "fetch"
  /\ box[reads] = <<>>
  /\ reads # ChosenBox
  /\ reads' = ChosenBox
  /\ UNCHANGED <<ownerVars, box, free, cur, mtx, pc, push, acks, busy, storageVars,
                 page, halted, dropped, stops>>

Fetch ==
  /\ pc["printer"] = "fetch"
  /\ box[reads] # <<>>
  /\ cur' = Head(box[reads])
  /\ box' = [box EXCEPT ![reads] = Tail(@)]
  /\ Goto("printer", "check")
  /\ UNCHANGED <<ownerVars, free, reads, mtx, push, acks, busy, storageVars, page,
                 halted, dropped, stops>>

\* printerIsEstopped waits for an emergency stop in progress.
Check ==
  /\ pc["printer"] = "check"
  /\ mtx = Nobody
  /\ Goto("printer", IF state = "Estopped" THEN "free" ELSE "dispatch")
  /\ UNCHANGED <<ownerVars, box, free, cur, reads, mtx, push, acks, busy, storageVars,
                 page, halted, dropped, stops>>

\* printer_dispatch takes its time; homing may end in an emergency stop.
Dispatch ==
  /\ pc["printer"] = "dispatch"
  /\ \/ Goto("printer", "mark") /\ UNCHANGED stops
     \/ cur.kind = "Sync" /\ CallEstop("printer")
  /\ UNCHANGED <<ownerVars, box, free, cur, reads, mtx, push, acks, busy, storageVars,
                 page, halted, dropped>>

\* printerSetState after a command that interrupts or resumes
Mark ==
  /\ pc["printer"] = "mark"
  /\ state' = CASE cur.kind = "Interrupt" -> NextState("Interrupted")
                [] cur.kind = "Resume"    -> NextState("Printing")
                [] OTHER                  -> state
  /\ Goto("printer", "free")
  /\ UNCHANGED <<main, alt, box, free, cur, reads, mtx, push, acks, busy, storageVars,
                 page, halted, dropped, stops>>

\* printer_free_current_command: the one who waits for the command frees it.
FreeAlways == TRUE     \* mutant: freed here and by who waits
FreeHere == cur.ack = None
AcknowledgeHasty ==    \* mutant: posted with TIME_IMMEDIATE
  acks' = [acks EXCEPT ![cur.ack] = IF @ < AckSize THEN @ + 1 ELSE @]
Acknowledge == acks[cur.ack] < AckSize /\ acks' = [acks EXCEPT ![cur.ack] = @ + 1]
FreeCurrent ==
  /\ pc["printer"] = "free"
  /\ IF cur.ack = None THEN UNCHANGED acks ELSE Acknowledge
  /\ free' = IF FreeHere THEN free + 1 ELSE free
  /\ cur' = NoCommand
  /\ reads' = ChosenBox
  /\ Goto("printer", "fetch")
  /\ UNCHANGED <<ownerVars, box, mtx, push, busy, storageVars, page, halted, dropped,
                 stops>>

PrinterThread == FetchTimeout \/ Fetch \/ Check \/ Dispatch \/ Mark \/ FreeCurrent

-----------------------------------------------------------------------------
(* threadDataHost *)

\* A line with a sync command: refused while the host waits for another, or if
\* the printer is not to be had. (G28 is this after an EstopClear.)
HostSync ==
  /\ pc["host"] = "idle"
  /\ busy = 0
  /\ TryAcquire("Host")
  /\ IF Acquired("Host")
       THEN /\ busy' = busy + 1
            /\ StartPush("host", "Host", Command("Sync", "host"))
       ELSE UNCHANGED <<busy, pc, push>>
  /\ UNCHANGED <<box, free, cur, reads, mtx, acks, storageVars, page, halted, dropped,
                 stops>>

\* A line with a command that is no sync action (temperatures, fans, multipliers)
\* is pushed for no source and asks for nothing.
HostSet ==
  /\ pc["host"] = "idle"
  /\ busy' = busy + 1
  /\ StartPush("host", None, Command("Set", "host"))
  /\ UNCHANGED <<ownerVars, box, free, cur, reads, mtx, acks, storageVars, page, halted,
                 dropped, stops>>

\* The ack event: everything in ack_mbox is answered and freed.
HostDrain ==
  /\ pc["host"] = "idle"
  /\ acks["host"] > 0
  /\ free' = free + acks["host"]
  /\ busy' = busy - acks["host"]
  /\ acks' = [acks EXCEPT !["host"] = 0]
  /\ UNCHANGED <<ownerVars, box, cur, reads, mtx, pc, push, storageVars, page, halted,
                 dropped, stops>>

\* A new connection, or IDLE_INTERVAL after the last acknowledgement.
HostRelease ==
  /\ pc["host"] = "idle"
  /\ Release("Host")
  /\ UNCHANGED <<box, free, cur, reads, mtx, pc, push, acks, busy, storageVars, page,
                 halted, dropped, stops>>

Host == HostSync \/ HostSet \/ HostDrain \/ HostRelease

-----------------------------------------------------------------------------
(* threadDataStorage *)

\* Each round answers and frees what is in ack_mbox, if there is something to do, ...
StorageDrain ==
  /\ pc["storage"] = "idle"
  /\ acks["storage"] > 0 \/ start \/ reading
  /\ free' = free + acks["storage"]
  /\ acks' = [acks EXCEPT !["storage"] = 0]
  /\ Goto("storage", "start")
  /\ UNCHANGED <<ownerVars, box, cur, reads, mtx, push, busy, storageVars, page, halted,
                 dropped, stops>>

\* ... then STORAGE_START is looked at ...
StorageStart ==
  /\ pc["storage"] = "start"
  /\ start' = FALSE
  /\ IF start THEN TryAcquire("Storage") /\ reading' = (reading \/ Acquired("Storage"))
              ELSE UNCHANGED <<ownerVars, reading>>
  /\ Goto("storage", IF reading' THEN "check" ELSE "idle")
  /\ UNCHANGED <<box, free, cur, reads, mtx, push, acks, busy, eof, page, halted, dropped,
                 stops>>

\* ... then a line is read, but in an emergency stop ...
StorageCheck ==
  /\ pc["storage"] = "check"
  /\ mtx = Nobody
  /\ reading' = (state # "Estopped")
  /\ Goto("storage", IF state = "Estopped" THEN "idle" ELSE "line")
  /\ UNCHANGED <<ownerVars, box, free, cur, reads, mtx, push, acks, busy, eof, start, page,
                 halted, dropped, stops>>

\* ... and goes on to the end of a line, of the file, or of the print. At the end
\* of the file the printer is released, and line stays what it is.
StorageLine ==
  /\ pc["storage"] = "line"
  /\ \/ ~eof /\ StartPush("storage", "Storage", Command("Sync", "storage"))
             /\ UNCHANGED <<ownerVars, eof, stops>>
     \/ ~eof /\ CallEstop("storage") /\ UNCHANGED <<ownerVars, push, eof>>
     \/ ~eof /\ Goto("storage", "idle") /\ UNCHANGED <<ownerVars, push, eof, stops>>
     \/ Release("Storage") /\ eof' = TRUE /\ Goto("storage", "idle")
                           /\ UNCHANGED <<push, stops>>
  /\ UNCHANGED <<box, free, cur, reads, mtx, acks, busy, reading, start, page, halted,
                 dropped>>

Storage == StorageDrain \/ StorageStart \/ StorageCheck \/ StorageLine

-----------------------------------------------------------------------------
(* The menus *)

\* A file is chosen: dataStorageSelect opens it in Standby only.
UiPrint ==
  /\ pc["ui"] = "idle" /\ page = "menu"
  /\ IF state = "Standby" THEN eof' = FALSE /\ UNCHANGED <<pc, stops>>
                          ELSE CallEstop("ui") /\ UNCHANGED eof
  /\ start' = TRUE
  /\ UNCHANGED <<ownerVars, box, free, cur, reads, mtx, push, acks, busy, reading,
                 page, halted, dropped>>

\* An item of the main menu is chosen; whether it is shown depends on the state,
\* and the state may have changed when its action is taken.
UiChoose ==
  /\ pc["ui"] = "idle" /\ page = "menu"
  /\ \/ state = "Printing" /\ Goto("ui", "interrupt")
     \/ state = "Interrupted" /\ Goto("ui", "resume")
     \/ state \in {"Standby", "Interrupted"} /\ Goto("ui", "prepare")
  /\ UNCHANGED <<ownerVars, box, free, cur, reads, mtx, push, acks, busy, storageVars,
                 page, halted, dropped, stops>>

\* printerInterrupt
UiInterrupt ==
  /\ pc["ui"] = "interrupt"
  /\ IF state \in {"Printing", "Standby"} /\ main # "Lcd"
       THEN /\ state' = "Interrupting" /\ alt' = None
            /\ StartPush("ui", main, Command("Interrupt", None))
       ELSE /\ Goto("ui", "idle")
            /\ UNCHANGED <<state, alt, push>>
  /\ UNCHANGED <<main, box, free, cur, reads, mtx, acks, busy, storageVars, page,
                 halted, dropped, stops>>

\* printerResume
UiResume ==
  /\ pc["ui"] = "resume"
  /\ IF state = "Interrupted" /\ alt \in {"Lcd", None}
       THEN StartPush("ui", None, Command("Resume", None))
       ELSE Goto("ui", "idle") /\ UNCHANGED push
  /\ UNCHANGED <<ownerVars, box, free, cur, reads, mtx, acks, busy, storageVars, page,
                 halted, dropped, stops>>

\* The prepare page is entered by who gets the printer, and released on the way back.
UiPrepare ==
  /\ pc["ui"] = "prepare"
  /\ TryAcquire("Lcd")
  /\ page' = IF Acquired("Lcd") THEN "prepare" ELSE "menu"
  /\ Goto("ui", "idle")
  /\ UNCHANGED <<box, free, cur, reads, mtx, push, acks, busy, storageVars, halted,
                 dropped, stops>>

UiHome ==
  /\ pc["ui"] = "idle" /\ page = "prepare"
  /\ StartPush("ui", "Lcd", Command("Sync", None))
  /\ UNCHANGED <<ownerVars, box, free, cur, reads, mtx, acks, busy, storageVars, page,
                 halted, dropped, stops>>

UiBack ==
  /\ pc["ui"] = "idle" /\ page = "prepare"
  /\ page' = "menu"
  /\ Release("Lcd")
  /\ UNCHANGED <<box, free, cur, reads, mtx, pc, push, acks, busy, storageVars, halted,
                 dropped, stops>>

\* An emergency stop takes the user off the page, the first time it happens.
UiThrownOut ==
  /\ pc["ui"] = "idle" /\ page = "prepare" /\ mtx = Nobody /\ state = "Estopped"
  /\ page' = "menu"
  /\ UNCHANGED <<ownerVars, box, free, cur, reads, mtx, pc, push, acks, busy,
                 storageVars, halted, dropped, stops>>

Ui == \/ "storage" \in Clients /\ UiPrint
      \/ UiChoose \/ UiInterrupt \/ UiResume
      \/ UiPrepare \/ UiHome \/ UiBack \/ UiThrownOut

-----------------------------------------------------------------------------
Next ==
  \/ PrinterThread
  \/ "host" \in Clients /\ Host
  \/ "storage" \in Clients /\ Storage
  \/ "ui" \in Clients /\ Ui
  \/ \E c \in Clients : Allocate(c) \/ Post(c) \/ EstopClear(c)
  \/ \E c \in Clients \ {"storage"} : EstopCall(c)
  \/ \E t \in Threads : Estop(t)

\* ChibiOS runs every thread that is ready, and queues those that wait for a
\* mutex, a mailbox or the pool first come, first served. What comes from
\* outside (lines, files, the user) need not come.
Fairness ==
  /\ WF_vars(PrinterThread)
  /\ WF_vars(\E t \in Threads : Estop(t))
  /\ \A c \in Clients : SF_vars(Allocate(c) \/ Post(c))
  /\ "host" \in Clients => WF_vars(HostDrain)
  /\ "storage" \in Clients => WF_vars(Storage)

Spec == Init /\ [][Next]_vars
FairSpec == Spec /\ Fairness

-----------------------------------------------------------------------------
\* Every variable has its type: in particular, the host never counts below zero
\* the commands it waits for, and no mailbox holds more than its buffer
\* (printer.c:22, datahost.c:234).
TypeOK ==
  /\ state \in {"Standby", "Printing", "Interrupting", "Interrupted", "Estopped"}
  /\ main \in Sources \cup {None} /\ alt \in Sources \cup {None}
  /\ \A b \in {"main", "alt"} : box[b] \in Seq(Commands) /\ Len(box[b]) <= BufferSize
  /\ free \in 0..PoolSize /\ dropped \in 0..PoolSize
  /\ cur \in Commands
  /\ reads \in {"main", "alt"}
  /\ mtx \in Threads \cup {Nobody}
  /\ pc["printer"] \in {"fetch", "check", "dispatch", "mark", "free",
                        "estop", "stopping", "resetMain", "resetAlt"}
  /\ \A c \in Clients :
       /\ pc[c] \in {"idle", "alloc", "post", "full", "start", "check", "line",
                     "interrupt", "resume", "prepare",
                     "estop", "stopping", "resetMain", "resetAlt"}
       /\ push[c] \in [source : Sources \cup {None}, command : Commands, to : {"main", "alt"}]
  /\ \A c \in {"host", "storage"} : acks[c] \in 0..AckSize
  /\ busy \in 0..(PoolSize + 1)
  /\ page \in {"menu", "prepare"}
  /\ stops \in 0..MaxEstops
  /\ {reading, eof, start, halted} \subseteq BOOLEAN

\* The commands in use: in execution, held by a client, in a mailbox.
InExecution == IF pc["printer"] = "fetch" THEN 0 ELSE 1
Held == Cardinality({c \in Clients : pc[c] \in {"post", "full"}})
InBoxes == Len(box["main"]) + Len(box["alt"])
Unanswered == acks["host"] + acks["storage"]

\* A command leaves the pool once and comes back once, unless an emergency stop
\* resets the mailbox it is in (printer.c:76, 248, 286, 398; datahost.c:232).
PoolConserved == free + InExecution + Held + InBoxes + Unanswered + dropped = PoolSize

\* A client waits for a command of the pool or for room in a mailbox.
WaitsForRoom(c) ==
  /\ c \in Clients
  /\ \/ pc[c] = "alloc" /\ free = 0
     \/ pc[c] = "full" /\ Len(box[push[c].to]) = BufferSize

\* The printer thread waits for room in the ack_mbox of a client that waits itself
\* for what only the printer thread can free (printer.c:80, 249, 291).
MutualWait(c) ==
  pc["printer"] = "free" /\ cur.ack = c /\ acks[c] = AckSize /\ WaitsForRoom(c)

\* An emergency stop stays in force until a printerEstopClear: no command that
\* ends, source that comes or goes, or menu undoes it, and it is cleared
\* between two calls of printerEstop only (printer.c:311, 429).
StopIsFinal ==
  [][state = "Estopped" /\ state' # "Estopped" =>
       halted /\ ~halted' /\ mtx = Nobody /\ mtx' = Nobody]_vars

\* The printer is never taken from the source that owns it: the owner gives it up
\* or is stopped first (printer.c:211).
OwnerKept == [][main # None /\ main' # main => main' = None]_vars

\* The interrupt command went, or is to go, to the mailbox nobody reads.
InterruptParked ==
  \/ \E i \in 1..Len(box["alt"]) : box["alt"][i].kind = "Interrupt"
  \/ push["ui"].command.kind = "Interrupt" /\ push["ui"].to = "alt"

\* An interrupt takes effect, unless its command waits in the mailbox that is
\* only read once the printer is interrupted (printer.c:255, 115, 290), or the
\* printer and a client that does not take its acknowledgements wait for each other.
InterruptTaken ==
  state = "Interrupting" ~>
    (\/ state # "Interrupting"
     \/ InterruptParked
     \/ \E c \in {"host", "storage"} : MutualWait(c))

\* With the same exception, the host is answered again and again while it waits
\* for commands (datahost.c:228), unless the printer stays interrupted until the user
\* resumes, commands are parked in the mailbox of the interrupting source, or an
\* emergency stop dropped one.
HostServed ==
  <>[](/\ busy > 0 /\ ~MutualWait("host")
       /\ state # "Interrupted" /\ box["alt"] = <<>> /\ dropped = 0)
    => []<><<busy' < busy>>_busy

\* A host that sends one command at a time, as "busy. Please enable ping-pong."
\* asks for (datahost.c:140), gets its answer.
PingPongAnswered == [](busy <= 1) => (busy > 0 ~> busy = 0)

\* Between two calls of printerEstop the printer is stopped exactly if the
\* planner is: "EStop" and "Estop clear" (datahost.c:95, 104).
EstopShown == mtx = Nobody => (halted <=> state = "Estopped")

=============================================================================
