---------------------------- MODULE PrinterProofs ----------------------------
(***************************************************************************)
(* Theorems about Printer, for every size of the mailboxes, set of threads *)
(* that feed the printer, and number of emergency stops.                   *)
(***************************************************************************)
EXTENDS Printer, FiniteSetTheorems, FunctionTheorems, TLAPS

-----------------------------------------------------------------------------
(* Types *)

Boxes == {"main", "alt"}
Acknowledged == {"host", "storage"}
InSection == {"stopping", "resetMain", "resetAlt"}
PrinterPlaces == {"fetch", "check", "dispatch", "mark", "free", "estop"} \cup InSection
ClientPlaces == {"idle", "alloc", "post", "full", "start", "check", "line",
                 "interrupt", "resume", "prepare", "estop"} \cup InSection
Pushes == [source : Sources \cup {None}, command : Commands, to : Boxes]

\* The types without the bounds that follow from the pool being conserved.
Types ==
  /\ state \in {"Standby", "Printing", "Interrupting", "Interrupted", "Estopped"}
  /\ main \in Sources \cup {None} /\ alt \in Sources \cup {None}
  /\ box \in [Boxes -> Seq(Commands)]
  /\ \A b \in Boxes : Len(box[b]) <= BufferSize
  /\ free \in Nat /\ dropped \in Nat /\ busy \in Int
  /\ cur \in Commands
  /\ reads \in Boxes
  /\ mtx \in Threads \cup {Nobody}
  /\ pc \in [Threads -> PrinterPlaces \cup ClientPlaces]
  /\ pc["printer"] \in PrinterPlaces
  /\ \A c \in Clients : pc[c] \in ClientPlaces
  /\ push \in [Clients -> Pushes]
  /\ acks \in [Acknowledged -> 0 .. AckSize]
  /\ page \in {"menu", "prepare"}
  /\ stops \in 0 .. MaxEstops
  /\ reading \in BOOLEAN /\ eof \in BOOLEAN /\ start \in BOOLEAN /\ halted \in BOOLEAN

LEMMA ClientsAreThreads ==
  /\ Clients \subseteq Threads /\ "printer" \in Threads /\ "printer" \notin Clients
  /\ Nobody \notin Threads
  /\ IsFiniteSet(Clients)
<1>1. IsFiniteSet({"host", "storage", "ui"})
  <2>1. IsFiniteSet({"host"})
    BY FS_Singleton
  <2>2. IsFiniteSet({"host"} \cup {"storage"})
    BY <2>1, FS_AddElement
  <2>3. IsFiniteSet(({"host"} \cup {"storage"}) \cup {"ui"})
    BY <2>2, FS_AddElement
  <2>4. {"host", "storage", "ui"} = ({"host"} \cup {"storage"}) \cup {"ui"}
    OBVIOUS
  <2> QED BY <2>3, <2>4
<1>2. IsFiniteSet(Clients)
  BY <1>1, ClientsAssumption, FS_Subset
<1> QED BY <1>2, ClientsAssumption DEF Threads, Nobody

LEMMA CommandsClosed ==
  /\ \A kind \in Kinds, ack \in Acknowledged \cup {None} : Command(kind, ack) \in Commands
  /\ NoCommand \in Commands
  /\ NoPush \in Pushes
BY DEF Command, Commands, Kinds, NoCommand, NoPush, Pushes, Acknowledged, Boxes

LEMMA InitTypes == Init => Types
<1> SUFFICES ASSUME Init PROVE Types
  OBVIOUS
<1> USE ClientsAreThreads, CommandsClosed, BufferAssumption, EstopsAssumption
    DEF Init, PrinterPlaces, ClientPlaces, Boxes, Acknowledged
<1>1. /\ pc \in [Threads -> PrinterPlaces \cup ClientPlaces]
      /\ pc["printer"] \in PrinterPlaces
      /\ \A c \in Clients : pc[c] \in ClientPlaces
  OBVIOUS
<1>2. /\ box \in [Boxes -> Seq(Commands)]
      /\ \A b \in Boxes : Len(box[b]) <= BufferSize
  OBVIOUS
<1>3. push \in [Clients -> Pushes]
  OBVIOUS
<1>4. acks \in [Acknowledged -> 0 .. AckSize] /\ free \in Nat
  BY DEF AckSize, PoolSize
<1>5. /\ main \in Sources \cup {None} /\ alt \in Sources \cup {None}
      /\ mtx \in Threads \cup {Nobody} /\ reads \in Boxes
      /\ stops \in 0 .. MaxEstops
  OBVIOUS
<1>6. /\ cur \in Commands /\ dropped \in Nat /\ busy \in Int
      /\ page \in {"menu", "prepare"} /\ state = "Standby"
  OBVIOUS
<1>7. reading \in BOOLEAN /\ eof \in BOOLEAN /\ start \in BOOLEAN /\ halted \in BOOLEAN
  OBVIOUS
<1> HIDE DEF Init, PrinterPlaces, ClientPlaces, Boxes, Acknowledged
<1> QED BY <1>1, <1>2, <1>3, <1>4, <1>5, <1>6, <1>7 DEF Types

\* Who owns the printer.
LEMMA OwnerTypes ==
  ASSUME Types, NEW s \in Sources, TryAcquire(s) \/ Release(s)
  PROVE  /\ state' \in {"Standby", "Printing", "Interrupting", "Interrupted", "Estopped"}
         /\ main' \in Sources \cup {None} /\ alt' \in Sources \cup {None}
BY DEF Types, TryAcquire, Release

LEMMA StartPushTypes ==
  ASSUME Types, NEW c \in Clients, NEW s \in Sources \cup {None}, NEW k \in Commands,
         StartPush(c, s, k)
  PROVE  /\ pc' \in [Threads -> PrinterPlaces \cup ClientPlaces]
         /\ pc'["printer"] \in PrinterPlaces
         /\ \A d \in Clients : pc'[d] \in ClientPlaces
         /\ push' \in [Clients -> Pushes]
BY ClientsAreThreads DEF Types, StartPush, Goto, Pushes, Boxes, ClientPlaces

LEMMA GotoTypes ==
  ASSUME Types, NEW t \in Threads, NEW w, Goto(t, w),
         w \in IF t = "printer" THEN PrinterPlaces ELSE ClientPlaces
  PROVE  /\ pc' \in [Threads -> PrinterPlaces \cup ClientPlaces]
         /\ pc'["printer"] \in PrinterPlaces
         /\ \A d \in Clients : pc'[d] \in ClientPlaces
BY ClientsAreThreads DEF Types, Goto

\* printerPushCommand and the emergency stop.
LEMMA PushTypes ==
  ASSUME Types, NEW c \in Clients, Allocate(c) \/ Post(c)
  PROVE  Types'
<1> USE ClientsAreThreads
<1>1. CASE Allocate(c)
  <2>1. Goto(c, "post") /\ "post" \in ClientPlaces
    BY <1>1 DEF Allocate, ClientPlaces
  <2>0. Route(push[c].source) \in Boxes
    BY DEF Route, Boxes
  <2>2. push' \in [Clients -> Pushes]
    <3>1. push[c] \in Pushes /\ push \in [Clients -> Pushes]
      BY DEF Types
    <3>2. [push[c] EXCEPT !.to = Route(push[c].source)] \in Pushes
      BY <2>0, <3>1 DEF Pushes
    <3>3. push' = [push EXCEPT ![c] = [push[c] EXCEPT !.to = Route(push[c].source)]]
      BY <1>1 DEF Allocate
    <3> QED BY <3>1, <3>2, <3>3
  <2>3. free' \in Nat
    BY <1>1 DEF Allocate, Types
  <2> QED BY <1>1, <2>1, <2>2, <2>3, GotoTypes DEF Allocate, Types, ownerVars, storageVars
<1>2. CASE Post(c)
  <2>1. PICK w \in {"idle", "full"} : Goto(c, w)
    BY <1>2 DEF Post
  <2>2. push' \in [Clients -> Pushes]
    BY <1>2, CommandsClosed DEF Post, Types
  <2>3. box' \in [Boxes -> Seq(Commands)] /\ \A b \in Boxes : Len(box'[b]) <= BufferSize
    <3>1. push[c].to \in Boxes /\ push[c].command \in Commands
      BY DEF Types, Pushes
    <3>2. box[push[c].to] \in Seq(Commands)
      BY <3>1 DEF Types
    <3>3. CASE Len(box[push[c].to]) < BufferSize
      <4>1. box' = [box EXCEPT ![push[c].to] = Append(box[push[c].to], push[c].command)]
        BY <1>2, <3>3 DEF Post
      <4>2. Append(box[push[c].to], push[c].command) \in Seq(Commands)
        BY <3>1, <3>2
      <4>3. Len(Append(box[push[c].to], push[c].command)) <= BufferSize
        BY <3>1, <3>2, <3>3, BufferAssumption
      <4> QED BY <3>1, <4>1, <4>2, <4>3 DEF Types
    <3>4. CASE UNCHANGED box
      BY <3>4 DEF Types
    <3> QED BY <1>2, <3>3, <3>4 DEF Post
  <2>4. w \in ClientPlaces
    BY DEF ClientPlaces
  <2> QED BY <1>2, <2>1, <2>2, <2>3, <2>4, GotoTypes DEF Post, Types, ownerVars, storageVars
<1> QED BY <1>1, <1>2

LEMMA CallTypes ==
  ASSUME Types, NEW t \in Threads, CallEstop(t)
  PROVE  /\ pc' \in [Threads -> PrinterPlaces \cup ClientPlaces]
         /\ pc'["printer"] \in PrinterPlaces
         /\ \A d \in Clients : pc'[d] \in ClientPlaces
         /\ stops' \in 0 .. MaxEstops
<1>1. Goto(t, "estop") /\ stops' \in 0 .. MaxEstops
  BY EstopsAssumption DEF CallEstop, Types
<1> QED BY <1>1, GotoTypes DEF PrinterPlaces, ClientPlaces

LEMMA WaitingClients ==
  ASSUME NEW b
  PROVE  Waiting(b) \subseteq Clients /\ "printer" \notin Waiting(b)
BY ClientsAreThreads DEF Waiting

LEMMA StopTypes ==
  ASSUME Types, NEW t \in Threads, Estop(t)
  PROVE  Types'
<1> USE ClientsAreThreads
<1>1. CASE EstopBegin(t)
  <2>1. Goto(t, "stopping") /\ "stopping" \in PrinterPlaces /\ "stopping" \in ClientPlaces
    BY <1>1 DEF EstopBegin, PrinterPlaces, ClientPlaces, InSection
  <2>2. state' \in {"Standby", "Printing", "Interrupting", "Interrupted", "Estopped"}
    BY <1>1 DEF EstopBegin, NextState
  <2> QED BY <1>1, <2>1, <2>2, GotoTypes DEF EstopBegin, Types, storageVars
<1>2. CASE EstopMachine(t)
  <2>1. Goto(t, "resetMain") /\ "resetMain" \in PrinterPlaces /\ "resetMain" \in ClientPlaces
    BY <1>2 DEF EstopMachine, PrinterPlaces, ClientPlaces, InSection
  <2> QED BY <1>2, <2>1, GotoTypes DEF EstopMachine, Types, storageVars
<1>3. ASSUME NEW b \in Boxes, EstopReset(t, b)
      PROVE  Types'
  <2>1. /\ pc' \in [Threads -> PrinterPlaces \cup ClientPlaces]
        /\ pc'["printer"] \in PrinterPlaces
        /\ \A c \in Clients : pc'[c] \in ClientPlaces
    BY <1>3, WaitingClients DEF EstopReset, Types, PrinterPlaces, ClientPlaces, InSection
  <2>2. push' \in [Clients -> Pushes]
    BY <1>3, CommandsClosed DEF EstopReset, Types
  <2>3. box' \in [Boxes -> Seq(Commands)] /\ \A c \in Boxes : Len(box'[c]) <= BufferSize
    BY <1>3, BufferAssumption DEF EstopReset, Types
  <2>4. Cardinality(Waiting(b)) \in Nat
    BY WaitingClients, FS_Subset, FS_CardinalityType
  <2>5. dropped' \in Nat /\ mtx' \in Threads \cup {Nobody}
    BY <1>3, <2>4 DEF EstopReset, Types
  <2> QED
    BY <1>3, <2>1, <2>2, <2>3, <2>5 DEF EstopReset, Types, ownerVars, storageVars
<1> QED BY <1>1, <1>2, <1>3 DEF Estop, Boxes

LEMMA ClearTypes ==
  ASSUME Types, NEW c \in Clients, EstopClear(c) \/ EstopCall(c)
  PROVE  Types'
<1> USE ClientsAreThreads
<1>1. CASE EstopClear(c)
  <2>1. Goto(c, "idle") /\ "idle" \in ClientPlaces
    BY <1>1 DEF EstopClear, ClientPlaces
  <2> QED BY <1>1, <2>1, GotoTypes DEF EstopClear, Types, storageVars
<1>2. CASE EstopCall(c)
  BY <1>2, CallTypes DEF EstopCall, Types, ownerVars, storageVars
<1> QED BY <1>1, <1>2

\* threadPrinter.
LEMMA PrinterTypes ==
  ASSUME Types, PrinterThread
  PROVE  Types'
<1> USE ClientsAreThreads
<1>1. CASE FetchTimeout
  BY <1>1 DEF FetchTimeout, ChosenBox, Boxes, Types, ownerVars, storageVars
<1>2. CASE Fetch
  <2>1. box' \in [Boxes -> Seq(Commands)] /\ cur' \in Commands
        /\ \A b \in Boxes : Len(box'[b]) <= BufferSize
    BY <1>2, BufferAssumption DEF Fetch, Types
  <2>2. Goto("printer", "check") /\ "check" \in PrinterPlaces
    BY <1>2 DEF Fetch, PrinterPlaces
  <2> QED BY <1>2, <2>1, <2>2, GotoTypes DEF Fetch, Types, ownerVars, storageVars
<1>3. CASE Check
  <2>1. PICK w \in {"free", "dispatch"} : Goto("printer", w)
    BY <1>3 DEF Check
  <2>2. w \in PrinterPlaces
    BY DEF PrinterPlaces
  <2> QED BY <1>3, <2>1, <2>2, GotoTypes DEF Check, Types, ownerVars, storageVars
<1>4. CASE Dispatch
  <2>1. /\ pc' \in [Threads -> PrinterPlaces \cup ClientPlaces]
        /\ pc'["printer"] \in PrinterPlaces
        /\ \A d \in Clients : pc'[d] \in ClientPlaces
        /\ stops' \in 0 .. MaxEstops
    <3>1. CASE Goto("printer", "mark") /\ UNCHANGED stops
      BY <3>1, GotoTypes DEF PrinterPlaces, Types
    <3>2. CASE CallEstop("printer")
      BY <3>2, CallTypes
    <3> QED BY <1>4, <3>1, <3>2 DEF Dispatch
  <2> QED BY <1>4, <2>1 DEF Dispatch, Types, ownerVars, storageVars
<1>5. CASE Mark
  <2>1. state' \in {"Standby", "Printing", "Interrupting", "Interrupted", "Estopped"}
    BY <1>5 DEF Mark, NextState, Types
  <2>2. Goto("printer", "free") /\ "free" \in PrinterPlaces
    BY <1>5 DEF Mark, PrinterPlaces
  <2> QED BY <1>5, <2>1, <2>2, GotoTypes DEF Mark, Types, storageVars
<1>6. CASE FreeCurrent
  <2>1. Goto("printer", "fetch") /\ "fetch" \in PrinterPlaces
    BY <1>6 DEF FreeCurrent, PrinterPlaces
  <2>2. acks' \in [Acknowledged -> 0 .. AckSize]
    BY <1>6, BufferAssumption DEF FreeCurrent, Acknowledge, Types, Commands, AckSize
  <2>3. free' \in Nat /\ cur' \in Commands /\ reads' \in Boxes
    BY <1>6, CommandsClosed DEF FreeCurrent, Types, ChosenBox, Boxes
  <2> QED BY <1>6, <2>1, <2>2, <2>3, GotoTypes DEF FreeCurrent, Types, ownerVars, storageVars
<1> QED BY <1>1, <1>2, <1>3, <1>4, <1>5, <1>6 DEF PrinterThread

\* threadDataHost.
LEMMA HostTypes ==
  ASSUME Types, "host" \in Clients, Host
  PROVE  Types'
<1> USE ClientsAreThreads
<1>0. /\ Command("Sync", "host") \in Commands /\ Command("Set", "host") \in Commands
      /\ "Host" \in Sources
  BY CommandsClosed DEF Kinds, Acknowledged, Sources
<1>1. CASE HostSync
  <2>1. CASE StartPush("host", "Host", Command("Sync", "host"))
    BY <1>0, <1>1, <2>1, OwnerTypes, StartPushTypes DEF HostSync, Types, storageVars
  <2>2. CASE UNCHANGED <<busy, pc, push>>
    BY <1>0, <1>1, <2>2, OwnerTypes DEF HostSync, Types, storageVars
  <2> QED BY <1>1, <2>1, <2>2 DEF HostSync
<1>2. CASE HostSet
  <2>1. StartPush("host", None, Command("Set", "host")) /\ None \in Sources \cup {None}
    BY <1>2 DEF HostSet
  <2>2. /\ pc' \in [Threads -> PrinterPlaces \cup ClientPlaces]
        /\ pc'["printer"] \in PrinterPlaces
        /\ \A d \in Clients : pc'[d] \in ClientPlaces
        /\ push' \in [Clients -> Pushes]
    BY <1>0, <2>1, StartPushTypes
  <2>3. busy' \in Int
    BY <1>2 DEF HostSet, Types
  <2> QED BY <1>2, <2>2, <2>3 DEF HostSet, Types, ownerVars, storageVars
<1>3. CASE HostDrain
  <2>1. /\ free' \in Nat /\ busy' \in Int
        /\ acks' \in [Acknowledged -> 0 .. AckSize]
    BY <1>3, BufferAssumption DEF HostDrain, Types, Acknowledged, AckSize
  <2> QED BY <1>3, <2>1 DEF HostDrain, Types, ownerVars, storageVars
<1>4. CASE HostRelease
  BY <1>0, <1>4, OwnerTypes DEF HostRelease, Types, storageVars
<1> QED BY <1>1, <1>2, <1>3, <1>4 DEF Host

\* threadDataStorage.
LEMMA StorageTypes ==
  ASSUME Types, "storage" \in Clients, Storage
  PROVE  Types'
<1> USE ClientsAreThreads
<1>0. Command("Sync", "storage") \in Commands /\ "Storage" \in Sources
  BY CommandsClosed DEF Kinds, Acknowledged, Sources
<1>1. CASE StorageDrain
  <2>1. Goto("storage", "start") /\ "start" \in ClientPlaces
    BY <1>1 DEF StorageDrain, ClientPlaces
  <2>2. free' \in Nat /\ acks' \in [Acknowledged -> 0 .. AckSize]
    BY <1>1, BufferAssumption DEF StorageDrain, Types, Acknowledged, AckSize
  <2> QED BY <1>1, <2>1, <2>2, GotoTypes DEF StorageDrain, Types, ownerVars, storageVars
<1>2. CASE StorageStart
  <2>1. PICK w \in {"check", "idle"} : Goto("storage", w)
    BY <1>2 DEF StorageStart
  <2>2. w \in ClientPlaces
    BY DEF ClientPlaces
  <2>3. CASE start
    <3>1. reading' \in BOOLEAN /\ start' \in BOOLEAN
      BY <1>2, <2>3 DEF StorageStart
    <3>2. TryAcquire("Storage")
      BY <1>2, <2>3 DEF StorageStart
    <3> QED BY <1>0, <1>2, <2>1, <2>2, <3>1, <3>2, OwnerTypes, GotoTypes DEF StorageStart, Types
  <2>4. CASE ~start
    BY <1>2, <2>1, <2>2, <2>4, GotoTypes DEF StorageStart, Types, ownerVars
  <2> QED BY <2>3, <2>4
<1>3. CASE StorageCheck
  <2>1. PICK w \in {"idle", "line"} : Goto("storage", w)
    BY <1>3 DEF StorageCheck
  <2>2. w \in ClientPlaces
    BY DEF ClientPlaces
  <2>3. reading' \in BOOLEAN
    BY <1>3 DEF StorageCheck
  <2> QED BY <1>3, <2>1, <2>2, <2>3, GotoTypes DEF StorageCheck, Types, ownerVars
<1>4. CASE StorageLine
  <2>0. "idle" \in ClientPlaces
    BY DEF ClientPlaces
  <2>1. CASE StartPush("storage", "Storage", Command("Sync", "storage"))
             /\ UNCHANGED <<ownerVars, eof, stops>>
    BY <1>0, <1>4, <2>1, StartPushTypes DEF StorageLine, Types, ownerVars
  <2>2. CASE CallEstop("storage") /\ UNCHANGED <<ownerVars, push, eof>>
    BY <1>4, <2>2, CallTypes DEF StorageLine, Types, ownerVars
  <2>3. CASE Goto("storage", "idle") /\ UNCHANGED <<ownerVars, push, eof, stops>>
    BY <1>4, <2>0, <2>3, GotoTypes DEF StorageLine, Types, ownerVars
  <2>4. CASE Release("Storage") /\ eof' = TRUE /\ Goto("storage", "idle") /\ UNCHANGED <<push, stops>>
    <3>1. eof' \in BOOLEAN
      BY <2>4
    <3> QED BY <1>0, <1>4, <2>0, <2>4, <3>1, OwnerTypes, GotoTypes DEF StorageLine, Types
  <2> QED BY <1>4, <2>1, <2>2, <2>3, <2>4 DEF StorageLine
<1> QED BY <1>1, <1>2, <1>3, <1>4 DEF Storage

\* The menus.
LEMMA UiTypes ==
  ASSUME Types, "ui" \in Clients, Ui
  PROVE  Types'
<1> USE ClientsAreThreads
<1>0. /\ "idle" \in ClientPlaces /\ "Lcd" \in Sources
      /\ Command("Interrupt", None) \in Commands /\ Command("Resume", None) \in Commands
      /\ Command("Sync", None) \in Commands
  BY CommandsClosed DEF ClientPlaces, Sources, Kinds
<1>1. CASE UiPrint
  <2>1. CASE eof' = FALSE /\ UNCHANGED <<pc, stops>>
    <3>1. eof' \in BOOLEAN /\ start' \in BOOLEAN
      BY <1>1, <2>1 DEF UiPrint
    <3> QED BY <1>1, <2>1, <3>1 DEF UiPrint, Types, ownerVars
  <2>2. CASE CallEstop("ui") /\ UNCHANGED eof
    <3>1. start' \in BOOLEAN
      BY <1>1 DEF UiPrint
    <3> QED BY <1>1, <2>2, <3>1, CallTypes DEF UiPrint, Types, ownerVars
  <2> QED BY <1>1, <2>1, <2>2 DEF UiPrint
<1>2. CASE UiChoose
  <2>1. PICK w \in {"interrupt", "resume", "prepare"} : Goto("ui", w)
    BY <1>2 DEF UiChoose
  <2>2. w \in ClientPlaces
    BY DEF ClientPlaces
  <2> QED BY <1>2, <2>1, <2>2, GotoTypes DEF UiChoose, Types, ownerVars, storageVars
<1>3. CASE UiInterrupt
  <2>1. CASE state' = "Interrupting" /\ alt' = None
             /\ StartPush("ui", main, Command("Interrupt", None))
    BY <1>0, <1>3, <2>1, StartPushTypes DEF UiInterrupt, Types, storageVars
  <2>2. CASE Goto("ui", "idle") /\ UNCHANGED <<state, alt, push>>
    BY <1>0, <1>3, <2>2, GotoTypes DEF UiInterrupt, Types, storageVars
  <2> QED BY <1>3, <2>1, <2>2 DEF UiInterrupt
<1>4. CASE UiResume
  <2>1. CASE StartPush("ui", None, Command("Resume", None))
    BY <1>0, <1>4, <2>1, StartPushTypes DEF UiResume, Types, ownerVars, storageVars
  <2>2. CASE Goto("ui", "idle") /\ UNCHANGED push
    BY <1>0, <1>4, <2>2, GotoTypes DEF UiResume, Types, ownerVars, storageVars
  <2> QED BY <1>4, <2>1, <2>2 DEF UiResume
<1>5. CASE UiPrepare
  BY <1>0, <1>5, OwnerTypes, GotoTypes DEF UiPrepare, Types, storageVars
<1>6. CASE UiHome
  BY <1>0, <1>6, StartPushTypes DEF UiHome, Types, ownerVars, storageVars
<1>7. CASE UiBack
  BY <1>0, <1>7, OwnerTypes DEF UiBack, Types, storageVars
<1>8. CASE UiThrownOut
  BY <1>8 DEF UiThrownOut, Types, ownerVars, storageVars
<1> QED BY <1>1, <1>2, <1>3, <1>4, <1>5, <1>6, <1>7, <1>8 DEF Ui

LEMMA NextTypes == Types /\ [Next]_vars => Types'
<1>1. ASSUME Types, UNCHANGED vars PROVE Types'
  BY <1>1 DEF Types, vars, ownerVars, storageVars
<1> QED
  BY <1>1, PrinterTypes, HostTypes, StorageTypes, UiTypes, PushTypes, ClearTypes, StopTypes DEF Next

-----------------------------------------------------------------------------
(* The emergency stop is final, and the owner keeps the printer *)

\* Who is inside printerEstop has estop_mtx, and nobody else has it.
Sections == \A t \in Threads : pc[t] \in InSection <=> mtx = t

\* A printer that is stopped has stopped its planner, or is about to.
Stopping == state = "Estopped" => halted \/ \E t \in Threads : pc[t] = "stopping"

\* A step of a thread that neither takes nor gives back estop_mtx.
LEMMA OutsideSections ==
  ASSUME Types, Sections, NEW t \in Threads, NEW w, Goto(t, w), UNCHANGED mtx,
         w \in InSection <=> pc[t] \in InSection
  PROVE  Sections'
BY DEF Types, Sections, Goto

LEMMA StopSections ==
  ASSUME Types, Sections, NEW t \in Threads, Estop(t)
  PROVE  Sections'
<1> USE ClientsAreThreads
<1>1. CASE EstopBegin(t)
  BY <1>1 DEF EstopBegin, Goto, Types, Sections, InSection
<1>2. CASE EstopMachine(t)
  BY <1>2 DEF EstopMachine, Goto, Types, Sections, InSection
<1>3. CASE EstopReset(t, "main")
  BY <1>3 DEF EstopReset, Waiting, Types, Sections, InSection
<1>4. CASE EstopReset(t, "alt")
  BY <1>4 DEF EstopReset, Waiting, Types, Sections, InSection
<1> QED BY <1>1, <1>2, <1>3, <1>4 DEF Estop

LEMMA ClientSections ==
  ASSUME Types, Sections, NEW c \in Clients,
         Allocate(c) \/ Post(c) \/ EstopClear(c) \/ EstopCall(c)
  PROVE  Sections'
<1>1. UNCHANGED mtx
  BY DEF Allocate, Post, EstopClear, EstopCall
<1>2. /\ pc[c] \notin InSection
      /\ \E w \in {"idle", "post", "full", "estop"} : Goto(c, w)
  BY DEF Allocate, Post, EstopClear, EstopCall, CallEstop, InSection
<1>3. PICK w \in {"idle", "post", "full", "estop"} : Goto(c, w)
  BY <1>2
<1>4. w \notin InSection
  BY DEF InSection
<1> QED BY <1>1, <1>2, <1>3, <1>4, OutsideSections, ClientsAreThreads

LEMMA PrinterSections ==
  ASSUME Types, Sections, PrinterThread
  PROVE  Sections'
<1>1. UNCHANGED mtx
  BY DEF PrinterThread, FetchTimeout, Fetch, Check, Dispatch, Mark, FreeCurrent
<1>2. CASE UNCHANGED pc
  BY <1>1, <1>2 DEF Sections
<1>3. CASE ~UNCHANGED pc
  <2>1. /\ pc["printer"] \notin InSection
        /\ \E w \in {"check", "free", "dispatch", "mark", "estop", "fetch"} : Goto("printer", w)
    BY <1>3 DEF PrinterThread, FetchTimeout, Fetch, Check, Dispatch, Mark, FreeCurrent, CallEstop,
      InSection
  <2>2. PICK w \in {"check", "free", "dispatch", "mark", "estop", "fetch"} : Goto("printer", w)
    BY <2>1
  <2>3. w \notin InSection
    BY DEF InSection
  <2> QED BY <1>1, <2>1, <2>2, <2>3, OutsideSections, ClientsAreThreads
<1> QED BY <1>2, <1>3

LEMMA FeederSections ==
  ASSUME Types, Sections,
         \/ "host" \in Clients /\ Host
         \/ "storage" \in Clients /\ Storage
         \/ "ui" \in Clients /\ Ui
  PROVE  Sections'
<1> DEFINE Left == {"idle", "alloc", "start", "check", "line", "interrupt", "resume", "prepare", "estop"}
<1>1. UNCHANGED mtx
  BY DEF Host, HostSync, HostSet, HostDrain, HostRelease, Storage, StorageDrain, StorageStart,
    StorageCheck, StorageLine, Ui, UiPrint, UiChoose, UiInterrupt, UiResume, UiPrepare, UiHome,
    UiBack, UiThrownOut
<1>2. CASE UNCHANGED pc
  BY <1>1, <1>2 DEF Sections
<1>3. ASSUME ~UNCHANGED pc
      PROVE  \E c \in Clients : pc[c] \notin InSection /\ \E w \in Left : Goto(c, w)
  <2>1. ASSUME "host" \in Clients, Host
        PROVE  pc["host"] \notin InSection /\ \E w \in Left : Goto("host", w)
    BY <1>3, <2>1 DEF Host, HostSync, HostSet, HostDrain, HostRelease, StartPush, InSection
  <2>2. ASSUME "storage" \in Clients, Storage
        PROVE  pc["storage"] \notin InSection /\ \E w \in Left : Goto("storage", w)
    BY <1>3, <2>2 DEF Storage, StorageDrain, StorageStart, StorageCheck, StorageLine, StartPush,
      CallEstop, InSection
  <2>3. ASSUME "ui" \in Clients, Ui
        PROVE  pc["ui"] \notin InSection /\ \E w \in Left : Goto("ui", w)
    BY <1>3, <2>3 DEF Ui, UiPrint, UiChoose, UiInterrupt, UiResume, UiPrepare, UiHome, UiBack,
      UiThrownOut, StartPush, CallEstop, InSection
  <2> QED BY <2>1, <2>2, <2>3
<1>4. CASE ~UNCHANGED pc
  <2>1. PICK c \in Clients : pc[c] \notin InSection /\ \E w \in Left : Goto(c, w)
    BY <1>3, <1>4
  <2>2. PICK w \in Left : Goto(c, w)
    BY <2>1
  <2>3. w \notin InSection
    BY DEF InSection
  <2> QED BY <1>1, <2>1, <2>2, <2>3, OutsideSections, ClientsAreThreads
<1> QED BY <1>2, <1>4

LEMMA NextSections == Types /\ Sections /\ [Next]_vars => Sections'
<1>1. ASSUME Types, Sections, UNCHANGED vars PROVE Sections'
  BY <1>1 DEF Sections, vars
<1> QED
  BY <1>1, PrinterSections, FeederSections, ClientSections, StopSections DEF Next

LEMMA NextStopping == Types /\ Sections /\ Stopping /\ [Next]_vars => Stopping'
<1> SUFFICES ASSUME Types, Sections, Stopping, [Next]_vars, state' = "Estopped"
             PROVE  halted' \/ \E t \in Threads : pc'[t] = "stopping"
  BY DEF Stopping
<1> USE ClientsAreThreads
<1>1. ASSUME NEW t \in Threads, Estop(t)
      PROVE  halted' \/ \E u \in Threads : pc'[u] = "stopping"
  <2>1. CASE EstopBegin(t)
    BY <2>1 DEF EstopBegin, Goto, Types
  <2>2. CASE EstopMachine(t)
    BY <2>2 DEF EstopMachine
  <2>3. ASSUME NEW b \in Boxes, EstopReset(t, b)
        PROVE  halted' \/ \E u \in Threads : pc'[u] = "stopping"
    <3>1. pc[t] \in {"resetMain", "resetAlt"} /\ state = "Estopped" /\ halted' = halted
      BY <2>3 DEF EstopReset, ownerVars
    <3>2. \A u \in Threads : pc[u] # "stopping"
      BY <3>1 DEF Sections, InSection
    <3> QED BY <3>1, <3>2 DEF Stopping
  <2> QED BY <1>1, <2>1, <2>2, <2>3 DEF Estop, Boxes
<1>2. ASSUME NEW c \in Clients, EstopClear(c)
      PROVE  FALSE
  BY <1>2 DEF EstopClear
<1>3. ASSUME state = "Estopped", UNCHANGED <<halted, mtx>>,
             ~\E t \in Threads : Estop(t)
      PROVE  halted' \/ \E u \in Threads : pc'[u] = "stopping"
  <2>1. CASE halted
    BY <1>3, <2>1
  <2>2. CASE ~halted
    <3>1. PICK t \in Threads : pc[t] = "stopping"
      BY <1>3, <2>2 DEF Stopping
    <3>2. pc'[t] = "stopping"
      BY <1>3, <3>1 DEF Next, vars, PrinterThread, FetchTimeout, Fetch, Check, Dispatch, Mark,
        FreeCurrent, Host, HostSync, HostSet, HostDrain, HostRelease, Storage, StorageDrain,
        StorageStart, StorageCheck, StorageLine, Ui, UiPrint, UiChoose, UiInterrupt, UiResume,
        UiPrepare, UiHome, UiBack, UiThrownOut, StartPush, CallEstop, Goto, Allocate, Post,
        EstopClear, EstopCall, Types
    <3> QED BY <3>2
  <2> QED BY <2>1, <2>2
<1>4. CASE UNCHANGED vars
  BY <1>4 DEF vars, ownerVars, Stopping
<1>5. ASSUME ~UNCHANGED vars, \A t \in Threads : ~Estop(t), \A c \in Clients : ~EstopClear(c)
      PROVE  state = "Estopped" /\ UNCHANGED <<halted, mtx>>
  BY <1>5 DEF Next, vars, PrinterThread, FetchTimeout, Fetch, Check, Dispatch, Mark, NextState,
    FreeCurrent, Host, HostSync, HostSet, HostDrain, HostRelease, Storage, StorageDrain,
    StorageStart, StorageCheck, StorageLine, Ui, UiPrint, UiChoose, UiInterrupt, UiResume,
    UiPrepare, UiHome, UiBack, UiThrownOut, Allocate, Post, EstopCall, TryAcquire, Release, ownerVars
<1> QED BY <1>1, <1>2, <1>3, <1>4, <1>5

LEMMA InitSections == Init => Sections
<1> SUFFICES ASSUME Init, NEW t \in Threads PROVE pc[t] \notin InSection /\ mtx # t
  BY DEF Sections
<1>1. pc[t] = "fetch" \/ pc[t] = "idle"
  BY DEF Init
<1>2. mtx # t
  BY ClientsAreThreads DEF Init
<1> QED BY <1>1, <1>2 DEF InSection

\* What may happen to the state and the main source outside the emergency stop.
OwnerStep ==
  /\ state = "Estopped" <=> state' = "Estopped"
  /\ state = "Estopped" => main' \in {main, None}
  /\ state' = "Standby" => main' = None \/ UNCHANGED <<state, main>>
  /\ main' # main => main' = None \/ state = "Standby"

LEMMA OwnerChanges ==
  ASSUME NEW s, TryAcquire(s) \/ Release(s)
  PROVE  OwnerStep
BY DEF TryAcquire, Release, OwnerStep, AcquirableIn

LEMMA OwnerKeeps ==
  ASSUME UNCHANGED <<state, main>> PROVE OwnerStep
BY DEF OwnerStep

LEMMA FeederSteps ==
  ASSUME \/ PrinterThread \/ Host \/ Storage \/ Ui
         \/ \E c \in Clients : Allocate(c) \/ Post(c) \/ EstopCall(c)
  PROVE  OwnerStep
<1>1. CASE PrinterThread
  <2>1. CASE Mark
    BY <2>1 DEF Mark, NextState, OwnerStep
  <2>2. CASE ~Mark
    BY <1>1, <2>2, OwnerKeeps DEF PrinterThread, FetchTimeout, Fetch, Check, Dispatch, FreeCurrent,
      ownerVars
  <2> QED BY <2>1, <2>2
<1>2. CASE Host
  BY <1>2, OwnerChanges, OwnerKeeps DEF Host, HostSync, HostSet, HostDrain, HostRelease, ownerVars
<1>3. CASE Storage
  BY <1>3, OwnerChanges, OwnerKeeps DEF Storage, StorageDrain, StorageStart, StorageCheck,
    StorageLine, ownerVars
<1>4. CASE Ui
  <2>1. CASE UiInterrupt
    BY <2>1 DEF UiInterrupt, OwnerStep
  <2>2. CASE ~UiInterrupt
    BY <1>4, <2>2, OwnerChanges, OwnerKeeps DEF Ui, UiPrint, UiChoose, UiResume, UiPrepare, UiHome,
      UiBack, UiThrownOut, ownerVars
  <2> QED BY <2>1, <2>2
<1>5. CASE \E c \in Clients : Allocate(c) \/ Post(c) \/ EstopCall(c)
  BY <1>5, OwnerKeeps DEF Allocate, Post, EstopCall, ownerVars
<1> QED BY <1>1, <1>2, <1>3, <1>4, <1>5

\* The only steps that need more than that.
LEMMA NextSteps ==
  ASSUME [Next]_vars
  PROVE  \/ OwnerStep
         \/ \E t \in Threads : Estop(t)
         \/ \E c \in Clients : EstopClear(c)
<1>1. CASE UNCHANGED vars
  BY <1>1, OwnerKeeps DEF vars, ownerVars
<1> QED BY <1>1, FeederSteps DEF Next

\* A stop stays in force until printerEstopClear, whichever threads feed the
\* printer and whatever commands, sources and menus do meanwhile.
THEOREM StopStaysFinal == Spec => StopIsFinal
<1>1. Init => Types /\ Sections /\ Stopping
  BY InitTypes, InitSections DEF Init, Stopping
<1>2. Types /\ Sections /\ Stopping /\ [Next]_vars => (Types /\ Sections /\ Stopping)'
  BY NextTypes, NextSections, NextStopping
<1>3. ASSUME Types, Sections, Stopping, [Next]_vars, state = "Estopped", state' # "Estopped"
      PROVE  halted /\ ~halted' /\ mtx = Nobody /\ mtx' = Nobody
  <2>1. PICK c \in Clients : EstopClear(c)
    <3>1. ~OwnerStep
      BY <1>3 DEF OwnerStep
    <3>2. ASSUME NEW t \in Threads, Estop(t) PROVE FALSE
      BY <1>3, <3>2 DEF Estop, EstopBegin, NextState, EstopMachine, EstopReset, ownerVars
    <3> QED BY <1>3, <3>1, <3>2, NextSteps
  <2>2. ~halted' /\ mtx = Nobody /\ mtx' = Nobody
    BY <2>1 DEF EstopClear
  <2>3. \A t \in Threads : pc[t] # "stopping"
    BY <1>3, <2>2, ClientsAreThreads DEF Sections, InSection
  <2> QED BY <1>3, <2>2, <2>3 DEF Stopping
<1>4. Types /\ Sections /\ Stopping /\ [Next]_vars =>
        [state = "Estopped" /\ state' # "Estopped" =>
           halted /\ ~halted' /\ mtx = Nobody /\ mtx' = Nobody]_vars
  BY <1>3
<1> QED BY <1>1, <1>2, <1>4, PTL DEF Spec, StopIsFinal

\* A printer that is to be had is nobody's; so is one that is stopped, but for
\* the moment before printerEstop takes its sources.
Ownerless ==
  /\ state = "Standby" => main = None
  /\ state = "Estopped" => main = None \/ \E t \in Threads : pc[t] = "stopping"

LEMMA NextOwnerless == Types /\ Sections /\ Ownerless /\ [Next]_vars => Ownerless'
<1> SUFFICES ASSUME Types, Sections, Ownerless, [Next]_vars PROVE Ownerless'
  OBVIOUS
<1> USE ClientsAreThreads
<1>1. ASSUME NEW t \in Threads, Estop(t)
      PROVE  Ownerless'
  <2>1. CASE EstopBegin(t)
    <3>1. pc'[t] = "stopping" /\ UNCHANGED main
      BY <2>1 DEF EstopBegin, Goto, Types
    <3>2. state' = "Standby" => main = None
      BY <2>1 DEF EstopBegin, NextState, Types
    <3> QED BY <3>1, <3>2 DEF Ownerless
  <2>2. CASE EstopMachine(t)
    BY <2>2 DEF EstopMachine, Ownerless
  <2>3. ASSUME NEW b \in Boxes, EstopReset(t, b)
        PROVE  Ownerless'
    <3>1. pc[t] \in {"resetMain", "resetAlt"} /\ UNCHANGED ownerVars
      BY <2>3 DEF EstopReset
    <3>2. \A u \in Threads : pc[u] # "stopping"
      BY <3>1 DEF Sections, InSection
    <3> QED BY <3>1, <3>2 DEF Ownerless, ownerVars
  <2> QED BY <1>1, <2>1, <2>2, <2>3 DEF Estop, Boxes
<1>2. ASSUME NEW c \in Clients, EstopClear(c)
      PROVE  Ownerless'
  <2>1. \A t \in Threads : pc[t] # "stopping"
    BY <1>2 DEF EstopClear, Sections, InSection
  <2> QED BY <1>2, <2>1 DEF EstopClear, Ownerless
<1>3. ASSUME \A t \in Threads : ~Estop(t), \A c \in Clients : ~EstopClear(c)
      PROVE  /\ state' = "Standby" => main' = None
             /\ state' = "Estopped" => state = "Estopped" /\ main' \in {main, None}
             /\ \A t \in Threads : pc[t] = "stopping" => pc'[t] = "stopping"
  <2>1. /\ state' = "Standby" => main' = None
        /\ state' = "Estopped" => state = "Estopped" /\ main' \in {main, None}
    BY <1>3, NextSteps DEF OwnerStep, Ownerless
  <2>2. \A t \in Threads : pc[t] = "stopping" => pc'[t] = "stopping"
    BY <1>3 DEF Next, vars, PrinterThread, FetchTimeout, Fetch, Check, Dispatch, Mark,
      FreeCurrent, Host, HostSync, HostSet, HostDrain, HostRelease, Storage, StorageDrain,
      StorageStart, StorageCheck, StorageLine, Ui, UiPrint, UiChoose, UiInterrupt, UiResume,
      UiPrepare, UiHome, UiBack, UiThrownOut, StartPush, CallEstop, Goto, Allocate, Post,
      EstopCall, Types
  <2> QED BY <2>1, <2>2
<1> QED BY <1>1, <1>2, <1>3 DEF Ownerless

\* The printer is never taken from the source that owns it.
THEOREM OwnerStays == Spec => OwnerKept
<1>1. Init => Types /\ Sections /\ Ownerless
  BY InitTypes, InitSections DEF Init, Ownerless
<1>2. Types /\ Sections /\ Ownerless /\ [Next]_vars => (Types /\ Sections /\ Ownerless)'
  BY NextTypes, NextSections, NextOwnerless
<1>3. ASSUME Ownerless, [Next]_vars, main # None, main' # main
      PROVE  main' = None
  <2>1. CASE OwnerStep
    BY <1>3, <2>1 DEF OwnerStep, Ownerless
  <2>2. ASSUME NEW t \in Threads, Estop(t) PROVE main' = None
    BY <1>3, <2>2 DEF Estop, EstopBegin, EstopMachine, EstopReset, ownerVars
  <2>3. ASSUME NEW c \in Clients, EstopClear(c) PROVE FALSE
    BY <1>3, <2>3 DEF EstopClear
  <2> QED BY <1>3, <2>1, <2>2, <2>3, NextSteps
<1>4. Ownerless /\ [Next]_vars => [main # None /\ main' # main => main' = None]_vars
  BY <1>3
<1> QED BY <1>1, <1>2, <1>4, PTL DEF Spec, OwnerKept

-----------------------------------------------------------------------------
(* The pool *)

Holders == {c \in Clients : pc[c] \in {"post", "full"}}

LEMMA HeldCounts ==
  /\ IsFiniteSet(Holders) /\ Holders \subseteq Clients
  /\ Held = Cardinality(Holders) /\ Held \in Nat
<1>1. Holders \subseteq Clients /\ Held = Cardinality(Holders)
  BY DEF Holders, Held
<1> QED BY <1>1, ClientsAreThreads, FS_Subset, FS_CardinalityType

\* A step that moves no command: nobody gets one or lets it go.
Idle ==
  /\ UNCHANGED <<box, free, acks, dropped>>
  /\ InExecution' = InExecution
  /\ Holders' = Holders

LEMMA BoxCounts ==
  ASSUME Types
  PROVE  /\ Len(box["main"]) \in Nat /\ Len(box["alt"]) \in Nat
         /\ DOMAIN box = {"main", "alt"}
BY DEF Types, Boxes

LEMMA AckCounts ==
  ASSUME Types
  PROVE  /\ acks["host"] \in Nat /\ acks["storage"] \in Nat
         /\ DOMAIN acks = {"host", "storage"}
BY BufferAssumption DEF Types, Acknowledged, AckSize

LEMMA Counts ==
  ASSUME Types
  PROVE  /\ InExecution \in Int /\ InBoxes \in Int /\ Unanswered \in Int /\ free \in Int
         /\ dropped \in Int
BY BoxCounts, AckCounts DEF InExecution, InBoxes, Unanswered, Types

LEMMA IdleConserves ==
  ASSUME PoolConserved, Idle PROVE PoolConserved'
<1>1. Held' = Held
  BY DEF Idle, Held, Holders
<1> QED BY <1>1 DEF Idle, PoolConserved, InBoxes, Unanswered

LEMMA GotoIdle ==
  ASSUME Types, NEW c \in Clients, NEW w, Goto(c, w),
         pc[c] \notin {"post", "full"}, w \notin {"post", "full"}
  PROVE  InExecution' = InExecution /\ Holders' = Holders
BY ClientsAreThreads DEF Types, Goto, InExecution, Holders

LEMMA PushConserves ==
  ASSUME Types, PoolConserved, NEW c \in Clients, Allocate(c) \/ Post(c)
  PROVE  PoolConserved'
<1> USE ClientsAreThreads
<1>1. CASE Allocate(c)
  <2>1. Holders' = Holders \cup {c} /\ c \notin Holders
    BY <1>1 DEF Allocate, Goto, Holders, Types
  <2>2. Cardinality(Holders') = Cardinality(Holders) + 1
    BY <2>1, HeldCounts, FS_AddElement
  <2>3. Held' = Held + 1
    BY <2>2 DEF Held, Holders
  <2>4. InExecution' = InExecution
    BY <1>1 DEF Allocate, Goto, InExecution, Types
  <2>5. free' = free - 1 /\ UNCHANGED <<box, acks, dropped>>
    BY <1>1 DEF Allocate
  <2>7. InBoxes' = InBoxes /\ Unanswered' = Unanswered
    BY <2>5 DEF InBoxes, Unanswered
  <2> QED BY <2>3, <2>4, <2>5, <2>7, Counts, HeldCounts DEF PoolConserved
<1>2. CASE Post(c)
  <2>1. InExecution' = InExecution
    BY <1>2 DEF Post, Goto, InExecution, Types
  <2>2. CASE Len(box[push[c].to]) < BufferSize
    <3>1. Holders' = Holders \ {c} /\ c \in Holders
      BY <1>2, <2>2 DEF Post, Goto, Holders, Types
    <3>2. Cardinality(Holders') = Cardinality(Holders) - 1
      BY <3>1, HeldCounts, FS_RemoveElement
    <3>3. Held' = Held - 1
      BY <3>2 DEF Held, Holders
    <3>4. push[c].to \in Boxes /\ push[c].command \in Commands
      BY DEF Types, Pushes
    <3>5. box' = [box EXCEPT ![push[c].to] = Append(box[push[c].to], push[c].command)]
      BY <1>2, <2>2 DEF Post
    <3>6. InBoxes' = InBoxes + 1
      <4>1. Len(box'[push[c].to]) = Len(box[push[c].to]) + 1
        BY <3>4, <3>5 DEF Types
      <4>2. DOMAIN box' = DOMAIN box /\ \A d \in Boxes : d # push[c].to => box'[d] = box[d]
        BY <3>5 DEF Types
      <4> QED BY <3>4, <4>1, <4>2, BoxCounts DEF InBoxes, Boxes
    <3>7. UNCHANGED <<free, acks, dropped>>
      BY <1>2 DEF Post
    <3>8. Unanswered' = Unanswered
      BY <3>7 DEF Unanswered
    <3> QED BY <2>1, <3>3, <3>6, <3>7, <3>8, Counts, HeldCounts DEF PoolConserved
  <2>3. CASE ~(Len(box[push[c].to]) < BufferSize)
    <3>1. Holders' = Holders
      BY <1>2, <2>3 DEF Post, Goto, Holders, Types
    <3> QED BY <1>2, <2>1, <2>3, <3>1, IdleConserves DEF Post, Idle
  <2> QED BY <2>2, <2>3
<1> QED BY <1>1, <1>2

LEMMA ResetConserves ==
  ASSUME Types, PoolConserved, NEW t \in Threads, NEW b \in Boxes, EstopReset(t, b)
  PROVE  PoolConserved'
<1> USE ClientsAreThreads
<1>1. Holders' = Holders \ Waiting(b) /\ Waiting(b) \subseteq Holders
  BY DEF EstopReset, Waiting, Holders, Types
<1>2. Cardinality(Waiting(b)) \in Nat
  BY <1>1, HeldCounts, FS_Subset, FS_CardinalityType
<1>3. Cardinality(Holders') = Cardinality(Holders) - Cardinality(Waiting(b))
  <2>1. Holders \cap Waiting(b) = Waiting(b)
    BY <1>1
  <2> QED BY <1>1, <2>1, HeldCounts, FS_Difference
<1>4. Held' = Held - Cardinality(Waiting(b))
  BY <1>3 DEF Held, Holders
<1>5. InExecution' = InExecution
  BY WaitingClients DEF EstopReset, InExecution, Types
<1>6. InBoxes' = InBoxes - Len(box[b])
  <2>1. Len(box'[b]) = 0
    BY DEF EstopReset, Types
  <2>2. DOMAIN box' = DOMAIN box /\ \A d \in Boxes : d # b => box'[d] = box[d]
    BY DEF EstopReset, Types
  <2>3. CASE b = "main"
    BY <2>1, <2>2, <2>3, BoxCounts DEF InBoxes, Boxes
  <2>4. CASE b = "alt"
    BY <2>1, <2>2, <2>4, BoxCounts DEF InBoxes, Boxes
  <2> QED BY <2>3, <2>4 DEF Boxes
<1>7. dropped' = dropped + Len(box[b]) + Cardinality(Waiting(b)) /\ UNCHANGED <<free, acks>>
  BY DEF EstopReset
<1>8. Len(box[b]) \in Int
  BY Counts DEF Boxes
<1>9. Unanswered' = Unanswered
  BY <1>7 DEF Unanswered
<1> DEFINE n == Cardinality(Waiting(b))
           l == Len(box[b])
<1>10. /\ n \in Int /\ l \in Int /\ Held \in Int
       /\ Held' = Held - n /\ InBoxes' = InBoxes - l /\ dropped' = dropped + l + n
  BY <1>2, <1>4, <1>6, <1>7, <1>8, HeldCounts
<1>11. UNCHANGED free
  BY <1>7
<1> HIDE DEF n, l
<1> QED BY <1>5, <1>9, <1>10, <1>11, Counts DEF PoolConserved

LEMMA PrinterConserves ==
  ASSUME Types, PoolConserved, PrinterThread
  PROVE  PoolConserved'
<1> USE ClientsAreThreads
<1>1. Held' = Held
  <2>1. Holders' = Holders
    BY DEF PrinterThread, FetchTimeout, Fetch, Check, Dispatch, CallEstop, Mark, FreeCurrent, Goto,
      Holders, Types
  <2> QED BY <2>1 DEF Held, Holders
<1>2. CASE Fetch
  <2>1. InExecution = 0 /\ InExecution' = 1
    BY <1>2 DEF Fetch, Goto, InExecution, Types
  <2>2. InBoxes' = InBoxes - 1
    <3>0. reads \in Boxes
      BY DEF Types
    <3>1. /\ box' = [box EXCEPT ![reads] = Tail(box[reads])]
          /\ box[reads] \in Seq(Commands) /\ box[reads] # <<>>
      BY <1>2 DEF Fetch, Types
    <3>2. Len(Tail(box[reads])) = Len(box[reads]) - 1
      BY <3>1
    <3>3. Len(box'[reads]) = Len(box[reads]) - 1
      BY <3>0, <3>1, <3>2 DEF Types
    <3>4. DOMAIN box' = DOMAIN box /\ \A d \in Boxes : d # reads => box'[d] = box[d]
      BY <3>1 DEF Types
    <3> QED BY <3>0, <3>3, <3>4, BoxCounts DEF InBoxes, Boxes
  <2>3. UNCHANGED <<free, acks, dropped>>
    BY <1>2 DEF Fetch
  <2>4. Unanswered' = Unanswered
    BY <2>3 DEF Unanswered
  <2> QED BY Counts, <1>1, <2>1, <2>2, <2>3, <2>4, HeldCounts DEF PoolConserved
<1>3. CASE FreeCurrent
  <2>1. InExecution = 1 /\ InExecution' = 0
    BY <1>3 DEF FreeCurrent, Goto, InExecution, Types
  <2>2. UNCHANGED <<box, dropped>> /\ InBoxes' = InBoxes
    BY <1>3 DEF FreeCurrent, InBoxes
  <2>3. free' + Unanswered' = free + Unanswered + 1 /\ free' \in Int /\ Unanswered' \in Int
    <3>1. cur.ack \in {"host", "storage", None}
      BY DEF Types, Commands
    <3>2. CASE cur.ack = None
      BY <1>3, <3>2, Counts DEF FreeCurrent, FreeHere, Unanswered
    <3>3. CASE cur.ack # None
      <4>1. /\ cur.ack \in Acknowledged /\ free' = free
            /\ acks' = [acks EXCEPT ![cur.ack] = acks[cur.ack] + 1]
        BY <1>3, <3>1, <3>3 DEF FreeCurrent, FreeHere, Acknowledge, Acknowledged
      <4>2. /\ DOMAIN acks' = DOMAIN acks
            /\ acks'[cur.ack] = acks[cur.ack] + 1
            /\ \A c \in Acknowledged : c # cur.ack => acks'[c] = acks[c]
        BY <4>1, AckCounts DEF Acknowledged
      <4>3. Unanswered' = Unanswered + 1
        BY <4>1, <4>2, AckCounts DEF Unanswered, Acknowledged
      <4> QED BY <4>1, <4>3, Counts
    <3> QED BY <3>2, <3>3
  <2> QED BY Counts, <1>1, <2>1, <2>2, <2>3, HeldCounts DEF PoolConserved
<1>4. CASE FetchTimeout \/ Check \/ Dispatch \/ Mark
  <2>1. UNCHANGED <<box, free, acks, dropped>>
    BY <1>4 DEF FetchTimeout, Check, Dispatch, Mark
  <2>2. InExecution' = InExecution
    BY <1>4 DEF FetchTimeout, Check, Dispatch, CallEstop, Mark, Goto, InExecution, Types
  <2> QED BY <1>1, <2>1, <2>2 DEF PoolConserved, InBoxes, Unanswered
<1> QED BY <1>2, <1>3, <1>4 DEF PrinterThread

\* The clients that answer: what was acknowledged goes back to the pool.
LEMMA DrainConserves ==
  ASSUME Types, PoolConserved,
         \/ "host" \in Clients /\ HostDrain
         \/ "storage" \in Clients /\ StorageDrain
  PROVE  PoolConserved'
<1>1. Held' = Held /\ InExecution' = InExecution
  <2>1. CASE "host" \in Clients /\ HostDrain
    BY <2>1 DEF HostDrain, Held, InExecution
  <2>2. CASE "storage" \in Clients /\ StorageDrain
    <3>1. Holders' = Holders /\ InExecution' = InExecution
      BY <2>2, GotoIdle DEF StorageDrain
    <3> QED BY <3>1 DEF Held, Holders
  <2> QED BY <2>1, <2>2
<1>2. UNCHANGED <<box, dropped>> /\ InBoxes' = InBoxes
  BY DEF HostDrain, StorageDrain, InBoxes
<1>3. free' + Unanswered' = free + Unanswered /\ free' \in Int /\ Unanswered' \in Int
  <2>1. PICK c \in Acknowledged : free' = free + acks[c] /\ acks' = [acks EXCEPT ![c] = 0]
    BY DEF HostDrain, StorageDrain, Acknowledged
  <2>2. acks'[c] = 0 /\ DOMAIN acks' = DOMAIN acks /\ \A d \in Acknowledged : d # c => acks'[d] = acks[d]
    BY <2>1, AckCounts DEF Acknowledged
  <2>3. CASE c = "host"
    BY <2>1, <2>2, <2>3, AckCounts, Counts DEF Unanswered, Acknowledged
  <2>4. CASE c = "storage"
    BY <2>1, <2>2, <2>4, AckCounts, Counts DEF Unanswered, Acknowledged
  <2> QED BY <2>3, <2>4 DEF Acknowledged
<1> QED BY <1>1, <1>2, <1>3, Counts, HeldCounts DEF PoolConserved

LEMMA FeederIdle ==
  ASSUME Types,
         \/ "host" \in Clients /\ (HostSync \/ HostSet \/ HostRelease)
         \/ "storage" \in Clients /\ (StorageStart \/ StorageCheck \/ StorageLine)
         \/ "ui" \in Clients /\ Ui
  PROVE  Idle
<1>1. UNCHANGED <<box, free, acks, dropped>>
  BY DEF HostSync, HostSet, HostRelease, StorageStart, StorageCheck, StorageLine,
    Ui, UiPrint, UiChoose, UiInterrupt, UiResume, UiPrepare, UiHome, UiBack, UiThrownOut
<1>2. CASE UNCHANGED pc
  BY <1>1, <1>2 DEF Idle, InExecution, Holders
<1> DEFINE Left == {"idle", "alloc", "check", "line", "interrupt", "resume", "prepare", "estop"}
<1>3. ASSUME ~UNCHANGED pc
      PROVE  \E c \in Clients : pc[c] \notin {"post", "full"} /\ \E w \in Left : Goto(c, w)
  <2>1. ASSUME "host" \in Clients, HostSync \/ HostSet \/ HostRelease
        PROVE  pc["host"] \notin {"post", "full"} /\ \E w \in Left : Goto("host", w)
    BY <1>3, <2>1 DEF HostSync, HostSet, HostRelease, StartPush
  <2>2. ASSUME "storage" \in Clients, StorageStart \/ StorageCheck \/ StorageLine
        PROVE  pc["storage"] \notin {"post", "full"} /\ \E w \in Left : Goto("storage", w)
    BY <1>3, <2>2 DEF StorageStart, StorageCheck, StorageLine, StartPush, CallEstop
  <2>3. ASSUME "ui" \in Clients, Ui
        PROVE  pc["ui"] \notin {"post", "full"} /\ \E w \in Left : Goto("ui", w)
    BY <1>3, <2>3 DEF Ui, UiPrint, UiChoose, UiInterrupt, UiResume, UiPrepare, UiHome, UiBack,
      UiThrownOut, StartPush, CallEstop
  <2> QED BY <2>1, <2>2, <2>3
<1>4. CASE ~UNCHANGED pc
  <2>1. PICK c \in Clients : pc[c] \notin {"post", "full"} /\ \E w \in Left : Goto(c, w)
    BY <1>3, <1>4
  <2>2. PICK w \in Left : Goto(c, w)
    BY <2>1
  <2> QED BY <1>1, <2>1, <2>2, GotoIdle DEF Idle
<1> QED BY <1>2, <1>4

LEMMA StopIdle ==
  ASSUME Types,
         \/ \E c \in Clients : EstopClear(c) \/ EstopCall(c)
         \/ \E t \in Threads : EstopBegin(t) \/ EstopMachine(t)
  PROVE  Idle
<1> USE ClientsAreThreads
<1>1. UNCHANGED <<box, free, acks, dropped>>
  BY DEF EstopClear, EstopCall, EstopBegin, EstopMachine
<1>2. InExecution' = InExecution
  BY DEF EstopClear, EstopCall, CallEstop, EstopBegin, EstopMachine, Goto, InExecution, Types
<1>3. Holders' = Holders
  BY DEF EstopClear, EstopCall, CallEstop, EstopBegin, EstopMachine, Goto, Holders, Types
<1> QED BY <1>1, <1>2, <1>3 DEF Idle

LEMMA NextConserves == Types /\ PoolConserved /\ [Next]_vars => PoolConserved'
<1> SUFFICES ASSUME Types, PoolConserved, [Next]_vars PROVE PoolConserved'
  OBVIOUS
<1>1. CASE UNCHANGED vars
  BY <1>1 DEF vars, PoolConserved, InExecution, Held, InBoxes, Unanswered
<1>2. ASSUME NEW t \in Threads, Estop(t)
      PROVE  PoolConserved'
  BY <1>2, StopIdle, IdleConserves, ResetConserves DEF Estop, Boxes
<1>3. ASSUME NEW c \in Clients, Allocate(c) \/ Post(c) \/ EstopClear(c) \/ EstopCall(c)
      PROVE  PoolConserved'
  BY <1>3, StopIdle, IdleConserves, PushConserves
<1>4. ASSUME \/ "host" \in Clients /\ Host
             \/ "storage" \in Clients /\ Storage
             \/ "ui" \in Clients /\ Ui
      PROVE  PoolConserved'
  BY <1>4, FeederIdle, IdleConserves, DrainConserves DEF Host, Storage
<1> QED BY <1>1, <1>2, <1>3, <1>4, PrinterConserves DEF Next

LEMMA InitConserves == Init => PoolConserved
<1> SUFFICES ASSUME Init PROVE PoolConserved
  OBVIOUS
<1>1. Holders = {}
  BY ClientsAreThreads DEF Init, Holders
<1>2. Held = 0
  BY <1>1, HeldCounts, FS_EmptySet
<1>3. InExecution = 0
  BY ClientsAreThreads DEF Init, InExecution
<1>4. InBoxes = 0 /\ Unanswered = 0
  BY DEF Init, InBoxes, Unanswered
<1>5. free = PoolSize /\ dropped = 0 /\ PoolSize \in Nat
  BY BufferAssumption DEF Init, PoolSize
<1> QED BY <1>2, <1>3, <1>4, <1>5 DEF PoolConserved

\* No command leaves the pool or comes back to it twice, whichever threads feed the
\* printer; what a stop takes out of the mailboxes is all that is lost.
THEOREM PoolStaysConserved == Spec => []PoolConserved
<1>1. Init => Types /\ PoolConserved
  BY InitTypes, InitConserves
<1>2. Types /\ PoolConserved /\ [Next]_vars => (Types /\ PoolConserved)'
  BY NextTypes, NextConserves
<1> QED BY <1>1, <1>2, PTL DEF Spec

-----------------------------------------------------------------------------
(* What the host waits for *)

ForHost(s) == {i \in DOMAIN s : s[i].ack = "host"}
CountIn(s) == Cardinality(ForHost(s))

LEMMA CountType ==
  ASSUME NEW s \in Seq(Commands)
  PROVE  IsFiniteSet(ForHost(s)) /\ CountIn(s) \in Nat /\ CountIn(s) <= Len(s)
<1>1. IsFiniteSet(1 .. Len(s)) /\ Cardinality(1 .. Len(s)) = Len(s)
  <2>1. Len(s) \in Nat
    OBVIOUS
  <2> QED BY <2>1, FS_Interval
<1>2. ForHost(s) \in SUBSET (1 .. Len(s))
  BY DEF ForHost
<1> QED BY <1>1, <1>2, FS_Subset, FS_CardinalityType DEF CountIn

LEMMA CountEmpty == CountIn(<<>>) = 0
<1>1. ForHost(<<>>) = {}
  BY DEF ForHost
<1> QED BY <1>1, FS_EmptySet DEF CountIn

LEMMA CountAppend ==
  ASSUME NEW s \in Seq(Commands), NEW k \in Commands
  PROVE  CountIn(Append(s, k)) = CountIn(s) + IF k.ack = "host" THEN 1 ELSE 0
<1> DEFINE n == Len(s) + 1
<1>0. n \in Nat /\ n \notin ForHost(s)
  BY DEF ForHost
<1>1. CASE k.ack = "host"
  <2>1. ForHost(Append(s, k)) = ForHost(s) \cup {n}
    BY <1>1 DEF ForHost
  <2>2. Cardinality(ForHost(s) \cup {n}) = Cardinality(ForHost(s)) + 1
    BY <1>0, CountType, FS_AddElement
  <2> QED BY <1>1, <2>1, <2>2 DEF CountIn
<1>2. CASE k.ack # "host"
  <2>1. ForHost(Append(s, k)) = ForHost(s)
    BY <1>2 DEF ForHost
  <2> QED BY <1>2, <2>1, CountType DEF CountIn
<1> QED BY <1>1, <1>2

LEMMA CountTail ==
  ASSUME NEW s \in Seq(Commands), s # <<>>
  PROVE  CountIn(s) = CountIn(Tail(s)) + IF Head(s).ack = "host" THEN 1 ELSE 0
<1> DEFINE T == ForHost(Tail(s))
           R == ForHost(s) \ {1}
           f == [i \in T |-> i + 1]
<1>0. /\ Tail(s) \in Seq(Commands) /\ Len(Tail(s)) = Len(s) - 1 /\ Len(s) \in Nat
      /\ \A i \in 1 .. Len(s) - 1 : Tail(s)[i] = s[i + 1]
      /\ DOMAIN s = 1 .. Len(s) /\ DOMAIN Tail(s) = 1 .. Len(s) - 1
  OBVIOUS
<1>1. T \subseteq 1 .. Len(s) - 1 /\ R \subseteq 2 .. Len(s)
  BY <1>0 DEF ForHost
<1>2. \A i \in 1 .. Len(s) - 1 : i \in T <=> i + 1 \in R
  BY <1>0 DEF ForHost
<1>3. \A j \in R : j - 1 \in T /\ j = (j - 1) + 1
  BY <1>0, <1>1, <1>2
<1> HIDE DEF T, R
<1>4. f \in [T -> R]
  BY <1>1, <1>2
<1>5. \A a, b \in T : f[a] = f[b] => a = b
  BY <1>0, <1>1
<1>6. \A j \in R : \E i \in T : f[i] = j
  BY <1>3
<1>7. f \in Bijection(T, R)
  BY <1>4, <1>5, <1>6, Fun_IsBij
<1>8. Cardinality(R) = Cardinality(T)
  <2>1. IsFiniteSet(T)
    BY <1>0, CountType DEF T
  <2>2. ExistsBijection(T, R)
    BY <1>7 DEF ExistsBijection
  <2> QED BY <2>1, <2>2, FS_Bijection
<1>9. 1 \in ForHost(s) <=> Head(s).ack = "host"
  BY <1>0 DEF ForHost
<1>10. Cardinality(R) = IF 1 \in ForHost(s) THEN Cardinality(ForHost(s)) - 1 ELSE Cardinality(ForHost(s))
  BY CountType, FS_RemoveElement DEF R
<1>11. Cardinality(ForHost(s)) \in Nat
  BY CountType DEF CountIn
<1> QED BY <1>8, <1>9, <1>10, <1>11 DEF CountIn, T

\* The commands of the host: in a mailbox, in execution, about to be posted,
\* acknowledged.
Inside == {"alloc", "post", "full"}
InMain == CountIn(box["main"])
InAlt == CountIn(box["alt"])
InHand == IF pc["printer"] # "fetch" /\ cur.ack = "host" THEN 1 ELSE 0
Posting == IF "host" \in Clients /\ pc["host"] \in Inside THEN 1 ELSE 0
Owed == InMain + InAlt + InHand + Posting + acks["host"]

\* The host counts every one of them, and besides only what a stop dropped.
HostOwed == Owed <= busy /\ busy <= Owed + dropped

\* A client pushes commands that it answers itself.
PushNames ==
  \A c \in Clients : pc[c] \in Inside => (push[c].command.ack = "host" <=> c = "host")

LEMMA OwedTypes ==
  ASSUME Types
  PROVE  /\ InMain \in Nat /\ InAlt \in Nat /\ InHand \in 0 .. 1 /\ Posting \in 0 .. 1
         /\ acks["host"] \in Nat /\ dropped \in Nat /\ busy \in Int
<1>1. box["main"] \in Seq(Commands) /\ box["alt"] \in Seq(Commands)
  BY DEF Types, Boxes
<1> QED BY <1>1, CountType, AckCounts DEF InMain, InAlt, InHand, Posting, Types

\* A step that moves no command of the host.
HostQuiet == UNCHANGED <<box, acks, busy, dropped>> /\ InHand' = InHand /\ Posting' = Posting

LEMMA QuietOwed ==
  ASSUME HostOwed, HostQuiet PROVE HostOwed'
BY DEF HostOwed, HostQuiet, Owed, InMain, InAlt

LEMMA PushOwed ==
  ASSUME Types, PushNames, HostOwed, NEW c \in Clients, Allocate(c) \/ Post(c)
  PROVE  HostOwed'
<1> USE ClientsAreThreads
<1>1. InHand' = InHand /\ UNCHANGED <<acks, busy, dropped>>
  BY DEF Allocate, Post, Goto, InHand, Types
<1>2. CASE UNCHANGED box
  <2>1. pc[c] \in Inside /\ \E w \in Inside : Goto(c, w)
    BY <1>2 DEF Allocate, Post, Inside, Types, Pushes
  <2>2. Posting' = Posting
    BY <2>1 DEF Goto, Posting, Types
  <2> QED BY <1>1, <1>2, <2>2, QuietOwed DEF HostQuiet
<1>3. CASE Post(c) /\ Len(box[push[c].to]) < BufferSize
  <2>1. /\ push[c].to \in Boxes /\ push[c].command \in Commands
        /\ box[push[c].to] \in Seq(Commands)
    BY DEF Types, Pushes
  <2>2. box' = [box EXCEPT ![push[c].to] = Append(box[push[c].to], push[c].command)]
    BY <1>3 DEF Post
  <2>3. box'[push[c].to] = Append(box[push[c].to], push[c].command)
    BY <2>1, <2>2 DEF Types
  <2> DEFINE one == IF c = "host" THEN 1 ELSE 0
  <2>4. push[c].command.ack = "host" <=> c = "host"
    BY <1>3 DEF Post, PushNames, Inside
  <2>5. CountIn(box'[push[c].to]) = CountIn(box[push[c].to]) + one
    BY <2>1, <2>3, <2>4, CountAppend
  <2>6. Posting' = Posting - one
    BY <1>3 DEF Post, Goto, Posting, Inside, Types
  <2>7. one \in 0 .. 1
    OBVIOUS
  <2> HIDE DEF one
  <2>8. CASE push[c].to = "main"
    <3>1. box'["alt"] = box["alt"]
      BY <2>2, <2>8 DEF Types, Boxes
    <3>2. InMain' = InMain + one /\ InAlt' = InAlt
      BY <2>5, <2>8, <3>1 DEF InMain, InAlt
    <3> QED BY <1>1, <2>6, <2>7, <3>2, OwedTypes DEF HostOwed, Owed
  <2>9. CASE push[c].to = "alt"
    <3>1. box'["main"] = box["main"]
      BY <2>2, <2>9 DEF Types, Boxes
    <3>2. InAlt' = InAlt + one /\ InMain' = InMain
      BY <2>5, <2>9, <3>1 DEF InMain, InAlt
    <3> QED BY <1>1, <2>6, <2>7, <3>2, OwedTypes DEF HostOwed, Owed
  <2> QED BY <2>1, <2>8, <2>9 DEF Boxes
<1> QED BY <1>2, <1>3 DEF Allocate, Post

LEMMA ResetOwed ==
  ASSUME Types, HostOwed, NEW t \in Threads, NEW b \in Boxes, EstopReset(t, b)
  PROVE  HostOwed'
<1> USE ClientsAreThreads
<1> DEFINE n == Cardinality(Waiting(b))
           l == Len(box[b])
           k == CountIn(box[b])
<1>1. InHand' = InHand
  BY WaitingClients DEF EstopReset, InHand, Types
<1>2. UNCHANGED <<acks, busy>> /\ dropped' = dropped + l + n
  BY DEF EstopReset
<1>3. k \in Nat /\ l \in Nat /\ k <= l
  BY CountType DEF Types
<1>4. /\ n \in Nat
      /\ "host" \in Waiting(b) => n >= 1
  <2>1. IsFiniteSet(Waiting(b))
    BY WaitingClients, FS_Subset
  <2> QED BY <2>1, FS_CardinalityType, FS_EmptySet
<1>5. /\ Posting' \in 0 .. 1 /\ Posting' <= Posting
      /\ Posting - Posting' <= n
  <2>1. CASE "host" \in Waiting(b)
    <3>1. Posting = 1 /\ Posting' = 0
      BY <2>1 DEF EstopReset, Posting, Waiting, Inside, Types
    <3> QED BY <1>4, <2>1, <3>1
  <2>2. CASE "host" \notin Waiting(b)
    <3>1. Posting' = Posting
      <4>1. CASE "host" = t
        BY <2>2, <4>1 DEF EstopReset, Posting, Inside, Types
      <4>2. CASE "host" # t
        BY <2>2, <4>2 DEF EstopReset, Posting, Types
      <4> QED BY <4>1, <4>2
    <3> QED BY <1>4, <3>1, OwedTypes
  <2> QED BY <2>1, <2>2
<1>6. InMain' + InAlt' = InMain + InAlt - k /\ InMain' \in Nat /\ InAlt' \in Nat
  <2>1. box'[b] = <<>>
    BY DEF EstopReset, Types
  <2>2. CASE b = "main"
    <3>1. box'["alt"] = box["alt"]
      BY <2>2 DEF EstopReset, Types, Boxes
    <3>2. InMain' = 0 /\ InAlt' = InAlt /\ InMain = k
      BY <2>1, <2>2, <3>1, CountEmpty DEF InMain, InAlt
    <3> QED BY <3>2, OwedTypes
  <2>3. CASE b = "alt"
    <3>1. box'["main"] = box["main"]
      BY <2>3 DEF EstopReset, Types, Boxes
    <3>2. InAlt' = 0 /\ InMain' = InMain /\ InAlt = k
      BY <2>1, <2>3, <3>1, CountEmpty DEF InMain, InAlt
    <3> QED BY <3>2, OwedTypes
  <2> QED BY <2>2, <2>3 DEF Boxes
<1> HIDE DEF n, l, k
<1> QED BY <1>1, <1>2, <1>3, <1>4, <1>5, <1>6, OwedTypes DEF HostOwed, Owed

LEMMA PrinterOwed ==
  ASSUME Types, HostOwed, PrinterThread
  PROVE  HostOwed'
<1> USE ClientsAreThreads
<1>1. Posting' = Posting /\ UNCHANGED <<busy, dropped>>
  BY DEF PrinterThread, FetchTimeout, Fetch, Check, Dispatch, CallEstop, Mark, FreeCurrent, Goto,
    Posting, Types
<1>2. CASE Fetch
  <2>1. reads \in Boxes /\ box[reads] \in Seq(Commands)
    BY DEF Types
  <2>2. /\ box[reads] # <<>> /\ cur' = Head(box[reads])
        /\ box' = [box EXCEPT ![reads] = Tail(box[reads])] /\ UNCHANGED acks
    BY <1>2 DEF Fetch
  <2> DEFINE one == IF Head(box[reads]).ack = "host" THEN 1 ELSE 0
  <2>3. InHand = 0 /\ InHand' = one
    BY <1>2, <2>2 DEF Fetch, Goto, InHand, Types
  <2>4. box'[reads] = Tail(box[reads])
    BY <2>1, <2>2 DEF Types
  <2>5. CountIn(box[reads]) = CountIn(box'[reads]) + one
    BY <2>1, <2>2, <2>4, CountTail
  <2>6. one \in 0 .. 1
    OBVIOUS
  <2>7. CountIn(box'[reads]) \in Nat
    <3>1. Tail(box[reads]) \in Seq(Commands)
      BY <2>1, <2>2
    <3> QED BY <2>4, <3>1, CountType
  <2> HIDE DEF one
  <2>10. acks'["host"] = acks["host"]
    BY <2>2
  <2>8. CASE reads = "main"
    <3>1. box'["alt"] = box["alt"]
      BY <2>2, <2>8 DEF Types, Boxes
    <3>2. InMain = InMain' + one /\ InAlt' = InAlt /\ InMain' \in Nat
      BY <2>5, <2>7, <2>8, <3>1 DEF InMain, InAlt
    <3>3. Owed' = Owed
      BY <2>3, <2>6, <2>10, <3>2, <1>1, OwedTypes DEF Owed
    <3> QED BY <1>1, <3>3 DEF HostOwed
  <2>9. CASE reads = "alt"
    <3>1. box'["main"] = box["main"]
      BY <2>2, <2>9 DEF Types, Boxes
    <3>2. InAlt = InAlt' + one /\ InMain' = InMain /\ InAlt' \in Nat
      BY <2>5, <2>7, <2>9, <3>1 DEF InMain, InAlt
    <3>3. Owed' = Owed
      BY <2>3, <2>6, <2>10, <3>2, <1>1, OwedTypes DEF Owed
    <3> QED BY <1>1, <3>3 DEF HostOwed
  <2> QED BY <2>1, <2>8, <2>9 DEF Boxes
<1>3. CASE FreeCurrent
  <2>1. /\ InHand = (IF cur.ack = "host" THEN 1 ELSE 0) /\ InHand' = 0
    BY <1>3 DEF FreeCurrent, Goto, InHand, Types
  <2>2. acks'["host"] = acks["host"] + (IF cur.ack = "host" THEN 1 ELSE 0)
    <3>1. cur.ack \in {"host", "storage", None}
      BY DEF Types, Commands
    <3>2. CASE cur.ack = None
      BY <1>3, <3>2, AckCounts DEF FreeCurrent, None
    <3>3. CASE cur.ack # None
      BY <1>3, <3>1, <3>3, AckCounts DEF FreeCurrent, Acknowledge
    <3> QED BY <3>2, <3>3
  <2>3. InMain' = InMain /\ InAlt' = InAlt
    BY <1>3 DEF FreeCurrent, InMain, InAlt
  <2> QED BY <1>1, <2>1, <2>2, <2>3, OwedTypes DEF HostOwed, Owed
<1>4. CASE FetchTimeout \/ Check \/ Dispatch \/ Mark
  <2>1. UNCHANGED <<box, acks, cur>>
    BY <1>4 DEF FetchTimeout, Check, Dispatch, Mark
  <2>2. InHand' = InHand
    BY <1>4, <2>1 DEF FetchTimeout, Check, Dispatch, CallEstop, Mark, Goto, InHand, Types
  <2> QED BY <1>1, <2>1, <2>2, QuietOwed DEF HostQuiet
<1> QED BY <1>2, <1>3, <1>4 DEF PrinterThread

\* A thread other than the host leaves the host's push alone.
LEMMA GotoPosting ==
  ASSUME Types, NEW t \in Threads, NEW w, Goto(t, w),
         t = "host" => (w \in Inside <=> pc[t] \in Inside)
  PROVE  Posting' = Posting
BY ClientsAreThreads DEF Types, Goto, Posting

LEMMA ClientInHand ==
  ASSUME Types, NEW c \in Clients, NEW w, Goto(c, w), UNCHANGED cur
  PROVE  InHand' = InHand
BY ClientsAreThreads DEF Types, Goto, InHand

LEMMA HostStepOwed ==
  ASSUME Types, HostOwed, "host" \in Clients, Host
  PROVE  HostOwed'
<1> USE ClientsAreThreads
<1>1. CASE HostSync \/ HostSet
  <2>1. UNCHANGED <<box, cur, acks, dropped>> /\ InMain' = InMain /\ InAlt' = InAlt
    BY <1>1 DEF HostSync, HostSet, InMain, InAlt
  <2>2. CASE busy' = busy + 1 /\ Goto("host", "alloc")
    <3>1. pc["host"] = "idle"
      BY <1>1 DEF HostSync, HostSet
    <3>2. Posting = 0 /\ Posting' = 1
      BY <2>2, <3>1 DEF Goto, Posting, Inside, Types
    <3>3. InHand' = InHand
      BY <2>1, <2>2, ClientInHand
    <3> QED BY <2>1, <2>2, <3>2, <3>3, OwedTypes DEF HostOwed, Owed
  <2>3. CASE UNCHANGED <<busy, pc>>
    <3>1. InHand' = InHand /\ Posting' = Posting
      BY <2>1, <2>3 DEF InHand, Posting
    <3> QED BY <2>1, <2>3, <3>1, QuietOwed DEF HostQuiet
  <2> QED BY <1>1, <2>2, <2>3 DEF HostSync, HostSet, StartPush
<1>2. CASE HostDrain
  <2>1. /\ busy' = busy - acks["host"] /\ acks'["host"] = 0
        /\ UNCHANGED <<box, cur, pc, dropped>>
    BY <1>2, AckCounts DEF HostDrain
  <2>2. InMain' = InMain /\ InAlt' = InAlt /\ InHand' = InHand /\ Posting' = Posting
    BY <2>1 DEF InMain, InAlt, InHand, Posting
  <2> QED BY <2>1, <2>2, OwedTypes DEF HostOwed, Owed
<1>3. CASE HostRelease
  BY <1>3, QuietOwed DEF HostRelease, HostQuiet, InHand, Posting
<1> QED BY <1>1, <1>2, <1>3 DEF Host

LEMMA OtherOwed ==
  ASSUME Types, HostOwed,
         \/ "storage" \in Clients /\ Storage
         \/ "ui" \in Clients /\ Ui
  PROVE  HostOwed'
<1> USE ClientsAreThreads
<1>1. /\ UNCHANGED <<box, busy, dropped, cur>>
      /\ acks'["host"] = acks["host"]
  BY AckCounts DEF Storage, StorageDrain, StorageStart, StorageCheck, StorageLine,
    Ui, UiPrint, UiChoose, UiInterrupt, UiResume, UiPrepare, UiHome, UiBack, UiThrownOut
<1>2. ASSUME ~UNCHANGED pc
      PROVE  \E c \in {"storage", "ui"} : c \in Clients /\ \E w : Goto(c, w)
  BY <1>2 DEF Storage, StorageDrain, StorageStart, StorageCheck, StorageLine, StartPush, CallEstop,
    Ui, UiPrint, UiChoose, UiInterrupt, UiResume, UiPrepare, UiHome, UiBack, UiThrownOut
<1>3. InHand' = InHand /\ Posting' = Posting
  <2>1. CASE UNCHANGED pc
    BY <1>1, <2>1 DEF InHand, Posting
  <2>2. CASE ~UNCHANGED pc
    <3>1. PICK c \in {"storage", "ui"} : c \in Clients /\ \E w : Goto(c, w)
      BY <1>2, <2>2
    <3>2. PICK w : Goto(c, w)
      BY <3>1
    <3> QED BY <1>1, <3>1, <3>2, GotoPosting, ClientInHand
  <2> QED BY <2>1, <2>2
<1> QED BY <1>1, <1>3, OwedTypes DEF HostOwed, Owed, InMain, InAlt

LEMMA StopOwed ==
  ASSUME Types, HostOwed,
         \/ \E c \in Clients : EstopClear(c) \/ EstopCall(c)
         \/ \E t \in Threads : EstopBegin(t) \/ EstopMachine(t)
  PROVE  HostOwed'
<1> USE ClientsAreThreads
<1>1. UNCHANGED <<box, acks, busy, dropped, cur>>
  BY DEF EstopClear, EstopCall, EstopBegin, EstopMachine
<1>2. InHand' = InHand
  BY <1>1 DEF EstopClear, EstopCall, CallEstop, EstopBegin, EstopMachine, Goto, InHand, Types
<1>3. Posting' = Posting
  BY DEF EstopClear, EstopCall, CallEstop, EstopBegin, EstopMachine, Goto, Posting, Inside, Types
<1> QED BY <1>1, <1>2, <1>3, QuietOwed DEF HostQuiet

LEMMA NextOwed == Types /\ PushNames /\ HostOwed /\ [Next]_vars => HostOwed'
<1> SUFFICES ASSUME Types, PushNames, HostOwed, [Next]_vars PROVE HostOwed'
  OBVIOUS
<1>1. CASE UNCHANGED vars
  <2>1. HostQuiet
    BY <1>1 DEF vars, HostQuiet, InHand, Posting
  <2> QED BY <2>1, QuietOwed
<1>2. ASSUME NEW t \in Threads, Estop(t)
      PROVE  HostOwed'
  BY <1>2, StopOwed, ResetOwed DEF Estop, Boxes
<1>3. ASSUME NEW c \in Clients, Allocate(c) \/ Post(c) \/ EstopClear(c) \/ EstopCall(c)
      PROVE  HostOwed'
  BY <1>3, StopOwed, PushOwed
<1>4. ASSUME \/ "host" \in Clients /\ Host
             \/ "storage" \in Clients /\ Storage
             \/ "ui" \in Clients /\ Ui
      PROVE  HostOwed'
  <2>1. CASE "host" \in Clients /\ Host
    BY <2>1, HostStepOwed
  <2>2. CASE "storage" \in Clients /\ Storage
    BY <2>2, OtherOwed
  <2>3. CASE "ui" \in Clients /\ Ui
    BY <2>3, OtherOwed
  <2> QED BY <1>4, <2>1, <2>2, <2>3
<1>5. CASE PrinterThread
  BY <1>5, PrinterOwed
<1>6. CASE Next
  <2>1. CASE \E c \in Clients : Allocate(c) \/ Post(c) \/ EstopClear(c)
    BY <1>3, <2>1
  <2>2. CASE \E c \in Clients \ {"storage"} : EstopCall(c)
    BY <1>3, <2>2
  <2>3. CASE \E t \in Threads : Estop(t)
    BY <1>2, <2>3
  <2> QED BY <1>4, <1>5, <1>6, <2>1, <2>2, <2>3 DEF Next
<1> QED BY <1>1, <1>6

\* The names of what is pushed.
LEMMA StartNames ==
  ASSUME Types, PushNames, NEW c \in Clients, NEW source, NEW k,
         StartPush(c, source, k), k.ack = "host" <=> c = "host"
  PROVE  PushNames'
BY ClientsAreThreads DEF Types, PushNames, StartPush, Goto

LEMMA GotoNames ==
  ASSUME Types, PushNames, NEW t \in Threads, NEW w, Goto(t, w), UNCHANGED push,
         w \in Inside => pc[t] \in Inside
  PROVE  PushNames'
BY ClientsAreThreads DEF Types, PushNames, Goto

LEMMA SameNames ==
  ASSUME PushNames, UNCHANGED <<pc, push>> PROVE PushNames'
BY DEF PushNames

LEMMA PoolNames ==
  ASSUME Types, PushNames, NEW c \in Clients, Allocate(c) \/ Post(c)
  PROVE  PushNames'
<1> USE ClientsAreThreads
<1>1. ASSUME NEW d \in Clients, d # c
      PROVE  push'[d] = push[d] /\ pc'[d] = pc[d]
  BY <1>1 DEF Allocate, Post, Goto, Types
<1>2. pc'[c] \in Inside => pc[c] \in Inside /\ push'[c].command = push[c].command
  <2>1. CASE Allocate(c)
    <3>1. push[c] \in Pushes
      BY DEF Types
    <3>2. push'[c] = [push[c] EXCEPT !.to = Route(push[c].source)]
      BY <2>1 DEF Allocate, Types
    <3>3. push'[c].command = push[c].command
      BY <3>1, <3>2 DEF Pushes
    <3> QED BY <2>1, <3>3 DEF Allocate, Inside
  <2>2. CASE Post(c)
    BY <2>2 DEF Post, Goto, Inside, Types
  <2> QED BY <2>1, <2>2
<1> QED BY <1>1, <1>2 DEF PushNames

LEMMA PrinterNames ==
  ASSUME Types, PushNames, PrinterThread
  PROVE  PushNames'
<1> USE ClientsAreThreads
<1>1. UNCHANGED push /\ \A c \in Clients : pc'[c] = pc[c]
  BY DEF PrinterThread, FetchTimeout, Fetch, Check, Dispatch, CallEstop, Mark, FreeCurrent, Goto,
    Types
<1> QED BY <1>1 DEF PushNames

LEMMA StopNames ==
  ASSUME Types, PushNames, NEW t \in Threads,
         \/ Estop(t)
         \/ t \in Clients /\ (EstopClear(t) \/ EstopCall(t))
  PROVE  PushNames'
<1> USE ClientsAreThreads
<1>1. ASSUME NEW b \in Boxes, EstopReset(t, b)
      PROVE  PushNames'
  <2>1. ASSUME NEW c \in Clients, pc'[c] \in Inside
        PROVE  pc[c] \in Inside /\ push'[c] = push[c]
    BY <1>1, <2>1 DEF EstopReset, Inside, Types
  <2> QED BY <2>1 DEF PushNames
<1>2. ASSUME UNCHANGED push, \E w \in {"stopping", "resetMain", "idle", "estop"} : Goto(t, w)
      PROVE  PushNames'
  BY <1>2, GotoNames DEF Inside
<1> QED BY <1>1, <1>2 DEF Estop, EstopBegin, EstopMachine, EstopClear, EstopCall, CallEstop, Boxes

LEMMA FeederNames ==
  ASSUME Types, PushNames,
         \/ "host" \in Clients /\ Host
         \/ "storage" \in Clients /\ Storage
         \/ "ui" \in Clients /\ Ui
  PROVE  PushNames'
<1> USE ClientsAreThreads
<1> DEFINE Left == {"idle", "start", "check", "line", "interrupt", "resume", "prepare", "estop"}
<1>0. /\ Command("Sync", "host").ack = "host" /\ Command("Set", "host").ack = "host"
      /\ Command("Sync", "storage").ack # "host"
      /\ Command("Interrupt", None).ack # "host" /\ Command("Resume", None).ack # "host"
      /\ Command("Sync", None).ack # "host"
  BY DEF Command, None
<1>1. CASE UNCHANGED <<pc, push>>
  BY <1>1, SameNames
<1>2. ASSUME NEW c \in Clients, UNCHANGED push, \E w \in Left : Goto(c, w)
      PROVE  PushNames'
  BY <1>2, GotoNames DEF Inside
<1>3. CASE "host" \in Clients /\ Host
  BY <1>0, <1>1, <1>3, StartNames DEF Host, HostSync, HostSet, HostDrain, HostRelease
<1>4. CASE "storage" \in Clients /\ Storage
  BY <1>0, <1>1, <1>2, <1>4, StartNames DEF Storage, StorageDrain, StorageStart, StorageCheck,
    StorageLine, CallEstop
<1>5. CASE "ui" \in Clients /\ Ui
  BY <1>0, <1>1, <1>2, <1>5, StartNames DEF Ui, UiPrint, UiChoose, UiInterrupt, UiResume,
    UiPrepare, UiHome, UiBack, UiThrownOut, CallEstop
<1> QED BY <1>3, <1>4, <1>5

LEMMA NextNames == Types /\ PushNames /\ [Next]_vars => PushNames'
<1> SUFFICES ASSUME Types, PushNames, [Next]_vars PROVE PushNames'
  OBVIOUS
<1>1. CASE UNCHANGED vars
  BY <1>1, SameNames DEF vars
<1>2. CASE Next
  <2>1. ASSUME NEW t \in Threads,
               \/ Estop(t)
               \/ t \in Clients /\ (EstopClear(t) \/ EstopCall(t))
        PROVE  PushNames'
    BY <2>1, StopNames
  <2>2. ASSUME NEW c \in Clients, Allocate(c) \/ Post(c) \/ EstopClear(c) \/ EstopCall(c)
        PROVE  PushNames'
    BY <2>1, <2>2, PoolNames, ClientsAreThreads
  <2>3. ASSUME \/ "host" \in Clients /\ Host
               \/ "storage" \in Clients /\ Storage
               \/ "ui" \in Clients /\ Ui
        PROVE  PushNames'
    BY <2>3, FeederNames
  <2>4. CASE \E c \in Clients : Allocate(c) \/ Post(c) \/ EstopClear(c)
    BY <2>2, <2>4
  <2>5. CASE \E c \in Clients \ {"storage"} : EstopCall(c)
    BY <2>2, <2>5
  <2>6. CASE \E t \in Threads : Estop(t)
    BY <2>1, <2>6
  <2>7. CASE PrinterThread
    BY <2>7, PrinterNames
  <2> QED BY <1>2, <2>3, <2>4, <2>5, <2>6, <2>7 DEF Next
<1> QED BY <1>1, <1>2

LEMMA Bounds ==
  ASSUME NEW pool \in Nat, NEW fr \in Nat, NEW ex \in Nat, NEW held \in Nat, NEW lm \in Nat,
         NEW la \in Nat, NEW ah \in Nat, NEW st \in Nat, NEW dr \in Nat,
         NEW owed \in Nat, NEW waits \in Int,
         fr + ex + held + (lm + la) + (ah + st) + dr = pool,
         owed <= lm + la + ex + 1 + ah, owed <= waits, waits <= owed + dr
  PROVE  fr \in 0 .. pool /\ dr \in 0 .. pool /\ waits \in 0 .. pool + 1
OBVIOUS

\* Every variable has its type, for every number of stops: the pool and the host's
\* count of busy commands stay within their bounds.
THEOREM TypeCorrect == Spec => []TypeOK
<1> DEFINE Inv == Types /\ PoolConserved /\ PushNames /\ HostOwed
<1>1. Init => Inv
  <2> SUFFICES ASSUME Init PROVE Inv
    OBVIOUS
  <2>1. PushNames
    BY ClientsAreThreads DEF Init, PushNames, Inside
  <2>2. InHand = 0 /\ Posting = 0 /\ acks["host"] = 0 /\ busy = 0 /\ dropped = 0
    BY ClientsAreThreads DEF Init, InHand, Posting, Inside
  <2>3. InMain = 0 /\ InAlt = 0
    BY CountEmpty DEF Init, InMain, InAlt
  <2>4. HostOwed
    BY <2>2, <2>3 DEF HostOwed, Owed
  <2> QED BY <2>1, <2>4, InitTypes, InitConserves
<1>2. Inv /\ [Next]_vars => Inv'
  BY NextTypes, NextConserves, NextNames, NextOwed
<1>3. Inv => TypeOK
  <2> SUFFICES ASSUME Inv PROVE TypeOK
    OBVIOUS
  <2>1. PoolSize \in Nat
    BY BufferAssumption DEF PoolSize
  <2>2. free \in 0 .. PoolSize /\ dropped \in 0 .. PoolSize /\ busy \in 0 .. PoolSize + 1
    <3>1. InMain <= Len(box["main"]) /\ InAlt <= Len(box["alt"]) /\ InHand <= InExecution
      BY CountType DEF InMain, InAlt, InHand, InExecution, Types, Boxes
    <3>2. InExecution \in Nat /\ free \in Nat
      BY DEF InExecution, Types
    <3>3. free + InExecution + Held + (Len(box["main"]) + Len(box["alt"]))
            + (acks["host"] + acks["storage"]) + dropped = PoolSize
      BY DEF PoolConserved, InBoxes, Unanswered
    <3>4. Owed <= busy /\ busy <= Owed + dropped
      BY DEF HostOwed
    <3> DEFINE lm == Len(box["main"])
               la == Len(box["alt"])
               ah == acks["host"]
               as == acks["storage"]
    <3>5. lm \in Nat /\ la \in Nat /\ ah \in Nat /\ as \in Nat /\ Held \in Nat /\ dropped \in Nat
      BY BoxCounts, AckCounts, HeldCounts DEF Types
    <3>6. /\ InMain <= lm /\ InAlt <= la /\ InHand <= InExecution
          /\ free + InExecution + Held + (lm + la) + (ah + as) + dropped = PoolSize
          /\ Owed = InMain + InAlt + InHand + Posting + ah
      BY <3>1, <3>3 DEF Owed
    <3> HIDE DEF lm, la, ah, as
    <3>7. Owed \in Nat /\ Owed <= lm + la + InExecution + 1 + ah
      <4>1. /\ InMain \in Nat /\ InAlt \in Nat /\ InHand \in Nat /\ Posting \in Nat /\ Posting <= 1
        BY OwedTypes
      <4> QED BY <3>2, <3>5, <3>6, <4>1
    <3>8. busy \in Int
      BY DEF Types
    <3>9. free + InExecution + Held + (lm + la) + (ah + as) + dropped = PoolSize
      BY <3>6
    <3> QED BY <2>1, <3>2, <3>4, <3>5, <3>7, <3>8, <3>9, Bounds
  <2>3. {reading, eof, start, halted} \subseteq BOOLEAN
    BY Zenon DEF Types
  <2>4. /\ state \in {"Standby", "Printing", "Interrupting", "Interrupted", "Estopped"}
        /\ main \in Sources \cup {None} /\ alt \in Sources \cup {None}
        /\ \A b \in {"main", "alt"} : box[b] \in Seq(Commands) /\ Len(box[b]) <= BufferSize
        /\ cur \in Commands /\ reads \in {"main", "alt"} /\ mtx \in Threads \cup {Nobody}
        /\ \A c \in {"host", "storage"} : acks[c] \in 0 .. AckSize
        /\ page \in {"menu", "prepare"} /\ stops \in 0 .. MaxEstops
    BY DEF Types, Boxes, Acknowledged
  <2>5. /\ pc["printer"] \in PrinterPlaces
        /\ \A c \in Clients : pc[c] \in ClientPlaces /\ push[c] \in Pushes
    BY DEF Types
  <2> QED BY <2>2, <2>3, <2>4, <2>5 DEF TypeOK, PrinterPlaces, ClientPlaces, InSection, Pushes, Boxes
<1> QED BY <1>1, <1>2, <1>3, PTL DEF Spec
=============================================================================
