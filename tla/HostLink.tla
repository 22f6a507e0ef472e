------------------------------ MODULE HostLink ------------------------------
(***************************************************************************)
(* The host's side of a print over a line that loses things: numbered      *)
(* lines, the decoder, what process_new_line (data/datahost.c) answers, and *)
(* the printer as the host sees it.  The printer is not interrupted here:  *)
(* who fetches from which mailbox while it is, is in Printer.               *)
(*                                                                         *)
(* The sender is any program that obeys the answers: it goes on after an   *)
(* "ok", goes back to the line of a "rs", and goes back to its first       *)
(* unanswered line when it hears nothing for a time, too early or not.     *)
(* Answers it does nothing about ("ack", "busy", "!!", "start" and the     *)
(* reports) are left out.                                                  *)
(***************************************************************************)
EXTENDS Gcode

CONSTANTS
  Lines,        \* lines to try the decoder on
  Programs,     \* what a sender may send: a sequence of lines each
  Windows,      \* how many unanswered lines it allows itself
  Room,         \* room for lines, and for answers, on the way
  BoxSize,      \* COMMAND_BUFFER_SIZE
  MaxLosses, MaxStops, MaxPrints   \* bounds: losses, stops by others, other prints

\* Words whose code fits the 16 bits it is kept in, an M code 10000 higher.
ASSUME LinesAssumption ==
  \A line \in Lines :
    /\ line.m \in Seq(Nat) /\ \A i \in DOMAIN line.m : 10000 + line.m[i] < 65536
    /\ line.g \in Seq(Nat) /\ \A i \in DOMAIN line.g : line.g[i] < 65536
ASSUME ProgramsAssumption == Programs \subseteq Seq(Lines)
ASSUME WindowsAssumption == Windows \subseteq Nat \ {0}
ASSUME RoomAssumption == Room \in Nat \ {0, 1} /\ BoxSize \in Nat \ {0}

VARIABLES
  program,        \* the sender's lines, as the host decodes each of them
  window,         \* the sender's window
  base, next,     \* the sender's first unanswered line, and the next to send
  toHost,         \* numbers of the lines on the way
  toSender,       \* answers on the way: <<"ok">> or <<"rs", line>>
  last,           \* last_received_line
  busy,           \* busy
  pushing,        \* line of a command that waits for room in its mailbox, or 0
  main, alt,      \* command_main_mbox and command_alt_mbox, as line numbers
  cur,            \* line of curr_command, or 0
  acks,           \* ack_mbox
  owner,          \* main_source
  stopped,        \* state is Estopped
  losses, stops, prints,   \* how many so far
  log,            \* history: lines in the order their commands were pushed
  told,           \* history: lines refused, and said so
  dropped,        \* history: how many commands stops have dropped
  doubted,        \* history: some "ok" was not the one answer to one line
  renumbered,     \* history: M110 was taken out of its turn
  scolded         \* history: "Please enable ping-pong" was sent

senderVars == <<program, window, base, next>>
lineVars == <<toHost, toSender>>
hostVars == <<last, busy, pushing>>
printerVars == <<main, alt, cur, acks, owner, stopped>>
boundVars == <<losses, stops, prints>>
historyVars == <<log, told, dropped, doubted, renumbered, scolded>>
vars == <<senderVars, lineVars, hostVars, printerVars, boundVars, historyVars>>

Init ==
  /\ program \in {[i \in DOMAIN p |-> gcodeDecode(p[i])] : p \in Programs}
  /\ window \in Windows
  /\ base = 1 /\ next = 1
  /\ toHost = <<>> /\ toSender = <<>>
  /\ last = 0 /\ busy = 0 /\ pushing = 0
  /\ main = <<>> /\ alt = <<>> /\ cur = 0 /\ acks = <<>>
  /\ owner = "None" /\ stopped = FALSE
  /\ losses = 0 /\ stops = 0 /\ prints = 0
  /\ log = <<>> /\ told = {} /\ dropped = 0
  /\ doubted = FALSE /\ renumbered = FALSE /\ scolded = FALSE

Command(n) == program[n]
IsSync(cmd) == "Sync" \in cmd.type
IsAction(cmd) == cmd.valid /\ "Action" \in cmd.type
IsImmediate(cmd) == cmd.code \in {10105, 10112, 10114, 10115}

-----------------------------------------------------------------------------
(* The sender and the line *)

otherThanLine == <<program, window, hostVars, printerVars, historyVars>>

Send ==
  /\ next <= Len(program) /\ next - base < window
  /\ Len(toHost) < Room
  /\ toHost' = Append(toHost, next)
  /\ next' = next + 1
  /\ UNCHANGED <<otherThanLine, base, toSender, boundVars>>

\* Nothing heard for a time: from the first unanswered line again.
Timeout ==
  /\ base < next
  /\ Len(toHost) < Room
  /\ toHost' = Append(toHost, base)
  /\ next' = base + 1
  /\ UNCHANGED <<otherThanLine, base, toSender, boundVars>>

ReceiveAnswer ==
  /\ toSender # <<>>
  /\ toSender' = Tail(toSender)
  /\ LET answer == Head(toSender) IN
       IF answer[1] = "ok"
       THEN /\ base' = IF base < next THEN base + 1 ELSE base
            /\ UNCHANGED next
       ELSE base' = answer[2] /\ next' = answer[2]
  /\ UNCHANGED <<otherThanLine, toHost, boundVars>>

LoseLine ==
  /\ toHost # <<>> /\ losses < MaxLosses
  /\ toHost' = Tail(toHost)
  /\ losses' = losses + 1
  /\ UNCHANGED <<otherThanLine, base, next, toSender, stops, prints>>

LoseAnswer ==
  /\ toSender # <<>> /\ losses < MaxLosses
  /\ toSender' = Tail(toSender)
  /\ losses' = losses + 1
  /\ UNCHANGED <<otherThanLine, base, next, toHost, stops, prints>>

\* CHN_CONNECTED: whatever was on the way is gone, and printerRelease. Nothing
\* else of the host's context is reset.
Reconnect ==
  /\ losses < MaxLosses /\ pushing = 0
  /\ losses' = losses + 1
  /\ toHost' = <<>> /\ toSender' = <<>>
  /\ owner' = IF owner = "Host" THEN "None" ELSE owner
  /\ UNCHANGED <<senderVars, hostVars, main, alt, cur, acks, stopped, stops, prints,
                 historyVars>>

-----------------------------------------------------------------------------
(* process_new_line *)

\* The host can take a line: it is not stuck in a push, and its answers, two at
\* most, have room.
Listens ==
  /\ toHost # <<>> /\ pushing = 0
  /\ Len(toSender) + 2 <= Room
  /\ toHost' = Tail(toHost)

Oks(n) == [i \in 1 .. n |-> <<"ok">>]
Answer(answers) == toSender' = toSender \o answers

AcceptsAll(cmd, n) == TRUE               \* mutant: the number is not looked at
Accepts(cmd, n) == n = last + 1 \/ cmd.code = 10110

ExpectedNext == last + 2                 \* mutant: one line too far
Expected == last + 1

\* A line too early.
Resend ==
  /\ Listens
  /\ LET n == Head(toHost) IN ~Accepts(Command(n), n) /\ n > last + 1
  /\ Answer(<< <<"rs", Expected>> >>)
  /\ UNCHANGED <<senderVars, hostVars, printerVars, boundVars, historyVars>>

\* A line again: "busy", which is no answer, or an "ok" with no number.
Repeated ==
  /\ Listens
  /\ LET n == Head(toHost) IN ~Accepts(Command(n), n) /\ n <= last
  /\ Answer(Oks(IF busy > 0 THEN 0 ELSE 1))
  /\ doubted' = (doubted \/ busy = 0)
  /\ UNCHANGED <<senderVars, hostVars, printerVars, boundVars, log, told, dropped,
                 renumbered, scolded>>

\* printerEstopCore on the mailboxes.
Waiting == Len(main) + Len(alt) + (IF pushing = 0 THEN 0 ELSE 1)
StopCore ==
  /\ stopped' = TRUE
  /\ owner' = "None"
  /\ main' = <<>> /\ alt' = <<>>
  /\ dropped' = dropped + Waiting

Takes(n) ==
  /\ Listens
  /\ n = Head(toHost)
  /\ Accepts(Command(n), n)
  /\ last' = n
  /\ renumbered' = (renumbered \/ (Command(n).code = 10110 /\ n # last + 1))

\* A line that means nothing stops the machine, if it is not stopped already.
BadLine ==
  \E n \in DOMAIN program :
    /\ Takes(n)
    /\ ~Command(n).valid
    /\ IF stopped THEN UNCHANGED <<stopped, owner, main, alt, dropped>> ELSE StopCore
    /\ Answer(Oks(1))
    /\ told' = told \cup {n}
    /\ UNCHANGED <<senderVars, busy, pushing, cur, acks, boundVars, log, doubted, scolded>>

\* What M999, G28 and M112 make of the stop before the command goes further.
StopAfter(cmd) ==
  CASE cmd.code \in {10999, 28} ->
         stopped' = FALSE /\ UNCHANGED <<main, alt, dropped>>
    [] cmd.code = 10112 ->
         stopped' = TRUE /\ main' = <<>> /\ alt' = <<>> /\ dropped' = dropped + Waiting
    [] OTHER -> UNCHANGED <<stopped, main, alt, dropped>>
OwnerAfter(cmd) == IF cmd.code = 10112 THEN "None" ELSE owner

ImmediateOks(cmd) == IF IsImmediate(cmd) \/ ~IsAction(cmd) THEN 1 ELSE 0

\* A line for the host alone.
HostLine ==
  \E n \in DOMAIN program :
    LET cmd == Command(n) IN
    /\ Takes(n)
    /\ cmd.valid /\ ~IsAction(cmd)
    /\ StopAfter(cmd) /\ owner' = OwnerAfter(cmd)
    /\ Answer(Oks(1))
    /\ UNCHANGED <<senderVars, busy, pushing, cur, acks, boundVars, log, told, doubted, scolded>>

\* A line for the printer while the host waits for another: refused, and its
\* number is taken all the same.
PleasePingPong ==
  \E n \in DOMAIN program :
    LET cmd == Command(n) IN
    /\ Takes(n)
    /\ IsAction(cmd) /\ IsSync(cmd) /\ busy > 0
    /\ StopAfter(cmd) /\ owner' = OwnerAfter(cmd)
    /\ Answer(Oks(ImmediateOks(cmd)))
    /\ told' = told \cup {n}
    /\ scolded' = TRUE
    /\ UNCHANGED <<senderVars, busy, pushing, cur, acks, boundVars, log, doubted>>

\* printerTryAcquire of a printer that nobody interrupts.
Acquires == ~stopped' /\ OwnerAfter(Command(Head(toHost))) \in {"None", "Host"}

\* A line for a printer that is stopped or prints for someone else.
NotAcquired ==
  \E n \in DOMAIN program :
    LET cmd == Command(n) IN
    /\ Takes(n)
    /\ IsAction(cmd) /\ IsSync(cmd) /\ busy = 0
    /\ StopAfter(cmd) /\ owner' = OwnerAfter(cmd)
    /\ ~Acquires
    /\ Answer(Oks(1 + ImmediateOks(cmd)))
    /\ doubted' = (doubted \/ IsImmediate(cmd))
    /\ told' = told \cup {n}
    /\ UNCHANGED <<senderVars, busy, pushing, cur, acks, boundVars, log, scolded>>

\* A line for the printer, and one that needs no acquiring, which is pushed for
\* no source and so ends in the alternate mailbox.
CommandLine ==
  \E n \in DOMAIN program :
    LET cmd == Command(n) IN
    /\ Takes(n)
    /\ IsAction(cmd) /\ IsSync(cmd) => busy = 0
    /\ IsAction(cmd)
    /\ StopAfter(cmd)
    /\ IF IsSync(cmd) THEN Acquires /\ owner' = "Host" ELSE owner' = OwnerAfter(cmd)
    /\ Answer(Oks(ImmediateOks(cmd)))
    /\ doubted' = (doubted \/ IsImmediate(cmd))
    /\ busy' = busy + 1
    /\ pushing' = n
    /\ UNCHANGED <<senderVars, cur, acks, boundVars, log, told, scolded>>

\* Room for the command that is being pushed.
HasRoom(n) == IF IsSync(Command(n)) THEN Len(main) < BoxSize ELSE Len(alt) < BoxSize

\* chMBPost in printerPushCommand.
Push ==
  /\ pushing # 0
  /\ HasRoom(pushing)
  /\ IF IsSync(Command(pushing))
     THEN main' = Append(main, pushing) /\ UNCHANGED alt
     ELSE alt' = Append(alt, pushing) /\ UNCHANGED main
  /\ log' = Append(log, pushing)
  /\ pushing' = 0
  /\ UNCHANGED <<senderVars, lineVars, last, busy, cur, acks, owner, stopped, boundVars,
                 told, dropped, doubted, renumbered, scolded>>

\* An answered command is no longer waited for.
DrainKeepsBusy == busy                   \* mutant: one that stays in the count
BusyAfterAck == busy - 1

\* The host fetches from ack_mbox, and answers with a number the sender ignores.
HostDrain ==
  /\ acks # <<>> /\ pushing = 0
  /\ Len(toSender) < Room
  /\ Answer(Oks(1))
  /\ acks' = Tail(acks)
  /\ busy' = BusyAfterAck
  /\ UNCHANGED <<senderVars, toHost, last, pushing, main, alt, cur, owner, stopped,
                 boundVars, historyVars>>

\* IDLE_INTERVAL after an acknowledgement, with nothing on its way to the printer
\* or back. A push stops the clock, which is not followed here.
HostRelease ==
  /\ owner = "Host" /\ pushing = 0
  /\ main = <<>> /\ cur = 0 /\ acks = <<>>
  /\ owner' = "None"
  /\ UNCHANGED <<senderVars, lineVars, hostVars, main, alt, cur, acks, stopped, boundVars,
                 historyVars>>

-----------------------------------------------------------------------------
(* The printer *)

otherThanPrinter == <<senderVars, lineVars, hostVars, alt, owner, stopped, boundVars, historyVars>>

Fetch ==
  /\ cur = 0 /\ main # <<>>
  /\ cur' = Head(main) /\ main' = Tail(main)
  /\ UNCHANGED <<otherThanPrinter, acks>>

\* Executed, or skipped because of a stop: acknowledged in both cases.
Acknowledge ==
  /\ cur # 0 /\ Len(acks) < BoxSize + 1
  /\ acks' = Append(acks, cur) /\ cur' = 0
  /\ UNCHANGED <<otherThanPrinter, main>>

\* Stops and prints of others. A host that waits in chMBPost goes on and its
\* command is lost; one that has not come so far posts after the reset.
Stop ==
  /\ stops < MaxStops
  /\ stops' = stops + 1
  /\ stopped' = TRUE /\ owner' = "None"
  /\ main' = <<>> /\ alt' = <<>>
  /\ \/ pushing' = pushing /\ dropped' = dropped + Len(main) + Len(alt)
     \/ /\ pushing # 0 /\ ~HasRoom(pushing)
        /\ pushing' = 0 /\ dropped' = dropped + Waiting
  /\ UNCHANGED <<senderVars, lineVars, last, busy, cur, acks, losses, prints, log, told,
                 doubted, renumbered, scolded>>

StopClear ==
  /\ stopped
  /\ stopped' = FALSE
  /\ UNCHANGED <<senderVars, lineVars, hostVars, main, alt, cur, acks, owner, boundVars,
                 historyVars>>

PrintStart ==
  /\ owner = "None" /\ ~stopped
  /\ prints < MaxPrints
  /\ prints' = prints + 1
  /\ owner' = "Storage"
  /\ UNCHANGED <<senderVars, lineVars, hostVars, main, alt, cur, acks, stopped, losses,
                 stops, historyVars>>

PrintEnd ==
  /\ owner = "Storage"
  /\ owner' = "None"
  /\ UNCHANGED <<senderVars, lineVars, hostVars, main, alt, cur, acks, stopped, boundVars,
                 historyVars>>

-----------------------------------------------------------------------------
TakeLine == Resend \/ Repeated \/ BadLine \/ HostLine \/ PleasePingPong \/ NotAcquired \/ CommandLine
Others == Stop \/ StopClear \/ PrintStart \/ PrintEnd

Next ==
  \/ Send \/ Timeout \/ ReceiveAnswer \/ LoseLine \/ LoseAnswer \/ Reconnect
  \/ TakeLine \/ Push \/ HostDrain \/ HostRelease
  \/ Fetch \/ Acknowledge
  \/ Others

Spec == Init /\ [][Next]_vars

\* The sender sends, repeats and reads, the host and the printer run. Losses are
\* bounded by MaxLosses.
FairSpec ==
  /\ Spec
  /\ WF_vars(Send) /\ WF_vars(Timeout) /\ WF_vars(ReceiveAnswer)
  /\ WF_vars(TakeLine) /\ WF_vars(Push) /\ WF_vars(HostDrain)
  /\ WF_vars(Fetch) /\ WF_vars(Acknowledge)

-----------------------------------------------------------------------------
(* Properties *)

Boxed(box) == Len(box) <= BoxSize /\ \A i \in DOMAIN box : box[i] \in DOMAIN program

\* Types; and the host's count is that of the commands it has pushed and not had
\* back, those a stop threw out of the mailboxes included: these it waits for
\* for ever (printer.c:398, datahost.c:234).
TypeOK ==
  /\ base \in 1 .. Len(program) + 1 /\ next \in base .. base + window
  /\ last \in 0 .. Len(program)
  /\ pushing \in 0 .. Len(program) /\ cur \in 0 .. Len(program)
  /\ Boxed(main) /\ Boxed(alt) /\ Len(acks) <= BoxSize + 1
  /\ owner \in {"None", "Host", "Storage"} /\ stopped \in BOOLEAN
  /\ busy = Waiting + (IF cur = 0 THEN 0 ELSE 1) + Len(acks) + dropped

\* The decoder takes the lines that mean something, whatever the order of their
\* words, and no others; and a line that homes, sets a position or moves has the
\* axes to itself (gcode.c:72). The decoder keeps nothing from line to line, so the
\* lines are looked at before the sender has sent any.
NothingSent == next = 1 /\ last = 0 /\ toHost = <<>>
Misread == {line \in Lines : ~DecodesAsMeant(line)}
DecodedAsMeant == NothingSent => Misread = {}

\* Whatever is lost, repeated or sent too early, the printer gets the lines in
\* their order, none twice, and no line whose number was taken is missing but
\* one the host refused; unless a repeated M110 sets the numbers back.
Reached == 1 .. last
ReceivedInOrder ==
  ~renumbered =>
    /\ \A i, j \in DOMAIN log : i < j => log[i] < log[j]
    /\ \A n \in Reached :
         IsAction(Command(n)) /\ n # pushing /\ n \notin told /\ dropped = 0 =>
           Contains(log, n)
    /\ ToSet(log) \subseteq Reached

\* A sender that waits for its "ok" is never told to enable ping-pong, which
\* costs it the line, unless some "ok" was no sure answer: a second one for one
\* line, or one to a repetition, which carries no number (datahost.c:76, 138); or
\* an M110 with other words was repeated while the first one was being executed.
PingPongSuffices == scolded => window > 1 \/ doubted \/ renumbered

\* An obedient sender gets every line through a line that loses some, with two
\* exceptions: it waits for commands nobody will answer; or it believes it is
\* done, because an "ok" came twice for one line (an M110 taken twice included),
\* and its last lines were lost.
Unanswerable == dropped > 0 \/ alt # <<>>
AllReceived ==
  <>(\/ last >= Len(program)
     \/ (doubted \/ renumbered) /\ base > Len(program)
     \/ Unanswerable)
=============================================================================
