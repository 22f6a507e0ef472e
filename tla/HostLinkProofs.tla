--------------------------- MODULE HostLinkProofs ---------------------------
(***************************************************************************)
(* The safety properties of HostLink for any programs and windows, any     *)
(* room on the line and in the mailboxes, and any number of losses, stops  *)
(* and prints; and what the decoder of Gcode makes of any line.            *)
(***************************************************************************)
EXTENDS HostLink, FiniteSetTheorems, WellFoundedInduction, SequenceTheorems, TLAPS

Ok == <<"ok">>
Numbers == 1 .. Len(program)
Answers == {Ok} \cup ({"rs"} \X Numbers)

SenderTypes ==
  /\ Len(program) \in Nat /\ DOMAIN program = 1 .. Len(program)
  /\ window \in Nat \ {0}
  /\ base \in 1 .. Len(program) + 1 /\ next \in base .. base + window
  /\ next <= Len(program) + 1
  /\ toHost \in Seq(Numbers) /\ toSender \in Seq(Answers)

HostTypes ==
  /\ last \in 0 .. Len(program) /\ pushing \in 0 .. Len(program) /\ cur \in 0 .. Len(program)
  /\ main \in Seq(Numbers) /\ alt \in Seq(Numbers) /\ acks \in Seq(Numbers)
  /\ Len(main) <= BoxSize /\ Len(alt) <= BoxSize /\ Len(acks) <= BoxSize + 1
  /\ owner \in {"None", "Host", "Storage"} /\ stopped \in BOOLEAN
  /\ busy \in Nat /\ dropped \in Nat
  /\ log \in Seq(Numbers)
  /\ doubted \in BOOLEAN /\ renumbered \in BOOLEAN /\ scolded \in BOOLEAN

\* The host waits for every command it has pushed and not had back.
Counted == busy = Waiting + (IF cur = 0 THEN 0 ELSE 1) + Len(acks) + dropped

\* The line of a command that waits for room comes after all that have been pushed,
\* and every line taken has been pushed, was refused or has no command.
Ordered ==
  ~renumbered =>
    /\ \A i, j \in 1 .. Len(log) : i < j => log[i] < log[j]
    /\ \A i \in 1 .. Len(log) : log[i] <= last /\ (pushing # 0 => log[i] < pushing)
    /\ pushing <= last
    /\ \A n \in 1 .. last :
         IsAction(Command(n)) /\ n # pushing /\ n \notin told /\ dropped = 0 =>
           \E i \in 1 .. Len(log) : log[i] = n

\* A sender with one unanswered line: either the host has not taken it, and owes
\* nothing, or it has, and one "ok" at most is on its way or still to come.
Alone == window = 1 /\ ~doubted /\ ~renumbered
Turn ==
  Alone =>
    /\ ~scolded
    /\ toHost \in Seq(1 .. next - 1) /\ toSender \in Seq({Ok})
    /\ next \in base .. base + 1
    /\ \/ last = base - 1 /\ toSender = <<>> /\ busy = 0
       \/ last = base /\ next = base + 1 /\ Len(toSender) + busy <= 1

IInv == SenderTypes /\ HostTypes /\ Counted /\ Ordered /\ Turn

LEMMA BoxTypes == BoxSize \in Nat \ {0} /\ Room \in Nat \ {0, 1}
BY RoomAssumption

LEMMA EmptyIsSeq == \A S : <<>> \in Seq(S)
BY EmptySeq

LEMMA OksFacts ==
  ASSUME NEW k \in Nat, NEW S, Ok \in S
  PROVE  Oks(k) \in Seq(S) /\ Len(Oks(k)) = k
<1>1. Oks(k) = [i \in 1 .. k |-> Ok]
  BY DEF Oks, Ok
<1>2. Oks(k) \in [1 .. k -> S]
  BY <1>1
<1> QED BY <1>2, SeqDef

LEMMA InitIInv == Init => IInv
<1> SUFFICES ASSUME Init PROVE IInv
  OBVIOUS
<1>1. PICK p \in Programs : program = [i \in DOMAIN p |-> gcodeDecode(p[i])]
  BY DEF Init
<1>2. p \in Seq(Lines)
  BY ProgramsAssumption
<1>3. Len(p) \in Nat /\ DOMAIN p = 1 .. Len(p)
  BY <1>2, LenProperties
<1> DEFINE All == {gcodeDecode(p[i]) : i \in DOMAIN p}
<1>4. program \in [1 .. Len(p) -> All]
  BY <1>1, <1>3
<1>5. Len(program) \in Nat /\ DOMAIN program = 1 .. Len(program)
  <2>1. program \in Seq(All)
    BY <1>3, <1>4, SeqDef
  <2> QED BY <2>1, LenProperties
<1>6. window \in Nat \ {0}
  BY WindowsAssumption DEF Init
<1>7. <<>> \in Seq(Numbers) /\ <<>> \in Seq(Answers) /\ <<>> \in Seq({Ok}) /\ Len(<<>>) = 0
      /\ <<>> \in Seq(1 .. 0)
  BY EmptySeq
<1>8. /\ base = 1 /\ next = 1 /\ toHost = <<>> /\ toSender = <<>>
      /\ last = 0 /\ busy = 0 /\ pushing = 0
      /\ main = <<>> /\ alt = <<>> /\ cur = 0 /\ acks = <<>>
      /\ owner = "None" /\ stopped = FALSE
      /\ log = <<>> /\ told = {} /\ dropped = 0
      /\ doubted = FALSE /\ renumbered = FALSE /\ scolded = FALSE
  BY DEF Init
<1>9. SenderTypes /\ HostTypes
  <2>1. base \in 1 .. Len(program) + 1 /\ next \in base .. base + window
        /\ next <= Len(program) + 1
    BY <1>5, <1>6, <1>8
  <2>2. last \in 0 .. Len(program) /\ pushing \in 0 .. Len(program) /\ cur \in 0 .. Len(program)
    BY <1>5, <1>8
  <2>3. /\ toHost \in Seq(Numbers) /\ toSender \in Seq(Answers) /\ log \in Seq(Numbers)
        /\ main \in Seq(Numbers) /\ alt \in Seq(Numbers) /\ acks \in Seq(Numbers)
        /\ Len(main) <= BoxSize /\ Len(alt) <= BoxSize /\ Len(acks) <= BoxSize + 1
    BY <1>7, <1>8, BoxTypes
  <2>4. /\ owner \in {"None", "Host", "Storage"} /\ stopped \in BOOLEAN
        /\ busy \in Nat /\ dropped \in Nat
        /\ doubted \in BOOLEAN /\ renumbered \in BOOLEAN /\ scolded \in BOOLEAN
    BY <1>8
  <2> QED BY <1>5, <1>6, <2>1, <2>2, <2>3, <2>4 DEF SenderTypes, HostTypes
<1>10. Counted
  BY <1>7, <1>8 DEF Counted, Waiting
<1>11. Ordered
  BY <1>7, <1>8 DEF Ordered
<1>12. Turn
  BY <1>7, <1>8 DEF Turn
<1> QED BY <1>9, <1>10, <1>11, <1>12 DEF IInv

-----------------------------------------------------------------------------
(* The sender and the line *)

LEMMA TailFacts ==
  ASSUME NEW T, NEW s \in Seq(T), s # <<>>
  PROVE  /\ Head(s) \in T /\ Tail(s) \in Seq(T)
         /\ Len(s) \in Nat \ {0} /\ Len(Tail(s)) = Len(s) - 1
         /\ Len(s) = 1 => Tail(s) = <<>>
<1>1. /\ Head(s) \in T /\ Tail(s) \in Seq(T)
      /\ Len(s) \in Nat \ {0} /\ Len(Tail(s)) = Len(s) - 1
  BY HeadTailProperties, EmptySeq
<1>2. Tail(s) # <<>> => Len(Tail(s)) \in Nat \ {0}
  BY <1>1, EmptySeq
<1> QED BY <1>1, <1>2

LEMMA NumbersKept ==
  ASSUME program' = program
  PROVE  Numbers' = Numbers /\ Answers' = Answers /\ \A n : Command(n)' = Command(n)
BY DEF Numbers, Answers, Command

LEMMA HostUntouched ==
  ASSUME IInv, program' = program, hostVars' = hostVars, historyVars' = historyVars,
         UNCHANGED <<main, alt, cur, acks, stopped>>,
         owner' \in {"None", "Host", "Storage"}
  PROVE  /\ HostTypes' /\ Counted' /\ Ordered'
         /\ window' = window => Alone' = Alone
<1>1. UNCHANGED <<last, busy, pushing, log, told, dropped, doubted, renumbered, scolded>>
  BY DEF hostVars, historyVars
<1>2. HostTypes'
  BY <1>1, NumbersKept DEF IInv, HostTypes
<1>3. Counted'
  BY <1>1 DEF IInv, Counted, Waiting
<1>4. Ordered'
  BY <1>1, NumbersKept DEF IInv, Ordered
<1> QED BY <1>1, <1>2, <1>3, <1>4 DEF Alone

LEMMA SendStep ==
  ASSUME IInv, Send \/ Timeout
  PROVE  IInv'
<1>1. /\ program' = program /\ window' = window /\ base' = base /\ toSender' = toSender
      /\ hostVars' = hostVars /\ historyVars' = historyVars
      /\ UNCHANGED <<main, alt, cur, acks, stopped, owner>>
      /\ UNCHANGED <<last, busy, doubted, renumbered, scolded>>
  BY DEF Send, Timeout, otherThanLine, hostVars, printerVars, historyVars
<1>2. HostTypes' /\ Counted' /\ Ordered' /\ Alone' = Alone
  <2>1. owner' \in {"None", "Host", "Storage"}
    BY <1>1 DEF IInv, HostTypes
  <2> QED BY <1>1, <2>1, HostUntouched
<1>3. SenderTypes
  BY DEF IInv
<1>4. PICK n \in Numbers : /\ toHost' = Append(toHost, n) /\ next' = n + 1 /\ n <= next
                           /\ n = base \/ (n = next /\ next - base < window)
                           /\ Send \/ base < next
  <2>1. CASE Send
    BY <2>1, <1>3 DEF Send, SenderTypes, Numbers
  <2>2. CASE Timeout
    BY <2>2, <1>3 DEF Timeout, SenderTypes, Numbers
  <2> QED BY <2>1, <2>2
<1>5. n \in 1 .. Len(program) /\ Len(program) \in Nat
      /\ window \in Nat \ {0} /\ base \in Nat \ {0} /\ next \in base .. base + window
  BY <1>3 DEF Numbers, SenderTypes
<1>6. SenderTypes'
  <2>1. Append(toHost, n) \in Seq(Numbers)
    BY <1>3, AppendProperties DEF SenderTypes
  <2>2. n + 1 \in base .. base + window /\ n + 1 <= Len(program) + 1
    BY <1>4, <1>5
  <2> QED BY <1>1, <1>3, <1>4, <2>1, <2>2, NumbersKept DEF SenderTypes
<1>7. Turn'
  <2> SUFFICES ASSUME Alone'
               PROVE  /\ ~scolded'
                      /\ toHost' \in Seq(1 .. next' - 1) /\ toSender' \in Seq({Ok})
                      /\ next' \in base' .. base' + 1
                      /\ \/ last' = base' - 1 /\ toSender' = <<>> /\ busy' = 0
                         \/ last' = base' /\ next' = base' + 1 /\ Len(toSender') + busy' <= 1
    BY DEF Turn
  <2>1. /\ Alone /\ ~scolded
        /\ toHost \in Seq(1 .. next - 1) /\ toSender \in Seq({Ok})
        /\ next \in base .. base + 1
        /\ \/ last = base - 1 /\ toSender = <<>> /\ busy = 0
           \/ last = base /\ next = base + 1 /\ Len(toSender) + busy <= 1
    BY <1>2 DEF IInv, Turn
  <2>2. n = base
    BY <2>1, <1>4, <1>5 DEF Alone
  <2>3. toHost' \in Seq(1 .. next' - 1)
    <3>1. 1 .. next - 1 \subseteq 1 .. n
      BY <1>5, <2>1, <2>2
    <3>2. toHost \in Seq(1 .. n)
      BY <3>1, <2>1, SeqMonotonic
    <3>3. n \in 1 .. n
      BY <1>5
    <3>4. Append(toHost, n) \in Seq(1 .. n)
      BY <3>2, <3>3, AppendProperties
    <3> QED BY <3>4, <1>4, <1>5
  <2> QED BY <1>1, <1>4, <1>5, <2>1, <2>2, <2>3
<1> QED BY <1>2, <1>6, <1>7 DEF IInv

LEMMA AnswerStep ==
  ASSUME IInv, ReceiveAnswer
  PROVE  IInv'
<1>1. /\ program' = program /\ window' = window /\ toHost' = toHost
      /\ hostVars' = hostVars /\ historyVars' = historyVars
      /\ UNCHANGED <<main, alt, cur, acks, stopped, owner>>
      /\ UNCHANGED <<last, busy, doubted, renumbered, scolded>>
      /\ toSender # <<>> /\ toSender' = Tail(toSender)
  BY DEF ReceiveAnswer, otherThanLine, hostVars, printerVars, historyVars
<1>2. HostTypes' /\ Counted' /\ Ordered' /\ Alone' = Alone
  <2>1. owner' \in {"None", "Host", "Storage"}
    BY <1>1 DEF IInv, HostTypes
  <2> QED BY <1>1, <2>1, HostUntouched
<1>3. SenderTypes
  BY DEF IInv
<1>4. Head(toSender) \in Answers /\ Tail(toSender) \in Seq(Answers)
  BY <1>1, <1>3, TailFacts DEF SenderTypes
<1>5. \/ Head(toSender) = Ok
      \/ Head(toSender) \in {"rs"} \X Numbers
  BY <1>4 DEF Answers
<1>6. CASE Head(toSender) = Ok
  <2>1. base' = (IF base < next THEN base + 1 ELSE base) /\ next' = next
    BY <1>6 DEF ReceiveAnswer, Ok
  <2>2. SenderTypes'
    BY <1>1, <1>3, <1>4, <2>1, NumbersKept DEF SenderTypes
  <2>3. Turn'
    <3> SUFFICES ASSUME Alone'
                 PROVE  /\ ~scolded'
                        /\ toHost' \in Seq(1 .. next' - 1) /\ toSender' \in Seq({Ok})
                        /\ next' \in base' .. base' + 1
                        /\ last' = base' - 1 /\ toSender' = <<>> /\ busy' = 0
      BY DEF Turn
    <3>1. /\ Alone /\ ~scolded
          /\ toHost \in Seq(1 .. next - 1) /\ toSender \in Seq({Ok})
          /\ last = base /\ next = base + 1 /\ Len(toSender) + busy <= 1
      BY <1>1, <1>2 DEF IInv, Turn
    <3>2. Len(toSender) = 1 /\ busy = 0
      <4>1. Len(toSender) \in Nat \ {0}
        BY <1>1, <3>1, TailFacts
      <4>2. busy \in Nat
        BY DEF IInv, HostTypes
      <4>3. PICK k \in Nat \ {0} : k = Len(toSender)
        BY <4>1
      <4>4. k + busy <= 1
        BY <3>1, <4>3
      <4>5. k = 1 /\ busy = 0
        BY <4>2, <4>4
      <4> QED BY <4>3, <4>5
    <3>3. Tail(toSender) = <<>>
      BY <1>1, <3>1, <3>2, TailFacts
    <3>4. base \in Nat
      BY <1>3 DEF SenderTypes
    <3> QED BY <1>1, <2>1, <3>1, <3>2, <3>3, <3>4, EmptySeq
  <2> QED BY <1>2, <2>2, <2>3 DEF IInv
<1>7. CASE Head(toSender) \in {"rs"} \X Numbers
  <2>1. PICK n \in Numbers : Head(toSender) = <<"rs", n>>
    BY <1>7
  <2>2. base' = n /\ next' = n
    BY <2>1 DEF ReceiveAnswer
  <2>3. SenderTypes'
    BY <1>1, <1>3, <1>4, <2>2, NumbersKept DEF SenderTypes, Numbers
  <2>4. ~Alone
    <3>1. SUFFICES ASSUME Alone PROVE FALSE
      OBVIOUS
    <3>2. toSender \in Seq({Ok})
      BY <3>1 DEF IInv, Turn
    <3>3. Head(toSender) = Ok
      BY <1>1, <3>2, TailFacts
    <3> QED BY <2>1, <3>3 DEF Ok
  <2> QED BY <1>2, <2>3, <2>4 DEF IInv, Turn
<1> QED BY <1>5, <1>6, <1>7

\* The turn is not touched by what only takes things off the line.
LEMMA TurnKept ==
  ASSUME IInv, UNCHANGED <<base, next, last, busy, scolded>>, Alone' => Alone,
         \A T : toHost \in Seq(T) => toHost' \in Seq(T),
         \A T : toSender \in Seq(T) => toSender' \in Seq(T),
         Len(toSender') <= Len(toSender),
         toSender = <<>> => toSender' = <<>>
  PROVE  Turn'
<1> SUFFICES ASSUME Alone'
             PROVE  /\ ~scolded'
                    /\ toHost' \in Seq(1 .. next' - 1) /\ toSender' \in Seq({Ok})
                    /\ next' \in base' .. base' + 1
                    /\ \/ last' = base' - 1 /\ toSender' = <<>> /\ busy' = 0
                       \/ last' = base' /\ next' = base' + 1 /\ Len(toSender') + busy' <= 1
  BY DEF Turn
<1>1. /\ ~scolded
      /\ toHost \in Seq(1 .. next - 1) /\ toSender \in Seq({Ok})
      /\ next \in base .. base + 1
      /\ \/ last = base - 1 /\ toSender = <<>> /\ busy = 0
         \/ last = base /\ next = base + 1 /\ Len(toSender) + busy <= 1
  BY DEF IInv, Turn
<1>2. toHost' \in Seq(1 .. next - 1) /\ toSender' \in Seq({Ok})
  BY <1>1
<1>3. Len(toSender) \in Nat /\ Len(toSender') \in Nat /\ busy \in Nat
  BY <1>1, <1>2, LenProperties DEF IInv, HostTypes
<1>4. Len(toSender) + busy <= 1 => Len(toSender') + busy <= 1
  BY <1>3
<1> QED BY <1>1, <1>2, <1>4

LEMMA LineShrinks ==
  ASSUME IInv, UNCHANGED <<program, window, base, next>>,
         toHost' \in {toHost, Tail(toHost), <<>>}, toHost = <<>> => toHost' = <<>>,
         toSender' \in {toSender, Tail(toSender), <<>>}, toSender = <<>> => toSender' = <<>>
  PROVE  /\ SenderTypes'
         /\ UNCHANGED <<last, busy, scolded>> /\ (Alone' => Alone) => Turn'
<1>1. \A T : toHost \in Seq(T) => toHost' \in Seq(T)
  <2> SUFFICES ASSUME NEW T, toHost \in Seq(T) PROVE toHost' \in Seq(T)
    OBVIOUS
  <2>1. toHost # <<>> => Tail(toHost) \in Seq(T)
    BY TailFacts
  <2> QED BY <2>1, EmptySeq
<1>2. \A T : toSender \in Seq(T) => toSender' \in Seq(T)
  <2> SUFFICES ASSUME NEW T, toSender \in Seq(T) PROVE toSender' \in Seq(T)
    OBVIOUS
  <2>1. toSender # <<>> => Tail(toSender) \in Seq(T)
    BY TailFacts
  <2> QED BY <2>1, EmptySeq
<1>3. toHost \in Seq(Numbers) /\ toSender \in Seq(Answers)
  BY DEF IInv, SenderTypes
<1>4. Len(toSender') <= Len(toSender)
  <2>1. Len(toSender) \in Nat /\ Len(<<>>) = 0
    BY <1>3, LenProperties, EmptySeq
  <2>2. toSender # <<>> => Len(Tail(toSender)) = Len(toSender) - 1
    BY <1>3, TailFacts
  <2>3. CASE toSender' = Tail(toSender) /\ toSender # <<>>
    BY <2>1, <2>2, <2>3
  <2>4. CASE toSender' = toSender
    BY <2>1, <2>4
  <2>5. CASE toSender' = <<>>
    BY <2>1, <2>5
  <2> QED BY <2>3, <2>4, <2>5
<1>5. SenderTypes'
  <2>1. toHost' \in Seq(Numbers) /\ toSender' \in Seq(Answers)
    BY <1>1, <1>2, <1>3
  <2> QED BY <2>1, NumbersKept DEF IInv, SenderTypes
<1>6. ASSUME UNCHANGED <<last, busy, scolded>>, Alone' => Alone PROVE Turn'
  BY <1>1, <1>2, <1>4, <1>6, TurnKept
<1> QED BY <1>5, <1>6

LEMMA LossStep ==
  ASSUME IInv, LoseLine \/ LoseAnswer \/ Reconnect
  PROVE  IInv'
<1>1. /\ UNCHANGED <<program, window, base, next>>
      /\ hostVars' = hostVars /\ historyVars' = historyVars
      /\ UNCHANGED <<main, alt, cur, acks, stopped>>
      /\ UNCHANGED <<last, busy, doubted, renumbered, scolded>>
      /\ toHost' \in {toHost, Tail(toHost), <<>>} /\ (toHost = <<>> => toHost' = <<>>)
      /\ toSender' \in {toSender, Tail(toSender), <<>>} /\ (toSender = <<>> => toSender' = <<>>)
      /\ owner' \in {owner, "None"}
  BY DEF LoseLine, LoseAnswer, Reconnect, otherThanLine, senderVars, hostVars, printerVars,
         historyVars
<1>2. HostTypes' /\ Counted' /\ Ordered' /\ Alone' = Alone
  <2>1. owner' \in {"None", "Host", "Storage"}
    BY <1>1 DEF IInv, HostTypes
  <2> QED BY <1>1, <2>1, HostUntouched
<1>3. SenderTypes' /\ Turn'
  BY <1>1, <1>2, LineShrinks
<1> QED BY <1>2, <1>3 DEF IInv

-----------------------------------------------------------------------------
(* The printer, and the others *)

\* What leaves the line and the sender alone.
LEMMA LineUntouched ==
  ASSUME IInv, senderVars' = senderVars, lineVars' = lineVars, UNCHANGED <<last, busy, scolded>>,
         Alone' => Alone
  PROVE  SenderTypes' /\ Turn' /\ program' = program /\ Numbers' = Numbers
<1>1. UNCHANGED <<program, window, base, next, toHost, toSender>>
  BY DEF senderVars, lineVars
<1>2. SenderTypes' /\ Turn'
  BY <1>1, LineShrinks
<1> QED BY <1>1, <1>2, NumbersKept

LEMMA OwnerStep ==
  ASSUME IInv, HostRelease \/ StopClear \/ PrintStart \/ PrintEnd
  PROVE  IInv'
<1>1. /\ senderVars' = senderVars /\ lineVars' = lineVars
      /\ hostVars' = hostVars /\ historyVars' = historyVars
      /\ UNCHANGED <<main, alt, cur, acks>>
      /\ owner' \in {owner, "None", "Storage"} /\ stopped' \in {stopped, FALSE}
      /\ UNCHANGED <<last, busy, pushing, log, told, dropped, doubted, renumbered, scolded>>
  BY DEF HostRelease, StopClear, PrintStart, PrintEnd, hostVars, historyVars
<1>2. SenderTypes' /\ Turn' /\ program' = program /\ Numbers' = Numbers
  <2>1. Alone' = Alone
    BY <1>1 DEF Alone, senderVars
  <2> QED BY <1>1, <2>1, LineUntouched
<1>3. HostTypes'
  BY <1>1, <1>2 DEF IInv, HostTypes
<1>4. Counted'
  BY <1>1 DEF IInv, Counted, Waiting
<1>5. Ordered'
  BY <1>1, <1>2, NumbersKept DEF IInv, Ordered
<1> QED BY <1>2, <1>3, <1>4, <1>5 DEF IInv

LEMMA PrinterStep ==
  ASSUME IInv, Fetch \/ Acknowledge
  PROVE  IInv'
<1>1. /\ senderVars' = senderVars /\ lineVars' = lineVars /\ hostVars' = hostVars
      /\ UNCHANGED <<alt, owner, stopped>>
      /\ UNCHANGED <<last, busy, pushing, log, told, dropped, doubted, renumbered, scolded>>
  BY DEF Fetch, Acknowledge, otherThanPrinter, hostVars, historyVars
<1>2. SenderTypes' /\ Turn' /\ program' = program /\ Numbers' = Numbers
  <2>1. Alone' = Alone
    BY <1>1 DEF Alone, senderVars
  <2> QED BY <1>1, <2>1, LineUntouched
<1>3. /\ main \in Seq(Numbers) /\ acks \in Seq(Numbers) /\ cur \in 0 .. Len(program)
      /\ Len(main) <= BoxSize /\ Len(acks) <= BoxSize + 1 /\ Len(program) \in Nat
      /\ Len(main) \in Nat /\ Len(acks) \in Nat /\ BoxSize \in Nat
  BY BoxTypes, LenProperties DEF IInv, HostTypes, SenderTypes
<1>4. /\ main' \in Seq(Numbers) /\ acks' \in Seq(Numbers) /\ cur' \in 0 .. Len(program)
      /\ Len(main') <= BoxSize /\ Len(acks') <= BoxSize + 1
      /\ Len(main') + (IF cur' = 0 THEN 0 ELSE 1) + Len(acks')
           = Len(main) + (IF cur = 0 THEN 0 ELSE 1) + Len(acks)
  <2>1. CASE Fetch
    <3>1. cur = 0 /\ main # <<>> /\ cur' = Head(main) /\ main' = Tail(main) /\ acks' = acks
      BY <2>1 DEF Fetch
    <3>2. /\ Head(main) \in Numbers /\ Tail(main) \in Seq(Numbers)
          /\ Len(Tail(main)) = Len(main) - 1
      BY <1>3, <3>1, TailFacts
    <3>3. cur' \in 1 .. Len(program)
      BY <3>1, <3>2 DEF Numbers
    <3> QED BY <1>3, <3>1, <3>2, <3>3
  <2>2. CASE Acknowledge
    <3>1. /\ cur # 0 /\ Len(acks) < BoxSize + 1
          /\ acks' = Append(acks, cur) /\ cur' = 0 /\ main' = main
      BY <2>2 DEF Acknowledge
    <3>2. cur \in Numbers
      BY <1>3, <3>1 DEF Numbers
    <3>3. Append(acks, cur) \in Seq(Numbers) /\ Len(Append(acks, cur)) = Len(acks) + 1
      BY <1>3, <3>2, AppendProperties
    <3> QED BY <1>3, <3>1, <3>3
  <2> QED BY <2>1, <2>2
<1>5. HostTypes'
  BY <1>1, <1>2, <1>4 DEF IInv, HostTypes
<1>6. Counted'
  <2>1. Len(alt) \in Nat /\ dropped \in Nat /\ busy \in Nat
    BY LenProperties DEF IInv, HostTypes
  <2>2. Len(main') \in Nat /\ Len(acks') \in Nat
    BY <1>4, LenProperties
  <2> DEFINE w == IF pushing = 0 THEN 0 ELSE 1
             c == IF cur = 0 THEN 0 ELSE 1
  <2>3. w \in Nat /\ c \in Nat /\ c' \in Nat /\ w' = w
    BY <1>1
  <2>4. busy = Len(main) + Len(alt) + w + c + Len(acks) + dropped
    BY DEF IInv, Counted, Waiting
  <2>5. Len(main') + c' + Len(acks') = Len(main) + c + Len(acks)
    BY <1>4
  <2>6. Counted' = (busy' = Len(main') + Len(alt') + w' + c' + Len(acks') + dropped')
    BY DEF Counted, Waiting
  <2> HIDE DEF w, c
  <2>7. busy = Len(main') + Len(alt) + w + c' + Len(acks') + dropped
    <3>1. PICK n \in Nat, d \in Nat, k \in Nat : n = Len(main') /\ d = c' /\ k = Len(acks')
      BY <2>2, <2>3
    <3>2. PICK n0 \in Nat, d0 \in Nat, k0 \in Nat : n0 = Len(main) /\ d0 = c /\ k0 = Len(acks)
      BY <1>3, <2>3
    <3>3. n + d + k = n0 + d0 + k0
      BY <2>5, <3>1, <3>2
    <3>4. PICK a \in Nat, v \in Nat, e \in Nat : a = Len(alt) /\ v = w /\ e = dropped
      BY <2>1, <2>3
    <3>5. busy = n0 + a + v + d0 + k0 + e
      BY <2>4, <3>2, <3>4
    <3>6. busy = n + a + v + d + k + e
      BY <3>3, <3>5
    <3> QED BY <3>1, <3>4, <3>6
  <2> QED BY <1>1, <2>3, <2>6, <2>7
<1>7. Ordered'
  BY <1>1, <1>2, NumbersKept DEF IInv, Ordered
<1> QED BY <1>2, <1>5, <1>6, <1>7 DEF IInv

LEMMA WaitingFacts ==
  ASSUME IInv
  PROVE  /\ Waiting \in Nat /\ (Waiting = 0 => pushing = 0)
         /\ Len(main) \in Nat /\ Len(alt) \in Nat /\ Len(acks) \in Nat
<1>1. Len(main) \in Nat /\ Len(alt) \in Nat /\ Len(acks) \in Nat
  BY LenProperties DEF IInv, HostTypes
<1> QED BY <1>1 DEF Waiting

LEMMA StopStep ==
  ASSUME IInv, Stop
  PROVE  IInv'
<1>1. /\ senderVars' = senderVars /\ lineVars' = lineVars
      /\ stopped' = TRUE /\ owner' = "None" /\ main' = <<>> /\ alt' = <<>>
      /\ UNCHANGED <<last, busy, cur, acks, log, told, doubted, renumbered, scolded>>
      /\ \/ pushing' = pushing /\ dropped' = dropped + Len(main) + Len(alt)
         \/ pushing # 0 /\ pushing' = 0 /\ dropped' = dropped + Waiting
  BY DEF Stop
<1>2. SenderTypes' /\ Turn' /\ program' = program /\ Numbers' = Numbers
  <2>1. Alone' = Alone
    BY <1>1 DEF Alone, senderVars
  <2> QED BY <1>1, <2>1, LineUntouched
<1>3. PICK k \in Nat, l \in Nat, a \in Nat, d \in Nat :
        k = Len(main) /\ l = Len(alt) /\ a = Len(acks) /\ d = dropped
  BY WaitingFacts DEF IInv, HostTypes
<1>4. Len(<<>>) = 0 /\ BoxSize \in Nat
  BY EmptySeq, BoxTypes
<1>5. /\ pushing' \in {0, pushing} /\ dropped' \in Nat
      /\ dropped' = 0 => dropped = 0 /\ pushing' = pushing
      /\ Waiting' + dropped' = Waiting + dropped /\ Waiting \in Nat /\ Waiting' \in Nat
  <2>1. Waiting = k + l + (IF pushing = 0 THEN 0 ELSE 1)
    BY <1>3 DEF Waiting
  <2>2. Waiting' = 0 + 0 + (IF pushing' = 0 THEN 0 ELSE 1)
    BY <1>1, <1>4 DEF Waiting
  <2>3. CASE pushing' = pushing /\ dropped' = d + k + l
    BY <1>3, <2>1, <2>2, <2>3
  <2>4. CASE pushing # 0 /\ pushing' = 0 /\ dropped' = d + Waiting
    BY <1>3, <2>1, <2>2, <2>4
  <2> QED BY <1>1, <1>3, <2>3, <2>4
<1>6. HostTypes'
  <2>1. <<>> \in Seq(Numbers)
    BY EmptySeq
  <2>2. pushing' \in 0 .. Len(program)
    BY <1>5 DEF IInv, HostTypes, SenderTypes
  <2>3. 0 <= BoxSize
    BY <1>4
  <2> QED BY <1>1, <1>2, <1>4, <1>5, <2>1, <2>2, <2>3 DEF IInv, HostTypes
<1>7. Counted'
  <2>1. busy = Waiting + (IF cur = 0 THEN 0 ELSE 1) + a + d
    BY <1>3 DEF IInv, Counted
  <2>2. PICK w \in Nat, v \in Nat, e \in Nat : w = Waiting /\ v = Waiting' /\ e = dropped'
    BY <1>5
  <2>3. busy = v + (IF cur = 0 THEN 0 ELSE 1) + a + e
    <3>1. v + e = w + d
      BY <1>3, <1>5, <2>2
    <3>2. busy = w + (IF cur = 0 THEN 0 ELSE 1) + a + d
      BY <2>1, <2>2
    <3> QED BY <3>1, <3>2
  <2> QED BY <1>1, <1>3, <2>2, <2>3 DEF Counted
<1>8. Ordered'
  <2>1. last \in Nat /\ (pushing' # 0 => pushing' = pushing)
    BY <1>5 DEF IInv, HostTypes, SenderTypes
  <2>2. pushing' <= last \/ pushing' = pushing
    BY <1>5, <2>1
  <2> QED BY <1>1, <1>2, <1>5, <2>1, <2>2, NumbersKept DEF IInv, Ordered
<1> QED BY <1>2, <1>6, <1>7, <1>8 DEF IInv

LEMMA PushStep ==
  ASSUME IInv, Push
  PROVE  IInv'
<1>1. /\ senderVars' = senderVars /\ lineVars' = lineVars
      /\ pushing # 0 /\ pushing' = 0 /\ log' = Append(log, pushing)
      /\ \/ Len(main) < BoxSize /\ main' = Append(main, pushing) /\ alt' = alt
         \/ Len(alt) < BoxSize /\ alt' = Append(alt, pushing) /\ main' = main
      /\ UNCHANGED <<last, busy, cur, acks, owner, stopped, told, dropped, doubted,
                     renumbered, scolded>>
  BY DEF Push, HasRoom
<1>2. SenderTypes' /\ Turn' /\ program' = program /\ Numbers' = Numbers
  <2>1. Alone' = Alone
    BY <1>1 DEF Alone, senderVars
  <2> QED BY <1>1, <2>1, LineUntouched
<1>3. /\ pushing \in Numbers /\ main \in Seq(Numbers) /\ alt \in Seq(Numbers)
      /\ log \in Seq(Numbers) /\ BoxSize \in Nat /\ Len(program) \in Nat
  BY <1>1, BoxTypes DEF IInv, HostTypes, SenderTypes, Numbers
<1>4. /\ Append(main, pushing) \in Seq(Numbers) /\ Len(Append(main, pushing)) = Len(main) + 1
      /\ Append(alt, pushing) \in Seq(Numbers) /\ Len(Append(alt, pushing)) = Len(alt) + 1
      /\ Append(log, pushing) \in Seq(Numbers)
  BY <1>3, AppendProperties
<1>5. HostTypes'
  <2>1. /\ main' \in Seq(Numbers) /\ alt' \in Seq(Numbers) /\ log' \in Seq(Numbers)
        /\ Len(main') <= BoxSize /\ Len(alt') <= BoxSize
    <3>1. PICK k \in Nat, l \in Nat : k = Len(main) /\ l = Len(alt)
      BY WaitingFacts
    <3>2. k <= BoxSize /\ l <= BoxSize
      BY <3>1 DEF IInv, HostTypes
    <3>3. CASE Len(main) < BoxSize /\ main' = Append(main, pushing) /\ alt' = alt
      <4>1. k + 1 <= BoxSize
        BY <1>3, <3>1, <3>3
      <4> QED BY <1>1, <1>3, <1>4, <3>1, <3>2, <3>3, <4>1
    <3>4. CASE Len(alt) < BoxSize /\ alt' = Append(alt, pushing) /\ main' = main
      <4>1. l + 1 <= BoxSize
        BY <1>3, <3>1, <3>4
      <4> QED BY <1>1, <1>3, <1>4, <3>1, <3>2, <3>4, <4>1
    <3> QED BY <1>1, <3>3, <3>4
  <2>2. 0 \in 0 .. Len(program)
    BY <1>3
  <2> QED BY <1>1, <1>2, <2>1, <2>2 DEF IInv, HostTypes
<1>6. Counted'
  <2>1. Waiting' = Waiting
    <3>1. PICK k \in Nat, l \in Nat : k = Len(main) /\ l = Len(alt)
      BY WaitingFacts
    <3>2. Waiting = k + l + 1
      BY <1>1, <3>1 DEF Waiting
    <3>3. \/ Len(main') = k + 1 /\ Len(alt') = l
          \/ Len(main') = k /\ Len(alt') = l + 1
      BY <1>1, <1>4, <3>1
    <3>4. Waiting' = Len(main') + Len(alt') + 0
      BY <1>1 DEF Waiting
    <3> QED BY <3>2, <3>3, <3>4
  <2> QED BY <1>1, <2>1 DEF IInv, Counted
<1>7. Ordered'
  <2> SUFFICES ASSUME ~renumbered
               PROVE  /\ \A i, j \in 1 .. Len(log') : i < j => log'[i] < log'[j]
                      /\ \A i \in 1 .. Len(log') : log'[i] <= last
                      /\ 0 <= last
                      /\ \A n \in 1 .. last :
                           IsAction(Command(n)) /\ n \notin told /\ dropped = 0 =>
                             \E i \in 1 .. Len(log') : log'[i] = n
    BY <1>1, <1>2, NumbersKept DEF Ordered
  <2>1. /\ \A i, j \in 1 .. Len(log) : i < j => log[i] < log[j]
        /\ \A i \in 1 .. Len(log) : log[i] <= last /\ log[i] < pushing
        /\ pushing <= last
        /\ \A n \in 1 .. last :
             IsAction(Command(n)) /\ n # pushing /\ n \notin told /\ dropped = 0 =>
               \E i \in 1 .. Len(log) : log[i] = n
    BY <1>1 DEF IInv, Ordered
  <2>2. /\ Len(log) \in Nat /\ Len(log') = Len(log) + 1 /\ log'[Len(log) + 1] = pushing
        /\ \A i \in 1 .. Len(log) : log'[i] = log[i]
    BY <1>1, <1>3, AppendProperties, LenProperties
  <2>3. PICK l \in Nat : l = Len(log)
    BY <2>2
  <2>4. 1 .. l + 1 = (1 .. l) \cup {l + 1} /\ l + 1 \notin 1 .. l
    BY <2>3
  <2>5. ASSUME NEW i \in 1 .. l + 1, NEW j \in 1 .. l + 1, i < j PROVE log'[i] < log'[j]
    <3>1. i \in 1 .. l
      BY <2>3, <2>5
    <3>2. CASE j \in 1 .. l
      BY <2>1, <2>2, <2>3, <2>5, <3>1, <3>2
    <3>3. CASE j = l + 1
      BY <2>1, <2>2, <2>3, <3>1, <3>3
    <3> QED BY <2>4, <3>2, <3>3
  <2>6. ASSUME NEW i \in 1 .. l + 1 PROVE log'[i] <= last
    BY <2>1, <2>2, <2>3, <2>4
  <2>7. ASSUME NEW n \in 1 .. last, IsAction(Command(n)), n \notin told, dropped = 0
        PROVE  \E i \in 1 .. l + 1 : log'[i] = n
    BY <2>1, <2>2, <2>3, <2>4, <2>7
  <2>8. 0 <= last
    BY DEF IInv, HostTypes, SenderTypes
  <2> QED BY <2>2, <2>3, <2>5, <2>6, <2>7, <2>8
<1> QED BY <1>2, <1>5, <1>6, <1>7 DEF IInv

\* Answers are sent.
LEMMA Answered ==
  ASSUME IInv, NEW k \in Nat, Answer(Oks(k))
  PROVE  /\ toSender' \in Seq(Answers)
         /\ toSender \in Seq({Ok}) => /\ toSender' \in Seq({Ok})
                                      /\ Len(toSender) \in Nat
                                      /\ Len(toSender') = Len(toSender) + k
         /\ k = 0 => toSender' = toSender
<1>1. toSender \in Seq(Answers) /\ Ok \in Answers /\ Ok \in {Ok}
  BY DEF IInv, SenderTypes, Answers
<1>2. Oks(k) \in Seq(Answers) /\ Oks(k) \in Seq({Ok}) /\ Len(Oks(k)) = k
  BY <1>1, OksFacts
<1>3. toSender' = toSender \o Oks(k)
  BY DEF Answer
<1>4. toSender' \in Seq(Answers)
  BY <1>1, <1>2, <1>3, ConcatProperties
<1>5. ASSUME toSender \in Seq({Ok})
      PROVE  /\ toSender' \in Seq({Ok}) /\ Len(toSender) \in Nat
             /\ Len(toSender') = Len(toSender) + k
  BY <1>2, <1>3, <1>5, ConcatProperties, LenProperties
<1>6. ASSUME k = 0 PROVE toSender' = toSender
  <2>1. Oks(k) = <<>>
    BY <1>2, <1>6, EmptySeq
  <2> QED BY <1>1, <1>3, <2>1, ConcatEmptySeq
<1> QED BY <1>4, <1>5, <1>6

LEMMA DrainStep ==
  ASSUME IInv, HostDrain
  PROVE  IInv'
<1>1. /\ senderVars' = senderVars /\ toHost' = toHost
      /\ UNCHANGED <<program, window, base, next>>
      /\ Answer(Oks(1)) /\ acks # <<>> /\ acks' = Tail(acks) /\ busy' = busy - 1
      /\ UNCHANGED <<last, pushing, main, alt, cur, owner, stopped>>
      /\ UNCHANGED <<log, told, dropped, doubted, renumbered, scolded>>
  BY DEF HostDrain, senderVars, historyVars, BusyAfterAck
<1>2. /\ acks' \in Seq(Numbers) /\ Len(acks') = Len(acks) - 1
      /\ Len(acks) \in Nat \ {0} /\ Len(acks) <= BoxSize + 1 /\ BoxSize \in Nat
  BY <1>1, TailFacts, BoxTypes DEF IInv, HostTypes
<1>3. PICK k \in Nat \ {0}, w \in Nat, d \in Nat : k = Len(acks) /\ w = Waiting /\ d = dropped
  BY <1>2, WaitingFacts DEF IInv, HostTypes
<1>4. busy = w + (IF cur = 0 THEN 0 ELSE 1) + k + d
  BY <1>3 DEF IInv, Counted
<1>5. busy \in Nat \ {0} /\ busy - 1 = w + (IF cur = 0 THEN 0 ELSE 1) + (k - 1) + d
  BY <1>3, <1>4
<1>6. SenderTypes'
  BY <1>1, NumbersKept, Answered DEF IInv, SenderTypes
<1>7. HostTypes'
  <2>1. busy' \in Nat /\ Len(acks') <= BoxSize + 1
    BY <1>1, <1>2, <1>3, <1>5
  <2> QED BY <1>1, <1>2, <2>1, NumbersKept DEF IInv, HostTypes
<1>8. Counted'
  <2>1. Waiting' = Waiting
    BY <1>1 DEF Waiting
  <2> QED BY <1>1, <1>2, <1>3, <1>5, <2>1 DEF Counted
<1>9. Ordered'
  BY <1>1, NumbersKept DEF IInv, Ordered
<1>10. Turn'
  <2> SUFFICES ASSUME Alone'
               PROVE  /\ ~scolded
                      /\ toHost \in Seq(1 .. next - 1) /\ toSender' \in Seq({Ok})
                      /\ next \in base .. base + 1
                      /\ last = base /\ next = base + 1 /\ Len(toSender') + busy' <= 1
    BY <1>1 DEF Turn
  <2>1. /\ ~scolded
        /\ toHost \in Seq(1 .. next - 1) /\ toSender \in Seq({Ok})
        /\ next \in base .. base + 1
        /\ last = base /\ next = base + 1 /\ Len(toSender) + busy <= 1
    <3>1. Alone
      BY <1>1 DEF Alone
    <3> QED BY <1>5, <3>1 DEF IInv, Turn
  <2>2. toSender' \in Seq({Ok}) /\ Len(toSender) \in Nat /\ Len(toSender') = Len(toSender) + 1
    BY <1>1, <2>1, Answered
  <2>3. Len(toSender') + busy' <= 1
    <3>1. PICK l \in Nat, b \in Nat : l = Len(toSender) /\ b = busy
      BY <1>5, <2>2
    <3>2. l + 1 + (b - 1) <= 1
      BY <2>1, <3>1
    <3> QED BY <1>1, <2>2, <3>1, <3>2
  <2> QED BY <2>1, <2>2, <2>3
<1> QED BY <1>6, <1>7, <1>8, <1>9, <1>10 DEF IInv

-----------------------------------------------------------------------------
(* The host and its lines *)

LEMMA ListensFacts ==
  ASSUME IInv, Listens
  PROVE  /\ toHost # <<>> /\ pushing = 0 /\ toHost' = Tail(toHost)
         /\ Head(toHost) \in Numbers /\ toHost' \in Seq(Numbers)
<1>1. toHost # <<>> /\ pushing = 0 /\ toHost' = Tail(toHost)
  BY DEF Listens
<1> QED BY <1>1, TailFacts DEF IInv, SenderTypes

LEMMA ResendStep ==
  ASSUME IInv, Resend
  PROVE  IInv'
<1>1. /\ Listens /\ Head(toHost) > last + 1
      /\ toSender' = toSender \o << <<"rs", last + 1>> >>
      /\ UNCHANGED <<program, window, base, next>> /\ hostVars' = hostVars
      /\ historyVars' = historyVars
      /\ UNCHANGED <<main, alt, cur, acks, stopped, owner>>
      /\ UNCHANGED <<last, busy, doubted, renumbered, scolded>>
  BY DEF Resend, Answer, Expected, senderVars, hostVars, printerVars, historyVars
<1>2. HostTypes' /\ Counted' /\ Ordered' /\ Alone' = Alone
  <2>1. owner' \in {"None", "Host", "Storage"}
    BY <1>1 DEF IInv, HostTypes
  <2> QED BY <1>1, <2>1, HostUntouched
<1>3. Head(toHost) \in Numbers /\ toHost # <<>> /\ toHost' \in Seq(Numbers)
  BY <1>1, ListensFacts
<1>4. last \in Nat /\ Len(program) \in Nat /\ toSender \in Seq(Answers) /\ base \in Nat
      /\ next \in Nat
  BY DEF IInv, HostTypes, SenderTypes
<1>5. SenderTypes'
  <2>1. last + 1 \in Numbers
    BY <1>1, <1>3, <1>4 DEF Numbers
  <2>2. <<"rs", last + 1>> \in Answers
    BY <2>1 DEF Answers
  <2>3. << <<"rs", last + 1>> >> \in Seq(Answers)
    BY <2>2
  <2>4. toSender' \in Seq(Answers)
    BY <1>1, <1>4, <2>3, ConcatProperties
  <2> QED BY <1>1, <1>3, <2>4, NumbersKept DEF IInv, SenderTypes
<1>6. ~Alone
  <2> SUFFICES ASSUME Alone PROVE FALSE
    OBVIOUS
  <2>1. /\ toHost \in Seq(1 .. next - 1) /\ next <= base + 1 /\ last >= base - 1
    BY <1>4 DEF IInv, Turn
  <2>2. Head(toHost) \in 1 .. next - 1
    BY <1>3, <2>1, TailFacts
  <2> QED BY <1>1, <1>4, <2>1, <2>2
<1> QED BY <1>2, <1>5, <1>6 DEF IInv, Turn

LEMMA RepeatedStep ==
  ASSUME IInv, Repeated
  PROVE  IInv'
<1>1. /\ Listens
      /\ Answer(Oks(IF busy > 0 THEN 0 ELSE 1))
      /\ doubted' = (doubted \/ busy = 0)
      /\ UNCHANGED <<program, window, base, next>>
      /\ UNCHANGED <<main, alt, cur, acks, stopped, owner>>
      /\ UNCHANGED <<last, busy, pushing, log, told, dropped, renumbered, scolded>>
  BY DEF Repeated, senderVars, hostVars, printerVars
<1>2. toHost # <<>> /\ toHost' = Tail(toHost) /\ toHost' \in Seq(Numbers)
  BY <1>1, ListensFacts
<1>3. PICK k \in Nat : k = (IF busy > 0 THEN 0 ELSE 1)
  OBVIOUS
<1>4. Answer(Oks(k))
  BY <1>1, <1>3
<1>5. SenderTypes'
  BY <1>1, <1>2, <1>4, NumbersKept, Answered DEF IInv, SenderTypes
<1>6. HostTypes'
  BY <1>1, NumbersKept DEF IInv, HostTypes
<1>7. Counted'
  BY <1>1 DEF IInv, Counted, Waiting
<1>8. Ordered'
  BY <1>1, NumbersKept DEF IInv, Ordered
<1>9. Turn'
  <2> SUFFICES ASSUME Alone' PROVE Turn'
    BY DEF Turn
  <2>1. Alone /\ busy # 0 /\ busy \in Nat
    BY <1>1 DEF Alone, IInv, HostTypes
  <2>2. k = 0
    BY <1>3, <2>1
  <2>3. toSender' = toSender
    BY <1>4, <2>2, Answered
  <2> QED BY <1>1, <1>2, <2>1, <2>3, LineShrinks
<1> QED BY <1>5, <1>6, <1>7, <1>8, <1>9 DEF IInv

LEMMA TakesFacts ==
  ASSUME IInv, NEW n \in DOMAIN program, Takes(n)
  PROVE  /\ n \in Numbers /\ pushing = 0 /\ last' = n
         /\ toHost # <<>> /\ n = Head(toHost) /\ toHost' = Tail(toHost)
         /\ toHost' \in Seq(Numbers)
         /\ renumbered' \in BOOLEAN
         /\ ~renumbered' => ~renumbered /\ n = last + 1
<1>1. Listens /\ n = Head(toHost) /\ Accepts(Command(n), n) /\ last' = n
  BY DEF Takes
<1>2. /\ renumbered' \in BOOLEAN
      /\ renumbered \/ (Command(n).code = 10110 /\ n # last + 1) => renumbered'
  <2> DEFINE Jumps == Command(n).code = 10110 /\ n # last + 1
  <2>1. renumbered' = (renumbered \/ Jumps)
    BY DEF Takes
  <2> HIDE DEF Jumps
  <2>2. renumbered' \in BOOLEAN /\ (renumbered \/ Jumps => renumbered')
    BY <2>1, Zenon
  <2> QED BY <2>2 DEF Jumps
<1>3. ASSUME ~renumbered' PROVE ~renumbered /\ n = last + 1
  <2>1. ~renumbered /\ ~(Command(n).code = 10110 /\ n # last + 1)
    BY <1>2, <1>3
  <2>2. n = last + 1 \/ Command(n).code = 10110
    BY <1>1 DEF Accepts
  <2> QED BY <2>1, <2>2
<1> QED BY <1>1, <1>2, <1>3, ListensFacts

\* A line is taken, whatever is made of it: k "ok"s are sent, a command is on its
\* way or not, and a stop may have emptied the mailboxes.
LEMMA Taken ==
  ASSUME IInv, NEW n \in DOMAIN program, Takes(n), NEW k \in Nat, Answer(Oks(k)),
         senderVars' = senderVars, UNCHANGED <<cur, acks, log>>,
         \/ /\ busy' = busy /\ pushing' = pushing
            /\ \/ told' = told \cup {n}
               \/ told' = told /\ ~IsAction(Command(n))
         \/ busy' = busy + 1 /\ pushing' = n /\ told' = told,
         \/ UNCHANGED <<main, alt, dropped>>
         \/ main' = <<>> /\ alt' = <<>> /\ dropped' = dropped + Waiting,
         stopped' \in BOOLEAN, owner' \in {"None", "Host", "Storage"},
         doubted' \in BOOLEAN, scolded' \in BOOLEAN, doubted => doubted',
         scolded' => scolded \/ busy # 0,
         ~doubted' => \/ k = 1 /\ busy' = busy
                      \/ k = 0 /\ busy' = busy + 1
                      \/ busy # 0
  PROVE  IInv'
<1>1. UNCHANGED <<program, window, base, next>>
  BY DEF senderVars
<1>2. /\ n \in Numbers /\ pushing = 0 /\ last' = n
      /\ toHost # <<>> /\ n = Head(toHost) /\ toHost' = Tail(toHost)
      /\ toHost' \in Seq(Numbers)
      /\ renumbered' \in BOOLEAN
      /\ ~renumbered' => ~renumbered /\ n = last + 1
  BY TakesFacts
<1>3. /\ busy \in Nat /\ dropped \in Nat /\ Waiting \in Nat /\ last \in Nat
      /\ Len(program) \in Nat /\ n \in 1 .. Len(program) /\ BoxSize \in Nat
      /\ base \in Nat /\ next \in Nat /\ Len(<<>>) = 0
  BY <1>2, WaitingFacts, EmptySeq, BoxTypes DEF IInv, HostTypes, SenderTypes, Numbers
<1>4. SenderTypes'
  BY <1>1, <1>2, NumbersKept, Answered DEF IInv, SenderTypes
<1>5. HostTypes'
  <2>1. /\ main' \in Seq(Numbers) /\ alt' \in Seq(Numbers)
        /\ Len(main') <= BoxSize /\ Len(alt') <= BoxSize /\ dropped' \in Nat
    <3>1. <<>> \in Seq(Numbers)
      BY EmptySeq
    <3>2. CASE UNCHANGED <<main, alt, dropped>>
      BY <3>2 DEF IInv, HostTypes
    <3>3. CASE main' = <<>> /\ alt' = <<>> /\ dropped' = dropped + Waiting
      BY <1>3, <3>1, <3>3
    <3> QED BY <3>2, <3>3
  <2>2. busy' \in Nat /\ pushing' \in 0 .. Len(program) /\ last' \in 0 .. Len(program)
    BY <1>2, <1>3
  <2> QED BY <1>1, <1>2, <2>1, <2>2, NumbersKept DEF IInv, HostTypes
<1>6. Counted'
  <2>1. PICK w \in Nat, d \in Nat, a \in Nat : w = Waiting /\ d = dropped /\ a = Len(acks)
    BY <1>3, WaitingFacts
  <2>2. busy = w + (IF cur = 0 THEN 0 ELSE 1) + a + d
    BY <2>1 DEF IInv, Counted
  <2>3. PICK p \in {0, 1} : p = (IF pushing' = 0 THEN 0 ELSE 1) /\ busy' = busy + p
    BY <1>2, <1>3
  <2>4. Waiting' + dropped' = w + p + d /\ Waiting' \in Nat /\ dropped' \in Nat
    <3>1. PICK x \in Nat, y \in Nat : x = Len(main) /\ y = Len(alt)
      BY WaitingFacts
    <3>2. w = x + y
      BY <1>2, <2>1, <3>1 DEF Waiting
    <3>3. Waiting' = Len(main') + Len(alt') + p
      BY <2>3 DEF Waiting
    <3>4. CASE UNCHANGED <<main, alt, dropped>>
      <4>1. Waiting' = x + y + p
        BY <3>1, <3>3, <3>4
      <4> QED BY <2>1, <3>2, <3>4, <4>1
    <3>5. CASE main' = <<>> /\ alt' = <<>> /\ dropped' = dropped + Waiting
      <4>1. Waiting' = 0 + 0 + p
        BY <1>3, <3>3, <3>5
      <4> QED BY <2>1, <3>5, <4>1
    <3> QED BY <3>4, <3>5
  <2>5. PICK w1 \in Nat, d1 \in Nat : w1 = Waiting' /\ d1 = dropped'
    BY <2>4
  <2>6. busy' = w1 + (IF cur = 0 THEN 0 ELSE 1) + a + d1
    <3>1. PICK c \in Nat, b \in Nat : c = (IF cur = 0 THEN 0 ELSE 1) /\ b = busy
      BY <1>3
    <3>2. b = w + c + a + d
      BY <2>2, <3>1
    <3>3. w1 + d1 = w + p + d
      BY <2>4, <2>5
    <3>4. b + p = w1 + c + a + d1
      BY <3>2, <3>3
    <3> QED BY <2>3, <3>1, <3>4
  <2> QED BY <1>1, <2>1, <2>5, <2>6 DEF Counted
<1>7. Ordered'
  <2> SUFFICES ASSUME ~renumbered'
               PROVE  /\ \A i, j \in 1 .. Len(log) : i < j => log[i] < log[j]
                      /\ \A i \in 1 .. Len(log) : log[i] <= n /\ (pushing' # 0 => log[i] < pushing')
                      /\ pushing' <= n
                      /\ \A l \in 1 .. n :
                           IsAction(Command(l)) /\ l # pushing' /\ l \notin told' /\ dropped' = 0 =>
                             \E i \in 1 .. Len(log) : log[i] = l
    BY <1>1, <1>2, NumbersKept DEF Ordered
  <2>1. n = last + 1
    BY <1>2
  <2>2. /\ \A i, j \in 1 .. Len(log) : i < j => log[i] < log[j]
        /\ \A i \in 1 .. Len(log) : log[i] <= last
        /\ \A l \in 1 .. last :
             IsAction(Command(l)) /\ l # pushing /\ l \notin told /\ dropped = 0 =>
               \E i \in 1 .. Len(log) : log[i] = l
    BY <1>2 DEF IInv, Ordered
  <2>3. log \in Seq(Numbers)
    BY DEF IInv, HostTypes
  <2>4. ASSUME NEW i \in 1 .. Len(log)
        PROVE  log[i] <= n /\ (pushing' # 0 => log[i] < pushing')
    <3>1. log[i] \in Numbers
      BY <2>3, ElementOfSeq
    <3>2. log[i] < n
      BY <1>3, <2>1, <2>2, <3>1 DEF Numbers
    <3> QED BY <1>2, <1>3, <3>1, <3>2 DEF Numbers
  <2>5. pushing' <= n
    BY <1>2, <1>3
  <2>6. dropped' = 0 => dropped = 0
    BY <1>3
  <2>7. ASSUME NEW l \in 1 .. n,
               IsAction(Command(l)), l # pushing', l \notin told', dropped' = 0
        PROVE  \E i \in 1 .. Len(log) : log[i] = l
    <3>1. l # n
      BY <2>7, <1>2
    <3>2. l \in 1 .. last /\ l # pushing /\ l \notin told
      BY <1>2, <1>3, <2>1, <2>7, <3>1
    <3> QED BY <2>2, <2>6, <2>7, <3>2
  <2> QED BY <2>2, <2>4, <2>5, <2>7
<1>8. Turn'
  <2> SUFFICES ASSUME Alone'
               PROVE  /\ ~scolded'
                      /\ toHost' \in Seq(1 .. next - 1) /\ toSender' \in Seq({Ok})
                      /\ next \in base .. base + 1
                      /\ n = base /\ next = base + 1 /\ Len(toSender') + busy' <= 1
    BY <1>1, <1>2 DEF Turn
  <2>1. Alone /\ n = last + 1 /\ ~doubted'
    BY <1>1, <1>2 DEF Alone
  <2>2. /\ ~scolded
        /\ toHost \in Seq(1 .. next - 1) /\ toSender \in Seq({Ok})
        /\ next \in base .. base + 1
        /\ \/ last = base - 1 /\ toSender = <<>> /\ busy = 0
           \/ last = base
    BY <2>1 DEF IInv, Turn
  <2>3. n \in 1 .. next - 1 /\ toHost' \in Seq(1 .. next - 1)
    BY <1>2, <2>2, TailFacts
  <2>4. n = base /\ next = base + 1 /\ toSender = <<>> /\ busy = 0
    BY <1>3, <2>1, <2>2, <2>3
  <2>5. toSender' \in Seq({Ok}) /\ Len(toSender') = 0 + k
    BY <1>3, <2>2, <2>4, Answered
  <2>6. ~scolded'
    BY <2>2, <2>4
  <2>7. Len(toSender') + busy' <= 1
    BY <2>1, <2>4, <2>5
  <2> QED BY <2>2, <2>3, <2>4, <2>5, <2>6, <2>7
<1> QED BY <1>4, <1>5, <1>6, <1>7, <1>8 DEF IInv

LEMMA StopAfterFacts ==
  ASSUME IInv, NEW cmd, StopAfter(cmd)
  PROVE  /\ stopped' \in BOOLEAN
         /\ \/ UNCHANGED <<main, alt, dropped>>
            \/ main' = <<>> /\ alt' = <<>> /\ dropped' = dropped + Waiting
<1>1. CASE cmd.code \in {10999, 28}
  <2>1. cmd.code # 10112
    BY <1>1
  <2>2. stopped' = FALSE /\ UNCHANGED <<main, alt, dropped>>
    BY <1>1, <2>1 DEF StopAfter
  <2> QED BY <2>2
<1>2. CASE cmd.code = 10112
  BY <1>2 DEF StopAfter
<1>3. CASE cmd.code \notin {10999, 28} /\ cmd.code # 10112
  BY <1>3 DEF StopAfter, IInv, HostTypes
<1> QED BY <1>1, <1>2, <1>3

LEMMA OwnerAfterFacts ==
  ASSUME IInv, NEW cmd
  PROVE  OwnerAfter(cmd) \in {"None", "Host", "Storage"}
BY DEF OwnerAfter, IInv, HostTypes

LEMMA BadLineStep ==
  ASSUME IInv, BadLine
  PROVE  IInv'
<1>1. PICK n \in DOMAIN program :
        /\ Takes(n) /\ Answer(Oks(1)) /\ told' = told \cup {n}
        /\ IF stopped THEN UNCHANGED <<stopped, owner, main, alt, dropped>> ELSE StopCore
        /\ senderVars' = senderVars
        /\ UNCHANGED <<busy, pushing, cur, acks, log, doubted, scolded>>
  BY DEF BadLine
<1>2. /\ stopped \in BOOLEAN /\ owner \in {"None", "Host", "Storage"}
      /\ doubted \in BOOLEAN /\ scolded \in BOOLEAN
  BY DEF IInv, HostTypes
<1>3. /\ stopped' \in BOOLEAN /\ owner' \in {"None", "Host", "Storage"}
      /\ \/ UNCHANGED <<main, alt, dropped>>
         \/ main' = <<>> /\ alt' = <<>> /\ dropped' = dropped + Waiting
  <2>1. CASE stopped
    BY <1>1, <1>2, <2>1
  <2>2. CASE ~stopped
    BY <1>1, <2>2 DEF StopCore
  <2> QED BY <2>1, <2>2
<1> QED BY <1>1, <1>2, <1>3, Taken

LEMMA HostLineStep ==
  ASSUME IInv, HostLine
  PROVE  IInv'
<1>1. PICK n \in DOMAIN program :
        /\ Takes(n) /\ Answer(Oks(1)) /\ ~IsAction(Command(n))
        /\ StopAfter(Command(n)) /\ owner' = OwnerAfter(Command(n))
        /\ senderVars' = senderVars
        /\ UNCHANGED <<busy, pushing, cur, acks, log, told, doubted, scolded>>
  BY DEF HostLine
<1>2. doubted \in BOOLEAN /\ scolded \in BOOLEAN
  BY DEF IInv, HostTypes
<1>3. /\ stopped' \in BOOLEAN /\ owner' \in {"None", "Host", "Storage"}
      /\ \/ UNCHANGED <<main, alt, dropped>>
         \/ main' = <<>> /\ alt' = <<>> /\ dropped' = dropped + Waiting
  BY <1>1, StopAfterFacts, OwnerAfterFacts
<1> QED BY <1>1, <1>2, <1>3, Taken

LEMMA PleasePingPongStep ==
  ASSUME IInv, PleasePingPong
  PROVE  IInv'
<1>1. PICK n \in DOMAIN program :
        /\ Takes(n) /\ Answer(Oks(ImmediateOks(Command(n)))) /\ told' = told \cup {n}
        /\ busy > 0 /\ scolded' = TRUE
        /\ StopAfter(Command(n)) /\ owner' = OwnerAfter(Command(n))
        /\ senderVars' = senderVars
        /\ UNCHANGED <<busy, pushing, cur, acks, log, doubted>>
  BY DEF PleasePingPong
<1>2. doubted \in BOOLEAN /\ busy \in Nat /\ busy # 0
  BY <1>1 DEF IInv, HostTypes
<1>3. /\ stopped' \in BOOLEAN /\ owner' \in {"None", "Host", "Storage"}
      /\ \/ UNCHANGED <<main, alt, dropped>>
         \/ main' = <<>> /\ alt' = <<>> /\ dropped' = dropped + Waiting
  BY <1>1, StopAfterFacts, OwnerAfterFacts
<1>4. ImmediateOks(Command(n)) \in Nat
  BY DEF ImmediateOks
<1> QED BY <1>1, <1>2, <1>3, <1>4, Taken

LEMMA NotAcquiredStep ==
  ASSUME IInv, NotAcquired
  PROVE  IInv'
<1>1. PICK n \in DOMAIN program :
        /\ Takes(n) /\ Answer(Oks(1 + ImmediateOks(Command(n)))) /\ told' = told \cup {n}
        /\ IsAction(Command(n))
        /\ doubted' \in BOOLEAN
        /\ doubted \/ IsImmediate(Command(n)) => doubted'
        /\ StopAfter(Command(n)) /\ owner' = OwnerAfter(Command(n))
        /\ senderVars' = senderVars
        /\ UNCHANGED <<busy, pushing, cur, acks, log, scolded>>
  BY DEF NotAcquired
<1>2. scolded \in BOOLEAN
  BY DEF IInv, HostTypes
<1>3. /\ stopped' \in BOOLEAN /\ owner' \in {"None", "Host", "Storage"}
      /\ \/ UNCHANGED <<main, alt, dropped>>
         \/ main' = <<>> /\ alt' = <<>> /\ dropped' = dropped + Waiting
  BY <1>1, StopAfterFacts, OwnerAfterFacts
<1>4. PICK k \in Nat : k = 1 + ImmediateOks(Command(n)) /\ (~doubted' => k = 1)
  BY <1>1 DEF ImmediateOks
<1>5. Answer(Oks(k))
  BY <1>1, <1>4
<1> QED BY <1>1, <1>2, <1>3, <1>4, <1>5, Taken

LEMMA CommandLineStep ==
  ASSUME IInv, CommandLine
  PROVE  IInv'
<1>1. PICK n \in DOMAIN program :
        /\ Takes(n) /\ Answer(Oks(ImmediateOks(Command(n)))) /\ told' = told
        /\ IsAction(Command(n))
        /\ doubted' \in BOOLEAN
        /\ doubted \/ IsImmediate(Command(n)) => doubted'
        /\ StopAfter(Command(n)) /\ owner' \in {"Host", OwnerAfter(Command(n))}
        /\ busy' = busy + 1 /\ pushing' = n
        /\ senderVars' = senderVars
        /\ UNCHANGED <<cur, acks, log, scolded>>
  BY DEF CommandLine
<1>2. scolded \in BOOLEAN
  BY DEF IInv, HostTypes
<1>3. /\ stopped' \in BOOLEAN /\ owner' \in {"None", "Host", "Storage"}
      /\ \/ UNCHANGED <<main, alt, dropped>>
         \/ main' = <<>> /\ alt' = <<>> /\ dropped' = dropped + Waiting
  BY <1>1, StopAfterFacts, OwnerAfterFacts
<1>4. PICK k \in Nat : k = ImmediateOks(Command(n)) /\ (~doubted' => k = 0)
  BY <1>1 DEF ImmediateOks
<1>5. Answer(Oks(k))
  BY <1>1, <1>4
<1> QED BY <1>1, <1>2, <1>3, <1>4, <1>5, Taken

-----------------------------------------------------------------------------
(* Theorems *)

LEMMA StutterIInv ==
  ASSUME IInv, vars' = vars
  PROVE  IInv'
<1>1. /\ senderVars' = senderVars /\ lineVars' = lineVars /\ hostVars' = hostVars
      /\ historyVars' = historyVars
      /\ UNCHANGED <<main, alt, cur, acks, owner, stopped>>
      /\ UNCHANGED <<last, busy, doubted, renumbered, scolded>>
  BY DEF vars, hostVars, printerVars, historyVars
<1>2. SenderTypes' /\ Turn' /\ program' = program
  <2>1. Alone' = Alone
    BY <1>1 DEF Alone, senderVars
  <2> QED BY <1>1, <2>1, LineUntouched
<1>3. HostTypes' /\ Counted' /\ Ordered'
  <2>1. owner' \in {"None", "Host", "Storage"}
    BY <1>1 DEF IInv, HostTypes
  <2> QED BY <1>1, <1>2, <2>1, HostUntouched
<1> QED BY <1>2, <1>3 DEF IInv

LEMMA StepIInv == IInv /\ [Next]_vars => IInv'
<1> SUFFICES ASSUME IInv, [Next]_vars PROVE IInv'
  OBVIOUS
<1>1. CASE Send \/ Timeout
  BY <1>1, SendStep
<1>2. CASE ReceiveAnswer
  BY <1>2, AnswerStep
<1>3. CASE LoseLine \/ LoseAnswer \/ Reconnect
  BY <1>3, LossStep
<1>4. CASE Resend
  BY <1>4, ResendStep
<1>5. CASE Repeated
  BY <1>5, RepeatedStep
<1>6. CASE BadLine
  BY <1>6, BadLineStep
<1>7. CASE HostLine
  BY <1>7, HostLineStep
<1>8. CASE PleasePingPong
  BY <1>8, PleasePingPongStep
<1>9. CASE NotAcquired
  BY <1>9, NotAcquiredStep
<1>10. CASE CommandLine
  BY <1>10, CommandLineStep
<1>11. CASE Push
  BY <1>11, PushStep
<1>12. CASE HostDrain
  BY <1>12, DrainStep
<1>13. CASE HostRelease \/ StopClear \/ PrintStart \/ PrintEnd
  BY <1>13, OwnerStep
<1>14. CASE Fetch \/ Acknowledge
  BY <1>14, PrinterStep
<1>15. CASE Stop
  BY <1>15, StopStep
<1>16. CASE UNCHANGED vars
  BY <1>16, StutterIInv
<1> QED BY <1>1, <1>2, <1>3, <1>4, <1>5, <1>6, <1>7, <1>8, <1>9, <1>10, <1>11, <1>12,
          <1>13, <1>14, <1>15, <1>16 DEF Next, TakeLine, Others

\* Types; and the host waits for every command it has pushed and not had back,
\* those a stop threw away included, whatever is lost, repeated or refused.
THEOREM TypeCorrect == Spec => []TypeOK
<1>1. ASSUME IInv PROVE TypeOK
  <2>1. ASSUME NEW box \in Seq(Numbers), Len(box) <= BoxSize PROVE Boxed(box)
    <3>1. DOMAIN program = Numbers
      BY <1>1 DEF IInv, SenderTypes, Numbers
    <3>2. DOMAIN box = 1 .. Len(box)
      BY LenProperties
    <3>3. \A i \in DOMAIN box : box[i] \in DOMAIN program
      BY <3>1, <3>2, ElementOfSeq
    <3> QED BY <2>1, <3>3 DEF Boxed
  <2>2. Boxed(main) /\ Boxed(alt)
    BY <1>1, <2>1 DEF IInv, HostTypes
  <2> QED BY <1>1, <2>2 DEF IInv, SenderTypes, HostTypes, Counted, TypeOK
<1> QED BY <1>1, InitIInv, StepIInv, PTL DEF Spec

\* The printer gets the lines in their order, none twice, and no line whose number
\* was taken is missing but one the host refused, for every program, window and
\* number of losses; unless a repeated M110 sets the numbers back.
THEOREM LinesInOrder == Spec => []ReceivedInOrder
<1>1. ASSUME IInv PROVE ReceivedInOrder
  <2> SUFFICES ASSUME ~renumbered
               PROVE  /\ \A i, j \in DOMAIN log : i < j => log[i] < log[j]
                      /\ \A n \in Reached :
                           IsAction(Command(n)) /\ n # pushing /\ n \notin told /\ dropped = 0 =>
                             Contains(log, n)
                      /\ ToSet(log) \subseteq Reached
    BY DEF ReceivedInOrder
  <2>1. /\ \A i, j \in 1 .. Len(log) : i < j => log[i] < log[j]
        /\ \A i \in 1 .. Len(log) : log[i] <= last
        /\ \A n \in 1 .. last :
             IsAction(Command(n)) /\ n # pushing /\ n \notin told /\ dropped = 0 =>
               \E i \in 1 .. Len(log) : log[i] = n
    BY <1>1 DEF IInv, Ordered
  <2>2. DOMAIN log = 1 .. Len(log) /\ \A i \in 1 .. Len(log) : log[i] \in Numbers
    BY <1>1, LenProperties, ElementOfSeq DEF IInv, HostTypes
  <2>3. last \in Nat
    BY <1>1 DEF IInv, HostTypes, SenderTypes
  <2>4. \A i \in 1 .. Len(log) : log[i] \in 1 .. last
    BY <2>1, <2>2, <2>3 DEF Numbers
  <2> QED BY <2>1, <2>2, <2>4 DEF Reached, Contains, ToSet
<1> QED BY <1>1, InitIInv, StepIInv, PTL DEF Spec

\* A sender that waits for each "ok" is never told to enable ping-pong, but after an
\* "ok" that was no sure answer or an M110 taken out of its turn.
THEOREM PingPongEnough == Spec => []PingPongSuffices
<1>1. ASSUME IInv PROVE PingPongSuffices
  <2>1. window \in Nat \ {0}
    BY <1>1 DEF IInv, SenderTypes
  <2>2. window > 1 \/ window = 1
    BY <2>1
  <2> QED BY <1>1, <2>2 DEF IInv, Turn, Alone, PingPongSuffices
<1> QED BY <1>1, InitIInv, StepIInv, PTL DEF Spec

-----------------------------------------------------------------------------
(* The decoder, for lines of any length.  A fold is a function on sets of         *)
(* positions; it exists (FoldExists), so it does what its equation says, and a    *)
(* property of the command is carried from word to word by induction (UpTo), which *)
(* needs no more than that a set of numbers that is not empty has a least element. *)

\* Induction up to a number, over the set of those that have a property.
LEMMA UpTo ==
  ASSUME NEW n \in Nat, NEW S, 0 \in S, \A i \in 0 .. n - 1 : i \in S => i + 1 \in S
  PROVE  \A i \in 0 .. n : i \in S
<1> DEFINE T == {i \in 0 .. n : i \notin S}
           Less == OpToRel(<, Nat)
<1> SUFFICES ASSUME T # {} PROVE FALSE
  OBVIOUS
<1>1. PICK k \in T : \A i \in T : ~(<<i, k>> \in Less)
  <2>1. T \subseteq Nat
    OBVIOUS
  <2>2. IsWellFoundedOn(Less, Nat)
    BY NatLessThanWellFounded DEF Less
  <2> HIDE DEF T, Less
  <2> QED BY <2>1, <2>2, WFMin
<1>2. \A i \in T : ~(i < k)
  <2> SUFFICES ASSUME NEW i \in T, i < k PROVE FALSE
    OBVIOUS
  <2>1. i \in Nat /\ k \in Nat
    OBVIOUS
  <2>2. <<i, k>> \in Less
    BY <2>1 DEF OpToRel
  <2> QED BY <1>1, <2>2
<1>3. k # 0 /\ k - 1 \in 0 .. n - 1 /\ k - 1 < k
  OBVIOUS
<1>4. k - 1 \in S
  BY <1>2, <1>3
<1> QED BY <1>3, <1>4

LEMMA UpToMax ==
  ASSUME NEW n \in Nat, NEW S \in SUBSET (1 .. n + 1), n + 1 \in S
  PROVE  Max(S) = n + 1
<1>1. \A x \in S : n + 1 >= x
  OBVIOUS
<1>2. \A x \in S : (\A y \in S : x >= y) => x = n + 1
  OBVIOUS
<1> QED BY <1>1, <1>2 DEF Max

\* A set of numbers up to n has a greatest.
LEMMA MaxIn ==
  ASSUME NEW n \in Nat, NEW S \in SUBSET (1 .. n), S # {}
  PROVE  Max(S) \in S
<1> DEFINE Good == {k \in 0 .. n : \A R \in SUBSET (1 .. k) : R # {} => Max(R) \in R}
<1>1. 0 \in Good
  <2>1. \A R \in SUBSET (1 .. 0) : R = {}
    OBVIOUS
  <2>2. 0 \in 0 .. n
    OBVIOUS
  <2> QED BY <2>1, <2>2
<1>2. ASSUME NEW k \in 0 .. n - 1, k \in Good PROVE k + 1 \in Good
  <2>1. ASSUME NEW R \in SUBSET (1 .. k + 1), R # {} PROVE Max(R) \in R
    <3>1. CASE k + 1 \in R
      BY <3>1, UpToMax
    <3>2. CASE k + 1 \notin R
      <4>1. R \in SUBSET (1 .. k)
        BY <3>2
      <4> QED BY <1>2, <2>1, <4>1
    <3> QED BY <3>1, <3>2
  <2> QED BY <2>1
<1>3. \A k \in 0 .. n : k \in Good
  <2> HIDE DEF Good
  <2> QED BY <1>1, <1>2, UpTo
<1> QED BY <1>3

\* The values of a fold over the first words of a sequence.
Folders(V, T, b, n, s) ==
  {h \in [SUBSET (1 .. n) -> V] :
     \A S \in SUBSET (1 .. n) :
       h[S] = IF S = {} THEN b ELSE T[<<h[S \ {Max(S)}], s[Max(S)]>>]}

\* What a fold over a sequence is made of.
LEMMA FoldExists ==
  ASSUME NEW V, NEW W, NEW T \in [V \X W -> V], NEW b \in V, NEW n \in Nat, NEW s \in [1 .. n -> W]
  PROVE  Folders(V, T, b, n, s) # {}
<1> DEFINE Folds(k) == Folders(V, T, b, k, s)
           Good == {k \in 0 .. n : Folds(k) # {}}
<1>1. 0 \in Good
  <2>1. [S \in {{}} |-> b] \in Folds(0)
    <3>1. SUBSET (1 .. 0) = {{}}
      OBVIOUS
    <3> QED BY <3>1 DEF Folders
  <2>2. 0 \in 0 .. n
    OBVIOUS
  <2> HIDE DEF Folds
  <2> QED BY <2>1, <2>2
<1>2. ASSUME NEW k \in 0 .. n - 1, k \in Good PROVE k + 1 \in Good
  <2>1. PICK h \in Folds(k) : TRUE
    BY <1>2
  <2>0. h \in [SUBSET (1 .. k) -> V]
    BY <2>1 DEF Folders
  <2> DEFINE g == [S \in SUBSET (1 .. k + 1) |->
                     IF S \in SUBSET (1 .. k) THEN h[S]
                     ELSE T[<<h[S \ {k + 1}], s[k + 1]>>]]
  <2>2. k + 1 \in 1 .. n /\ s[k + 1] \in W /\ k \in Nat
    OBVIOUS
  <2>3. ASSUME NEW S \in SUBSET (1 .. k + 1), S \notin SUBSET (1 .. k)
        PROVE  /\ k + 1 \in S /\ Max(S) = k + 1 /\ S # {}
               /\ S \ {k + 1} \in SUBSET (1 .. k)
    <3>1. k + 1 \in S
      BY <2>2, <2>3
    <3> QED BY <2>2, <3>1, UpToMax
  <2>4. g \in [SUBSET (1 .. k + 1) -> V]
    <3>1. ASSUME NEW S \in SUBSET (1 .. k + 1)
          PROVE  (IF S \in SUBSET (1 .. k) THEN h[S] ELSE T[<<h[S \ {k + 1}], s[k + 1]>>]) \in V
      BY <2>0, <2>2, <2>3
    <3> QED BY <3>1
  <2>5. ASSUME NEW S \in SUBSET (1 .. k + 1)
        PROVE  g[S] = IF S = {} THEN b ELSE T[<<g[S \ {Max(S)}], s[Max(S)]>>]
    <3>1. CASE S \in SUBSET (1 .. k)
      <4>1. g[S] = h[S] /\ S \ {Max(S)} \in SUBSET (1 .. k) /\ S \ {Max(S)} \in SUBSET (1 .. k + 1)
        BY <3>1
      <4>2. g[S \ {Max(S)}] = h[S \ {Max(S)}]
        BY <4>1
      <4>3. h[S] = IF S = {} THEN b ELSE T[<<h[S \ {Max(S)}], s[Max(S)]>>]
        BY <3>1 DEF Folders
      <4> QED BY <4>1, <4>2, <4>3
    <3>2. CASE S \notin SUBSET (1 .. k)
      <4>1. Max(S) = k + 1 /\ S # {} /\ S \ {k + 1} \in SUBSET (1 .. k)
        BY <3>2, <2>3
      <4>2. S \ {k + 1} \in SUBSET (1 .. k + 1)
        OBVIOUS
      <4>3. g[S] = T[<<h[S \ {k + 1}], s[k + 1]>>] /\ g[S \ {k + 1}] = h[S \ {k + 1}]
        BY <3>2, <4>1, <4>2
      <4> QED BY <4>1, <4>3
    <3> QED BY <3>1, <3>2
  <2>6. g \in Folds(k + 1)
    <3> HIDE DEF g
    <3> QED BY <2>4, <2>5 DEF Folders
  <2> HIDE DEF Folds
  <2> QED BY <2>2, <2>6
<1>3. \A i \in 0 .. n : i \in Good
  <2> HIDE DEF Good
  <2> QED BY <1>1, <1>2, UpTo
<1> HIDE DEF Folds
<1>4. Folds(n) # {}
  BY <1>3
<1> QED BY <1>4 DEF Folds

TypeBits == {"Action", "Sync", "CanHaveAxisWords", "Movement", "TimeStart", "UnknownCode"}
ModeGroups == {"extruder", "wait", "unit", "distance", "rapid"}
Commands == [valid : BOOLEAN, code : Nat, type : SUBSET TypeBits, modes : SUBSET ModeGroups]
Refusals == {c \in Commands : ~c.valid}

\* The steps of the two folds.
MStep(c, value, letters) ==
  LET d == MWord(c, value, letters)
  IN IF ~c.valid \/ c.code = 10028 THEN c
     ELSE IF d.valid /\ value \in NeedingS /\ "S" \notin letters THEN Refused(d)
     ELSE d
GStep(c, value) ==
  LET d == GWord(c, value)
  IN IF ~c.valid THEN c
     ELSE IF "UnknownCode" \in d.type THEN d ELSE WithType(d, SyncAction)

\* The commands that the words of a line make, one after another.
MRuns(line, V, cmd) ==
  {run \in [0 .. Len(line.m) -> V] :
     /\ run[0] = cmd /\ run[Len(line.m)] = DecodeM(cmd, line)
     /\ \A i \in 0 .. Len(line.m) - 1 :
          run[i + 1] = MStep(run[i], line.m[i + 1], line.letters)}

\* Such a run exists, and its last command is what the decoder's fold gives.
LEMMA FoldM ==
  ASSUME NEW line, line.m \in Seq(Nat), NEW V, NEW cmd \in V,
         \A c \in V, value \in Nat : MStep(c, value, line.letters) \in V
  PROVE  MRuns(line, V, cmd) # {}
<1> DEFINE n == Len(line.m)
           T == [p \in V \X Nat |-> MStep(p[1], p[2], line.letters)]
           F == CHOOSE h : h = [S \in SUBSET (DOMAIN line.m) |->
                  IF S = {} THEN cmd ELSE MStep(h[S \ {Max(S)}], line.m[Max(S)], line.letters)]
<1>1. n \in Nat /\ DOMAIN line.m = 1 .. n /\ line.m \in [1 .. n -> Nat]
  BY LenProperties
<1>2. DecodeM(cmd, line) = F[DOMAIN line.m]
  BY DEF DecodeM, FoldLeft, MapThenFoldSet, MStep
<1>3. T \in [V \X Nat -> V]
  OBVIOUS
<1>4. PICK h \in [SUBSET (1 .. n) -> V] :
        \A S \in SUBSET (1 .. n) :
          h[S] = IF S = {} THEN cmd ELSE T[<<h[S \ {Max(S)}], line.m[Max(S)]>>]
  <2>1. Folders(V, T, cmd, n, line.m) # {}
    <3> HIDE DEF T, n
    <3> QED BY <1>1, <1>3, FoldExists
  <2> HIDE DEF T, n
  <2> QED BY <2>1 DEF Folders
<1>5. h = [S \in SUBSET (DOMAIN line.m) |->
             IF S = {} THEN cmd ELSE MStep(h[S \ {Max(S)}], line.m[Max(S)], line.letters)]
  <2>1. ASSUME NEW S \in SUBSET (1 .. n), S # {}
        PROVE  T[<<h[S \ {Max(S)}], line.m[Max(S)]>>]
                 = MStep(h[S \ {Max(S)}], line.m[Max(S)], line.letters)
    <3>1. Max(S) \in 1 .. n
      BY <1>1, <2>1, MaxIn
    <3>2. h[S \ {Max(S)}] \in V /\ line.m[Max(S)] \in Nat
      BY <1>1, <3>1
    <3> QED BY <3>2
  <2> HIDE DEF T, n
  <2> QED BY <1>1, <1>4, <2>1
<1>6. F = [S \in SUBSET (DOMAIN line.m) |->
             IF S = {} THEN cmd ELSE MStep(F[S \ {Max(S)}], line.m[Max(S)], line.letters)]
  <2> HIDE DEF MStep, n, T
  <2> QED BY <1>5
<1> HIDE DEF F, T
<1>7. F[{}] = cmd
  <2> HIDE DEF n
  <2> QED BY <1>1, <1>6
<1>8. ASSUME NEW i \in 0 .. n - 1
      PROVE  F[1 .. i + 1] = MStep(F[1 .. i], line.m[i + 1], line.letters)
  <2>1. 1 .. i + 1 \in SUBSET (DOMAIN line.m) /\ 1 .. i + 1 # {} /\ i + 1 \in 1 .. i + 1
    <3> HIDE DEF n
    <3>1. i + 1 \in 1 .. i + 1 /\ \A k \in 1 .. i + 1 : k \in 1 .. n
      BY <1>1
    <3> QED BY <1>1, <3>1
  <2>2. Max(1 .. i + 1) = i + 1 /\ (1 .. i + 1) \ {i + 1} = 1 .. i
    <3> HIDE DEF n
    <3> QED BY <1>1, UpToMax
  <2> HIDE DEF n
  <2> QED BY <1>6, <2>1, <2>2
<1> DEFINE run == [i \in 0 .. n |-> F[1 .. i]]
<1>9. \A i \in 0 .. n : run[i] \in V
  <2> DEFINE S == {i \in 0 .. n : F[1 .. i] \in V}
  <2>1. 0 \in S
    <3>1. 1 .. 0 = {} /\ 0 \in 0 .. n
      BY <1>1
    <3> QED BY <1>7, <3>1
  <2>2. ASSUME NEW i \in 0 .. n - 1, i \in S PROVE i + 1 \in S
    <3>1. i + 1 \in 0 .. n /\ line.m[i + 1] \in Nat
      BY <1>1
    <3> HIDE DEF n
    <3> QED BY <1>8, <2>2, <3>1
  <2>3. \A i \in 0 .. n : i \in S
    <3> HIDE DEF S, n
    <3> QED BY <1>1, <2>1, <2>2, UpTo
  <2> QED BY <2>3
<1>10. run \in [0 .. n -> V] /\ run[n] = DecodeM(cmd, line) /\ run[0] = cmd
  <2>1. 1 .. 0 = {} /\ 0 \in 0 .. n /\ n \in 0 .. n
    BY <1>1
  <2> HIDE DEF n
  <2> QED BY <1>1, <1>2, <1>7, <1>9, <2>1
<1>11. ASSUME NEW i \in 0 .. n - 1
       PROVE  run[i + 1] = MStep(run[i], line.m[i + 1], line.letters)
  <2>1. i \in 0 .. n /\ i + 1 \in 0 .. n
    BY <1>1
  <2> HIDE DEF n
  <2> QED BY <1>8, <2>1
<1> HIDE DEF run
<1> QED BY <1>10, <1>11 DEF MRuns

GRuns(line, V, cmd) ==
  {run \in [0 .. Len(line.g) -> V] :
     /\ run[0] = cmd /\ run[Len(line.g)] = DecodeG(cmd, line)
     /\ \A i \in 0 .. Len(line.g) - 1 :
          run[i + 1] = GStep(run[i], line.g[i + 1])}

LEMMA FoldG ==
  ASSUME NEW line, line.g \in Seq(Nat), NEW V, NEW cmd \in V,
         \A c \in V, value \in Nat : GStep(c, value) \in V
  PROVE  GRuns(line, V, cmd) # {}
<1> DEFINE n == Len(line.g)
           T == [p \in V \X Nat |-> GStep(p[1], p[2])]
           F == CHOOSE h : h = [S \in SUBSET (DOMAIN line.g) |->
                  IF S = {} THEN cmd ELSE GStep(h[S \ {Max(S)}], line.g[Max(S)])]
<1>1. n \in Nat /\ DOMAIN line.g = 1 .. n /\ line.g \in [1 .. n -> Nat]
  BY LenProperties
<1>2. DecodeG(cmd, line) = F[DOMAIN line.g]
  BY DEF DecodeG, FoldLeft, MapThenFoldSet, GStep
<1>3. T \in [V \X Nat -> V]
  OBVIOUS
<1>4. PICK h \in [SUBSET (1 .. n) -> V] :
        \A S \in SUBSET (1 .. n) :
          h[S] = IF S = {} THEN cmd ELSE T[<<h[S \ {Max(S)}], line.g[Max(S)]>>]
  <2>1. Folders(V, T, cmd, n, line.g) # {}
    <3> HIDE DEF T, n
    <3> QED BY <1>1, <1>3, FoldExists
  <2> HIDE DEF T, n
  <2> QED BY <2>1 DEF Folders
<1>5. h = [S \in SUBSET (DOMAIN line.g) |->
             IF S = {} THEN cmd ELSE GStep(h[S \ {Max(S)}], line.g[Max(S)])]
  <2>1. ASSUME NEW S \in SUBSET (1 .. n), S # {}
        PROVE  T[<<h[S \ {Max(S)}], line.g[Max(S)]>>]
                 = GStep(h[S \ {Max(S)}], line.g[Max(S)])
    <3>1. Max(S) \in 1 .. n
      BY <1>1, <2>1, MaxIn
    <3>2. h[S \ {Max(S)}] \in V /\ line.g[Max(S)] \in Nat
      BY <1>1, <3>1
    <3> QED BY <3>2
  <2> HIDE DEF T, n
  <2> QED BY <1>1, <1>4, <2>1
<1>6. F = [S \in SUBSET (DOMAIN line.g) |->
             IF S = {} THEN cmd ELSE GStep(F[S \ {Max(S)}], line.g[Max(S)])]
  <2> HIDE DEF GStep, n, T
  <2> QED BY <1>5
<1> HIDE DEF F, T
<1>7. F[{}] = cmd
  <2> HIDE DEF n
  <2> QED BY <1>1, <1>6
<1>8. ASSUME NEW i \in 0 .. n - 1
      PROVE  F[1 .. i + 1] = GStep(F[1 .. i], line.g[i + 1])
  <2>1. 1 .. i + 1 \in SUBSET (DOMAIN line.g) /\ 1 .. i + 1 # {} /\ i + 1 \in 1 .. i + 1
    <3> HIDE DEF n
    <3>1. i + 1 \in 1 .. i + 1 /\ \A k \in 1 .. i + 1 : k \in 1 .. n
      BY <1>1
    <3> QED BY <1>1, <3>1
  <2>2. Max(1 .. i + 1) = i + 1 /\ (1 .. i + 1) \ {i + 1} = 1 .. i
    <3> HIDE DEF n
    <3> QED BY <1>1, UpToMax
  <2> HIDE DEF n
  <2> QED BY <1>6, <2>1, <2>2
<1> DEFINE run == [i \in 0 .. n |-> F[1 .. i]]
<1>9. \A i \in 0 .. n : run[i] \in V
  <2> DEFINE S == {i \in 0 .. n : F[1 .. i] \in V}
  <2>1. 0 \in S
    <3>1. 1 .. 0 = {} /\ 0 \in 0 .. n
      BY <1>1
    <3> QED BY <1>7, <3>1
  <2>2. ASSUME NEW i \in 0 .. n - 1, i \in S PROVE i + 1 \in S
    <3>1. i + 1 \in 0 .. n /\ line.g[i + 1] \in Nat
      BY <1>1
    <3> HIDE DEF n
    <3> QED BY <1>8, <2>2, <3>1
  <2>3. \A i \in 0 .. n : i \in S
    <3> HIDE DEF S, n
    <3> QED BY <1>1, <2>1, <2>2, UpTo
  <2> QED BY <2>3
<1>10. run \in [0 .. n -> V] /\ run[n] = DecodeG(cmd, line) /\ run[0] = cmd
  <2>1. 1 .. 0 = {} /\ 0 \in 0 .. n /\ n \in 0 .. n
    BY <1>1
  <2> HIDE DEF n
  <2> QED BY <1>1, <1>2, <1>7, <1>9, <2>1
<1>11. ASSUME NEW i \in 0 .. n - 1
       PROVE  run[i + 1] = GStep(run[i], line.g[i + 1])
  <2>1. i \in 0 .. n /\ i + 1 \in 0 .. n
    BY <1>1
  <2> HIDE DEF n
  <2> QED BY <1>8, <2>1
<1> HIDE DEF run
<1> QED BY <1>10, <1>11 DEF GRuns

-----------------------------------------------------------------------------
(* What one word does to a command. *)

LEMMA RefusalsAre ==
  /\ \A c \in Refusals : c \in Commands /\ ~c.valid
  /\ \A c \in Commands : Refused(c) \in Refusals /\ (~c.valid => c \in Refusals)
BY DEF Refusals, Refused, Commands

LEMMA WithCodeIs ==
  ASSUME NEW c \in Commands, NEW code \in Nat
  PROVE  LET d == WithCode(c, code)
         IN  /\ d \in Commands
             /\ ~c.valid \/ c.code # 0 => d \in Refusals
             /\ c.valid /\ c.code = 0 =>
                  d.valid /\ d.code = code /\ d.type = c.type /\ d.modes = c.modes
BY RefusalsAre DEF WithCode, Commands

LEMMA WithModeIs ==
  ASSUME NEW c \in Commands, NEW mode \in ModeGroups
  PROVE  LET d == WithMode(c, mode)
         IN  /\ d \in Commands
             /\ mode \in c.modes => d \in Refusals
             /\ mode \notin c.modes =>
                  d.valid = c.valid /\ d.code = c.code /\ d.type = c.type /\ d.modes = c.modes \cup {mode}
BY RefusalsAre DEF WithMode, Commands

LEMMA WithTypeIs ==
  ASSUME NEW c \in Commands, NEW type \in SUBSET TypeBits
  PROVE  LET d == WithType(c, type)
         IN  /\ d \in Commands /\ d.valid = c.valid
             /\ ~c.valid => d = c /\ d \in Refusals
             /\ c.valid => d.code = c.code /\ d.type = c.type \cup type /\ d.modes = c.modes
BY RefusalsAre DEF WithType, Commands

LEMMA NeedingAxesIs ==
  ASSUME NEW c \in Commands
  PROVE  /\ NeedingAxes(c) \in Commands
         /\ "CanHaveAxisWords" \in c.type => NeedingAxes(c) \in Refusals
         /\ "CanHaveAxisWords" \notin c.type => NeedingAxes(c) = c
BY RefusalsAre DEF NeedingAxes

Waits == {109, 116, 190}
MCodes == {v \in Nat : v \notin ModeM \/ v \in {109, 190}}
GCodes == {v \in Nat : v \notin ModeG}
AxisWords == {0, 1, 10, 28, 92}

\* A command of the kind a line so far has made.
Sound(c) ==
  /\ c \in Commands /\ c.valid
  /\ "Sync" \in c.type => "Action" \in c.type
  /\ ("TimeStart" \in c.type) = ("wait" \in c.modes)

\* An M word is taken if its code, or its mode, is the first and it has the
\* parameter it needs.
MTakes(c, v, letters) ==
  /\ v \in MCodes => c.code = 0
  /\ v \in {82, 83} => "extruder" \notin c.modes
  /\ v \in Waits => "wait" \notin c.modes
  /\ v \in NeedingS => "S" \in letters
MGives(c, v, d) ==
  /\ Sound(d)
  /\ (d.code # 0) = (c.code # 0 \/ v \in MCodes)
  /\ (d.code = 10028) = (v = 28)
  /\ ("extruder" \in d.modes) = ("extruder" \in c.modes \/ v \in {82, 83})
  /\ ("wait" \in d.modes) = ("wait" \in c.modes \/ v \in Waits)
  /\ d.modes \subseteq c.modes \cup {"extruder", "wait"}
  /\ ("CanHaveAxisWords" \in d.type) = ("CanHaveAxisWords" \in c.type)

LEMMA MWordIs ==
  ASSUME NEW c, Sound(c), c.code # 10028, NEW v \in Nat, NEW letters
  PROVE  LET d == MStep(c, v, letters)
         IN  /\ MTakes(c, v, letters) => MGives(c, v, d)
             /\ ~MTakes(c, v, letters) => d \in Refusals
<1> DEFINE w == MWord(c, v, letters)
<1>0. /\ c \in Commands /\ c.valid
      /\ "Sync" \in c.type => "Action" \in c.type
      /\ ("TimeStart" \in c.type) = ("wait" \in c.modes)
  BY DEF Sound
<1>1. /\ w \in Commands /\ (w \in Refusals \/ w.valid)
      /\ (v \in NeedingS /\ "S" \notin letters => ~MTakes(c, v, letters))
      /\ (~(v \in NeedingS /\ "S" \notin letters) =>
            /\ MTakes(c, v, letters) => MGives(c, v, w)
            /\ ~MTakes(c, v, letters) => w \in Refusals)
  <2>0. /\ SyncAction = {"Action", "Sync"} /\ SyncAction \in SUBSET TypeBits
        /\ SyncAction \cup {"TimeStart"} \in SUBSET TypeBits /\ {"Action"} \in SUBSET TypeBits
        /\ {"UnknownCode"} \in SUBSET TypeBits
        /\ "extruder" \in ModeGroups /\ "wait" \in ModeGroups
    BY DEF SyncAction, TypeBits, ModeGroups
  <2>1. CASE v \in PowerCodes
    <3>1. w = WithType(c, SyncAction)
      BY <2>1 DEF MWord, PowerCodes, ImmediateCodes, ActionCodes
    <3>2. v \notin MCodes /\ v \notin {82, 83} /\ v \notin Waits /\ v \notin NeedingS /\ v # 28
      BY <2>1 DEF MCodes, ModeM, Waits, NeedingS, PowerCodes
    <3> HIDE DEF w
    <3> QED BY <1>0, <2>0, <3>1, <3>2, WithTypeIs DEF MTakes, MGives, Sound
  <2>2. CASE v \in {82, 83}
    <3>1. w = WithType(WithMode(c, "extruder"), SyncAction)
      BY <2>2 DEF MWord, PowerCodes, ImmediateCodes, ActionCodes
    <3>2. v \notin MCodes /\ v \notin Waits /\ v \notin NeedingS /\ v # 28
      BY <2>2 DEF MCodes, ModeM, Waits, NeedingS, PowerCodes
    <3> HIDE DEF w
    <3>3. CASE "extruder" \in c.modes
      BY <1>0, <2>0, <2>2, <3>1, <3>2, <3>3, WithTypeIs, WithModeIs, RefusalsAre DEF MTakes
    <3>4. CASE "extruder" \notin c.modes
      BY <1>0, <2>0, <2>2, <3>1, <3>2, <3>4, WithTypeIs, WithModeIs DEF MTakes, MGives, Sound
    <3> QED BY <3>3, <3>4
  <2>3. CASE v \in Waits
    <3>1. w = MWait(c, v, letters)
      BY <2>3 DEF MWord, PowerCodes, ImmediateCodes, ActionCodes, Waits
    <3>2. v \notin {82, 83} /\ v # 28 /\ (v \in MCodes <=> v # 116) /\ (v # 116 => v \in NeedingS)
          /\ (v = 116 => v \notin NeedingS)
      BY <2>3 DEF MCodes, ModeM, Waits, NeedingS, PowerCodes
    <3> DEFINE q == IF v = 109 THEN 10104 ELSE 10140
               coded == IF v = 116 \/ "S" \notin letters THEN c ELSE WithCode(c, q)
    <3>3. w = IF "wait" \in c.modes \/ ~coded.valid THEN Refused(c)
              ELSE WithType(WithMode(coded, "wait"), SyncAction \cup {"TimeStart"})
      BY <3>1 DEF MWait
    <3>9. q \in Nat /\ q \in {10104, 10140}
      OBVIOUS
    <3> HIDE DEF q, w
    <3>4. coded \in Commands
          /\ (coded.valid => coded.modes = c.modes /\ coded.type = c.type)
      BY <1>0, <3>9, WithCodeIs, RefusalsAre
    <3>5. v = 116 => coded = c
      OBVIOUS
    <3>8. v # 116 /\ "S" \in letters =>
            /\ coded.valid => c.code = 0 /\ coded.code # 0 /\ coded.code # 10028
            /\ c.code = 0 => coded.valid
      <4> SUFFICES ASSUME v # 116, "S" \in letters
                   PROVE  /\ coded.valid => c.code = 0 /\ coded.code # 0 /\ coded.code # 10028
                          /\ c.code = 0 => coded.valid
        OBVIOUS
      <4>1. coded = WithCode(c, q)
        OBVIOUS
      <4> HIDE DEF coded
      <4>2. CASE c.code # 0
        <5>1. coded \in Refusals
          BY <1>0, <3>9, <4>1, <4>2, WithCodeIs
        <5> QED BY <4>2, <5>1, RefusalsAre
      <4>3. CASE c.code = 0
        <5>1. coded.valid /\ coded.code = q
          BY <1>0, <3>9, <4>1, <4>3, WithCodeIs
        <5> QED BY <3>9, <4>3, <5>1
      <4> QED BY <4>2, <4>3
    <3> HIDE DEF w, coded
    <3>6. CASE "wait" \in c.modes \/ ~coded.valid
      BY <1>0, <2>3, <3>2, <3>3, <3>5, <3>6, <3>8, RefusalsAre DEF MTakes
    <3>7. CASE ~("wait" \in c.modes \/ ~coded.valid)
      BY <1>0, <2>0, <2>3, <3>2, <3>3, <3>4, <3>5, <3>7, <3>8, WithTypeIs, WithModeIs DEF MTakes, MGives, Sound
    <3> QED BY <3>6, <3>7
  <2>4. CASE v \notin ModeM
    <3>0. v \in MCodes /\ v \notin {82, 83} /\ v \notin Waits /\ v \notin PowerCodes
          /\ 10000 + v \in Nat /\ 10000 + v # 0 /\ (10000 + v = 10028 <=> v = 28)
      BY <2>4 DEF MCodes, ModeM, Waits
    <3> DEFINE k == WithCode(c, 10000 + v)
    <3>1. \/ w = k
          \/ w = WithType(k, {"Action"})
          \/ w = WithType(k, {"UnknownCode"})
      BY <3>0 DEF MWord, ImmediateCodes, ActionCodes, Waits
    <3>2. /\ k \in Commands
          /\ c.code # 0 => k \in Refusals
          /\ c.code = 0 => k.valid /\ k.code = 10000 + v /\ k.type = c.type /\ k.modes = c.modes
      BY <1>0, <3>0, WithCodeIs
    <3> HIDE DEF w, k
    <3>3. CASE c.code # 0
      BY <2>0, <3>0, <3>1, <3>2, <3>3, WithTypeIs, RefusalsAre DEF MTakes
    <3>4. CASE c.code = 0
      <4>1. w \in Commands /\ w.valid /\ w.code = 10000 + v /\ w.modes = c.modes
            /\ w.type \in {c.type, c.type \cup {"Action"}, c.type \cup {"UnknownCode"}}
        BY <2>0, <3>1, <3>2, <3>4, WithTypeIs
      <4> QED BY <1>0, <3>0, <3>4, <4>1 DEF MTakes, MGives, Sound
    <3> QED BY <3>3, <3>4
  <2> QED BY <2>1, <2>2, <2>3, <2>4 DEF ModeM, Waits
<1>2. MStep(c, v, letters) = IF w.valid /\ v \in NeedingS /\ "S" \notin letters THEN Refused(w) ELSE w
  BY <1>0 DEF MStep
<1> HIDE DEF w
<1> QED BY <1>1, <1>2, RefusalsAre DEF MGives, Sound

\* A G word is taken if its code, its mode, or its claim to the axes is the first.
Claimed(c) == "rapid" \in c.modes => "CanHaveAxisWords" \in c.type
GTakes(c, v) ==
  /\ v \in GCodes => c.code = 0
  /\ v \in {20, 21} => "unit" \notin c.modes
  /\ v \in {90, 91} => "distance" \notin c.modes
  /\ v \in AxisWords => "CanHaveAxisWords" \notin c.type
GGives(c, v, d) ==
  /\ Sound(d) /\ Claimed(d)
  /\ (d.code # 0) = (c.code # 0 \/ v \in GCodes)
  /\ ("unit" \in d.modes) = ("unit" \in c.modes \/ v \in {20, 21})
  /\ ("distance" \in d.modes) = ("distance" \in c.modes \/ v \in {90, 91})
  /\ ("CanHaveAxisWords" \in d.type) = ("CanHaveAxisWords" \in c.type \/ v \in AxisWords)
  /\ ("wait" \in d.modes) = ("wait" \in c.modes)

LEMMA GWordIs ==
  ASSUME NEW c, Sound(c), Claimed(c), NEW v \in Nat
  PROVE  LET d == GStep(c, v)
         IN  /\ GTakes(c, v) => GGives(c, v, d)
             /\ ~GTakes(c, v) => d \in Refusals
<1> DEFINE w == GWord(c, v)
<1>0. /\ c \in Commands /\ c.valid
      /\ "Sync" \in c.type => "Action" \in c.type
      /\ ("TimeStart" \in c.type) = ("wait" \in c.modes)
      /\ "rapid" \in c.modes => "CanHaveAxisWords" \in c.type
  BY DEF Sound, Claimed
<1>1. /\ Movement = {"CanHaveAxisWords", "Movement"} /\ SyncAction = {"Action", "Sync"}
      /\ Movement \in SUBSET TypeBits /\ SyncAction \in SUBSET TypeBits
      /\ {"CanHaveAxisWords"} \in SUBSET TypeBits /\ {"UnknownCode"} \in SUBSET TypeBits
      /\ "unit" \in ModeGroups /\ "distance" \in ModeGroups /\ "rapid" \in ModeGroups
  BY DEF SyncAction, Movement, TypeBits, ModeGroups
<1>2. /\ GTakes(c, v) => GGives(c, v, w)
      /\ ~GTakes(c, v) => w \in Refusals
  <2>2. CASE v \notin ModeG /\ v \notin {10, 28, 92}
    <3> DEFINE k == WithCode(c, v)
    <3>1. \/ w = k
          \/ w = WithType(k, {"UnknownCode"})
      BY <2>2 DEF GWord, ModeG
    <3>2. /\ v \in GCodes /\ v # 0 /\ v \notin {20, 21} /\ v \notin {90, 91} /\ v \notin AxisWords
      BY <2>2 DEF GCodes, ModeG, AxisWords
    <3>3. /\ k \in Commands
          /\ c.code # 0 => k \in Refusals
          /\ c.code = 0 => k.valid /\ k.code = v /\ k.type = c.type /\ k.modes = c.modes
      BY <1>0, WithCodeIs
    <3> HIDE DEF w, k
    <3>4. CASE c.code # 0
      BY <1>1, <3>1, <3>2, <3>3, <3>4, WithTypeIs, RefusalsAre DEF GTakes
    <3>5. CASE c.code = 0
      <4>1. w \in Commands /\ w.valid /\ w.code = v /\ w.modes = c.modes
            /\ w.type \in {c.type, c.type \cup {"UnknownCode"}}
        BY <1>1, <3>1, <3>3, <3>5, WithTypeIs
      <4> QED BY <1>0, <3>2, <3>5, <4>1 DEF GTakes, GGives, Sound, Claimed
    <3> QED BY <3>4, <3>5
  <2>3. CASE v \in {10, 28, 92}
    <3> DEFINE k == NeedingAxes(c)
               n == WithCode(k, v)
    <3>1. w = WithType(n, {"CanHaveAxisWords"})
      BY <2>3 DEF GWord, CodeWithAxes
    <3>2. /\ v \in GCodes /\ v # 0 /\ v \notin {20, 21} /\ v \notin {90, 91} /\ v \in AxisWords
      BY <2>3 DEF GCodes, ModeG, AxisWords
    <3>3. /\ k \in Commands
          /\ "CanHaveAxisWords" \in c.type => k \in Refusals
          /\ "CanHaveAxisWords" \notin c.type => k = c
      BY <1>0, NeedingAxesIs
    <3>4. /\ n \in Commands
          /\ ~k.valid \/ k.code # 0 => n \in Refusals
          /\ k.valid /\ k.code = 0 =>
               n.valid /\ n.code = v /\ n.type = k.type /\ n.modes = k.modes
      <4> HIDE DEF k
      <4> QED BY <3>3, WithCodeIs
    <3> HIDE DEF w, k, n
    <3>5. CASE c.code # 0 \/ "CanHaveAxisWords" \in c.type
      <4>1. n \in Refusals
        BY <3>3, <3>4, <3>5, RefusalsAre
      <4>2. w \in Refusals
        BY <1>1, <3>1, <4>1, WithTypeIs, RefusalsAre
      <4> QED BY <3>2, <3>5, <4>2 DEF GTakes
    <3>6. CASE c.code = 0 /\ "CanHaveAxisWords" \notin c.type
      <4>0. n \in Commands /\ n.valid /\ n.code = v /\ n.type = c.type /\ n.modes = c.modes
        <5>1. k = c /\ k.valid /\ k.code = 0
          BY <1>0, <3>3, <3>6
        <5> QED BY <3>4, <5>1
      <4>1. w \in Commands /\ w.valid /\ w.code = v /\ w.modes = c.modes
            /\ w.type = c.type \cup {"CanHaveAxisWords"}
        BY <1>1, <3>1, <4>0, WithTypeIs
      <4> QED BY <1>0, <3>2, <3>6, <4>1 DEF GTakes, GGives, Sound, Claimed
    <3> QED BY <3>5, <3>6
  <2>4. CASE v \in {20, 21}
    <3>1. w = WithMode(c, "unit")
      BY <2>4 DEF GWord
    <3>2. v \notin GCodes /\ v \notin {90, 91} /\ v \notin AxisWords
      BY <2>4 DEF GCodes, ModeG, AxisWords
    <3> HIDE DEF w
    <3> QED BY <1>0, <1>1, <2>4, <3>1, <3>2, WithModeIs DEF GTakes, GGives, Sound, Claimed
  <2>5. CASE v \in {90, 91}
    <3>1. w = WithMode(c, "distance")
      BY <2>5 DEF GWord
    <3>2. v \notin GCodes /\ v \notin {20, 21} /\ v \notin AxisWords
      BY <2>5 DEF GCodes, ModeG, AxisWords
    <3> HIDE DEF w
    <3> QED BY <1>0, <1>1, <2>5, <3>1, <3>2, WithModeIs DEF GTakes, GGives, Sound, Claimed
  <2>6. CASE v \in {0, 1}
    <3> DEFINE k == WithMode(c, "rapid")
               n == NeedingAxes(k)
    <3>1. w = WithType(n, Movement)
      BY <2>6 DEF GWord
    <3>2. v \notin GCodes /\ v \notin {20, 21} /\ v \notin {90, 91} /\ v \in AxisWords
      BY <2>6 DEF GCodes, ModeG, AxisWords
    <3>3. /\ k \in Commands
          /\ "rapid" \in c.modes => k \in Refusals
          /\ "rapid" \notin c.modes =>
               k.valid /\ k.code = c.code /\ k.type = c.type /\ k.modes = c.modes \cup {"rapid"}
      BY <1>0, <1>1, WithModeIs
    <3>4. /\ n \in Commands
          /\ "CanHaveAxisWords" \in k.type => n \in Refusals
          /\ "CanHaveAxisWords" \notin k.type => n = k
      <4> HIDE DEF k
      <4> QED BY <3>3, NeedingAxesIs
    <3> HIDE DEF w, k, n
    <3>5. CASE "CanHaveAxisWords" \in c.type
      <4>1. n \in Refusals
        BY <3>3, <3>4, <3>5, RefusalsAre
      <4>2. w \in Refusals
        BY <1>1, <3>1, <4>1, WithTypeIs, RefusalsAre
      <4> QED BY <3>2, <3>5, <4>2 DEF GTakes
    <3>6. CASE "CanHaveAxisWords" \notin c.type
      <4>1. w \in Commands /\ w.valid /\ w.code = c.code /\ w.modes = c.modes \cup {"rapid"}
            /\ w.type = c.type \cup Movement
        BY <1>0, <1>1, <3>1, <3>3, <3>4, <3>6, WithTypeIs
      <4> QED BY <1>0, <1>1, <3>2, <3>6, <4>1 DEF GTakes, GGives, Sound, Claimed
    <3> QED BY <3>5, <3>6
  <2> QED BY <2>2, <2>3, <2>4, <2>5, <2>6 DEF ModeG
<1>3. GStep(c, v) = IF "UnknownCode" \in w.type THEN w ELSE WithType(w, SyncAction)
  BY <1>0 DEF GStep
<1> HIDE DEF w
<1>4. CASE GTakes(c, v)
  <2>1. GGives(c, v, w)
    BY <1>2, <1>4
  <2>2. w \in Commands /\ w.valid
    BY <2>1 DEF GGives, Sound
  <2>3. /\ WithType(w, SyncAction) \in Commands /\ WithType(w, SyncAction).valid
        /\ WithType(w, SyncAction).code = w.code /\ WithType(w, SyncAction).modes = w.modes
        /\ WithType(w, SyncAction).type = w.type \cup SyncAction
    BY <1>1, <2>2, WithTypeIs
  <2>4. GGives(c, v, WithType(w, SyncAction))
    BY <1>1, <2>1, <2>3 DEF GGives, Sound, Claimed
  <2> QED BY <1>3, <1>4, <2>1, <2>4
<1>5. CASE ~GTakes(c, v)
  <2>1. w \in Refusals
    BY <1>2, <1>5
  <2> QED BY <1>1, <1>3, <1>5, <2>1, RefusalsAre, WithTypeIs
<1> QED BY <1>4, <1>5

-----------------------------------------------------------------------------
(* How many of the first words of a line are in a set. *)
Seen(s, A, i) == Cardinality({k \in 1 .. i : s[k] \in A})

LEMMA SeenNone ==
  ASSUME NEW s, NEW A
  PROVE  Seen(s, A, 0) = 0
<1>1. {k \in 1 .. 0 : s[k] \in A} = {}
  OBVIOUS
<1> QED BY <1>1, FS_EmptySet DEF Seen

LEMMA SeenNext ==
  ASSUME NEW i \in Nat, NEW s, NEW A
  PROVE  /\ Seen(s, A, i) \in Nat
         /\ Seen(s, A, i + 1) = Seen(s, A, i) + (IF s[i + 1] \in A THEN 1 ELSE 0)
<1> DEFINE Of(k) == {x \in 1 .. k : s[x] \in A}
<1>1. IsFiniteSet(Of(i)) /\ Cardinality(Of(i)) \in Nat
  <2>1. IsFiniteSet(Of(i))
    <3>1. IsFiniteSet(1 .. i)
      BY FS_Interval
    <3> QED BY <3>1, FS_Subset
  <2> QED BY <2>1, FS_CardinalityType
<1>2. Of(i + 1) = IF s[i + 1] \in A THEN Of(i) \cup {i + 1} ELSE Of(i)
  OBVIOUS
<1>3. i + 1 \notin Of(i)
  OBVIOUS
<1>4. Seen(s, A, i) = Cardinality(Of(i)) /\ Seen(s, A, i + 1) = Cardinality(Of(i + 1))
  BY DEF Seen
<1> HIDE DEF Of
<1>5. Cardinality(Of(i) \cup {i + 1}) = Cardinality(Of(i)) + 1
  BY <1>1, <1>3, FS_AddElement
<1> QED BY <1>1, <1>2, <1>4, <1>5

LEMMA SeenSum ==
  ASSUME NEW n \in Nat, NEW s, NEW A, NEW B, A \cap B = {}
  PROVE  Seen(s, A \cup B, n) = Seen(s, A, n) + Seen(s, B, n)
<1> DEFINE S == {i \in 0 .. n : Seen(s, A \cup B, i) = Seen(s, A, i) + Seen(s, B, i)}
<1>1. 0 \in S
  BY SeenNone
<1>2. ASSUME NEW i \in 0 .. n - 1, i \in S PROVE i + 1 \in S
  <2>1. i \in Nat /\ i + 1 \in 0 .. n
    OBVIOUS
  <2>2. /\ Seen(s, A, i) \in Nat /\ Seen(s, B, i) \in Nat
        /\ Seen(s, A, i + 1) = Seen(s, A, i) + (IF s[i + 1] \in A THEN 1 ELSE 0)
        /\ Seen(s, B, i + 1) = Seen(s, B, i) + (IF s[i + 1] \in B THEN 1 ELSE 0)
        /\ Seen(s, A \cup B, i + 1) = Seen(s, A \cup B, i) + (IF s[i + 1] \in A \cup B THEN 1 ELSE 0)
        /\ Seen(s, A \cup B, i) = Seen(s, A, i) + Seen(s, B, i)
    BY <1>2, <2>1, SeenNext
  <2>3. Seen(s, A \cup B, i + 1) = Seen(s, A, i + 1) + Seen(s, B, i + 1)
    BY <2>2
  <2> QED BY <2>1, <2>3
<1>3. \A i \in 0 .. n : i \in S
  <2> HIDE DEF S
  <2> QED BY <1>1, <1>2, UpTo
<1> QED BY <1>3

-----------------------------------------------------------------------------
(* The M words of a line. *)
MGood(line, i) ==
  /\ line.letters \cap {"F0", "T9"} = {}
  /\ Seen(line.m, MCodes, i) <= 1
  /\ Seen(line.m, {82, 83}, i) <= 1
  /\ Seen(line.m, Waits, i) <= 1
  /\ Seen(line.m, NeedingS, i) > 0 => "S" \in line.letters
MMade(line, i, c) ==
  /\ Sound(c) /\ "CanHaveAxisWords" \notin c.type
  /\ (c.code # 0) = (Seen(line.m, MCodes, i) = 1)
  /\ ("extruder" \in c.modes) = (Seen(line.m, {82, 83}, i) = 1)
  /\ ("wait" \in c.modes) = (Seen(line.m, Waits, i) = 1)
  /\ c.modes \subseteq {"extruder", "wait"}
  /\ (c.code = 10028) = (i > 0 /\ line.m[i] = 28)

LEMMA MStepMakes ==
  ASSUME NEW line, line.m \in Seq(Nat), NEW i \in 0 .. Len(line.m) - 1, NEW c,
         MGood(line, i) => MMade(line, i, c), ~MGood(line, i) => c \in Refusals,
         i > 0 => line.m[i] # 28
  PROVE  LET d == MStep(c, line.m[i + 1], line.letters)
         IN  /\ MGood(line, i + 1) => MMade(line, i + 1, d)
             /\ ~MGood(line, i + 1) => d \in Refusals
<1> DEFINE v == line.m[i + 1]
           d == MStep(c, v, line.letters)
           n == Len(line.m)
<1>1. n \in Nat /\ v \in Nat /\ i \in 0 .. n /\ i \in Nat /\ i + 1 > 0
  BY LenProperties, ElementOfSeq
<1> HIDE DEF n
<1>2. ASSUME NEW A
      PROVE  /\ Seen(line.m, A, i) \in Nat
             /\ Seen(line.m, A, i + 1) = Seen(line.m, A, i) + (IF v \in A THEN 1 ELSE 0)
  BY <1>1, SeenNext
<1>3. \A A : LET a == Seen(line.m, A, i)
                 b == Seen(line.m, A, i + 1)
             IN  /\ b \in Nat
                 /\ b <= 1 <=> a <= 1 /\ (v \in A => a = 0)
                 /\ b <= 1 => ((b = 1) <=> (a = 1 \/ v \in A))
                 /\ b > 0 <=> a > 0 \/ v \in A
  BY <1>2
<1> HIDE DEF v, d
<1>4. CASE ~MGood(line, i)
  <2>1. ~MGood(line, i + 1)
    BY <1>3, <1>4 DEF MGood
  <2>2. d \in Refusals
    BY <1>4, RefusalsAre DEF d, MStep
  <2> QED BY <2>1, <2>2 DEF d, v
<1>5. CASE MGood(line, i)
  <2>1. MMade(line, i, c) /\ Sound(c) /\ c.code # 10028 /\ c.code \in Nat
    BY <1>1, <1>5 DEF MMade, Sound, Commands
  <2>2. /\ MTakes(c, v, line.letters) => MGives(c, v, d)
        /\ ~MTakes(c, v, line.letters) => d \in Refusals
    BY <1>1, <2>1, MWordIs DEF d
  <2>3. MGood(line, i + 1) = MTakes(c, v, line.letters)
    BY <1>2, <1>3, <1>5, <2>1 DEF MGood, MMade, MTakes
  <2>4. ASSUME MTakes(c, v, line.letters) PROVE MMade(line, i + 1, d)
    <3>1. MGives(c, v, d) /\ MGood(line, i + 1)
      BY <2>2, <2>3, <2>4
    <3>2. (d.code = 10028) = (i + 1 > 0 /\ line.m[i + 1] = 28)
      BY <1>1, <3>1 DEF MGives, v
    <3>3. /\ Sound(d) /\ "CanHaveAxisWords" \notin d.type
          /\ d.modes \subseteq {"extruder", "wait"}
      BY <2>1, <3>1 DEF MMade, MGives
    <3>4. (d.code # 0) = (Seen(line.m, MCodes, i + 1) = 1)
      BY <1>3, <2>1, <3>1 DEF MGood, MMade, MGives
    <3>5. ("extruder" \in d.modes) = (Seen(line.m, {82, 83}, i + 1) = 1)
      BY <1>3, <2>1, <3>1 DEF MGood, MMade, MGives
    <3>6. ("wait" \in d.modes) = (Seen(line.m, Waits, i + 1) = 1)
      BY <1>3, <2>1, <3>1 DEF MGood, MMade, MGives
    <3> QED BY <3>2, <3>3, <3>4, <3>5, <3>6 DEF MMade
  <2>5. /\ MGood(line, i + 1) => MMade(line, i + 1, d)
        /\ ~MGood(line, i + 1) => d \in Refusals
    BY <2>2, <2>3, <2>4
  <2> QED BY <2>5 DEF d, v
<1> QED BY <1>4, <1>5

\* Where in a sequence something comes first.
First(n, s, x) == {i \in 1 .. n : s[i] = x /\ \A j \in 1 .. i - 1 : s[j] # x}

LEMMA FirstExists ==
  ASSUME NEW n \in Nat, NEW s, NEW x, \E k \in 1 .. n : s[k] = x
  PROVE  First(n, s, x) # {}
<1> DEFINE S == {i \in 0 .. n : \A j \in 1 .. i : s[j] # x}
<1> SUFFICES ASSUME First(n, s, x) = {} PROVE FALSE
  OBVIOUS
<1>1. 0 \in S
  OBVIOUS
<1>2. ASSUME NEW i \in 0 .. n - 1, i \in S PROVE i + 1 \in S
  <2>1. s[i + 1] # x
    <3>1. i + 1 \in 1 .. n /\ \A j \in 1 .. (i + 1) - 1 : s[j] # x
      BY <1>2
    <3> QED BY <3>1 DEF First
  <2> QED BY <1>2, <2>1
<1>3. \A i \in 0 .. n : i \in S
  <2> HIDE DEF S
  <2> QED BY <1>1, <1>2, UpTo
<1> QED BY <1>3

\* How many M words count.
MCut(line) == Len(MWords(line))

LEMMA CutFacts ==
  ASSUME NEW line, line.m \in Seq(Nat)
  PROVE  /\ MCut(line) \in Nat /\ MCut(line) \in 0 .. Len(line.m)
         /\ \A k \in 1 .. MCut(line) - 1 : line.m[k] # 28
         /\ Contains(line.m, 28) <=> MCut(line) > 0 /\ line.m[MCut(line)] = 28
         /\ ~Contains(line.m, 28) => MCut(line) = Len(line.m)
         /\ \A A : CountIn(MWords(line), A) = Seen(line.m, A, MCut(line))
         /\ Cardinality({i \in DOMAIN MWords(line) : MWords(line)[i] \notin ModeM})
              = Seen(line.m, Nat \ ModeM, MCut(line))
<1> DEFINE n == Len(line.m)
           cut == MCut(line)
           w == MWords(line)
<1>1. n \in Nat /\ DOMAIN line.m = 1 .. n /\ \A i \in 1 .. n : line.m[i] \in Nat
  BY LenProperties, ElementOfSeq
<1>2. Contains(line.m, 28) <=> \E i \in 1 .. n : line.m[i] = 28
  BY DEF Contains
<1>3. /\ cut \in 0 .. n /\ w \in Seq(Nat) /\ \A k \in 1 .. cut : w[k] = line.m[k]
      /\ \A k \in 1 .. cut - 1 : line.m[k] # 28
      /\ Contains(line.m, 28) => cut > 0 /\ line.m[cut] = 28
      /\ ~Contains(line.m, 28) => cut = n
  <2>1. CASE ~Contains(line.m, 28)
    <3>1. w = line.m /\ cut = n
      BY <2>1 DEF MWords, UpTo28, MCut
    <3>2. \A k \in 1 .. n - 1 : line.m[k] # 28
      <4> HIDE DEF n
      <4> QED BY <1>1, <1>2, <2>1
    <3> HIDE DEF n, cut, w
    <3> QED BY <1>1, <2>1, <3>1, <3>2
  <2>2. CASE Contains(line.m, 28)
    <3> DEFINE P(i) == line.m[i] = 28 /\ \A j \in 1 .. i - 1 : line.m[j] # 28
               c == CHOOSE i \in DOMAIN line.m : P(i)
    <3>1. \E i \in 1 .. n : P(i)
      <4>1. First(n, line.m, 28) # {}
        <5> HIDE DEF n
        <5> QED BY <1>1, <1>2, <2>2, FirstExists
      <4> HIDE DEF n
      <4> QED BY <4>1 DEF First
    <3>2. c \in 1 .. n /\ P(c)
      <4> HIDE DEF P
      <4> QED BY <1>1, <3>1
    <3>3. w = SubSeq(line.m, 1, c)
      BY <2>2 DEF MWords, UpTo28
    <3> HIDE DEF c
    <3>4. w \in Seq(Nat) /\ Len(w) = c /\ \A k \in 1 .. c : w[k] = line.m[k]
      <4>1. /\ 1 \in Int /\ c \in Int /\ 1 <= c /\ (c - 1) + 1 = c
            /\ \A k \in 1 .. c : (1 + k) - 1 = k /\ k \in 1 .. (c - 1) + 1
            /\ \A i \in 1 .. c : line.m[i] \in Nat
        BY <1>1, <3>2
      <4> HIDE DEF n
      <4> QED BY <3>2, <3>3, <4>1, SubSeqProperties
    <3>5. cut = c
      BY <3>4 DEF MCut
    <3> HIDE DEF cut, w
    <3> QED BY <1>1, <2>2, <3>2, <3>4, <3>5
  <2> QED BY <2>1, <2>2
<1>4. DOMAIN w = 1 .. cut
  BY <1>3, LenProperties DEF MCut
<1> HIDE DEF n, cut, w
<1>5. Contains(line.m, 28) <=> cut > 0 /\ line.m[cut] = 28
  BY <1>1, <1>2, <1>3
<1>6. ASSUME NEW A PROVE CountIn(w, A) = Seen(line.m, A, cut)
  <2>1. {i \in DOMAIN w : w[i] \in A} = {k \in 1 .. cut : line.m[k] \in A}
    BY <1>3, <1>4
  <2> QED BY <2>1 DEF CountIn, Seen
<1>7. Cardinality({i \in DOMAIN w : w[i] \notin ModeM}) = Seen(line.m, Nat \ ModeM, cut)
  <2>1. {i \in DOMAIN w : w[i] \notin ModeM} = {k \in 1 .. cut : line.m[k] \in Nat \ ModeM}
    BY <1>1, <1>3, <1>4
  <2> QED BY <2>1 DEF Seen
<1>8. cut \in Nat
  BY <1>1, <1>3
<1> QED BY <1>3, <1>5, <1>6, <1>7, <1>8 DEF n, cut, w

\* What the decoder makes of the M words of a line.
LEMMA MDecoded ==
  ASSUME NEW line, line.m \in Seq(Nat), NEW cmd,
         MGood(line, 0) => MMade(line, 0, cmd), ~MGood(line, 0) => cmd \in Refusals
  PROVE  LET d == DecodeM(cmd, line)
         IN  /\ MGood(line, MCut(line)) => MMade(line, MCut(line), d)
             /\ ~MGood(line, MCut(line)) => d \in Refusals
<1> DEFINE n == Len(line.m)
           cut == MCut(line)
<1>1. /\ n \in Nat /\ cut \in 0 .. n /\ \A k \in 1 .. cut - 1 : line.m[k] # 28
      /\ cut = n \/ (cut > 0 /\ line.m[cut] = 28)
  BY CutFacts, LenProperties
<1> DEFINE V == {c \in Commands : Sound(c)} \cup Refusals
<1>2. cmd \in V
  BY DEF MMade, Sound
<1>3. ASSUME NEW c \in V, NEW v \in Nat PROVE MStep(c, v, line.letters) \in V
  <2>1. CASE ~c.valid \/ c.code = 10028
    BY <2>1 DEF MStep
  <2>2. CASE c.valid /\ c.code # 10028
    <3>1. Sound(c)
      BY <2>2, RefusalsAre
    <3> QED BY <2>2, <3>1, MWordIs DEF MGives, Sound
  <2> QED BY <2>1, <2>2
<1>4. PICK run \in MRuns(line, V, cmd) : TRUE
  <2> HIDE DEF V
  <2> QED BY <1>2, <1>3, FoldM
<1>5. /\ run[0] = cmd /\ run[n] = DecodeM(cmd, line)
      /\ \A i \in 0 .. n - 1 : run[i + 1] = MStep(run[i], line.m[i + 1], line.letters)
  BY DEF MRuns
<1> HIDE DEF n, cut, V
<1> DEFINE Made(i) == /\ MGood(line, i) => MMade(line, i, run[i])
                      /\ ~MGood(line, i) => run[i] \in Refusals
           S == {i \in 0 .. cut : Made(i)}
<1>6. Made(cut)
  <2>1. 0 \in S
    BY <1>1, <1>5
  <2>2. ASSUME NEW i \in 0 .. cut - 1, i \in S PROVE i + 1 \in S
    <3>1. i \in 0 .. Len(line.m) - 1 /\ (i > 0 => line.m[i] # 28) /\ i \in 0 .. n - 1 /\ i + 1 \in 0 .. cut
      BY <1>1 DEF n
    <3>2. Made(i)
      BY <2>2
    <3>3. /\ MGood(line, i + 1) => MMade(line, i + 1, MStep(run[i], line.m[i + 1], line.letters))
          /\ ~MGood(line, i + 1) => MStep(run[i], line.m[i + 1], line.letters) \in Refusals
      BY <3>1, <3>2, MStepMakes
    <3>4. Made(i + 1)
      BY <1>5, <3>1, <3>3
    <3> HIDE DEF Made
    <3> QED BY <3>1, <3>4
  <2>3. \A i \in 0 .. cut : i \in S
    <3> HIDE DEF S
    <3>1. cut \in Nat
      BY <1>1
    <3> QED BY <3>1, <2>1, <2>2, UpTo
  <2> HIDE DEF Made
  <2> QED BY <1>1, <2>3
<1>7. run[n] = run[cut]
  <2>1. CASE cut = n
    BY <2>1
  <2>2. CASE cut > 0 /\ line.m[cut] = 28
    <3> DEFINE R == {i \in 0 .. n - cut : run[cut + i] = run[cut]}
    <3>1. ~run[cut].valid \/ run[cut].code = 10028
      BY <1>6, <2>2, RefusalsAre DEF MMade
    <3>2. 0 \in R
      BY <1>1
    <3>3. ASSUME NEW i \in 0 .. (n - cut) - 1, i \in R PROVE i + 1 \in R
      <4>1. cut + i \in 0 .. n - 1 /\ cut + (i + 1) = (cut + i) + 1 /\ i + 1 \in 0 .. n - cut
        BY <1>1
      <4>2. run[(cut + i) + 1] = MStep(run[cut + i], line.m[(cut + i) + 1], line.letters)
        BY <1>5, <4>1
      <4>3. run[(cut + i) + 1] = run[cut]
        BY <3>1, <3>3, <4>2 DEF MStep
      <4> QED BY <4>1, <4>3
    <3>4. \A i \in 0 .. n - cut : i \in R
      <4>1. n - cut \in Nat
        BY <1>1
      <4> HIDE DEF R
      <4> QED BY <3>2, <3>3, <4>1, UpTo
    <3>5. n - cut \in 0 .. n - cut /\ cut + (n - cut) = n
      BY <1>1
    <3> QED BY <3>4, <3>5
  <2> QED BY <1>1, <2>1, <2>2
<1> QED BY <1>5, <1>6, <1>7 DEF cut

-----------------------------------------------------------------------------
(* The G words of a line, behind M words of which `codes' were codes. *)
GGood(line, codes, i) ==
  /\ codes + Seen(line.g, GCodes, i) <= 1
  /\ Seen(line.g, {20, 21}, i) <= 1
  /\ Seen(line.g, {90, 91}, i) <= 1
  /\ Seen(line.g, AxisWords, i) <= 1
GMade(line, codes, waits, i, c) ==
  /\ Sound(c) /\ Claimed(c)
  /\ (c.code # 0) = (codes + Seen(line.g, GCodes, i) = 1)
  /\ ("unit" \in c.modes) = (Seen(line.g, {20, 21}, i) = 1)
  /\ ("distance" \in c.modes) = (Seen(line.g, {90, 91}, i) = 1)
  /\ ("CanHaveAxisWords" \in c.type) = (Seen(line.g, AxisWords, i) = 1)
  /\ ("wait" \in c.modes) = waits

LEMMA GStepMakes ==
  ASSUME NEW line, line.g \in Seq(Nat), NEW codes \in Nat, NEW waits \in BOOLEAN,
         NEW i \in 0 .. Len(line.g) - 1, NEW c,
         GGood(line, codes, i) => GMade(line, codes, waits, i, c),
         ~GGood(line, codes, i) => c \in Refusals
  PROVE  LET d == GStep(c, line.g[i + 1])
         IN  /\ GGood(line, codes, i + 1) => GMade(line, codes, waits, i + 1, d)
             /\ ~GGood(line, codes, i + 1) => d \in Refusals
<1> DEFINE v == line.g[i + 1]
           d == GStep(c, v)
           n == Len(line.g)
<1>1. n \in Nat /\ v \in Nat /\ i \in 0 .. n /\ i \in Nat
  BY LenProperties, ElementOfSeq
<1> HIDE DEF n
<1>2. ASSUME NEW A
      PROVE  /\ Seen(line.g, A, i) \in Nat
             /\ Seen(line.g, A, i + 1) = Seen(line.g, A, i) + (IF v \in A THEN 1 ELSE 0)
  BY <1>1, SeenNext
<1>3. \A A : LET a == Seen(line.g, A, i)
                 b == Seen(line.g, A, i + 1)
             IN  /\ b \in Nat
                 /\ b <= 1 <=> a <= 1 /\ (v \in A => a = 0)
                 /\ b <= 1 => ((b = 1) <=> (a = 1 \/ v \in A))
                 /\ b > 0 <=> a > 0 \/ v \in A
                 /\ codes + b <= 1 <=> codes + a <= 1 /\ (v \in A => codes + a = 0)
                 /\ codes + b <= 1 => ((codes + b = 1) <=> (codes + a = 1 \/ v \in A))
                 /\ a <= 1 => (a = 0 <=> a # 1)
                 /\ codes + a <= 1 => (codes + a = 0 <=> codes + a # 1)
  BY <1>2
<1> HIDE DEF v, d
<1>4. CASE ~GGood(line, codes, i)
  <2>1. ~GGood(line, codes, i + 1)
    BY <1>3, <1>4 DEF GGood
  <2>2. d \in Refusals
    BY <1>4, RefusalsAre DEF d, GStep
  <2> QED BY <2>1, <2>2 DEF d, v
<1>5. CASE GGood(line, codes, i)
  <2>1. GMade(line, codes, waits, i, c) /\ Sound(c) /\ Claimed(c)
    BY <1>1, <1>5 DEF GMade
  <2>2. /\ GTakes(c, v) => GGives(c, v, d)
        /\ ~GTakes(c, v) => d \in Refusals
    BY <1>1, <2>1, GWordIs DEF d
  <2>3. GGood(line, codes, i + 1) = GTakes(c, v)
    <3>1. codes + Seen(line.g, GCodes, i + 1) <= 1 <=> (v \in GCodes => c.code = 0)
      BY <1>3, <1>5, <2>1 DEF GGood, GMade
    <3>2. Seen(line.g, {20, 21}, i + 1) <= 1 <=> (v \in {20, 21} => "unit" \notin c.modes)
      BY <1>3, <1>5, <2>1 DEF GGood, GMade
    <3>3. Seen(line.g, {90, 91}, i + 1) <= 1 <=> (v \in {90, 91} => "distance" \notin c.modes)
      BY <1>3, <1>5, <2>1 DEF GGood, GMade
    <3>4. Seen(line.g, AxisWords, i + 1) <= 1 <=> (v \in AxisWords => "CanHaveAxisWords" \notin c.type)
      BY <1>3, <1>5, <2>1 DEF GGood, GMade
    <3> QED BY <3>1, <3>2, <3>3, <3>4 DEF GGood, GTakes
  <2>4. ASSUME GTakes(c, v) PROVE GMade(line, codes, waits, i + 1, d)
    <3>1. GGives(c, v, d) /\ GGood(line, codes, i + 1)
      BY <2>2, <2>3, <2>4
    <3>2. Sound(d) /\ Claimed(d) /\ ("wait" \in d.modes) = waits
      BY <2>1, <3>1 DEF GMade, GGives
    <3>3. (d.code # 0) = (codes + Seen(line.g, GCodes, i + 1) = 1)
      BY <1>3, <2>1, <3>1 DEF GGood, GMade, GGives
    <3>4. ("unit" \in d.modes) = (Seen(line.g, {20, 21}, i + 1) = 1)
      BY <1>3, <2>1, <3>1 DEF GGood, GMade, GGives
    <3>5. ("distance" \in d.modes) = (Seen(line.g, {90, 91}, i + 1) = 1)
      <4>1. ("distance" \in c.modes) = (Seen(line.g, {90, 91}, i) = 1)
            /\ Seen(line.g, {90, 91}, i + 1) <= 1
        BY <2>1, <3>1 DEF GGood, GMade
      <4>2. ("distance" \in d.modes) = ("distance" \in c.modes \/ v \in {90, 91})
        BY <3>1 DEF GGives
      <4> QED BY <1>3, <4>1, <4>2
    <3>6. ("CanHaveAxisWords" \in d.type) = (Seen(line.g, AxisWords, i + 1) = 1)
      BY <1>3, <2>1, <3>1 DEF GGood, GMade, GGives
    <3> QED BY <3>2, <3>3, <3>4, <3>5, <3>6 DEF GMade
  <2>5. /\ GGood(line, codes, i + 1) => GMade(line, codes, waits, i + 1, d)
        /\ ~GGood(line, codes, i + 1) => d \in Refusals
    BY <2>2, <2>3, <2>4
  <2> QED BY <2>5 DEF d, v
<1> QED BY <1>4, <1>5

\* What the decoder makes of the G words of a line.
LEMMA GDecoded ==
  ASSUME NEW line, line.g \in Seq(Nat), NEW codes \in Nat, NEW waits \in BOOLEAN, NEW cmd,
         GGood(line, codes, 0), GMade(line, codes, waits, 0, cmd)
  PROVE  LET d == DecodeG(cmd, line)
         IN  /\ GGood(line, codes, Len(line.g)) => GMade(line, codes, waits, Len(line.g), d)
             /\ ~GGood(line, codes, Len(line.g)) => d \in Refusals
<1> DEFINE n == Len(line.g)
           V == {c \in Commands : Sound(c) /\ Claimed(c)} \cup Refusals
<1>1. n \in Nat
  BY LenProperties
<1>2. cmd \in V
  BY DEF GMade, Sound
<1>3. ASSUME NEW c \in V, NEW v \in Nat PROVE GStep(c, v) \in V
  <2>1. CASE ~c.valid
    BY <2>1 DEF GStep
  <2>2. CASE c.valid
    <3>1. Sound(c) /\ Claimed(c)
      BY <2>2, RefusalsAre
    <3> QED BY <2>2, <3>1, GWordIs DEF GGives, Sound
  <2> QED BY <2>1, <2>2
<1>4. PICK run \in GRuns(line, V, cmd) : TRUE
  <2> HIDE DEF V
  <2> QED BY <1>2, <1>3, FoldG
<1>5. /\ run[0] = cmd /\ run[n] = DecodeG(cmd, line)
      /\ \A i \in 0 .. n - 1 : run[i + 1] = GStep(run[i], line.g[i + 1])
  BY DEF GRuns
<1> HIDE DEF n, V
<1> DEFINE Made(i) == /\ GGood(line, codes, i) => GMade(line, codes, waits, i, run[i])
                      /\ ~GGood(line, codes, i) => run[i] \in Refusals
           S == {i \in 0 .. n : Made(i)}
<1>6. 0 \in S
  BY <1>1, <1>5
<1>7. ASSUME NEW i \in 0 .. n - 1, i \in S PROVE i + 1 \in S
  <2>1. i \in 0 .. Len(line.g) - 1 /\ i + 1 \in 0 .. n
    BY <1>1 DEF n
  <2>2. Made(i)
    BY <1>7
  <2>3. /\ GGood(line, codes, i + 1) =>
             GMade(line, codes, waits, i + 1, GStep(run[i], line.g[i + 1]))
        /\ ~GGood(line, codes, i + 1) => GStep(run[i], line.g[i + 1]) \in Refusals
    BY <2>1, <2>2, GStepMakes
  <2>4. Made(i + 1)
    BY <1>5, <2>1, <2>3
  <2> HIDE DEF Made
  <2> QED BY <2>1, <2>4
<1>8. \A i \in 0 .. n : i \in S
  <2> HIDE DEF S
  <2> QED BY <1>1, <1>6, <1>7, UpTo
<1>9. Made(n)
  <2> HIDE DEF Made
  <2> QED BY <1>1, <1>8
<1> QED BY <1>5, <1>9 DEF n

LEMMA RefusalStays ==
  ASSUME NEW line, line.g \in Seq(Nat), NEW cmd \in Refusals
  PROVE  DecodeG(cmd, line) = cmd
<1>1. ASSUME NEW c \in {cmd}, NEW v \in Nat PROVE GStep(c, v) \in {cmd}
  BY RefusalsAre DEF GStep
<1>2. PICK run \in GRuns(line, {cmd}, cmd) : TRUE
  BY <1>1, FoldG
<1>3. Len(line.g) \in 0 .. Len(line.g)
  BY LenProperties
<1> QED BY <1>3 DEF GRuns

-----------------------------------------------------------------------------
(* The line as a whole. *)
GCut(line) == IF Contains(line.m, 28) THEN 0 ELSE Len(line.g)

LEMMA GCutFacts ==
  ASSUME NEW line, line.g \in Seq(Nat)
  PROVE  /\ GCut(line) \in Nat
         /\ \A A : CountIn(GWords(line), A) = Seen(line.g, A, GCut(line))
         /\ Cardinality({i \in DOMAIN GWords(line) : GWords(line)[i] \notin ModeG})
              = Seen(line.g, GCodes, GCut(line))
<1> DEFINE w == GWords(line)
           n == Len(line.g)
<1>1. n \in Nat /\ DOMAIN line.g = 1 .. n /\ \A i \in 1 .. n : line.g[i] \in Nat
  BY LenProperties, ElementOfSeq
<1>2. GCut(line) \in 0 .. n /\ DOMAIN w = 1 .. GCut(line) /\ \A k \in 1 .. GCut(line) : w[k] = line.g[k]
  <2>1. CASE Contains(line.m, 28)
    <3>1. w = <<>> /\ GCut(line) = 0
      BY <2>1 DEF GWords, GCut
    <3> HIDE DEF w
    <3> QED BY <1>1, <3>1
  <2>2. CASE ~Contains(line.m, 28)
    <3>1. w = line.g /\ GCut(line) = n
      BY <2>2 DEF GWords, GCut
    <3> HIDE DEF w, n
    <3> QED BY <1>1, <3>1
  <2> QED BY <2>1, <2>2
<1> HIDE DEF w, n
<1>3. ASSUME NEW A PROVE CountIn(w, A) = Seen(line.g, A, GCut(line))
  <2>1. {i \in DOMAIN w : w[i] \in A} = {k \in 1 .. GCut(line) : line.g[k] \in A}
    BY <1>2
  <2> QED BY <2>1 DEF CountIn, Seen
<1>4. Cardinality({i \in DOMAIN w : w[i] \notin ModeG}) = Seen(line.g, GCodes, GCut(line))
  <2>1. {i \in DOMAIN w : w[i] \notin ModeG} = {k \in 1 .. GCut(line) : line.g[k] \in GCodes}
    BY <1>1, <1>2 DEF GCodes
  <2> QED BY <2>1 DEF Seen
<1> QED BY <1>1, <1>2, <1>3, <1>4 DEF w

\* The letters looked up first.
LEMMA PreambleIs ==
  ASSUME NEW line, line.m \in Seq(Nat)
  PROVE  LET p == Preamble(line.letters)
         IN  /\ MGood(line, 0) => MMade(line, 0, p)
             /\ ~MGood(line, 0) => p \in Refusals
<1> DEFINE p == Preamble(line.letters)
<1>1. \A A : Seen(line.m, A, 0) = 0
  BY SeenNone
<1>2. MGood(line, 0) <=> line.letters \cap {"F0", "T9"} = {}
  BY <1>1 DEF MGood
<1>3. CASE line.letters \cap {"F0", "T9"} = {}
  <2>1. p.valid /\ p.code = 0 /\ p.modes = {} /\ (p.type = {} \/ p.type = {"Action", "Sync"})
        /\ p \in Commands
    BY <1>3 DEF Preamble, Blank, SyncAction, Commands, TypeBits
  <2> HIDE DEF p
  <2>2. MMade(line, 0, p)
    BY <1>1, <2>1 DEF MMade, Sound
  <2> QED BY <1>2, <1>3, <2>2 DEF p
<1>4. CASE line.letters \cap {"F0", "T9"} # {}
  <2>1. p = Refused(Blank)
    BY <1>4 DEF Preamble
  <2>2. Blank \in Commands
    BY DEF Blank, Commands
  <2>3. p \in Refusals
    BY <2>1, <2>2, RefusalsAre
  <2> HIDE DEF p
  <2> QED BY <1>2, <1>4, <2>3 DEF p
<1> HIDE DEF p
<1> QED BY <1>3, <1>4 DEF p

LEMMA Decoded ==
  ASSUME NEW line, line.m \in Seq(Nat), line.g \in Seq(Nat)
  PROVE  LET codes == Seen(line.m, MCodes, MCut(line))
             good == MGood(line, MCut(line)) /\ GGood(line, codes, GCut(line))
             cmd == gcodeDecode(line)
         IN  /\ good => GMade(line, codes, Seen(line.m, Waits, MCut(line)) = 1, GCut(line), cmd)
             /\ ~good => cmd \in Refusals
<1> DEFINE cut == MCut(line)
           codes == Seen(line.m, MCodes, cut)
           waits == Seen(line.m, Waits, cut) = 1
           p == Preamble(line.letters)
           a == DecodeM(p, line)
           good == MGood(line, cut) /\ GGood(line, codes, GCut(line))
<1>1. /\ MGood(line, cut) => MMade(line, cut, a)
      /\ ~MGood(line, cut) => a \in Refusals
  BY PreambleIs, MDecoded
<1>2. gcodeDecode(line) = IF a.code = 10028 THEN a ELSE DecodeG(a, line)
  BY DEF gcodeDecode
<1>3. /\ cut \in Nat /\ codes \in Nat /\ waits \in BOOLEAN
      /\ Contains(line.m, 28) <=> cut > 0 /\ line.m[cut] = 28
  <2>1. cut \in Nat /\ (Contains(line.m, 28) <=> cut > 0 /\ line.m[cut] = 28)
    BY CutFacts DEF cut
  <2>2. Seen(line.m, MCodes, cut) \in Nat
    BY <2>1, SeenNext DEF cut
  <2> QED BY <2>1, <2>2
<1> HIDE DEF cut, codes, waits, a
<1>4. CASE ~MGood(line, cut)
  <2>1. gcodeDecode(line) \in Refusals
    BY <1>1, <1>2, <1>4, RefusalsAre, RefusalStays
  <2> QED BY <1>4, <2>1 DEF cut, codes, waits
<1>5. CASE MGood(line, cut)
  <2>1. MMade(line, cut, a)
    BY <1>1, <1>5
  <2>2. \A A : Seen(line.g, A, 0) = 0
    BY SeenNone
  <2>3. GGood(line, codes, 0)
    BY <1>3, <1>5, <2>2 DEF GGood, MGood, codes
  <2>4. GMade(line, codes, waits, 0, a)
    <3>1. "unit" \notin a.modes /\ "distance" \notin a.modes /\ "rapid" \notin a.modes
      <4>1. a.modes \subseteq {"extruder", "wait"}
        BY <2>1 DEF MMade
      <4> QED BY <4>1
    <3>2. (a.code # 0) = (codes = 1) /\ ("wait" \in a.modes) = waits /\ Sound(a)
          /\ "CanHaveAxisWords" \notin a.type
      BY <2>1 DEF MMade, codes, waits
    <3>3. codes + 0 = codes
      BY <1>3
    <3> QED BY <2>2, <3>1, <3>2, <3>3 DEF GMade, Claimed
  <2>5. a.code = 10028 <=> Contains(line.m, 28)
    <3>1. (a.code = 10028) = (cut > 0 /\ line.m[cut] = 28)
      BY <2>1 DEF MMade
    <3> QED BY <1>3, <3>1
  <2>6. CASE Contains(line.m, 28)
    <3>1. gcodeDecode(line) = a /\ GCut(line) = 0
      BY <1>2, <2>5, <2>6 DEF GCut
    <3> QED BY <1>5, <2>3, <2>4, <3>1 DEF cut, codes, waits
  <2>7. CASE ~Contains(line.m, 28)
    <3>1. gcodeDecode(line) = DecodeG(a, line) /\ GCut(line) = Len(line.g)
      BY <1>2, <2>5, <2>7 DEF GCut
    <3>2. /\ GGood(line, codes, Len(line.g)) =>
               GMade(line, codes, waits, Len(line.g), DecodeG(a, line))
          /\ ~GGood(line, codes, Len(line.g)) => DecodeG(a, line) \in Refusals
      BY <1>3, <2>3, <2>4, GDecoded
    <3> QED BY <1>5, <3>1, <3>2 DEF cut, codes, waits
  <2> QED BY <2>6, <2>7
<1> QED BY <1>4, <1>5

\* A line is taken exactly if it means something, and the command says what it means.
THEOREM LineDecoded ==
  ASSUME NEW line, line.m \in Seq(Nat), line.g \in Seq(Nat)
  PROVE  DecodesAsMeant(line)
<1> DEFINE cut == MCut(line)
           gcut == GCut(line)
           codes == Seen(line.m, MCodes, cut)
           more == Seen(line.g, GCodes, gcut)
           waits == Seen(line.m, Waits, cut)
           axes == Seen(line.g, AxisWords, gcut)
           good == MGood(line, cut) /\ GGood(line, codes, gcut)
           cmd == gcodeDecode(line)
<1>1. cut \in Nat /\ gcut \in Nat
  BY CutFacts, GCutFacts
<1>2. ASSUME NEW A PROVE Seen(line.m, A, cut) \in Nat /\ Seen(line.g, A, gcut) \in Nat
  BY <1>1, SeenNext
<1>3. CodeCount(line) = codes + more
  <2>1. MCodes = (Nat \ ModeM) \cup {109, 190} /\ (Nat \ ModeM) \cap {109, 190} = {}
    BY DEF MCodes, ModeM
  <2>2. codes = Seen(line.m, Nat \ ModeM, cut) + Seen(line.m, {109, 190}, cut)
    <3> HIDE DEF cut
    <3> QED BY <1>1, <2>1, SeenSum
  <2>3. /\ Cardinality({i \in DOMAIN MWords(line) : MWords(line)[i] \notin ModeM})
             = Seen(line.m, Nat \ ModeM, cut)
        /\ CountIn(MWords(line), {109, 190}) = Seen(line.m, {109, 190}, cut)
        /\ Cardinality({i \in DOMAIN GWords(line) : GWords(line)[i] \notin ModeG}) = more
    BY CutFacts, GCutFacts
  <2> QED BY <2>2, <2>3 DEF CodeCount
<1>4. /\ \A A : CountIn(MWords(line), A) = Seen(line.m, A, cut)
      /\ \A A : CountIn(GWords(line), A) = Seen(line.g, A, gcut)
  BY CutFacts, GCutFacts
<1>5. /\ good => GMade(line, codes, waits = 1, gcut, cmd)
      /\ ~good => cmd \in Refusals
  BY Decoded
<1> HIDE DEF cut, gcut, cmd
<1>6. Meaningful(line) <=> good
  <2>1. codes \in Nat /\ more \in Nat
    BY <1>2
  <2> HIDE DEF codes, more
  <2>2. codes + more <= 1 => codes <= 1
    BY <2>1
  <2>3. Meaningful(line) <=>
          /\ line.letters \cap {"F0", "T9"} = {}
          /\ codes + more <= 1
          /\ Seen(line.m, {82, 83}, cut) <= 1
          /\ Seen(line.m, Waits, cut) <= 1
          /\ Seen(line.g, {20, 21}, gcut) <= 1
          /\ Seen(line.g, {90, 91}, gcut) <= 1
          /\ Seen(line.g, AxisWords, gcut) <= 1
          /\ Seen(line.m, NeedingS, cut) > 0 => "S" \in line.letters
    BY <1>3, <1>4 DEF Meaningful, Waits, AxisWords
  <2>4. MGood(line, cut) <=>
          /\ line.letters \cap {"F0", "T9"} = {}
          /\ codes <= 1
          /\ Seen(line.m, {82, 83}, cut) <= 1
          /\ Seen(line.m, Waits, cut) <= 1
          /\ Seen(line.m, NeedingS, cut) > 0 => "S" \in line.letters
    BY DEF MGood, codes
  <2>5. GGood(line, codes, gcut) <=>
          /\ codes + more <= 1
          /\ Seen(line.g, {20, 21}, gcut) <= 1
          /\ Seen(line.g, {90, 91}, gcut) <= 1
          /\ Seen(line.g, AxisWords, gcut) <= 1
    BY DEF GGood, more
  <2> QED BY <2>2, <2>3, <2>4, <2>5
<1>7. CASE ~good
  <2>1. ~cmd.valid /\ cmd.valid \in BOOLEAN /\ ~Meaningful(line) /\ Meaningful(line) \in BOOLEAN
    BY <1>5, <1>6, <1>7, RefusalsAre DEF Commands, Meaningful
  <2>2. cmd.valid = Meaningful(line)
    BY <2>1
  <2> QED BY <2>1, <2>2 DEF DecodesAsMeant, cmd
<1>8. CASE good
  <2>1. /\ Sound(cmd)
        /\ (cmd.code # 0) = (CodeCount(line) = 1)
        /\ ("CanHaveAxisWords" \in cmd.type) = (axes = 1)
        /\ ("wait" \in cmd.modes) = (waits = 1)
    BY <1>3, <1>5, <1>8 DEF GMade
  <2>2. cmd.valid /\ ("TimeStart" \in cmd.type) = (waits = 1)
        /\ ("Sync" \in cmd.type => "Action" \in cmd.type)
    BY <2>1 DEF Sound
  <2>3. waits = CountIn(MWords(line), {109, 116, 190})
        /\ axes = CountIn(GWords(line), {0, 1, 10, 28, 92})
    BY <1>4 DEF Waits, AxisWords
  <2> HIDE DEF codes, waits, axes
  <2>4. /\ cmd.valid = Meaningful(line)
        /\ (cmd.code # 0) = (CodeCount(line) = 1)
        /\ ("TimeStart" \in cmd.type) = (CountIn(MWords(line), {109, 116, 190}) = 1)
        /\ ("CanHaveAxisWords" \in cmd.type) = (CountIn(GWords(line), {0, 1, 10, 28, 92}) = 1)
        /\ "Sync" \in cmd.type => "Action" \in cmd.type
    <3>1. cmd.valid = TRUE /\ Meaningful(line) = TRUE
      <4>1. cmd.valid \in BOOLEAN /\ Meaningful(line) \in BOOLEAN
        BY <2>1 DEF Sound, Commands, Meaningful
      <4> QED BY <1>6, <1>8, <2>2, <4>1
    <3> QED BY <2>1, <2>2, <2>3, <3>1
  <2> QED BY <2>4 DEF DecodesAsMeant, cmd
<1> QED BY <1>7, <1>8

\* The decoder takes a line exactly if it means something, by the rules of gcode.c without
\* an order of the words: whatever number of words it has and in whatever order.
THEOREM DecodesEveryLine == Spec => []DecodedAsMeant
<1>1. ASSUME NEW line \in Lines PROVE DecodesAsMeant(line)
  <2>1. line.m \in Seq(Nat) /\ line.g \in Seq(Nat)
    BY LinesAssumption
  <2> QED BY <2>1, LineDecoded
<1>2. DecodedAsMeant
  BY <1>1 DEF DecodedAsMeant, Misread
<1> QED BY <1>2, PTL
=============================================================================
