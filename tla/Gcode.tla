------------------------------- MODULE Gcode --------------------------------
(***************************************************************************)
(* What gcodeDecode (gcode.c) makes of a line, and what a line should mean. *)
(*                                                                         *)
(* A line is the letters it holds and the values of its M and G words in   *)
(* order.  The decoder looks each other letter up once, wherever it is:    *)
(* "F0" is a feed rate below one, "T9" a tool that does not exist, "X" any *)
(* axis.  A command is what the decoder leaves behind, valid or not; values *)
(* other than the mode and code words are left out.                        *)
(***************************************************************************)
EXTENDS Integers, SequencesExt

Letters == {"S", "P", "E", "X", "F", "F0", "T", "T9"}

\* CommandType, as the set of its bits.
SyncAction == {"Action", "Sync"}
Movement == {"CanHaveAxisWords", "Movement"}

\* gcodeInitializeCommand: no code, no type, no mode.
Blank == [valid |-> TRUE, code |-> 0, type |-> {}, modes |-> {}]

\* return FALSE: the command keeps what was decoded before, which the host reads.
Refused(cmd) == [cmd EXCEPT !.valid = FALSE]

-----------------------------------------------------------------------------
(* The decoder *)

\* The letters looked up before the M and G words.
Preamble(letters) ==
  IF letters \cap {"F0", "T9"} # {} THEN Refused(Blank)
  ELSE [Blank EXCEPT !.type = IF letters \cap {"F", "E", "X", "T"} # {} THEN SyncAction ELSE {}]

\* One code, or one mode of a group, on a line; a second one is an error.
WithCode(cmd, code) ==
  IF ~cmd.valid \/ cmd.code # 0 THEN Refused(cmd) ELSE [cmd EXCEPT !.code = code]
WithMode(cmd, mode) ==
  IF mode \in cmd.modes THEN Refused(cmd) ELSE [cmd EXCEPT !.modes = @ \cup {mode}]
WithType(cmd, type) == IF cmd.valid THEN [cmd EXCEPT !.type = @ \cup type] ELSE cmd
NeedingAxes(cmd) == IF "CanHaveAxisWords" \in cmd.type THEN Refused(cmd) ELSE cmd

\* The power words test cmd->power, which they do not set.
PowerCodes == {0, 1, 2, 17, 18, 80, 81, 84}
ImmediateCodes == {105, 111, 112, 114, 115, 999}
ActionCodes == {104, 106, 110, 140, 220, 221}
NeedingS == {104, 106, 109, 140, 190, 220, 221}

\* M109 and M190 with a temperature are M104 and M140, and a wait.
MWait(cmd, value, letters) ==
  LET coded == IF value = 116 \/ "S" \notin letters THEN cmd
               ELSE WithCode(cmd, IF value = 109 THEN 10104 ELSE 10140)
  IN IF "wait" \in cmd.modes \/ ~coded.valid THEN Refused(cmd)
     ELSE WithType(WithMode(coded, "wait"), SyncAction \cup {"TimeStart"})

MWord(cmd, value, letters) ==
  CASE value \in PowerCodes -> WithType(cmd, SyncAction)
    [] value \in {82, 83} -> WithType(WithMode(cmd, "extruder"), SyncAction)
    [] value \in {109, 116, 190} -> MWait(cmd, value, letters)
    [] value \in ImmediateCodes -> WithCode(cmd, 10000 + value)
    [] value \in ActionCodes -> WithType(WithCode(cmd, 10000 + value), {"Action"})
    [] OTHER -> WithType(WithCode(cmd, 10000 + value), {"UnknownCode"})

\* Nothing after M28 is looked at: its words are a file name.
DecodeM(cmd, line) ==
  LET step(c, value) ==
        LET d == MWord(c, value, line.letters)
        IN IF ~c.valid \/ c.code = 10028 THEN c
           ELSE IF d.valid /\ value \in NeedingS /\ "S" \notin line.letters THEN Refused(d)
           ELSE d
  IN FoldLeft(step, cmd, line.m)

\* G10, G28 and G92: a code, and the axis words.
CodeWithAxesUnguarded(cmd, value) ==     \* mutant: no look at the code before
  WithType([NeedingAxes(cmd) EXCEPT !.code = value], {"CanHaveAxisWords"})
CodeWithAxes(cmd, value) ==
  WithType(WithCode(NeedingAxes(cmd), value), {"CanHaveAxisWords"})

\* G4 and G10 look for a P that is not a number, which an integer never is.
GWord(cmd, value) ==
  CASE value = 4 -> WithCode(cmd, value)
    [] value \in {10, 28, 92} -> CodeWithAxes(cmd, value)
    [] value \in {20, 21} -> WithMode(cmd, "unit")
    [] value \in {90, 91} -> WithMode(cmd, "distance")
    [] value \in {0, 1} -> WithType(NeedingAxes(WithMode(cmd, "rapid")), Movement)
    [] OTHER -> WithType(WithCode(cmd, value), {"UnknownCode"})

\* Every G word but an unknown one, or one after an unknown one, is for the queue.
DecodeG(cmd, line) ==
  LET step(c, value) ==
        LET d == GWord(c, value)
        IN IF ~c.valid THEN c
           ELSE IF "UnknownCode" \in d.type THEN d ELSE WithType(d, SyncAction)
  IN FoldLeft(step, cmd, line.g)

gcodeDecode(line) ==
  LET afterM == DecodeM(Preamble(line.letters), line)
  IN IF afterM.code = 10028 THEN afterM ELSE DecodeG(afterM, line)

-----------------------------------------------------------------------------
(* What a line means, without an order of its words *)

\* The words that count.
UpTo28(m) == IF Contains(m, 28)
             THEN SubSeq(m, 1, CHOOSE i \in DOMAIN m : m[i] = 28 /\ \A j \in 1 .. i - 1 : m[j] # 28)
             ELSE m
MWords(line) == UpTo28(line.m)
GWords(line) == IF Contains(line.m, 28) THEN <<>> ELSE line.g

\* How many of the words of s are in set.
CountIn(s, set) == Cardinality({i \in DOMAIN s : s[i] \in set})

ModeM == PowerCodes \cup {82, 83, 109, 116, 190}
ModeG == {0, 1, 20, 21, 90, 91}
CodeCount(line) ==
  Cardinality({i \in DOMAIN MWords(line) : MWords(line)[i] \notin ModeM})
  + CountIn(MWords(line), {109, 190})
  + Cardinality({i \in DOMAIN GWords(line) : GWords(line)[i] \notin ModeG})

\* One code at most, one word of each group, one word that takes the axes, and
\* the temperatures and speeds the words need. G4 and G10 need no P: the decoder's
\* test for one (gcode.c:233, 238) never fails.
Meaningful(line) ==
  /\ line.letters \cap {"F0", "T9"} = {}
  /\ CodeCount(line) <= 1
  /\ CountIn(MWords(line), {82, 83}) <= 1
  /\ CountIn(MWords(line), {109, 116, 190}) <= 1
  /\ CountIn(GWords(line), {20, 21}) <= 1
  /\ CountIn(GWords(line), {90, 91}) <= 1
  /\ CountIn(GWords(line), {0, 1, 10, 28, 92}) <= 1
  /\ CountIn(MWords(line), NeedingS) > 0 => "S" \in line.letters

\* A line is accepted if it means something, waits if it says so, and moves, homes
\* or sets a position only with the axes to itself.
DecodesAsMeant(line) ==
  LET cmd == gcodeDecode(line)
  IN /\ cmd.valid = Meaningful(line)
     /\ cmd.valid =>
          /\ (cmd.code # 0) = (CodeCount(line) = 1)
          /\ ("TimeStart" \in cmd.type) = (CountIn(MWords(line), {109, 116, 190}) = 1)
          /\ ("CanHaveAxisWords" \in cmd.type) = (CountIn(GWords(line), {0, 1, 10, 28, 92}) = 1)
          /\ "Sync" \in cmd.type => "Action" \in cmd.type
=============================================================================
