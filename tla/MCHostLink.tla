---------------------------- MODULE MCHostLink ------------------------------
(* Programs of up to three lines, one for each thing the host may do with a   *)
(* line, and the decoder on every line of up to two of these words.           *)
EXTENDS HostLink

Line(m, g, letters) == [m |-> m, g |-> g, letters |-> letters]
Move == Line(<<>>, <<1>>, {"X", "F"})
Heat == Line(<<104>>, <<>>, {"S"})
Report == Line(<<105>>, <<>>, {})
ReportOfTool == Line(<<105>>, <<>>, {"T"})
Home == Line(<<>>, <<28>>, {})
NoTarget == Line(<<109>>, <<>>, {})
EStop == Line(<<112>>, <<>>, {})
Renumber == Line(<<110>>, <<>>, {})
RenumberOrNot == Line(<<110, 104>>, <<>>, {})
RenumberAndMove == Line(<<110>>, <<1>>, {"X"})

MCPrograms == {<<Move, Report, Move>>, <<Move, ReportOfTool, Move>>, <<Move, Heat, Move>>,
               <<NoTarget, Home, Move>>, <<Move, EStop, Home>>, <<Move, Renumber, Move>>,
               <<Move, RenumberOrNot, Move>>, <<RenumberAndMove, Move>>,
               <<Heat, Heat, Heat>>}

MWordsUsed == {17, 82, 104, 105, 109, 116, 28, 300}
GWordsUsed == {1, 4, 10, 21, 28, 92, 5, 91}
LetterSets == {{}, {"X"}, {"S"}, {"P", "E"}, {"S", "P", "T"}, {"F0"}, {"T9"}}
MCLines ==
  UNION {{Line(m, g, letters) : m \in [1 .. i -> MWordsUsed], g \in [1 .. j -> GWordsUsed],
                                letters \in LetterSets} :
         <<i, j>> \in {<<0, 0>>, <<0, 1>>, <<1, 0>>, <<1, 1>>, <<0, 2>>, <<2, 0>>}}
  \cup UNION {ToSet(p) : p \in MCPrograms}
=============================================================================
