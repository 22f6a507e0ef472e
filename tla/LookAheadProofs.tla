--------------------------- MODULE LookAheadProofs ---------------------------
(***************************************************************************)
(* Theorems about LookAhead, for every capacity of the ring, every set of  *)
(* moves and every length of a move, whenever the stepper fetches: corners *)
(* are respected, blocks reach the stepper with a profile, and the point   *)
(* where a block slows down is within the block.  As long as nothing       *)
(* disturbs the planner, cached profiles are current, blocks end as they   *)
(* were planned to, the last one at rest, and only a reversal makes a      *)
(* block start above its nominal speed.                                    *)
(***************************************************************************)
EXTENDS LookAhead, TLAPS

-----------------------------------------------------------------------------
(* Even numbers *)

LEMMA EvenSums ==
  ASSUME NEW a \in Int, NEW b \in Int, Even(a), Even(b)
  PROVE  Even(a + b) /\ Even(a - b)
BY DEF Even

LEMMA EvenIsNoMark == ASSUME NEW a \in Int, Even(a) PROVE a # NotProfiled
BY DEF Even, NotProfiled

-----------------------------------------------------------------------------
(* Blocks *)

Axes == {m.axis : m \in Moves} \cup {"none"}

\* What a block may be; one that counts as profiled has a point where it slows down.
Blocks ==
  [kind : Kinds, axis : Axes, dir : Int, reach : Nat, nominal : Nat, exit : Nat,
   maxExit : Nat, maxValid : BOOLEAN, profiled : BOOLEAN, after : Int]
Sound(b) ==
  /\ Even(b.reach) /\ Even(b.nominal) /\ Even(b.exit) /\ Even(b.maxExit)
  /\ b.profiled => b.after # NotProfiled
SoundBlocks == {b \in Blocks : Sound(b)}

MoveOK(m) ==
  /\ m.axis \in Axes /\ m.dir \in Int
  /\ m.reach \in Nat /\ Even(m.reach) /\ m.nominal \in Nat /\ Even(m.nominal)

LEMMA EvenZero == Even(0)
BY DEF Even

LEMMA MovesAreOK == \A m \in Moves \cup {NoMove} : MoveOK(m)
<1>1. \A m \in Moves : MoveOK(m)
  BY MovesAssumption DEF MoveOK, Axes
<1>2. MoveOK(NoMove)
  BY EvenZero DEF MoveOK, NoMove, Axes
<1> QED BY <1>1, <1>2

LEMMA NewBlock ==
  ASSUME NEW kind \in Kinds, NEW m, MoveOK(m)
  PROVE  /\ Block(kind, m) \in SoundBlocks
         /\ Block(kind, m).kind = kind /\ Block(kind, m).exit = 0
         /\ ~Block(kind, m).maxValid
BY EvenZero DEF Block, SoundBlocks, Blocks, Sound, MoveOK, NotProfiled

LEMMA EndedBlock ==
  ASSUME NEW b \in SoundBlocks
  PROVE  Ended(b) \in SoundBlocks /\ Ended(b).kind = "Idle"
<1>1. MoveOK([NoMove EXCEPT !.axis = b.axis, !.dir = b.dir])
  BY EvenZero DEF MoveOK, NoMove, SoundBlocks, Blocks
<1> QED BY <1>1, NewBlock DEF Ended, Kinds

\* The fields that stay.
Alike(c, b) ==
  /\ c.kind = b.kind /\ c.axis = b.axis /\ c.dir = b.dir
  /\ c.nominal = b.nominal /\ c.reach = b.reach

\* The kernels of the reverse pass.
LEMMA AtRestBlock ==
  ASSUME NEW b \in SoundBlocks
  PROVE  /\ AtRest(b) \in SoundBlocks /\ Alike(AtRest(b), b)
         /\ AtRest(b).exit = 0 /\ AtRest(b).after = b.after
         /\ AtRest(b).maxValid = b.maxValid /\ AtRest(b).maxExit = b.maxExit
<1>1. AtRest(b) \in Blocks
  BY DEF AtRest, SoundBlocks, Blocks
<1>2. ~AtRest(b).profiled
  BY DEF AtRest, SoundBlocks, Blocks
<1>3. /\ Alike(AtRest(b), b) /\ AtRest(b).exit = 0 /\ AtRest(b).after = b.after
      /\ AtRest(b).maxValid = b.maxValid /\ AtRest(b).maxExit = b.maxExit
  BY DEF AtRest, SoundBlocks, Blocks, Alike
<1> QED BY <1>1, <1>2, <1>3, EvenZero DEF SoundBlocks, Sound, Alike

\* What the corner of b and its next block n leaves of a speed.
Limit(b, n, v) ==
  /\ n.kind # "Positional" \/ n.axis # b.axis => v = 0
  /\ n.kind = "Positional" /\ ~Reverses(b, n) => v <= n.nominal

LEMMA CornerLimits ==
  ASSUME NEW b \in SoundBlocks, NEW n \in SoundBlocks, n.kind = "Positional"
  PROVE  Corner(b, n) \in Nat /\ Even(Corner(b, n)) /\ Limit(b, n, Corner(b, n))
BY EvenZero DEF Corner, Least, Limit, Reverses, SoundBlocks, Blocks, Sound

LEMMA MaxExitBlock ==
  ASSUME NEW b \in SoundBlocks, NEW n \in SoundBlocks, n.kind = "Positional",
         b.maxValid => Limit(b, n, b.maxExit)
  PROVE  LET c == WithMaxExit(b, n)
         IN  /\ c \in SoundBlocks /\ Alike(c, b) /\ c.after = b.after /\ c.exit = b.exit
             /\ c.maxValid /\ Limit(b, n, c.maxExit)
<1> DEFINE c == WithMaxExit(b, n)
<1>1. c \in Blocks /\ Alike(c, b) /\ c.after = b.after /\ c.exit = b.exit
  BY CornerLimits DEF WithMaxExit, SoundBlocks, Blocks, Alike
<1>2. c.maxValid /\ c.profiled = b.profiled
  BY DEF WithMaxExit, SoundBlocks, Blocks
<1>3. c.maxExit = IF b.maxValid THEN b.maxExit ELSE Corner(b, n)
  BY DEF WithMaxExit, SoundBlocks, Blocks
<1>4. Even(c.maxExit) /\ Limit(b, n, c.maxExit)
  BY <1>3, CornerLimits DEF SoundBlocks, Sound
<1> HIDE DEF c
<1>5. c \in SoundBlocks
  BY <1>1, <1>2, <1>4 DEF SoundBlocks, Sound, Alike
<1> QED BY <1>1, <1>2, <1>4, <1>5 DEF c

LEMMA BackwardBlock ==
  ASSUME NEW b \in SoundBlocks, NEW n \in SoundBlocks, n.kind = "Positional",
         b.maxValid => Limit(b, n, b.maxExit), Limit(b, n, b.exit)
  PROVE  LET c == Backward(b, n)
         IN  /\ c \in SoundBlocks /\ Alike(c, b) /\ c.after = b.after
             /\ c.maxValid /\ Limit(b, n, c.maxExit) /\ Limit(b, n, c.exit)
<1> DEFINE c == WithMaxExit(b, n)
           x == IF NominalLength(n) THEN c.maxExit ELSE Least(c.maxExit, n.exit + n.reach)
           d == [c EXCEPT !.profiled = FALSE, !.exit = x]
<1>1. /\ c \in SoundBlocks /\ Alike(c, b) /\ c.after = b.after /\ c.exit = b.exit
      /\ c.maxValid /\ Limit(b, n, c.maxExit)
  BY MaxExitBlock
<1>2. Backward(b, n) = IF c.exit = c.maxExit THEN c ELSE d
  BY DEF Backward
<1> HIDE DEF c
<1>3. x \in Nat /\ x <= c.maxExit
  BY <1>1 DEF Least, SoundBlocks, Blocks
<1>4. Even(x)
  <2>1. Even(n.exit + n.reach)
    BY EvenSums DEF SoundBlocks, Blocks, Sound
  <2> QED BY <1>1, <2>1 DEF Least, SoundBlocks, Sound
<1>5. Limit(b, n, x)
  BY <1>1, <1>3 DEF Limit, SoundBlocks, Blocks
<1> HIDE DEF x
<1>6. /\ d \in Blocks /\ d.exit = x /\ d.maxExit = c.maxExit /\ d.maxValid = c.maxValid
      /\ ~d.profiled /\ d.after = c.after /\ Alike(d, c)
  BY <1>1, <1>3 DEF SoundBlocks, Blocks, Alike
<1> HIDE DEF d
<1>7. d \in SoundBlocks
  BY <1>1, <1>4, <1>6 DEF SoundBlocks, Sound, Alike
<1> QED BY <1>1, <1>2, <1>5, <1>6, <1>7 DEF Alike

\* The kernel of the forward pass and the trapezoid after it.
LEMMA ForwardBlock ==
  ASSUME NEW b \in SoundBlocks, NEW u \in Nat, Even(u)
  PROVE  LET f == Forward(u, b)
         IN  /\ f \in SoundBlocks /\ Alike(f, b) /\ f.exit <= b.exit
             /\ f.maxExit = b.maxExit /\ f.maxValid = b.maxValid
<1> DEFINE x == u + b.reach
           f == [b EXCEPT !.exit = x, !.profiled = FALSE]
<1>1. x \in Nat /\ Even(x)
  <2>1. b.reach \in Nat /\ b.reach \in Int /\ u \in Int
    BY DEF SoundBlocks, Blocks
  <2>2. Even(b.reach)
    BY DEF SoundBlocks, Sound
  <2>3. Even(u + b.reach)
    BY <2>1, <2>2, EvenSums
  <2> QED BY <2>1, <2>3
<1>2. \/ Forward(u, b) = b
      \/ Forward(u, b) = f /\ x < b.exit
  BY <1>1 DEF Forward, SoundBlocks, Blocks
<1> HIDE DEF x
<1>3. /\ f \in Blocks /\ Alike(f, b) /\ f.exit = x /\ ~f.profiled
      /\ f.maxExit = b.maxExit /\ f.maxValid = b.maxValid
  BY <1>1 DEF SoundBlocks, Blocks, Alike
<1> HIDE DEF f
<1>4. f \in SoundBlocks
  BY <1>1, <1>3 DEF SoundBlocks, Sound, Alike
<1>5. CASE Forward(u, b) = b
  BY <1>5 DEF Alike, SoundBlocks, Blocks
<1>6. CASE Forward(u, b) = f /\ x < b.exit
  BY <1>1, <1>3, <1>4, <1>6 DEF SoundBlocks, Blocks
<1> QED BY <1>2, <1>5, <1>6

LEMMA TrapezoidIsNoMark ==
  ASSUME NEW b \in SoundBlocks, NEW u \in Nat
  PROVE  Trapezoid(u, b) \in Int /\ Trapezoid(u, b) # NotProfiled
<1> DEFINE h == (b.reach - u + b.exit) \div 2
           e == b.reach - b.nominal + b.exit
<1>1. /\ b.reach \in Nat /\ b.nominal \in Nat /\ b.exit \in Nat
      /\ b.reach \in Int /\ b.nominal \in Int /\ b.exit \in Int
  BY DEF SoundBlocks, Blocks
<1>2. h \in Int
  BY <1>1
<1>3. e \in Int /\ Even(e)
  <2>1. Even(b.reach) /\ Even(b.nominal) /\ Even(b.exit)
    BY DEF SoundBlocks, Sound
  <2>2. Even(b.reach - b.nominal)
    BY <1>1, <2>1, EvenSums
  <2> DEFINE d == b.reach - b.nominal
  <2>3. d \in Int /\ Even(d)
    BY <1>1, <2>2
  <2> HIDE DEF d
  <2>4. Even(d + b.exit)
    BY <1>1, <2>1, <2>3, EvenSums
  <2> QED BY <1>1, <2>3, <2>4 DEF d
<1>4. Trapezoid(u, b) = Greatest(0, h) \/ Trapezoid(u, b) = e
  BY <1>1 DEF Trapezoid
<1> HIDE DEF h, e
<1> QED BY <1>2, <1>3, <1>4, EvenIsNoMark DEF Greatest, NotProfiled

LEMMA ProfiledBlock ==
  ASSUME NEW b \in SoundBlocks, NEW u \in Nat
  PROVE  LET p == Profiled(u, b)
         IN  /\ p \in SoundBlocks /\ Alike(p, b) /\ p.exit = b.exit
             /\ p.maxExit = b.maxExit /\ p.maxValid = b.maxValid
             /\ p.after # NotProfiled
<1> DEFINE t == Trapezoid(u, b)
           p == [b EXCEPT !.profiled = TRUE, !.after = t]
<1>1. t \in Int /\ t # NotProfiled
  BY TrapezoidIsNoMark
<1>2. Profiled(u, b) = IF b.profiled THEN b ELSE p
  BY DEF Profiled
<1> HIDE DEF t
<1>3. /\ p \in Blocks /\ Alike(p, b) /\ p.exit = b.exit /\ p.after = t
      /\ p.maxExit = b.maxExit /\ p.maxValid = b.maxValid
  BY <1>1 DEF SoundBlocks, Blocks, Alike
<1> HIDE DEF p
<1>4. p \in SoundBlocks
  BY <1>1, <1>3 DEF SoundBlocks, Sound, Alike
<1>5. CASE b.profiled
  BY <1>2, <1>5 DEF SoundBlocks, Blocks, Sound, Alike
<1>6. CASE ~b.profiled
  BY <1>1, <1>2, <1>3, <1>4, <1>6
<1> QED BY <1>5, <1>6

-----------------------------------------------------------------------------
(* The inductive invariant *)

\* Types. Without a pass no slot is kept that the stepper has fetched.
Types ==
  /\ q \in Seq(SoundBlocks)
  /\ gone \in Nat /\ committed \in Nat /\ gone + committed <= Len(q)
  /\ pc \in {"idle", "add", "reverse", "forward", "commit"}
  /\ pos \in Nat /\ (pc \in {"reverse", "forward"} => pos \in 1 .. Len(q))
  /\ ~InPass => gone = 0
  /\ entry0 \in Nat /\ Even(entry0)
  /\ lastExit \in Nat /\ Even(lastExit)
  /\ run \in SoundBlocks
  /\ MoveOK(move)

Positional(b) == b.kind = "Positional"

\* What block i of the sequence s may plan: the last one stops, and the others keep
\* to their corner, with the speed they have and with the one that is cached.
CornerAt(s, i) ==
  Positional(s[i]) =>
    IF i = Len(s)
      THEN s[i].exit = 0 /\ ~s[i].maxValid
      ELSE /\ Limit(s[i], s[i + 1], s[i].exit)
           /\ s[i].maxValid => Limit(s[i], s[i + 1], s[i].maxExit)

Corners == \A i \in 1 .. Len(q) : CornerAt(q, i)

\* The same of the block that runs, before the first one not fetched.
RunCorner ==
  Positional(run) =>
    IF Len(q) = gone THEN run.exit = 0 ELSE Limit(run, q[gone + 1], run.exit)

\* A block the pass has given a profile, or that needs none.
HasProfile(b) == Positional(b) => b.after # NotProfiled

\* As long as no pass was skipped, every committed block has a profile; the pass
\* extends that to the blocks behind it, and its commit takes in just those.
Profiles ==
  "skipped" \notin trouble =>
    /\ \A i \in 1 .. gone + committed : HasProfile(q[i])
    /\ pc = "forward" => \A i \in 1 .. pos - 1 : HasProfile(q[i])
    /\ pc = "commit" => \A i \in 1 .. Len(q) : HasProfile(q[i])
    /\ pc = "idle" => committed = Len(q)
    /\ HasProfile(run)

LIInv == Types /\ Corners /\ RunCorner /\ Profiles

-----------------------------------------------------------------------------
(* Sequences whose blocks are written in place *)

\* Slot p of the ring rewritten by a kernel that keeps what the block is: its
\* neighbours' corners stay, and its own is for the kernel to keep.
LEMMA InPlace ==
  ASSUME NEW s \in Seq(SoundBlocks), NEW p \in 1 .. Len(s), NEW b \in SoundBlocks,
         Alike(b, s[p]), \A i \in 1 .. Len(s) : CornerAt(s, i),
         Positional(b) =>
           IF p = Len(s) THEN b.exit = 0 /\ ~b.maxValid
           ELSE /\ Limit(b, s[p + 1], b.exit)
                /\ b.maxValid => Limit(b, s[p + 1], b.maxExit)
  PROVE  LET t == [s EXCEPT ![p] = b]
         IN  /\ t \in Seq(SoundBlocks) /\ Len(t) = Len(s) /\ t[p] = b
             /\ \A i \in 1 .. Len(s) : Alike(t[i], s[i]) /\ (i # p => t[i] = s[i])
             /\ \A i \in 1 .. Len(s) : CornerAt(t, i)
<1> DEFINE t == [s EXCEPT ![p] = b]
<1>1. t \in Seq(SoundBlocks) /\ Len(t) = Len(s) /\ t[p] = b
  OBVIOUS
<1>2. \A i \in 1 .. Len(s) : i # p => t[i] = s[i]
  OBVIOUS
<1>3. \A i \in 1 .. Len(s) : Alike(t[i], s[i])
  BY <1>1, <1>2 DEF Alike
<1> HIDE DEF t
<1>4. ASSUME NEW i \in 1 .. Len(s) PROVE CornerAt(t, i)
  <2>1. CornerAt(s, i)
    OBVIOUS
  <2>2. CASE i = p /\ i = Len(s)
    BY <1>1, <2>2 DEF CornerAt
  <2>3. CASE i = p /\ i # Len(s)
    BY <1>1, <1>2, <2>3 DEF CornerAt
  <2>4. CASE i # p /\ i = Len(s)
    BY <1>1, <1>2, <2>1, <2>4 DEF CornerAt
  <2>5. CASE i # p /\ i # Len(s)
    <3>1. i + 1 \in 1 .. Len(s) /\ t[i] = s[i] /\ Alike(t[i + 1], s[i + 1])
      BY <1>2, <1>3, <2>5
    <3> QED BY <1>1, <2>1, <2>5, <3>1 DEF CornerAt, Limit, Alike, Positional, Reverses
  <2> QED BY <2>2, <2>3, <2>4, <2>5
<1> QED BY <1>1, <1>2, <1>3, <1>4 DEF t

-----------------------------------------------------------------------------
(* The steps *)

LEMMA InvInit == Init => LIInv
<1> SUFFICES ASSUME Init PROVE LIInv
  OBVIOUS
<1>1. MoveOK(NoMove)
  BY MovesAreOK
<1>2. run \in SoundBlocks /\ ~Positional(run)
  BY <1>1, NewBlock DEF Init, Kinds, Positional
<1>3. Types
  BY <1>1, <1>2, EvenZero DEF Init, Types, InPass
<1>4. Corners /\ RunCorner /\ Profiles
  BY <1>2 DEF Init, Corners, RunCorner, Profiles, HasProfile
<1> QED BY <1>3, <1>4 DEF LIInv

\* What stays when neither the queue nor the block that runs change.
LEMMA SameQueue ==
  ASSUME LIInv, UNCHANGED <<q, gone, run>>
  PROVE  Corners' /\ RunCorner'
BY DEF LIInv, Corners, RunCorner, CornerAt

\* A block put at the end of the queue.
LEMMA Appended ==
  ASSUME LIInv, gone = 0, NEW b \in SoundBlocks, b.exit = 0, ~b.maxValid,
         q' = Append(q, b), UNCHANGED <<gone, run>>
  PROVE  /\ q' \in Seq(SoundBlocks) /\ Len(q') = Len(q) + 1 /\ q'[Len(q) + 1] = b
         /\ \A i \in 1 .. Len(q) : q'[i] = q[i]
         /\ Corners' /\ RunCorner'
<1>1. q \in Seq(SoundBlocks) /\ run \in SoundBlocks
  BY DEF LIInv, Types
<1>2. /\ q' \in Seq(SoundBlocks) /\ Len(q') = Len(q) + 1 /\ q'[Len(q) + 1] = b
      /\ \A i \in 1 .. Len(q) : q'[i] = q[i]
  BY <1>1
<1>3. ASSUME NEW n \in SoundBlocks, NEW c \in SoundBlocks PROVE Limit(c, n, 0)
  BY DEF Limit, SoundBlocks, Blocks
<1>4. ASSUME NEW i \in 1 .. Len(q) PROVE CornerAt(q', i)
  <2>1. CornerAt(q, i) /\ q[i] \in SoundBlocks
    BY <1>1 DEF LIInv, Corners
  <2>2. CASE i = Len(q)
    BY <1>1, <1>2, <1>3, <2>1, <2>2 DEF CornerAt
  <2>3. CASE i # Len(q)
    <3>1. i + 1 \in 1 .. Len(q) /\ q'[i + 1] = q[i + 1] /\ q'[i] = q[i]
      BY <1>2, <2>3
    <3> QED BY <1>2, <2>1, <2>3, <3>1 DEF CornerAt
  <2> QED BY <2>2, <2>3
<1>5. CornerAt(q', Len(q) + 1)
  BY <1>2 DEF CornerAt
<1>6. Corners'
  BY <1>1, <1>2, <1>4, <1>5 DEF Corners
<1>7. RunCorner'
  <2>1. CASE Len(q) = 0
    BY <1>1, <1>2, <1>3, <2>1 DEF LIInv, RunCorner
  <2>2. CASE Len(q) # 0
    <3>1. 1 \in 1 .. Len(q)
      BY <1>1, <2>2
    <3> QED BY <1>1, <1>2, <2>2, <3>1 DEF LIInv, RunCorner
  <2> QED BY <2>1, <2>2
<1> QED BY <1>2, <1>6, <1>7

\* A slot written by a pass.
LEMMA Rewritten ==
  ASSUME LIInv, pos \in 1 .. Len(q), NEW b \in SoundBlocks, Alike(b, q[pos]),
         Positional(b) =>
           IF pos = Len(q) THEN b.exit = 0 /\ ~b.maxValid
           ELSE /\ Limit(b, q[pos + 1], b.exit)
                /\ b.maxValid => Limit(b, q[pos + 1], b.maxExit),
         q' = [q EXCEPT ![pos] = b], UNCHANGED <<gone, run>>
  PROVE  /\ q' \in Seq(SoundBlocks) /\ Len(q') = Len(q) /\ q'[pos] = b
         /\ \A i \in 1 .. Len(q) : i # pos => q'[i] = q[i]
         /\ Corners' /\ RunCorner'
<1>1. q \in Seq(SoundBlocks) /\ \A i \in 1 .. Len(q) : CornerAt(q, i)
  BY DEF LIInv, Types, Corners
<1>2. /\ q' \in Seq(SoundBlocks) /\ Len(q') = Len(q) /\ q'[pos] = b
      /\ \A i \in 1 .. Len(q) : Alike(q'[i], q[i]) /\ (i # pos => q'[i] = q[i])
      /\ \A i \in 1 .. Len(q) : CornerAt(q', i)
  <2> DEFINE t == [q EXCEPT ![pos] = b]
  <2>1. /\ t \in Seq(SoundBlocks) /\ Len(t) = Len(q) /\ t[pos] = b
        /\ \A i \in 1 .. Len(q) : Alike(t[i], q[i]) /\ (i # pos => t[i] = q[i])
        /\ \A i \in 1 .. Len(q) : CornerAt(t, i)
    BY <1>1, InPlace, Zenon
  <2> HIDE DEF t
  <2>2. q' = t
    BY DEF t
  <2> QED BY <2>1, <2>2
<1>3. Corners'
  BY <1>2 DEF Corners
<1>4. RunCorner'
  <2>1. CASE Len(q) = gone
    BY <1>2, <2>1 DEF LIInv, RunCorner
  <2>2. CASE Len(q) # gone
    <3>1. gone + 1 \in 1 .. Len(q)
      BY <1>1, <2>2 DEF LIInv, Types
    <3>2. Alike(q'[gone + 1], q[gone + 1])
      BY <1>2, <3>1
    <3> QED BY <1>2, <2>2, <3>2 DEF LIInv, RunCorner, Limit, Alike, Reverses
  <2> QED BY <2>1, <2>2
<1> QED BY <1>2, <1>3, <1>4

\* The start of a pass, on the queue it finds.
LEMMA PassStarts ==
  ASSUME LIInv, StartPass, q' \in Seq(SoundBlocks), UNCHANGED lastExit
  PROVE  /\ pc' \in {"reverse", "idle"} /\ pos' \in Nat
         /\ pc' = "reverse" => pos' \in 1 .. Len(q')
         /\ pc' = "idle" => Len(q') = 0
         /\ entry0' \in Nat /\ Even(entry0')
<1>1. Len(q') \in Nat
  OBVIOUS
<1> QED BY <1>1 DEF LIInv, Types, StartPass

\* The profiles need nothing of a step that leaves all they speak of alone.
LEMMA SameProfiles ==
  ASSUME LIInv, UNCHANGED <<q, gone, committed, run, trouble>>,
         pc' \notin {"commit", "idle"}, pc' = "forward" => pos' = 1
  PROVE  Profiles'
BY DEF LIInv, Profiles, HasProfile

LEMMA BeginInv ==
  ASSUME LIInv, NEW m \in Moves, NEW k \in SegmentCounts, BeginMove(m, k)
  PROVE  LIInv'
<1>1. MoveOK(m)
  BY MovesAreOK
<1>2. UNCHANGED <<q, gone, committed, lastExit, pos, entry0, run, trouble>>
      /\ pc = "idle" /\ pc' = "add" /\ move' = m
  BY DEF BeginMove, queueVars, stepperVars
<1>3. Types'
  BY <1>1, <1>2 DEF LIInv, Types, InPass
<1> QED BY <1>2, <1>3, SameQueue, SameProfiles DEF LIInv

LEMMA AddInv == ASSUME LIInv, AddSegment PROVE LIInv'
<1> DEFINE b == Block("Positional", move)
<1>1. b \in SoundBlocks /\ b.exit = 0 /\ ~b.maxValid
  BY NewBlock DEF LIInv, Types, Kinds
<1>2. gone = 0 /\ q \in Seq(SoundBlocks) /\ Len(q) \in Nat
  BY DEF AddSegment, LIInv, Types, InPass
<1>3. q' = Append(q, b) /\ UNCHANGED <<gone, committed, lastExit, run>> /\ pc = "add"
  BY DEF AddSegment, stepperVars
<1> HIDE DEF b
<1>4. /\ q' \in Seq(SoundBlocks) /\ Len(q') = Len(q) + 1
      /\ \A i \in 1 .. Len(q) : q'[i] = q[i]
      /\ Corners' /\ RunCorner'
  BY <1>1, <1>2, <1>3, Appended
<1>5. \/ StartPass /\ UNCHANGED <<move, trouble>>
      \/ UNCHANGED <<pc, pos, entry0, move, trouble>>
      \/ /\ pc' = "idle" /\ EndMove /\ "skipped" \in trouble'
         /\ UNCHANGED <<pos, entry0>>
  BY DEF AddSegment, moveVars
<1>6. \A i \in 1 .. gone + committed : q'[i] = q[i]
  BY <1>2, <1>4 DEF LIInv, Types
<1>7. CASE StartPass /\ UNCHANGED <<move, trouble>>
  <2>1. pc' = "reverse" /\ pos' \in 1 .. Len(q') /\ entry0' \in Nat /\ Even(entry0')
    BY <1>2, <1>3, <1>4, <1>7, PassStarts
  <2>2. Types'
    BY <1>2, <1>3, <1>4, <1>7, <2>1 DEF LIInv, Types, InPass
  <2>3. Profiles'
    BY <1>3, <1>6, <1>7, <2>1 DEF LIInv, Profiles, HasProfile
  <2> QED BY <1>4, <2>2, <2>3 DEF LIInv
<1>8. CASE UNCHANGED <<pc, pos, entry0, move, trouble>>
  <2>1. Types'
    BY <1>2, <1>3, <1>4, <1>8 DEF LIInv, Types, InPass
  <2>2. Profiles'
    BY <1>3, <1>6, <1>8 DEF LIInv, Profiles, HasProfile
  <2> QED BY <1>4, <2>1, <2>2 DEF LIInv
<1>9. CASE /\ pc' = "idle" /\ EndMove /\ "skipped" \in trouble'
           /\ UNCHANGED <<pos, entry0>>
  <2>1. MoveOK(move')
    BY <1>9, MovesAreOK DEF EndMove
  <2>2. Types'
    BY <1>2, <1>3, <1>4, <1>9, <2>1 DEF LIInv, Types, InPass
  <2>3. Profiles'
    BY <1>9 DEF Profiles
  <2> QED BY <1>4, <2>2, <2>3 DEF LIInv
<1> QED BY <1>5, <1>7, <1>8, <1>9

LEMMA EmptyInv == ASSUME LIInv, EmptyMove PROVE LIInv'
<1>1. /\ UNCHANGED <<q, gone, committed, lastExit, move, run, trouble>>
      /\ StartPass /\ q # <<>> /\ pc = "idle"
  BY DEF EmptyMove, moveVars, stepperVars
<1>2. q \in Seq(SoundBlocks) /\ Len(q) # 0
  BY <1>1 DEF LIInv, Types
<1>3. pc' = "reverse" /\ pos' \in 1 .. Len(q') /\ entry0' \in Nat /\ Even(entry0')
  BY <1>1, <1>2, PassStarts
<1>4. Types'
  BY <1>1, <1>2, <1>3 DEF LIInv, Types, InPass
<1> QED BY <1>1, <1>3, <1>4, SameQueue, SameProfiles DEF LIInv

LEMMA OtherInv ==
  ASSUME LIInv, NEW kind \in {"Velocity", "Reset"}, AddOther(kind)
  PROVE  LIInv'
<1> DEFINE b == Block(kind, NoMove)
<1>1. b \in SoundBlocks /\ b.exit = 0 /\ ~b.maxValid /\ ~Positional(b)
  BY NewBlock, MovesAreOK DEF Kinds, Positional
<1>2. gone = 0 /\ q \in Seq(SoundBlocks) /\ Len(q) \in Nat
  BY DEF AddOther, LIInv, Types, InPass
<1>3. /\ q' = Append(q, b) /\ committed' = Len(q')
      /\ UNCHANGED <<gone, lastExit, run, pc, pos, entry0, move, trouble>> /\ pc = "idle"
  BY DEF AddOther, plannerVars, moveVars, stepperVars
<1> HIDE DEF b
<1>4. /\ q' \in Seq(SoundBlocks) /\ Len(q') = Len(q) + 1 /\ q'[Len(q) + 1] = b
      /\ \A i \in 1 .. Len(q) : q'[i] = q[i]
      /\ Corners' /\ RunCorner'
  BY <1>1, <1>2, <1>3, Appended
<1>5. Types'
  BY <1>2, <1>3, <1>4 DEF LIInv, Types, InPass
<1>6. Profiles'
  <2> SUFFICES ASSUME "skipped" \notin trouble' PROVE Profiles'
    BY DEF Profiles
  <2>1. committed = Len(q) /\ HasProfile(run')
    BY <1>3 DEF LIInv, Profiles
  <2>2. \A i \in 1 .. Len(q) : HasProfile(q'[i])
    BY <1>2, <1>3, <1>4, <2>1 DEF LIInv, Profiles
  <2>3. HasProfile(q'[Len(q) + 1])
    BY <1>1, <1>4 DEF HasProfile
  <2>4. \A i \in 1 .. gone' + committed' : HasProfile(q'[i])
    BY <1>2, <1>3, <1>4, <2>2, <2>3
  <2> QED BY <1>3, <2>1, <2>4 DEF Profiles
<1> QED BY <1>4, <1>5, <1>6 DEF LIInv

LEMMA ReverseInv == ASSUME LIInv, ReverseStep PROVE LIInv'
<1> DEFINE c == q[pos]
           b == CASE c.kind # "Positional" -> c
                  [] c.kind = "Positional" /\ (pos = Len(q) \/ q[pos + 1].kind # "Positional")
                       -> AtRest(c)
                  [] OTHER -> Backward(c, q[pos + 1])
<1>1. /\ q \in Seq(SoundBlocks) /\ Len(q) \in Nat
      /\ pos \in 1 .. Len(q) /\ c \in SoundBlocks /\ CornerAt(q, pos)
  BY DEF ReverseStep, LIInv, Types, Corners
<1>2. /\ q' = [q EXCEPT ![pos] = b]
      /\ UNCHANGED <<gone, committed, lastExit, entry0, move, run, trouble>>
      /\ pc = "reverse"
      /\ \/ pc' = "reverse" /\ pos > 1 /\ pos' = pos - 1
         \/ pc' = "forward" /\ pos <= 1 /\ pos' = pos
  BY <1>1 DEF ReverseStep, moveVars, stepperVars
<1>3. /\ b \in SoundBlocks /\ Alike(b, c) /\ b.after = c.after
      /\ Positional(b) =>
           IF pos = Len(q) THEN b.exit = 0 /\ ~b.maxValid
           ELSE /\ Limit(b, q[pos + 1], b.exit)
                /\ b.maxValid => Limit(b, q[pos + 1], b.maxExit)
  <2>1. pos # Len(q) => q[pos + 1] \in SoundBlocks
    BY <1>1
  <2>2. CASE c.kind # "Positional"
    <3>1. b = c
      BY <2>2
    <3> HIDE DEF b, c
    <3> QED BY <1>1, <2>2, <3>1 DEF Alike, Positional
  <2>3. CASE c.kind = "Positional" /\ (pos = Len(q) \/ q[pos + 1].kind # "Positional")
    <3>1. b = AtRest(c)
      BY <2>3
    <3>2. CornerAt(q, pos)
      BY <1>1
    <3>3. /\ b \in SoundBlocks /\ Alike(b, c) /\ b.exit = 0 /\ b.after = c.after
          /\ b.maxValid = c.maxValid /\ b.maxExit = c.maxExit
      BY <1>1, <3>1, AtRestBlock
    <3>4. CASE pos = Len(q)
      BY <2>3, <3>2, <3>3, <3>4 DEF CornerAt, Positional
    <3>5. CASE pos # Len(q)
      <4>1. q[pos + 1].kind # "Positional"
        BY <2>3, <3>5
      <4> QED BY <2>3, <3>2, <3>3, <3>5, <4>1 DEF CornerAt, Positional, Limit, Alike
    <3> QED BY <3>4, <3>5
  <2>4. CASE pos # Len(q) /\ c.kind = "Positional" /\ q[pos + 1].kind = "Positional"
    <3> DEFINE n == q[pos + 1]
    <3>1. b = Backward(c, n)
      BY <2>4
    <3>2. Limit(c, n, c.exit) /\ (c.maxValid => Limit(c, n, c.maxExit))
      BY <1>1, <2>4 DEF CornerAt, Positional
    <3>3. n \in SoundBlocks /\ n.kind = "Positional"
      BY <2>1, <2>4
    <3> HIDE DEF b, c, n
    <3>4. /\ b \in SoundBlocks /\ Alike(b, c) /\ b.after = c.after
          /\ b.maxValid /\ Limit(c, n, b.maxExit) /\ Limit(c, n, b.exit)
      BY <1>1, <3>1, <3>2, <3>3, BackwardBlock
    <3>5. Limit(b, n, b.maxExit) /\ Limit(b, n, b.exit)
      BY <3>4 DEF Limit, Alike, Reverses
    <3> QED BY <2>4, <3>4, <3>5 DEF n
  <2> QED BY <2>2, <2>3, <2>4
<1> HIDE DEF b
<1>4. /\ q' \in Seq(SoundBlocks) /\ Len(q') = Len(q) /\ q'[pos] = b
      /\ \A i \in 1 .. Len(q) : i # pos => q'[i] = q[i]
      /\ Corners' /\ RunCorner'
  BY <1>1, <1>2, <1>3, Rewritten
<1>5. Types'
  BY <1>1, <1>2, <1>4 DEF LIInv, Types, InPass
<1>6. \A i \in 1 .. Len(q) : HasProfile(q[i]) => HasProfile(q'[i])
  BY <1>3, <1>4 DEF HasProfile, Alike, Positional
<1>7. Profiles'
  <2> SUFFICES ASSUME "skipped" \notin trouble PROVE Profiles'
    BY <1>2 DEF Profiles
  <2>1. \A i \in 1 .. gone + committed : HasProfile(q[i])
    BY DEF LIInv, Profiles
  <2>2. gone + committed <= Len(q) /\ gone \in Nat /\ committed \in Nat
    BY DEF LIInv, Types
  <2>3. \A i \in 1 .. gone' + committed' : HasProfile(q'[i])
    BY <1>1, <1>2, <1>6, <2>1, <2>2
  <2>4. HasProfile(run')
    BY <1>2 DEF LIInv, Profiles
  <2>5. pc' = "forward" => 1 .. pos' - 1 = {}
    BY <1>1, <1>2
  <2> QED BY <1>2, <2>3, <2>4, <2>5 DEF Profiles
<1> QED BY <1>4, <1>5, <1>7 DEF LIInv

LEMMA ForwardInv == ASSUME LIInv, ForwardStep PROVE LIInv'
<1> DEFINE c == q[pos]
           u == EntrySpeed(pos)
           f == Forward(u, c)
           b == IF c.kind # "Positional" THEN c ELSE Profiled(u, f)
<1>1. /\ q \in Seq(SoundBlocks) /\ Len(q) \in Nat
      /\ pos \in 1 .. Len(q) /\ c \in SoundBlocks /\ CornerAt(q, pos)
  BY DEF ForwardStep, LIInv, Types, Corners
<1>2. /\ q' = [q EXCEPT ![pos] = b]
      /\ UNCHANGED <<gone, committed, lastExit, move, run, trouble>>
      /\ pc = "forward"
      /\ \/ pos = Len(q) /\ pc' = "commit" /\ pos' = 0 /\ entry0' = 0
         \/ pos # Len(q) /\ pc' = "forward" /\ pos' = pos + 1 /\ entry0' = entry0
  BY <1>1 DEF ForwardStep, PassOver, moveVars, stepperVars
<1>3. u \in Nat /\ Even(u)
  <2>1. CASE pos = 1
    BY <2>1 DEF EntrySpeed, LIInv, Types
  <2>2. CASE pos # 1
    <3>1. q[pos - 1] \in SoundBlocks
      BY <1>1, <2>2
    <3>2. u = 0 \/ u = q[pos - 1].exit
      BY <1>1, <2>2 DEF EntrySpeed
    <3> QED BY <3>1, <3>2, EvenZero DEF SoundBlocks, Blocks, Sound
  <2> QED BY <2>1, <2>2
<1> HIDE DEF u
<1>4. /\ f \in SoundBlocks /\ Alike(f, c) /\ f.exit <= c.exit
      /\ f.maxExit = c.maxExit /\ f.maxValid = c.maxValid
  BY <1>1, <1>3, ForwardBlock
<1> HIDE DEF f
<1>5. /\ b \in SoundBlocks /\ Alike(b, c) /\ b.exit <= c.exit /\ HasProfile(b)
      /\ b.maxExit = c.maxExit /\ b.maxValid = c.maxValid
  <2>1. CASE c.kind # "Positional"
    <3>1. b = c
      BY <2>1
    <3> HIDE DEF b, c
    <3> QED BY <1>1, <2>1, <3>1 DEF Alike, HasProfile, Positional, SoundBlocks, Blocks
  <2>2. CASE c.kind = "Positional"
    <3>1. b = Profiled(u, f)
      BY <2>2
    <3> HIDE DEF b, c
    <3>2. /\ b \in SoundBlocks /\ Alike(b, f) /\ b.exit = f.exit
          /\ b.maxExit = f.maxExit /\ b.maxValid = f.maxValid /\ b.after # NotProfiled
      BY <1>3, <1>4, <3>1, ProfiledBlock
    <3> QED BY <1>4, <3>2 DEF Alike, HasProfile
  <2> QED BY <2>1, <2>2
<1>6. Positional(b) =>
        IF pos = Len(q) THEN b.exit = 0 /\ ~b.maxValid
        ELSE /\ Limit(b, q[pos + 1], b.exit)
             /\ b.maxValid => Limit(b, q[pos + 1], b.maxExit)
  <2> HIDE DEF b
  <2> SUFFICES ASSUME Positional(b)
               PROVE  IF pos = Len(q) THEN b.exit = 0 /\ ~b.maxValid
                      ELSE /\ Limit(b, q[pos + 1], b.exit)
                           /\ b.maxValid => Limit(b, q[pos + 1], b.maxExit)
    OBVIOUS
  <2>1. Positional(c) /\ b.exit \in Nat /\ c.exit \in Nat
    BY <1>1, <1>5 DEF Alike, Positional, SoundBlocks, Blocks
  <2>2. CASE pos = Len(q)
    BY <1>1, <1>5, <2>1, <2>2 DEF CornerAt
  <2>3. CASE pos # Len(q)
    <3> DEFINE n == q[pos + 1]
    <3>1. n \in SoundBlocks
      BY <1>1, <2>3
    <3>2. Limit(c, n, c.exit) /\ (c.maxValid => Limit(c, n, c.maxExit))
      BY <1>1, <2>1, <2>3 DEF CornerAt
    <3> HIDE DEF c, n
    <3>3. n.nominal \in Nat
      BY <3>1 DEF SoundBlocks, Blocks
    <3>4. Limit(b, n, b.exit)
      BY <1>5, <2>1, <3>2, <3>3 DEF Limit, Alike, Reverses
    <3>5. b.maxValid => Limit(b, n, b.maxExit)
      BY <1>5, <3>2 DEF Limit, Alike, Reverses
    <3> QED BY <2>3, <3>4, <3>5 DEF n
  <2> QED BY <2>2, <2>3
<1> HIDE DEF b
<1>7. /\ q' \in Seq(SoundBlocks) /\ Len(q') = Len(q) /\ q'[pos] = b
      /\ \A i \in 1 .. Len(q) : i # pos => q'[i] = q[i]
      /\ Corners' /\ RunCorner'
  BY <1>1, <1>2, <1>5, <1>6, Rewritten
<1>8. Types'
  BY <1>1, <1>2, <1>7, EvenZero DEF LIInv, Types, InPass
<1>9. Profiles'
  <2> SUFFICES ASSUME "skipped" \notin trouble PROVE Profiles'
    BY <1>2 DEF Profiles
  <2>1. /\ \A i \in 1 .. gone + committed : HasProfile(q[i])
        /\ \A i \in 1 .. pos - 1 : HasProfile(q[i])
        /\ HasProfile(run')
    BY <1>2 DEF LIInv, Profiles
  <2>2. gone + committed <= Len(q) /\ gone \in Nat /\ committed \in Nat
    BY DEF LIInv, Types
  <2>3. \A i \in 1 .. gone' + committed' : HasProfile(q'[i])
    BY <1>1, <1>2, <1>5, <1>7, <2>1, <2>2
  <2>4. \A i \in 1 .. pos : HasProfile(q'[i])
    BY <1>1, <1>5, <1>7, <2>1
  <2> QED BY <1>1, <1>2, <1>7, <2>1, <2>3, <2>4 DEF Profiles
<1> QED BY <1>7, <1>8, <1>9 DEF LIInv

\* The queue without its first d slots, which have been fetched.
LEMMA Dropped ==
  ASSUME LIInv, NEW d \in 0 .. Len(q), q' = SubSeq(q, d + 1, Len(q))
  PROVE  /\ q' \in Seq(SoundBlocks) /\ Len(q') = Len(q) - d
         /\ \A i \in 1 .. Len(q') : q'[i] = q[i + d]
         /\ Corners'
<1>1. q \in Seq(SoundBlocks) /\ Len(q) \in Nat
  BY DEF LIInv, Types
<1>2. /\ q' \in Seq(SoundBlocks) /\ Len(q') = Len(q) - d
      /\ \A i \in 1 .. Len(q') : q'[i] = q[i + d]
  BY <1>1
<1>3. ASSUME NEW i \in 1 .. Len(q') PROVE CornerAt(q', i)
  <2>1. i + d \in 1 .. Len(q) /\ CornerAt(q, i + d) /\ q'[i] = q[i + d]
    BY <1>1, <1>2 DEF LIInv, Corners
  <2>2. i = Len(q') <=> i + d = Len(q)
    BY <1>1, <1>2
  <2>3. i # Len(q') => q'[i + 1] = q[(i + d) + 1]
    BY <1>1, <1>2
  <2> QED BY <2>1, <2>2, <2>3 DEF CornerAt
<1>4. Corners'
  BY <1>3 DEF Corners
<1> QED BY <1>2, <1>4

LEMMA CommitInv == ASSUME LIInv, Commit PROVE LIInv'
<1>1. /\ q \in Seq(SoundBlocks) /\ Len(q) \in Nat /\ gone \in 0 .. Len(q)
      /\ pc = "commit"
  BY DEF Commit, LIInv, Types
<1>2. /\ q' = SubSeq(q, gone + 1, Len(q)) /\ gone' = 0 /\ committed' = Len(q')
      /\ UNCHANGED <<lastExit, run, trouble>>
  BY DEF Commit, stepperVars
<1>3. \/ pc' = "add" /\ UNCHANGED <<move, pos, entry0>>
      \/ StartPass /\ UNCHANGED move
      \/ pc' = "idle" /\ EndMove /\ UNCHANGED <<pos, entry0>>
  BY DEF Commit
<1>4. /\ q' \in Seq(SoundBlocks) /\ Len(q') = Len(q) - gone
      /\ \A i \in 1 .. Len(q') : q'[i] = q[i + gone]
      /\ Corners'
  BY <1>1, <1>2, Dropped
<1>5. RunCorner'
  <2>1. CASE Len(q) = gone
    BY <1>1, <1>2, <1>4, <2>1 DEF LIInv, RunCorner
  <2>2. CASE Len(q) # gone
    <3>1. Len(q') # gone' /\ q'[gone' + 1] = q[gone + 1]
      BY <1>1, <1>2, <1>4, <2>2
    <3> QED BY <1>2, <2>2, <3>1 DEF LIInv, RunCorner
  <2> QED BY <2>1, <2>2
<1>6. /\ pc' \in {"add", "reverse", "idle"} /\ pos' \in Nat
      /\ pc' = "reverse" => pos' \in 1 .. Len(q')
      /\ entry0' \in Nat /\ Even(entry0') /\ MoveOK(move')
  <2>1. CASE pc' = "add" /\ UNCHANGED <<move, pos, entry0>>
    BY <2>1 DEF LIInv, Types
  <2>2. CASE StartPass /\ UNCHANGED move
    BY <1>2, <1>4, <2>2, PassStarts DEF LIInv, Types
  <2>3. CASE pc' = "idle" /\ EndMove /\ UNCHANGED <<pos, entry0>>
    BY <2>3, MovesAreOK DEF LIInv, Types, EndMove
  <2> QED BY <1>3, <2>1, <2>2, <2>3
<1>7. Types'
  <2>1. Len(q') \in Nat
    BY <1>4
  <2> QED BY <1>1, <1>2, <1>4, <1>6, <2>1 DEF LIInv, Types, InPass
<1>8. Profiles'
  <2> SUFFICES ASSUME "skipped" \notin trouble PROVE Profiles'
    BY <1>2 DEF Profiles
  <2>1. HasProfile(run') /\ \A i \in 1 .. Len(q) : HasProfile(q[i])
    BY <1>1, <1>2 DEF LIInv, Profiles
  <2>2. \A i \in 1 .. Len(q') : HasProfile(q'[i])
    BY <1>1, <1>4, <2>1
  <2>3. gone' + committed' = Len(q')
    BY <1>2, <1>4
  <2> QED BY <1>2, <1>6, <2>1, <2>2, <2>3 DEF Profiles
<1> QED BY <1>4, <1>5, <1>7, <1>8 DEF LIInv

LEMMA FetchInv == ASSUME LIInv, Fetch PROVE LIInv'
<1> DEFINE b == q[gone + 1]
<1>1. /\ q \in Seq(SoundBlocks) /\ Len(q) \in Nat /\ gone \in Nat /\ committed \in Nat
      /\ committed > 0 /\ gone + committed <= Len(q) /\ gone + 1 \in 1 .. Len(q)
  BY DEF Fetch, LIInv, Types
<1>2. b \in SoundBlocks /\ CornerAt(q, gone + 1)
  BY <1>1 DEF LIInv, Corners
<1>3. /\ lastExit' = IF b.kind = "Positional" THEN b.exit ELSE 0
      /\ run' = Ended(run) \/ run' = b
      /\ "skipped" \notin trouble' => "skipped" \notin trouble
      /\ committed' = committed - 1
      /\ UNCHANGED <<pc, pos, entry0, move>>
      /\ \/ InPass /\ gone' = gone + 1 /\ q' = q
         \/ ~InPass /\ q' = Tail(q) /\ gone' = gone
  BY DEF Fetch, plannerVars, moveVars
<1>4. Ended(run) \in SoundBlocks /\ ~Positional(Ended(run))
  BY EndedBlock DEF LIInv, Types, Positional
<1>5. run' \in SoundBlocks /\ lastExit' \in Nat /\ Even(lastExit')
  BY <1>2, <1>3, <1>4, EvenZero DEF SoundBlocks, Blocks, Sound
<1> HIDE DEF b
<1>6. HasProfile(b) => HasProfile(run')
  BY <1>3, <1>4 DEF HasProfile
<1>7. CASE InPass /\ gone' = gone + 1 /\ q' = q
  <2>1. Types'
    BY <1>1, <1>3, <1>5, <1>7 DEF LIInv, Types, InPass
  <2>2. Corners'
    BY <1>7 DEF LIInv, Corners, CornerAt
  <2>3. RunCorner'
    BY <1>1, <1>2, <1>3, <1>4, <1>7 DEF RunCorner, CornerAt, b
  <2>4. Profiles'
    <3> SUFFICES ASSUME "skipped" \notin trouble' PROVE Profiles'
      BY DEF Profiles
    <3>1. /\ \A i \in 1 .. gone + committed : HasProfile(q[i])
          /\ pc = "forward" => \A i \in 1 .. pos - 1 : HasProfile(q[i])
          /\ pc = "commit" => \A i \in 1 .. Len(q) : HasProfile(q[i])
      BY <1>3 DEF LIInv, Profiles
    <3>2. HasProfile(run')
      BY <1>1, <1>6, <3>1 DEF b
    <3>3. gone' + committed' = gone + committed
      BY <1>1, <1>3, <1>7
    <3> QED BY <1>3, <1>7, <3>1, <3>2, <3>3 DEF Profiles, InPass
  <2> QED BY <2>1, <2>2, <2>3, <2>4 DEF LIInv
<1>8. CASE ~InPass /\ q' = Tail(q) /\ gone' = gone
  <2>1. gone = 0 /\ pc \in {"idle", "add"}
    BY <1>8 DEF LIInv, Types, InPass
  <2>2. q' = SubSeq(q, 1 + 1, Len(q)) /\ 1 \in 0 .. Len(q)
    BY <1>1, <1>8, <2>1 DEF Tail
  <2>3. /\ q' \in Seq(SoundBlocks) /\ Len(q') = Len(q) - 1
        /\ \A i \in 1 .. Len(q') : q'[i] = q[i + 1]
        /\ Corners'
    BY <2>2, Dropped
  <2>4. Types'
    BY <1>1, <1>3, <1>5, <1>8, <2>1, <2>3 DEF LIInv, Types, InPass
  <2>5. RunCorner'
    <3>1. CASE Len(q) = 1
      BY <1>1, <1>2, <1>3, <1>4, <1>8, <2>1, <2>3, <3>1 DEF RunCorner, CornerAt, b
    <3>2. CASE Len(q) # 1
      <4>1. Len(q') # gone' /\ q'[gone' + 1] = q[(gone + 1) + 1]
        BY <1>1, <1>8, <2>1, <2>3, <3>2
      <4> QED BY <1>1, <1>2, <1>3, <1>4, <2>1, <3>2, <4>1 DEF RunCorner, CornerAt, b
    <3> QED BY <3>1, <3>2
  <2>6. Profiles'
    <3> SUFFICES ASSUME "skipped" \notin trouble' PROVE Profiles'
      BY DEF Profiles
    <3>1. /\ \A i \in 1 .. gone + committed : HasProfile(q[i])
          /\ pc = "idle" => committed = Len(q)
      BY <1>3 DEF LIInv, Profiles
    <3>2. HasProfile(run')
      BY <1>1, <1>6, <3>1 DEF b
    <3>3. ASSUME NEW i \in 1 .. gone' + committed' PROVE HasProfile(q'[i])
      <4>1. gone' + committed' = committed - 1 /\ committed - 1 <= Len(q) - 1
        BY <1>1, <1>3, <1>8, <2>1
      <4>2. i \in 1 .. Len(q') /\ i + 1 \in 1 .. gone + committed
        BY <1>1, <2>1, <2>3, <4>1
      <4>3. q'[i] = q[i + 1]
        BY <2>3, <4>2
      <4> QED BY <3>1, <4>2, <4>3
    <3> QED BY <1>1, <1>3, <2>1, <2>3, <3>1, <3>2, <3>3 DEF Profiles
  <2> QED BY <2>3, <2>4, <2>5, <2>6 DEF LIInv
<1> QED BY <1>3, <1>7, <1>8

LEMMA FinishInv == ASSUME LIInv, Finish PROVE LIInv'
<1>1. /\ run' \in SoundBlocks /\ ~Positional(run')
      /\ UNCHANGED <<q, gone, committed, lastExit, pc, pos, entry0, move, trouble>>
  BY EndedBlock DEF Finish, queueVars, plannerVars, moveVars, LIInv, Types, Positional
<1>2. Types'
  BY <1>1 DEF LIInv, Types, InPass
<1>3. Corners' /\ RunCorner' /\ Profiles'
  BY <1>1 DEF LIInv, Corners, CornerAt, RunCorner, Profiles, HasProfile
<1> QED BY <1>2, <1>3 DEF LIInv

LEMMA InvNext == ASSUME LIInv, [Next]_vars PROVE LIInv'
<1>1. CASE \E m \in Moves, k \in SegmentCounts : BeginMove(m, k)
  BY <1>1, BeginInv
<1>2. CASE AddSegment
  BY <1>2, AddInv
<1>3. CASE EmptyMove
  BY <1>3, EmptyInv
<1>4. CASE ReverseStep
  BY <1>4, ReverseInv
<1>5. CASE ForwardStep
  BY <1>5, ForwardInv
<1>6. CASE Commit
  BY <1>6, CommitInv
<1>7. CASE \E kind \in {"Velocity", "Reset"} : AddOther(kind)
  BY <1>7, OtherInv
<1>8. CASE Fetch
  BY <1>8, FetchInv
<1>9. CASE Finish
  BY <1>9, FinishInv
<1>10. CASE UNCHANGED vars
  BY <1>10 DEF vars, queueVars, plannerVars, moveVars, stepperVars,
    LIInv, Types, InPass, Corners, CornerAt, RunCorner, Profiles, HasProfile
<1> QED BY <1>1, <1>2, <1>3, <1>4, <1>5, <1>6, <1>7, <1>8, <1>9, <1>10 DEF Next, Plan

LEMMA Invariant == Spec => []LIInv
BY InvInit, InvNext, PTL DEF Spec

-----------------------------------------------------------------------------
(* Theorems *)

\* However the stepper's fetches fall into the passes, no block is left faster
\* than the corner behind it allows: it ends at rest before a block of another axis
\* or one that is no move, and on the same way no faster than the next one goes.
THEOREM CornersStayRespected == Spec => []CornerRespected
<1>1. LIInv => CornerRespected
  <2> SUFFICES ASSUME LIInv, run.kind = "Positional", Len(q) > gone
               PROVE  LET n == q[gone + 1]
                      IN  /\ n.kind # "Positional" \/ n.axis # run.axis => run.exit = 0
                          /\ n.kind = "Positional" /\ ~Reverses(run, n) =>
                               run.exit <= n.nominal
    BY DEF CornerRespected
  <2>1. Limit(run, q[gone + 1], run.exit)
    BY DEF LIInv, RunCorner, Positional, Types
  <2> QED BY <2>1 DEF Limit
<1> QED BY <1>1, Invariant, PTL

\* Every block that reaches the stepper has been through a pass, unless a move
\* ended on a number of segments that no pass follows.
THEOREM ProfiledBlocksRun == Spec => []ProfiledUnlessSkipped
<1>1. LIInv => ProfiledUnlessSkipped
  BY DEF LIInv, Profiles, HasProfile, Positional, ProfiledUnlessSkipped
<1> QED BY <1>1, Invariant, PTL

-----------------------------------------------------------------------------
(* Where the blocks slow down.  The passes are incremental: a block is fetched *)
(* with the exit speed the reverse pass gave it before the forward pass took   *)
(* some of it away, and last_exit_speed then is more than the ring's slots can *)
(* show.  What stays true is that the blocks behind it could be given speeds   *)
(* that brake from there, and that the next reverse pass gives them at least   *)
(* these.                                                                      *)

\* Block n can be entered at e and left at x.
CanEnter(n, e, x) == NominalLength(n) \/ e <= x + n.reach

\* Block i of s leads into another move.
Joined(s, i) == i < Len(s) /\ Positional(s[i + 1])

\* The exit speeds r are ones the blocks of s can be given.
Reachable(s, r) ==
  \A i \in 1 .. Len(s) : Positional(s[i]) =>
    IF Joined(s, i)
      THEN r[i] <= Corner(s[i], s[i + 1]) /\ CanEnter(s[i + 1], r[i], r[i + 1])
      ELSE r[i] = 0

SpeedPlans == [Nat -> Nat]

\* The exit speeds the blocks of s have.
Exits(s) == [i \in Nat |-> IF i \in 1 .. Len(s) THEN s[i].exit ELSE 0]

\* The cached corner is that of the two blocks.
Cached(s, i) ==
  Positional(s[i]) =>
    IF s[i].maxValid THEN Joined(s, i) /\ s[i].maxExit = Corner(s[i], s[i + 1])
    ELSE s[i].exit = 0

Enters(b, e, x) == Positional(b) => CanEnter(b, e, x)

\* Block b slows down within its own length, if a pass has reached it.
SlowsWithin(b) == b.after \in NotProfiled .. b.reach

Braking ==
  /\ Reachable(q, Exits(q))
  /\ \A i \in 1 .. Len(q) : Cached(q, i) /\ SlowsWithin(q[i])
  /\ SlowsWithin(run)
  /\ IF gone = Len(q) THEN lastExit = 0
     ELSE \E r \in SpeedPlans : Reachable(q, r) /\ Enters(q[gone + 1], lastExit, r[gone + 1])
  /\ pc = "reverse" =>
       /\ \E r \in SpeedPlans : Reachable(q, r) /\ Enters(q[1], entry0, r[1])
       /\ \A r \in SpeedPlans : Reachable(q, r) =>
            \A i \in pos + 1 .. Len(q) : Positional(q[i]) => r[i] <= q[i].exit
  /\ pc = "forward" /\ pos = 1 => Enters(q[1], entry0, q[1].exit)

\* The counts the type invariant asks for besides.
Counts ==
  /\ Len(q) <= Capacity
  /\ pc \notin {"reverse", "forward"} => pos = 0
  /\ speed \in Nat
  /\ trouble \subseteq {"torn", "skipped", "aliased", "overspeed"}

LEMMA CornerBounds ==
  ASSUME NEW b \in SoundBlocks, NEW n \in SoundBlocks
  PROVE  Corner(b, n) \in Nat /\ Corner(b, n) <= b.nominal
BY DEF Corner, Least, SoundBlocks, Blocks

LEMMA CornerAlike ==
  ASSUME NEW b, NEW n, NEW c, NEW d, Alike(c, b), Alike(d, n)
  PROVE  Corner(c, d) = Corner(b, n)
BY DEF Corner, Alike

LEMMA EnterAlike ==
  ASSUME NEW n, NEW d, Alike(d, n), NEW e, NEW x
  PROVE  CanEnter(d, e, x) <=> CanEnter(n, e, x)
BY DEF CanEnter, Alike, NominalLength

\* Exit speeds stay possible as long as the blocks are what they were.
LEMMA ReachableAlike ==
  ASSUME NEW s \in Seq(SoundBlocks), NEW t \in Seq(SoundBlocks), Len(t) = Len(s),
         \A i \in 1 .. Len(s) : Alike(t[i], s[i]),
         NEW r \in SpeedPlans
  PROVE  Reachable(t, r) <=> Reachable(s, r)
<1>1. ASSUME NEW i \in 1 .. Len(s)
      PROVE  /\ Positional(t[i]) <=> Positional(s[i])
             /\ Joined(t, i) <=> Joined(s, i)
             /\ Joined(s, i) => /\ Corner(t[i], t[i + 1]) = Corner(s[i], s[i + 1])
                                /\ CanEnter(t[i + 1], r[i], r[i + 1])
                                     <=> CanEnter(s[i + 1], r[i], r[i + 1])
  <2>1. Positional(t[i]) <=> Positional(s[i])
    BY DEF Alike, Positional
  <2>2. i < Len(s) => Alike(t[i + 1], s[i + 1])
    OBVIOUS
  <2>3. Joined(t, i) <=> Joined(s, i)
    BY <2>2 DEF Joined, Alike, Positional
  <2>4. CASE Joined(s, i)
    <3>1. Alike(t[i + 1], s[i + 1]) /\ Alike(t[i], s[i])
      BY <2>2, <2>4 DEF Joined
    <3> QED BY <2>1, <2>3, <3>1, CornerAlike, EnterAlike
  <2> QED BY <2>1, <2>3, <2>4
<1> QED BY <1>1 DEF Reachable

\* They stay possible when a block is queued behind, which may be left at rest ...
LEMMA ReachableMore ==
  ASSUME NEW s \in Seq(SoundBlocks), NEW t \in Seq(SoundBlocks), Len(t) = Len(s) + 1,
         \A i \in 1 .. Len(s) : t[i] = s[i],
         NEW r \in SpeedPlans, Reachable(s, r), NEW x \in SpeedPlans,
         \A i \in 1 .. Len(s) : x[i] = r[i], x[Len(s) + 1] = 0
  PROVE  Reachable(t, x)
<1> SUFFICES ASSUME NEW i \in 1 .. Len(t), Positional(t[i])
             PROVE  IF Joined(t, i)
                      THEN /\ x[i] <= Corner(t[i], t[i + 1])
                           /\ CanEnter(t[i + 1], x[i], x[i + 1])
                      ELSE x[i] = 0
  BY DEF Reachable
<1>1. CASE i = Len(s) + 1
  BY <1>1 DEF Joined
<1>2. CASE i < Len(s)
  <2>1. t[i] = s[i] /\ t[i + 1] = s[i + 1] /\ x[i] = r[i] /\ x[i + 1] = r[i + 1]
    BY <1>2
  <2>2. Joined(t, i) <=> Joined(s, i)
    BY <1>2, <2>1 DEF Joined
  <2> QED BY <1>2, <2>1, <2>2 DEF Reachable
<1>3. CASE i = Len(s)
  <2>1. x[i] = 0
    BY <1>3 DEF Reachable, Joined
  <2>2. t[i] \in SoundBlocks /\ t[i + 1] \in SoundBlocks
    BY <1>3
  <2>3. Corner(t[i], t[i + 1]) \in Nat
    BY <2>2, CornerBounds
  <2>4. t[i + 1].reach \in Nat /\ x[i + 1] = 0
    BY <1>3, <2>2 DEF SoundBlocks, Blocks
  <2>5. CanEnter(t[i + 1], 0, 0)
    BY <2>4 DEF CanEnter
  <2> QED BY <2>1, <2>3, <2>4, <2>5
<1> QED BY <1>1, <1>2, <1>3

\* ... and when the first ones are taken away.
LEMMA ReachableLess ==
  ASSUME LIInv, NEW d \in 0 .. Len(q), q' = SubSeq(q, d + 1, Len(q)),
         NEW r \in SpeedPlans, Reachable(q, r), NEW x \in SpeedPlans,
         \A i \in 1 .. Len(q') : x[i] = r[i + d]
  PROVE  Reachable(q', x)
<1> SUFFICES ASSUME NEW i \in 1 .. Len(q'), Positional(q'[i])
             PROVE  IF Joined(q', i)
                      THEN /\ x[i] <= Corner(q'[i], q'[i + 1])
                           /\ CanEnter(q'[i + 1], x[i], x[i + 1])
                      ELSE x[i] = 0
  BY DEF Reachable
<1>1. /\ q \in Seq(SoundBlocks) /\ Len(q) \in Nat /\ Len(q') = Len(q) - d
      /\ \A j \in 1 .. Len(q') : q'[j] = q[j + d]
  BY Dropped DEF LIInv, Types
<1>2. i + d \in 1 .. Len(q) /\ q'[i] = q[i + d] /\ x[i] = r[i + d]
  BY <1>1
<1>3. i < Len(q') => /\ q'[i + 1] = q[(i + d) + 1] /\ x[i + 1] = r[(i + d) + 1]
                     /\ i + d < Len(q)
  <2> SUFFICES ASSUME i < Len(q') PROVE /\ q'[i + 1] = q[(i + d) + 1]
                                       /\ x[i + 1] = r[(i + d) + 1]
                                       /\ i + d < Len(q)
    OBVIOUS
  <2>1. i + 1 \in 1 .. Len(q') /\ (i + 1) + d = (i + d) + 1 /\ i + d < Len(q)
    BY <1>1
  <2>2. q'[i + 1] = q[(i + 1) + d] /\ x[i + 1] = r[(i + 1) + d]
    BY <1>1, <2>1
  <2> QED BY <2>1, <2>2
<1>4. Joined(q', i) <=> Joined(q, i + d)
  BY <1>1, <1>2, <1>3 DEF Joined
<1>5. Joined(q', i) => i < Len(q')
  BY DEF Joined
<1> QED BY <1>2, <1>3, <1>4, <1>5 DEF Reachable

LEMMA ExitsPlan ==
  ASSUME NEW s \in Seq(SoundBlocks)
  PROVE  Exits(s) \in SpeedPlans /\ \A i \in 1 .. Len(s) : Exits(s)[i] = s[i].exit
<1>1. ASSUME NEW i \in 1 .. Len(s) PROVE s[i].exit \in Nat
  <2>1. s[i] \in SoundBlocks
    OBVIOUS
  <2> QED BY <2>1 DEF SoundBlocks, Blocks
<1> QED BY <1>1 DEF Exits, SpeedPlans

\* The reverse pass gives a block the most its corner and the next block allow.
LEMMA BackwardSpeeds ==
  ASSUME NEW b \in SoundBlocks, NEW n \in SoundBlocks,
         b.maxValid => b.maxExit = Corner(b, n),
         b.exit <= Corner(b, n), CanEnter(n, b.exit, n.exit)
  PROVE  LET c == Backward(b, n)
         IN  /\ c.maxValid /\ c.maxExit = Corner(b, n)
             /\ c.exit <= Corner(b, n) /\ CanEnter(n, c.exit, n.exit)
             /\ \A e \in Nat : e <= Corner(b, n) /\ CanEnter(n, e, n.exit) => e <= c.exit
<1> DEFINE m == Corner(b, n)
           c == WithMaxExit(b, n)
           x == IF NominalLength(n) THEN m ELSE Least(m, n.exit + n.reach)
           d == [c EXCEPT !.profiled = FALSE, !.exit = x]
<1>1. m \in Nat
  BY CornerBounds
<1>2. n.exit \in Nat /\ n.reach \in Nat /\ b.exit \in Nat
  BY DEF SoundBlocks, Blocks
<1>3. c.maxExit = m /\ c.maxValid /\ c.exit = b.exit /\ d.exit = x
      /\ d.maxExit = m /\ d.maxValid
  BY DEF WithMaxExit, SoundBlocks, Blocks
<1>4. Backward(b, n) = IF c.exit = m THEN c ELSE d
  BY <1>3 DEF Backward
<1> HIDE DEF m, c, d
<1>5. /\ x <= m /\ CanEnter(n, x, n.exit)
      /\ \A e \in Nat : e <= m /\ CanEnter(n, e, n.exit) => e <= x
  BY <1>1, <1>2 DEF CanEnter, Least
<1> HIDE DEF x
<1>6. b.exit <= m
  BY DEF m
<1>7. CASE c.exit = m
  BY <1>1, <1>3, <1>4, <1>6, <1>7 DEF m
<1>8. CASE c.exit # m
  BY <1>1, <1>3, <1>4, <1>5, <1>8 DEF m
<1> QED BY <1>7, <1>8

\* The forward pass takes no more away than leaves the block room to brake.
LEMMA ForwardSpeeds ==
  ASSUME NEW b \in SoundBlocks, NEW u \in Nat, CanEnter(b, u, b.exit),
         b.exit <= b.nominal, ~b.maxValid => b.exit = 0
  PROVE  LET f == Forward(u, b)
         IN  /\ CanEnter(f, u, f.exit) /\ f.exit <= f.nominal
             /\ NominalLength(f) \/ f.exit <= u + f.reach
<1>1. /\ b.exit \in Nat /\ b.reach \in Nat /\ b.nominal \in Nat
  BY DEF SoundBlocks, Blocks
<1> DEFINE x == u + b.reach
           f == [b EXCEPT !.exit = x, !.profiled = FALSE]
<1>2. f.exit = x /\ f.reach = b.reach /\ f.nominal = b.nominal
  BY DEF SoundBlocks, Blocks
<1>3. Forward(u, b) = IF NominalLength(b) \/ ~b.maxValid \/ b.exit <= x \/ u >= b.exit
                        THEN b ELSE f
  BY DEF Forward
<1> HIDE DEF f
<1>4. CASE NominalLength(b) \/ ~b.maxValid \/ b.exit <= x \/ u >= b.exit
  BY <1>1, <1>3, <1>4 DEF CanEnter
<1>5. CASE ~(NominalLength(b) \/ ~b.maxValid \/ b.exit <= x \/ u >= b.exit)
  BY <1>1, <1>2, <1>3, <1>5 DEF CanEnter
<1> QED BY <1>4, <1>5

\* Such a block slows down at a point of its own.
LEMMA TrapezoidWithin ==
  ASSUME NEW b \in SoundBlocks, NEW u \in Nat, CanEnter(b, u, b.exit),
         b.exit <= b.nominal, NominalLength(b) \/ b.exit <= u + b.reach
  PROVE  Trapezoid(u, b) \in 0 .. b.reach
<1>1. /\ b.exit \in Nat /\ b.reach \in Nat /\ b.nominal \in Nat
  BY DEF SoundBlocks, Blocks
<1> DEFINE plateau == b.reach - (b.nominal - u) - (b.nominal - b.exit)
           h == (b.reach - u + b.exit) \div 2
           t == IF plateau < 0 THEN IF 0 >= h THEN 0 ELSE h
                ELSE b.reach - b.nominal + b.exit
<1>2. Trapezoid(u, b) = t
  BY <1>1 DEF Trapezoid, Greatest
<1>3. CASE NominalLength(b)
  <2>1. b.nominal <= b.reach
    BY <1>3 DEF NominalLength
  <2>2. h \in Int /\ h <= b.reach
    BY <1>1, <2>1
  <2> QED BY <1>1, <1>2, <2>1, <2>2
<1>4. CASE ~NominalLength(b)
  <2>1. u <= b.exit + b.reach /\ b.exit <= u + b.reach
    BY <1>4 DEF CanEnter
  <2>2. h \in Int /\ h <= b.reach
    BY <1>1, <2>1
  <2> QED BY <1>1, <1>2, <2>1, <2>2
<1> QED BY <1>3, <1>4

Paced == Braking /\ Counts

LEMMA PacedInit == Init => Paced
<1> SUFFICES ASSUME Init PROVE Paced
  OBVIOUS
<1>1. SlowsWithin(run)
  BY DEF Init, Block, NoMove, SlowsWithin, NotProfiled
<1> QED BY <1>1, CapacityAssumption DEF Init, Paced, Braking, Counts, Reachable

\* The ring's slots stay possible exit speeds of a queue that grew at its end.
LEMMA GrownQueue ==
  ASSUME LIInv, Braking, gone = 0, NEW b \in SoundBlocks, b.exit = 0, ~b.maxValid,
         b.after = NotProfiled,
         q' \in Seq(SoundBlocks), Len(q') = Len(q) + 1, q'[Len(q) + 1] = b,
         \A i \in 1 .. Len(q) : q'[i] = q[i],
         UNCHANGED <<gone, lastExit, run>>
  PROVE  /\ Reachable(q', Exits(q'))
         /\ \A i \in 1 .. Len(q') : Cached(q', i) /\ SlowsWithin(q'[i])
         /\ SlowsWithin(run')
         /\ \E r \in SpeedPlans : Reachable(q', r) /\ Enters(q'[1], lastExit', r[1])
<1>1. q \in Seq(SoundBlocks) /\ Len(q) \in Nat /\ lastExit \in Nat
  BY DEF LIInv, Types
<1>2. /\ Exits(q) \in SpeedPlans /\ \A i \in 1 .. Len(q) : Exits(q)[i] = q[i].exit
      /\ Exits(q') \in SpeedPlans /\ \A i \in 1 .. Len(q') : Exits(q')[i] = q'[i].exit
  BY <1>1, ExitsPlan
<1>3. Reachable(q', Exits(q'))
  <2>1. \A i \in 1 .. Len(q) : Exits(q')[i] = Exits(q)[i]
    BY <1>1, <1>2
  <2>2. Exits(q')[Len(q) + 1] = 0
    BY <1>1, <1>2
  <2>3. Reachable(q, Exits(q))
    BY DEF Braking
  <2> QED BY <1>1, <1>2, <2>1, <2>2, <2>3, ReachableMore
<1>4. ASSUME NEW i \in 1 .. Len(q') PROVE Cached(q', i) /\ SlowsWithin(q'[i])
  <2>1. CASE i = Len(q) + 1
    BY <1>1, <2>1 DEF Cached, SlowsWithin, SoundBlocks, Blocks, NotProfiled
  <2>2. CASE i # Len(q) + 1
    <3>1. i \in 1 .. Len(q) /\ q'[i] = q[i] /\ Cached(q, i) /\ SlowsWithin(q[i])
      BY <1>1, <2>2 DEF Braking
    <3>2. Joined(q, i) => Joined(q', i) /\ q'[i + 1] = q[i + 1]
      BY <1>1, <3>1 DEF Joined
    <3> QED BY <3>1, <3>2 DEF Cached
  <2> QED BY <2>1, <2>2
<1>5. \E r \in SpeedPlans : Reachable(q', r) /\ Enters(q'[1], lastExit', r[1])
  <2>1. CASE Len(q) = 0
    <3>1. q'[1] = b /\ lastExit' = 0 /\ Exits(q')[1] = 0
      BY <1>1, <1>2, <2>1 DEF Braking
    <3>2. Enters(b, 0, 0)
      BY DEF Enters, CanEnter, SoundBlocks, Blocks
    <3> QED BY <1>2, <1>3, <3>1, <3>2
  <2>2. CASE Len(q) # 0
    <3>1. PICK r \in SpeedPlans : Reachable(q, r) /\ Enters(q[1], lastExit, r[1])
      BY <1>1, <2>2 DEF Braking
    <3> DEFINE x == [r EXCEPT ![Len(q) + 1] = 0]
    <3>2. /\ x \in SpeedPlans /\ x[Len(q) + 1] = 0
          /\ \A i \in 1 .. Len(q) : x[i] = r[i]
      BY <1>1 DEF SpeedPlans
    <3> HIDE DEF x
    <3>3. Reachable(q', x)
      BY <1>1, <3>1, <3>2, ReachableMore
    <3>4. q'[1] = q[1] /\ x[1] = r[1]
      BY <1>1, <2>2, <3>2
    <3> QED BY <3>1, <3>2, <3>3, <3>4
  <2> QED BY <2>1, <2>2
<1> QED BY <1>3, <1>4, <1>5 DEF Braking

\* A pass that starts, or a queue left alone between passes.
LEMMA BetweenPasses ==
  ASSUME LIInv, q' \in Seq(SoundBlocks), Reachable(q', Exits(q')),
         \A i \in 1 .. Len(q') : Cached(q', i) /\ SlowsWithin(q'[i]),
         SlowsWithin(run'), gone' = 0,
         IF 0 = Len(q') THEN lastExit' = 0
         ELSE \E r \in SpeedPlans : Reachable(q', r) /\ Enters(q'[1], lastExit', r[1]),
         \/ pc' \in {"idle", "add"}
         \/ StartPass /\ lastExit' = lastExit
  PROVE  Braking'
<1>1. Len(q') \in Nat
  OBVIOUS
<1>2. \/ pc' \in {"idle", "add"}
      \/ pc' = "reverse" /\ pos' = Len(q') /\ entry0' = lastExit' /\ Len(q') # 0
  BY <1>1 DEF StartPass
<1>3. CASE pc' \in {"idle", "add"}
  BY <1>3 DEF Braking
<1>4. CASE pc' = "reverse" /\ pos' = Len(q') /\ entry0' = lastExit' /\ Len(q') # 0
  <2>1. pos' + 1 .. Len(q') = {}
    BY <1>1, <1>4
  <2> QED BY <1>4, <2>1 DEF Braking
<1> QED BY <1>2, <1>3, <1>4

LEMMA BeginPaced ==
  ASSUME LIInv, Paced, NEW m \in Moves, NEW k \in SegmentCounts, BeginMove(m, k)
  PROVE  Paced'
BY DEF Paced, Braking, Counts, BeginMove, queueVars, stepperVars,
  Reachable, Joined, Exits, Cached, SlowsWithin, Enters

LEMMA AddPaced == ASSUME LIInv, Paced, AddSegment PROVE Paced'
<1> DEFINE b == Block("Positional", move)
<1>1. b \in SoundBlocks /\ b.exit = 0 /\ ~b.maxValid /\ b.after = NotProfiled
  BY NewBlock DEF LIInv, Types, Kinds, Block
<1>2. gone = 0 /\ q \in Seq(SoundBlocks) /\ Len(q) \in Nat /\ Len(q) < Capacity
      /\ pc = "add"
  BY DEF AddSegment, LIInv, Types, InPass
<1>3. q' = Append(q, b) /\ UNCHANGED <<gone, committed, lastExit, run, speed>>
  BY DEF AddSegment, stepperVars
<1> HIDE DEF b
<1>4. /\ q' \in Seq(SoundBlocks) /\ Len(q') = Len(q) + 1 /\ q'[Len(q) + 1] = b
      /\ \A i \in 1 .. Len(q) : q'[i] = q[i]
  BY <1>1, <1>2, <1>3
<1>5. /\ trouble' \in {trouble, trouble \cup {"skipped"}}
      /\ \/ pc' \in {"idle", "add"} /\ pos' = pos
         \/ StartPass
  BY <1>2 DEF AddSegment
<1>6. /\ Reachable(q', Exits(q'))
      /\ \A i \in 1 .. Len(q') : Cached(q', i) /\ SlowsWithin(q'[i])
      /\ SlowsWithin(run')
      /\ \E r \in SpeedPlans : Reachable(q', r) /\ Enters(q'[1], lastExit', r[1])
  BY <1>1, <1>2, <1>3, <1>4, GrownQueue DEF Paced
<1>7. Braking'
  BY <1>2, <1>3, <1>4, <1>5, <1>6, BetweenPasses
<1>8. Counts'
  <2>1. pc' \notin {"reverse", "forward"} => pos' = 0
    BY <1>2, <1>4, <1>5 DEF Paced, Counts, StartPass
  <2>2. Len(q') <= Capacity
    BY <1>2, <1>4, CapacityAssumption
  <2> QED BY <1>3, <1>5, <2>1, <2>2 DEF Paced, Counts
<1> QED BY <1>7, <1>8 DEF Paced

LEMMA EmptyPaced == ASSUME LIInv, Paced, EmptyMove PROVE Paced'
<1>1. /\ q' = q /\ UNCHANGED <<gone, lastExit, run, speed, trouble>>
      /\ StartPass /\ q # <<>> /\ pc = "idle" /\ gone = 0
      /\ q \in Seq(SoundBlocks) /\ Len(q) # 0 /\ Len(q) \in Nat
  BY DEF EmptyMove, stepperVars, LIInv, Types, InPass
<1>2. /\ Reachable(q, Exits(q))
      /\ \A i \in 1 .. Len(q) : Cached(q, i) /\ SlowsWithin(q[i])
      /\ SlowsWithin(run)
      /\ \E r \in SpeedPlans : Reachable(q, r) /\ Enters(q[1], lastExit, r[1])
  BY <1>1 DEF Paced, Braking
<1>3. Braking'
  BY <1>1, <1>2, BetweenPasses
<1>4. pc' = "reverse"
  BY <1>1 DEF StartPass
<1> QED BY <1>1, <1>3, <1>4 DEF Paced, Counts

LEMMA OtherPaced ==
  ASSUME LIInv, Paced, NEW kind \in {"Velocity", "Reset"}, AddOther(kind)
  PROVE  Paced'
<1> DEFINE b == Block(kind, NoMove)
<1>1. b \in SoundBlocks /\ b.exit = 0 /\ ~b.maxValid /\ b.after = NotProfiled
  BY NewBlock, MovesAreOK DEF Kinds, Block
<1>2. gone = 0 /\ q \in Seq(SoundBlocks) /\ Len(q) \in Nat /\ Len(q) < Capacity
  BY DEF AddOther, LIInv, Types, InPass
<1>3. q' = Append(q, b)
      /\ UNCHANGED <<gone, lastExit, run, speed, pc, pos, trouble>> /\ pc = "idle"
  BY DEF AddOther, plannerVars, stepperVars
<1> HIDE DEF b
<1>4. /\ q' \in Seq(SoundBlocks) /\ Len(q') = Len(q) + 1 /\ q'[Len(q) + 1] = b
      /\ \A i \in 1 .. Len(q) : q'[i] = q[i]
  BY <1>1, <1>2, <1>3
<1>5. /\ Reachable(q', Exits(q'))
      /\ \A i \in 1 .. Len(q') : Cached(q', i) /\ SlowsWithin(q'[i])
      /\ SlowsWithin(run')
      /\ \E r \in SpeedPlans : Reachable(q', r) /\ Enters(q'[1], lastExit', r[1])
  BY <1>1, <1>2, <1>3, <1>4, GrownQueue DEF Paced
<1>6. Braking'
  BY <1>2, <1>3, <1>4, <1>5, BetweenPasses
<1>7. Len(q') <= Capacity
  BY <1>2, <1>4, CapacityAssumption
<1> QED BY <1>3, <1>6, <1>7 DEF Paced, Counts

LEMMA ReversePaced == ASSUME LIInv, Paced, ReverseStep PROVE Paced'
<1> DEFINE c == q[pos]
           b == CASE c.kind # "Positional" -> c
                  [] c.kind = "Positional" /\ (pos = Len(q) \/ q[pos + 1].kind # "Positional")
                       -> AtRest(c)
                  [] OTHER -> Backward(c, q[pos + 1])
           n == q[pos + 1]
           x == Exits(q)
           y == Exits(q')
<1>1. /\ q \in Seq(SoundBlocks) /\ Len(q) \in Nat /\ gone \in Nat /\ gone <= Len(q)
      /\ pos \in 1 .. Len(q) /\ c \in SoundBlocks /\ CornerAt(q, pos)
      /\ Cached(q, pos) /\ SlowsWithin(c)
  BY DEF ReverseStep, LIInv, Types, Corners, Paced, Braking
<1>2. /\ q' = [q EXCEPT ![pos] = b]
      /\ UNCHANGED <<gone, committed, lastExit, entry0, run, speed, trouble>>
      /\ pc = "reverse"
      /\ \/ pc' = "reverse" /\ pos > 1 /\ pos' = pos - 1
         \/ pc' = "forward" /\ pos = 1 /\ pos' = pos
  BY <1>1 DEF ReverseStep, moveVars, stepperVars
<1>3. Joined(q, pos) => n \in SoundBlocks /\ Positional(n)
  BY <1>1 DEF Joined
<1>4. Positional(c) =>
        IF Joined(q, pos) THEN c.exit <= Corner(c, n) /\ CanEnter(n, c.exit, n.exit)
        ELSE c.exit = 0
  <2>1. \A i \in 1 .. Len(q) : x[i] = q[i].exit
    BY <1>1, ExitsPlan
  <2>2. Joined(q, pos) => x[pos + 1] = n.exit
    BY <1>1, <2>1 DEF Joined
  <2> HIDE DEF x
  <2>3. Reachable(q, x)
    BY DEF Paced, Braking, x
  <2> QED BY <1>1, <2>1, <2>2, <2>3 DEF Reachable
<1>5. Positional(c) /\ Joined(q, pos) =>
        b = Backward(c, n) /\ (c.maxValid => c.maxExit = Corner(c, n))
  BY <1>1 DEF Joined, Positional, Cached
<1>6. Positional(c) /\ ~Joined(q, pos) => b = AtRest(c) /\ ~c.maxValid
  BY <1>1 DEF Joined, Positional, Cached
<1>7. ~Positional(c) => b = c
  BY DEF Positional
<1> HIDE DEF b, c, n
<1>8. /\ b \in SoundBlocks /\ Alike(b, c) /\ b.after = c.after
      /\ Positional(c) /\ b.maxValid => Joined(q, pos) /\ b.maxExit = Corner(c, n)
      /\ Positional(c) =>
           IF Joined(q, pos)
             THEN /\ b.maxValid /\ b.exit <= Corner(c, n) /\ CanEnter(n, b.exit, n.exit)
                  /\ \A e \in Nat : e <= Corner(c, n) /\ CanEnter(n, e, n.exit) =>
                       e <= b.exit
             ELSE b.exit = 0
  <2>1. CASE ~Positional(c)
    BY <1>1, <1>7, <2>1 DEF Alike
  <2>2. CASE Positional(c) /\ ~Joined(q, pos)
    BY <1>1, <1>6, <2>2, AtRestBlock
  <2>3. CASE Positional(c) /\ Joined(q, pos)
    <3>1. /\ b.maxValid /\ b.maxExit = Corner(c, n)
          /\ b.exit <= Corner(c, n) /\ CanEnter(n, b.exit, n.exit)
          /\ \A e \in Nat : e <= Corner(c, n) /\ CanEnter(n, e, n.exit) => e <= b.exit
      BY <1>1, <1>3, <1>4, <1>5, <2>3, BackwardSpeeds
    <3>2. (c.maxValid => Limit(c, n, c.maxExit)) /\ Limit(c, n, c.exit)
      BY <1>1, <2>3 DEF CornerAt, Joined, c, n
    <3>3. b \in SoundBlocks /\ Alike(b, c) /\ b.after = c.after
      BY <1>1, <1>3, <1>5, <2>3, <3>2, BackwardBlock DEF Positional
    <3> QED BY <2>3, <3>1, <3>3
  <2> QED BY <2>1, <2>2, <2>3
<1>9. /\ q' \in Seq(SoundBlocks) /\ Len(q') = Len(q) /\ q'[pos] = b
      /\ \A i \in 1 .. Len(q) : i # pos => q'[i] = q[i]
      /\ \A i \in 1 .. Len(q) : Alike(q'[i], q[i])
  <2>1. /\ q' \in Seq(SoundBlocks) /\ Len(q') = Len(q) /\ q'[pos] = b
        /\ \A i \in 1 .. Len(q) : i # pos => q'[i] = q[i]
    BY <1>1, <1>2, <1>8
  <2> QED BY <1>8, <2>1 DEF Alike, c
<1>10. \A r \in SpeedPlans : Reachable(q', r) <=> Reachable(q, r)
  BY <1>1, <1>9, ReachableAlike
<1>11. /\ x \in SpeedPlans /\ \A i \in 1 .. Len(q) : x[i] = q[i].exit
       /\ y \in SpeedPlans /\ \A i \in 1 .. Len(q) : y[i] = q'[i].exit
  BY <1>1, <1>9, ExitsPlan
<1>12. Reachable(q, x)
  BY DEF Paced, Braking
<1> HIDE DEF x, y
\* The slots behind pos have at least the speeds any plan gives them; so has pos now.
<1>13. ASSUME NEW r \in SpeedPlans, Reachable(q, r), Positional(c)
       PROVE  r[pos] <= b.exit
  <2>1. r[pos] \in Nat
    BY <1>1 DEF SpeedPlans
  <2>2. CASE ~Joined(q, pos)
    BY <1>1, <1>8, <1>13, <2>2 DEF Reachable, c
  <2>3. CASE Joined(q, pos)
    <3>1. r[pos] <= Corner(c, n) /\ CanEnter(n, r[pos], r[pos + 1])
      BY <1>1, <1>13, <2>3 DEF Reachable, c, n
    <3>2. pos + 1 \in pos + 1 .. Len(q) /\ Positional(q[pos + 1])
      BY <1>1, <2>3 DEF Joined
    <3>3. r[pos + 1] <= n.exit
      BY <1>2, <1>13, <3>2 DEF Paced, Braking, n
    <3>4. r[pos + 1] \in Nat /\ n.exit \in Nat /\ n.reach \in Nat
      <4>1. pos + 1 \in Nat
        BY <1>1
      <4>2. r[pos + 1] \in Nat
        BY <4>1 DEF SpeedPlans
      <4>3. n.exit \in Nat /\ n.reach \in Nat
        BY <1>3, <2>3 DEF SoundBlocks, Blocks
      <4> QED BY <4>2, <4>3
    <3>5. CanEnter(n, r[pos], n.exit)
      BY <2>1, <3>1, <3>3, <3>4 DEF CanEnter
    <3> QED BY <1>8, <1>13, <2>1, <2>3, <3>1, <3>5
  <2> QED BY <2>2, <2>3
<1>14. Positional(c) => c.exit <= b.exit
  BY <1>1, <1>11, <1>12, <1>13 DEF c
<1>15. ASSUME NEW i \in 1 .. Len(q)
       PROVE  (Joined(q', i) <=> Joined(q, i)) /\ (Positional(q'[i]) <=> Positional(q[i]))
  <2>1. i < Len(q) => Alike(q'[i + 1], q[i + 1])
    BY <1>1, <1>9
  <2> QED BY <1>9, <2>1 DEF Joined, Alike, Positional
<1>16. Reachable(q', y)
  <2> SUFFICES ASSUME NEW i \in 1 .. Len(q), Positional(q'[i])
               PROVE  IF Joined(q', i)
                        THEN /\ y[i] <= Corner(q'[i], q'[i + 1])
                             /\ CanEnter(q'[i + 1], y[i], y[i + 1])
                        ELSE y[i] = 0
    BY <1>9 DEF Reachable
  <2>1. Positional(q[i]) /\ (Joined(q', i) <=> Joined(q, i))
    BY <1>15
  <2>3. CASE ~Joined(q, i)
    <3>1. i # pos => y[i] = x[i]
      BY <1>9, <1>11
    <3>2. i = pos => y[i] = 0
      BY <1>8, <1>9, <1>11, <2>1, <2>3 DEF c
    <3> QED BY <1>12, <2>1, <2>3, <3>1, <3>2 DEF Reachable
  <2>4. CASE Joined(q, i)
    <3>1. i + 1 \in 1 .. Len(q) /\ Positional(q[i + 1])
      BY <1>1, <2>4 DEF Joined
    <3>2. Corner(q'[i], q'[i + 1]) = Corner(q[i], q[i + 1])
      BY <1>9, <3>1, CornerAlike
    <3>3. CanEnter(q'[i + 1], y[i], y[i + 1]) <=> CanEnter(q[i + 1], y[i], y[i + 1])
      BY <1>9, <3>1, EnterAlike
    <3>4. x[i] <= Corner(q[i], q[i + 1]) /\ CanEnter(q[i + 1], x[i], x[i + 1])
      BY <1>12, <2>1, <2>4 DEF Reachable
    <3>5. CASE i = pos
      <4>1. y[i] = b.exit /\ y[i + 1] = n.exit
        BY <1>1, <1>9, <1>11, <3>1, <3>5 DEF n
      <4> QED BY <1>8, <2>1, <2>4, <3>2, <3>3, <3>5, <4>1 DEF c, n
    <3>6. CASE i # pos
      <4>1. y[i] = x[i]
        BY <1>9, <1>11, <3>6
      <4>2. x[i] \in Nat /\ x[i + 1] \in Nat /\ y[i + 1] \in Nat /\ q[i + 1].reach \in Nat
        <5>1. q[i + 1] \in SoundBlocks
          BY <1>1, <3>1
        <5>2. q[i + 1].reach \in Nat
          BY <5>1 DEF SoundBlocks, Blocks
        <5>3. i \in Nat /\ i + 1 \in Nat
          BY <1>1, <3>1
        <5>4. x[i] \in Nat /\ x[i + 1] \in Nat /\ y[i + 1] \in Nat
          BY <1>11, <5>3 DEF SpeedPlans
        <5> QED BY <5>2, <5>4
      <4>3. x[i + 1] <= y[i + 1]
        <5>1. CASE i + 1 = pos
          BY <1>9, <1>11, <1>14, <3>1, <5>1 DEF c
        <5>2. CASE i + 1 # pos
          <6>1. x[i + 1] = y[i + 1]
            BY <1>9, <1>11, <3>1, <5>2
          <6> QED BY <4>2, <6>1
        <5> QED BY <5>1, <5>2
      <4>4. CanEnter(q[i + 1], y[i], y[i + 1])
        BY <3>4, <4>1, <4>2, <4>3 DEF CanEnter
      <4> QED BY <2>4, <2>1, <3>2, <3>3, <3>4, <4>1, <4>4
    <3> QED BY <3>5, <3>6
  <2> QED BY <2>3, <2>4
<1>17. ASSUME NEW i \in 1 .. Len(q) PROVE Cached(q', i) /\ SlowsWithin(q'[i])
  <2>1. Cached(q, i) /\ SlowsWithin(q[i])
    BY DEF Paced, Braking
  <2>2. CASE i = pos
    <3>1. q'[i] = b /\ (Joined(q', i) => Alike(q'[i + 1], n) /\ i + 1 \in 1 .. Len(q))
      BY <1>1, <1>9, <2>2 DEF Joined, n
    <3>2. SlowsWithin(b)
      BY <1>1, <1>8 DEF SlowsWithin, Alike
    <3>3. Joined(q', i) => Corner(b, q'[i + 1]) = Corner(c, n)
      BY <1>8, <3>1, CornerAlike
    <3>4. Positional(b) <=> Positional(c)
      BY <1>8 DEF Alike, Positional
    <3>5. Positional(c) /\ ~b.maxValid => b.exit = 0
      BY <1>8
    <3> QED BY <1>8, <1>15, <2>2, <3>1, <3>2, <3>3, <3>4, <3>5 DEF Cached
  <2>3. CASE i # pos
    <3>1. q'[i] = q[i]
      BY <1>9, <2>3
    <3>2. Joined(q, i) => Corner(q'[i], q'[i + 1]) = Corner(q[i], q[i + 1])
      <4>1. Joined(q, i) => i + 1 \in 1 .. Len(q)
        BY <1>1 DEF Joined
      <4> QED BY <1>9, <4>1, CornerAlike
    <3> QED BY <1>15, <2>1, <3>1, <3>2 DEF Cached
  <2> QED BY <2>2, <2>3
<1>18. ~(gone = Len(q)) =>
         \E r \in SpeedPlans : Reachable(q', r) /\ Enters(q'[gone + 1], lastExit, r[gone + 1])
  <2> SUFFICES ASSUME gone # Len(q)
               PROVE  \E r \in SpeedPlans :
                        Reachable(q', r) /\ Enters(q'[gone + 1], lastExit, r[gone + 1])
    OBVIOUS
  <2>1. PICK r \in SpeedPlans : Reachable(q, r) /\ Enters(q[gone + 1], lastExit, r[gone + 1])
    BY DEF Paced, Braking
  <2>2. gone + 1 \in 1 .. Len(q)
    BY <1>1
  <2>3. Enters(q'[gone + 1], lastExit, r[gone + 1])
    BY <1>9, <2>1, <2>2, EnterAlike DEF Enters, Alike, Positional
  <2> QED BY <1>10, <2>1, <2>3
<1>19. PICK r0 \in SpeedPlans : Reachable(q, r0) /\ Enters(q[1], entry0, r0[1])
  BY <1>2 DEF Paced, Braking
<1>20. Reachable(q', r0) /\ Enters(q'[1], entry0, r0[1])
  <2>1. Alike(q'[1], q[1])
    BY <1>1, <1>9
  <2> QED BY <1>10, <1>19, <2>1, EnterAlike DEF Enters, Alike, Positional
<1>21. ASSUME pc' = "reverse", NEW r \in SpeedPlans, Reachable(q', r),
              NEW i \in pos' + 1 .. Len(q'), Positional(q'[i])
       PROVE  r[i] <= q'[i].exit
  <2>1. Reachable(q, r) /\ i \in pos .. Len(q) /\ i \in 1 .. Len(q)
    BY <1>1, <1>2, <1>9, <1>10, <1>21
  <2>2. CASE i = pos
    BY <1>9, <1>13, <1>15, <1>21, <2>1, <2>2 DEF c
  <2>3. CASE i # pos
    <3>1. i \in pos + 1 .. Len(q) /\ q'[i] = q[i]
      BY <1>1, <1>9, <2>1, <2>3
    <3> QED BY <1>2, <1>21, <2>1, <3>1 DEF Paced, Braking
  <2> QED BY <2>2, <2>3
<1>22. pc' = "forward" => Enters(q'[1], entry0', q'[1].exit)
  <2> SUFFICES ASSUME pc' = "forward", Positional(q'[1]) PROVE CanEnter(q'[1], entry0, q'[1].exit)
    BY <1>2 DEF Enters
  <2>1. pos = 1 /\ q'[1] = b /\ Positional(c)
    BY <1>1, <1>2, <1>9, <1>15 DEF c
  <2>2. r0[1] <= b.exit
    BY <1>13, <1>19, <2>1
  <2>3. CanEnter(b, entry0, r0[1])
    BY <1>20, <2>1 DEF Enters
  <2>4. /\ r0[1] \in Nat /\ b.exit \in Nat /\ b.reach \in Nat /\ entry0 \in Nat
    BY <1>8 DEF SpeedPlans, SoundBlocks, Blocks, LIInv, Types
  <2> QED BY <2>1, <2>2, <2>3, <2>4 DEF CanEnter
<1>23. SlowsWithin(run) /\ (gone = Len(q) => lastExit = 0)
  BY DEF Paced, Braking
<1>24. Braking'
  BY <1>2, <1>9, <1>16, <1>17, <1>18, <1>20, <1>21, <1>22, <1>23 DEF Braking, y
<1>25. Counts'
  BY <1>2, <1>9 DEF Paced, Counts
<1> QED BY <1>24, <1>25 DEF Paced

LEMMA ForwardPaced == ASSUME LIInv, Paced, ForwardStep PROVE Paced'
<1> DEFINE c == q[pos]
           u == EntrySpeed(pos)
           f == Forward(u, c)
           b == IF c.kind # "Positional" THEN c ELSE Profiled(u, f)
           x == Exits(q)
           y == Exits(q')
<1>1. /\ q \in Seq(SoundBlocks) /\ Len(q) \in Nat /\ gone \in Nat /\ gone <= Len(q)
      /\ pos \in 1 .. Len(q) /\ c \in SoundBlocks /\ c.exit \in Nat
      /\ Cached(q, pos) /\ SlowsWithin(c) /\ pc = "forward"
  <2>1. /\ q \in Seq(SoundBlocks) /\ Len(q) \in Nat /\ gone \in Nat /\ gone <= Len(q)
        /\ pos \in 1 .. Len(q) /\ c \in SoundBlocks
        /\ Cached(q, pos) /\ SlowsWithin(c) /\ pc = "forward"
    BY DEF ForwardStep, LIInv, Types, Paced, Braking
  <2> QED BY <2>1 DEF SoundBlocks, Blocks
<1>2. /\ q' = [q EXCEPT ![pos] = b]
      /\ UNCHANGED <<gone, committed, lastExit, run, speed, trouble>>
      /\ \/ pc' = "commit" /\ pos' = 0
         \/ pc' = "forward" /\ pos' = pos + 1
  BY <1>1 DEF ForwardStep, PassOver, stepperVars
<1>3. /\ x \in SpeedPlans /\ \A i \in 1 .. Len(q) : x[i] = q[i].exit
  BY <1>1, ExitsPlan
<1> HIDE DEF x
<1>4. Reachable(q, x)
  BY DEF Paced, Braking, x
\* The entry speed is one the block can brake from.
<1>5. u \in Nat /\ Even(u) /\ Enters(c, u, c.exit)
  <2>1. CASE pos = 1
    BY <1>1, <2>1 DEF EntrySpeed, LIInv, Types, Paced, Braking
  <2>2. CASE pos # 1 /\ ~Positional(q[pos - 1])
    <3>1. u = 0
      BY <1>1, <2>2 DEF EntrySpeed, Positional
    <3>2. c.reach \in Nat
      BY <1>1 DEF SoundBlocks, Blocks
    <3> HIDE DEF u, c
    <3> QED BY <1>1, <3>1, <3>2, EvenZero DEF Enters, CanEnter
  <2>3. CASE pos # 1 /\ Positional(q[pos - 1])
    <3> DEFINE k == pos - 1
    <3>1. k \in 1 .. Len(q) /\ k + 1 = pos /\ q[k] \in SoundBlocks
      BY <1>1, <2>3
    <3>2. u = q[k].exit
      BY <1>1, <2>3 DEF EntrySpeed, Positional
    <3>3. Positional(c) => Joined(q, k)
      BY <1>1, <3>1 DEF Joined
    <3>4. Positional(c) => CanEnter(c, x[k], x[pos])
      BY <1>4, <2>3, <3>1, <3>3 DEF Reachable
    <3>5. x[k] = u /\ x[pos] = c.exit
      BY <1>1, <1>3, <3>1, <3>2
    <3> QED BY <3>1, <3>2, <3>4, <3>5 DEF Enters, SoundBlocks, Blocks, Sound
  <2> QED BY <2>1, <2>2, <2>3
<1>6. Positional(c) => c.exit <= c.nominal /\ (~c.maxValid => c.exit = 0)
  <2> SUFFICES ASSUME Positional(c) PROVE c.exit <= c.nominal
    BY <1>1 DEF Cached
  <2>1. c.nominal \in Nat
    BY <1>1 DEF SoundBlocks, Blocks
  <2>2. CASE Joined(q, pos)
    <3>1. q[pos + 1] \in SoundBlocks
      BY <1>1, <2>2 DEF Joined
    <3>2. x[pos] <= Corner(c, q[pos + 1]) /\ x[pos] = c.exit
      BY <1>1, <1>3, <1>4, <2>2 DEF Reachable
    <3>3. Corner(c, q[pos + 1]) \in Nat /\ Corner(c, q[pos + 1]) <= c.nominal
      BY <1>1, <3>1, CornerBounds
    <3> HIDE DEF c
    <3> QED BY <1>1, <2>1, <3>2, <3>3
  <2>3. CASE ~Joined(q, pos)
    <3>1. c.exit = 0
      BY <1>1, <1>3, <1>4, <2>3 DEF Reachable
    <3> HIDE DEF c
    <3> QED BY <2>1, <3>1
  <2> QED BY <2>2, <2>3
<1> HIDE DEF u
<1>7. /\ f \in SoundBlocks /\ Alike(f, c) /\ f.exit <= c.exit
      /\ f.maxExit = c.maxExit /\ f.maxValid = c.maxValid
  BY <1>1, <1>5, ForwardBlock
<1>8. Positional(c) =>
        /\ CanEnter(f, u, f.exit) /\ f.exit <= f.nominal
        /\ NominalLength(f) \/ f.exit <= u + f.reach
  BY <1>1, <1>5, <1>6, ForwardSpeeds DEF Enters
<1>9. SlowsWithin(f)
  BY <1>1, <1>7 DEF SlowsWithin, Alike, Forward, SoundBlocks, Blocks
<1> HIDE DEF f
<1>10. /\ b \in SoundBlocks /\ Alike(b, c) /\ b.exit \in Nat /\ b.exit <= c.exit
       /\ b.maxExit = c.maxExit /\ b.maxValid = c.maxValid
       /\ Enters(b, u, b.exit) /\ SlowsWithin(b)
  <2>1. CASE ~Positional(c)
    <3>1. b = c
      BY <2>1 DEF Positional
    <3> HIDE DEF b, c
    <3> QED BY <1>1, <2>1, <3>1 DEF Alike, Enters
  <2>2. CASE Positional(c)
    <3>1. b = Profiled(u, f)
      BY <2>2 DEF Positional
    <3> HIDE DEF b, c
    <3>2. /\ b \in SoundBlocks /\ Alike(b, f) /\ b.exit = f.exit
          /\ b.maxExit = f.maxExit /\ b.maxValid = f.maxValid
      BY <1>5, <1>7, <3>1, ProfiledBlock
    <3>3. Trapezoid(u, f) \in 0 .. f.reach
      BY <1>5, <1>7, <1>8, <2>2, TrapezoidWithin
    <3>4. b.after = f.after \/ b.after = Trapezoid(u, f)
      BY <1>7, <3>1 DEF Profiled, SoundBlocks, Blocks
    <3>5. SlowsWithin(b)
      BY <1>9, <3>2, <3>3, <3>4 DEF SlowsWithin, Alike, NotProfiled
    <3>6. CanEnter(b, u, b.exit)
      BY <1>8, <2>2, <3>2, EnterAlike
    <3>7. b.exit \in Nat
      BY <3>2 DEF SoundBlocks, Blocks
    <3> QED BY <1>7, <3>2, <3>5, <3>6, <3>7 DEF Alike, Enters
  <2> QED BY <2>1, <2>2
<1> HIDE DEF b
<1>11. /\ q' \in Seq(SoundBlocks) /\ Len(q') = Len(q) /\ q'[pos] = b
       /\ \A i \in 1 .. Len(q) : i # pos => q'[i] = q[i]
       /\ \A i \in 1 .. Len(q) : Alike(q'[i], q[i])
  <2>1. /\ q' \in Seq(SoundBlocks) /\ Len(q') = Len(q) /\ q'[pos] = b
        /\ \A i \in 1 .. Len(q) : i # pos => q'[i] = q[i]
    BY <1>1, <1>2, <1>10
  <2> QED BY <1>10, <2>1 DEF Alike
<1>12. y \in SpeedPlans /\ \A i \in 1 .. Len(q) : y[i] = q'[i].exit
  BY <1>11, ExitsPlan
<1> HIDE DEF y
<1>13. ASSUME NEW i \in 1 .. Len(q)
       PROVE  (Joined(q', i) <=> Joined(q, i)) /\ (Positional(q'[i]) <=> Positional(q[i]))
  <2>1. i < Len(q) => Alike(q'[i + 1], q[i + 1])
    BY <1>1, <1>11
  <2> QED BY <1>11, <2>1 DEF Joined, Alike, Positional
<1>14. Reachable(q', y)
  <2> SUFFICES ASSUME NEW i \in 1 .. Len(q), Positional(q'[i])
               PROVE  IF Joined(q', i)
                        THEN /\ y[i] <= Corner(q'[i], q'[i + 1])
                             /\ CanEnter(q'[i + 1], y[i], y[i + 1])
                        ELSE y[i] = 0
    BY <1>11 DEF Reachable
  <2>1. Positional(q[i]) /\ (Joined(q', i) <=> Joined(q, i))
    BY <1>13
  <2>2. x[i] \in Nat /\ y[i] \in Nat /\ y[i] <= x[i]
    <3>1. x[i] \in Nat /\ y[i] \in Nat
      BY <1>3, <1>12 DEF SpeedPlans
    <3>2. i = pos => y[i] = b.exit /\ x[i] = c.exit
      BY <1>3, <1>11, <1>12
    <3>3. i # pos => y[i] = x[i]
      BY <1>3, <1>11, <1>12
    <3> HIDE DEF c
    <3> QED BY <1>1, <1>10, <3>1, <3>2, <3>3
  <2>3. CASE ~Joined(q, i)
    BY <1>4, <2>1, <2>2, <2>3 DEF Reachable
  <2>4. CASE Joined(q, i)
    <3>1. i + 1 \in 1 .. Len(q) /\ Positional(q[i + 1]) /\ q[i + 1] \in SoundBlocks
          /\ q[i] \in SoundBlocks
      BY <1>1, <2>4 DEF Joined
    <3>2. Corner(q'[i], q'[i + 1]) = Corner(q[i], q[i + 1])
      BY <1>11, <3>1, CornerAlike
    <3>3. CanEnter(q'[i + 1], y[i], y[i + 1]) <=> CanEnter(q[i + 1], y[i], y[i + 1])
      BY <1>11, <3>1, EnterAlike
    <3>4. x[i] <= Corner(q[i], q[i + 1]) /\ CanEnter(q[i + 1], x[i], x[i + 1])
      BY <1>4, <2>1, <2>4 DEF Reachable
    <3>5. Corner(q[i], q[i + 1]) \in Nat /\ q[i + 1].reach \in Nat
      BY <3>1, CornerBounds DEF SoundBlocks, Blocks
    <3>6. y[i] <= Corner(q[i], q[i + 1])
      BY <2>2, <3>4, <3>5
    <3>7. CanEnter(q[i + 1], y[i], y[i + 1])
      <4>1. CASE i + 1 # pos
        <5>1. y[i + 1] = x[i + 1]
          BY <1>3, <1>11, <1>12, <3>1, <4>1
        <5>2. x[i + 1] \in Nat
          <6>1. i + 1 \in Nat
            BY <1>1
          <6> QED BY <1>3, <6>1 DEF SpeedPlans
        <5> QED BY <2>2, <3>4, <3>5, <5>1, <5>2 DEF CanEnter
      <4>2. CASE i + 1 = pos
        <5>1. y[i] = q[i].exit /\ y[i + 1] = b.exit
          BY <1>1, <1>11, <1>12, <3>1, <4>2
        <5>2. u = q[i].exit
          BY <1>1, <2>1, <4>2 DEF EntrySpeed, Positional, u
        <5>3. Positional(c) /\ CanEnter(b, u, b.exit)
          BY <1>10, <3>1, <4>2 DEF Enters, Alike, Positional
        <5>4. CanEnter(c, u, b.exit)
          BY <1>10, <5>3, EnterAlike
        <5> QED BY <4>2, <5>1, <5>2, <5>4
      <4> QED BY <4>1, <4>2
    <3> QED BY <2>1, <2>4, <3>2, <3>3, <3>6, <3>7
  <2> QED BY <2>3, <2>4
<1>15. ASSUME NEW i \in 1 .. Len(q) PROVE Cached(q', i) /\ SlowsWithin(q'[i])
  <2>1. Cached(q, i) /\ SlowsWithin(q[i])
    BY DEF Paced, Braking
  <2>2. Joined(q, i) => Corner(q'[i], q'[i + 1]) = Corner(q[i], q[i + 1])
    <3>1. Joined(q, i) => i + 1 \in 1 .. Len(q)
      BY <1>1 DEF Joined
    <3> QED BY <1>11, <3>1, CornerAlike
  <2>3. /\ q'[i].maxValid = q[i].maxValid /\ q'[i].maxExit = q[i].maxExit
        /\ SlowsWithin(q'[i])
    BY <1>10, <1>11, <2>1
  <2>4. q[i].exit = 0 => q'[i].exit = 0
    <3>1. CASE i = pos
      <4>1. q'[i] = b /\ q[i] = c
        BY <1>11, <3>1
      <4> HIDE DEF c
      <4> QED BY <1>1, <1>10, <4>1
    <3>2. CASE i # pos
      BY <1>11, <3>2
    <3> QED BY <3>1, <3>2
  <2> QED BY <1>13, <2>1, <2>2, <2>3, <2>4 DEF Cached
<1>16. ~(gone = Len(q)) =>
         \E r \in SpeedPlans : Reachable(q', r) /\ Enters(q'[gone + 1], lastExit, r[gone + 1])
  <2> SUFFICES ASSUME gone # Len(q)
               PROVE  \E r \in SpeedPlans :
                        Reachable(q', r) /\ Enters(q'[gone + 1], lastExit, r[gone + 1])
    OBVIOUS
  <2>1. PICK r \in SpeedPlans : Reachable(q, r) /\ Enters(q[gone + 1], lastExit, r[gone + 1])
    BY DEF Paced, Braking
  <2>2. gone + 1 \in 1 .. Len(q)
    BY <1>1
  <2>3. Enters(q'[gone + 1], lastExit, r[gone + 1])
    BY <1>11, <2>1, <2>2, EnterAlike DEF Enters, Alike, Positional
  <2>4. Reachable(q', r)
    BY <1>1, <1>11, <2>1, ReachableAlike
  <2> QED BY <2>3, <2>4
<1>17. SlowsWithin(run) /\ (gone = Len(q) => lastExit = 0)
  BY DEF Paced, Braking
<1>18. Braking'
  <2>1. ~(pc' = "reverse") /\ ~(pc' = "forward" /\ pos' = 1)
    BY <1>1, <1>2
  <2> QED BY <1>2, <1>11, <1>14, <1>15, <1>16, <1>17, <2>1 DEF Braking, y
<1>19. Counts'
  BY <1>2, <1>11 DEF Paced, Counts
<1> QED BY <1>18, <1>19 DEF Paced

LEMMA CommitPaced == ASSUME LIInv, Paced, Commit PROVE Paced'
<1>1. /\ q \in Seq(SoundBlocks) /\ Len(q) \in Nat /\ gone \in 0 .. Len(q)
      /\ pc = "commit" /\ pos = 0
  BY DEF Commit, LIInv, Types, Paced, Counts
<1>2. /\ q' = SubSeq(q, gone + 1, Len(q)) /\ gone' = 0
      /\ UNCHANGED <<lastExit, run, speed, trouble>>
  BY DEF Commit, stepperVars
<1>3. \/ pc' \in {"idle", "add"} /\ pos' = pos
      \/ StartPass /\ lastExit' = lastExit
  BY <1>2 DEF Commit
<1>4. /\ q' \in Seq(SoundBlocks) /\ Len(q') = Len(q) - gone
      /\ \A i \in 1 .. Len(q') : q'[i] = q[i + gone]
  BY <1>1, <1>2, Dropped
<1>5. /\ Exits(q) \in SpeedPlans /\ \A i \in 1 .. Len(q) : Exits(q)[i] = q[i].exit
      /\ Exits(q') \in SpeedPlans /\ \A i \in 1 .. Len(q') : Exits(q')[i] = q'[i].exit
  BY <1>1, <1>4, ExitsPlan
<1>6. Reachable(q', Exits(q'))
  <2>1. \A i \in 1 .. Len(q') : Exits(q')[i] = Exits(q)[i + gone]
    BY <1>1, <1>4, <1>5
  <2>2. Reachable(q, Exits(q))
    BY DEF Paced, Braking
  <2> QED BY <1>1, <1>2, <1>5, <2>1, <2>2, ReachableLess
<1>7. ASSUME NEW i \in 1 .. Len(q') PROVE Cached(q', i) /\ SlowsWithin(q'[i])
  <2>1. i + gone \in 1 .. Len(q) /\ q'[i] = q[i + gone]
    BY <1>1, <1>4
  <2>2. Cached(q, i + gone) /\ SlowsWithin(q[i + gone])
    BY <2>1 DEF Paced, Braking
  <2>3. Joined(q, i + gone) => Joined(q', i) /\ q'[i + 1] = q[(i + gone) + 1]
    BY <1>1, <1>4 DEF Joined
  <2> QED BY <2>1, <2>2, <2>3 DEF Cached
<1>8. IF 0 = Len(q') THEN lastExit' = 0
      ELSE \E r \in SpeedPlans : Reachable(q', r) /\ Enters(q'[1], lastExit', r[1])
  <2>1. CASE Len(q) = gone
    BY <1>1, <1>2, <1>4, <2>1 DEF Paced, Braking
  <2>2. CASE Len(q) # gone
    <3>1. PICK r \in SpeedPlans :
            Reachable(q, r) /\ Enters(q[gone + 1], lastExit, r[gone + 1])
      BY <2>2 DEF Paced, Braking
    <3> DEFINE x == [i \in Nat |-> r[i + gone]]
    <3>2. x \in SpeedPlans /\ \A i \in Nat : x[i] = r[i + gone]
      BY <1>1 DEF SpeedPlans
    <3> HIDE DEF x
    <3>3. \A i \in 1 .. Len(q') : x[i] = r[i + gone]
      BY <1>4, <3>2
    <3>4. Reachable(q', x)
      BY <1>1, <1>2, <3>1, <3>2, <3>3, ReachableLess
    <3>5. 1 \in 1 .. Len(q') /\ 1 + gone = gone + 1 /\ Len(q') # 0
      BY <1>1, <1>4, <2>2
    <3>6. q'[1] = q[gone + 1] /\ x[1] = r[gone + 1]
      BY <1>4, <3>2, <3>5
    <3> QED BY <1>2, <3>1, <3>2, <3>4, <3>5, <3>6
  <2> QED BY <2>1, <2>2
<1>9. SlowsWithin(run')
  BY <1>2 DEF Paced, Braking
<1>10. Braking'
  BY <1>2, <1>3, <1>4, <1>6, <1>7, <1>8, <1>9, BetweenPasses
<1>11. Counts'
  <2>1. Len(q') <= Capacity
    BY <1>1, <1>4, CapacityAssumption DEF Paced, Counts
  <2>2. pc' \notin {"reverse", "forward"} => pos' = 0
    BY <1>1, <1>3, <1>4 DEF StartPass
  <2> QED BY <1>2, <2>1, <2>2 DEF Paced, Counts
<1> QED BY <1>10, <1>11 DEF Paced

LEMMA FetchPaced == ASSUME LIInv, Paced, Fetch PROVE Paced'
<1> DEFINE b == q[gone + 1]
<1>1. /\ q \in Seq(SoundBlocks) /\ Len(q) \in Nat /\ gone \in Nat
      /\ gone + 1 \in 1 .. Len(q)
  BY DEF Fetch, LIInv, Types
<1>2. b \in SoundBlocks /\ SlowsWithin(b) /\ b.exit \in Nat
  <2>1. b \in SoundBlocks /\ SlowsWithin(b)
    BY <1>1 DEF Paced, Braking
  <2> QED BY <2>1 DEF SoundBlocks, Blocks
<1>3. /\ lastExit' = IF b.kind = "Positional" THEN b.exit ELSE 0
      /\ run' = Ended(run) \/ run' = b
      /\ speed' \in {0} \cup Magnitudes \/ speed' \in {0} \/ speed' \in {speed}
      /\ UNCHANGED <<pc, pos, entry0>>
      /\ \/ InPass /\ gone' = gone + 1 /\ q' = q
         \/ ~InPass /\ q' = Tail(q) /\ gone' = gone
  BY DEF Fetch, plannerVars
<1>4. SlowsWithin(run')
  <2>1. run.dir \in Int
    BY DEF LIInv, Types, SoundBlocks, Blocks
  <2>2. SlowsWithin(Ended(run))
    BY DEF Ended, Block, NoMove, SlowsWithin, NotProfiled
  <2> QED BY <1>2, <1>3, <2>2
<1>5. speed' \in Nat
  <2>1. \A v \in Magnitudes : v \in Nat
    BY MovesAssumption DEF Magnitudes
  <2>2. speed \in Nat
    BY DEF Paced, Counts
  <2> QED BY <1>3, <2>1, <2>2
<1>6. trouble' \subseteq {"torn", "skipped", "aliased", "overspeed"}
  BY DEF Fetch, Paced, Counts
<1> DEFINE x == Exits(q)
<1>7. x \in SpeedPlans /\ \A i \in 1 .. Len(q) : x[i] = q[i].exit
  BY <1>1, ExitsPlan
<1> HIDE DEF x
<1>8. Reachable(q, x)
  BY DEF Paced, Braking, x
\* The plan of the slots themselves takes the block behind on from the new last exit.
<1>9. IF gone + 1 = Len(q) THEN lastExit' = 0
      ELSE gone + 2 \in 1 .. Len(q) /\ Enters(q[gone + 2], lastExit', x[gone + 2])
  <2>1. Positional(b) /\ ~Joined(q, gone + 1) => b.exit = 0
    BY <1>1, <1>7, <1>8 DEF Reachable
  <2>2. CASE gone + 1 = Len(q)
    BY <1>1, <1>3, <2>1, <2>2 DEF Joined, Positional
  <2>3. CASE gone + 1 # Len(q)
    <3>1. gone + 2 \in 1 .. Len(q) /\ (gone + 1) + 1 = gone + 2 /\ gone + 2 \in Nat
          /\ gone + 1 < Len(q)
      BY <1>1, <2>3
    <3>2. x[gone + 2] \in Nat /\ q[gone + 2] \in SoundBlocks
      BY <1>1, <1>7, <3>1 DEF SpeedPlans
    <3>3. q[gone + 2].reach \in Nat
      BY <3>2 DEF SoundBlocks, Blocks
    <3>4. CASE ~Positional(b)
      <4>1. lastExit' = 0
        BY <1>3, <3>4 DEF Positional
      <4> QED BY <2>3, <3>1, <3>2, <3>3, <4>1 DEF Enters, CanEnter
    <3>5. CASE Positional(b)
      <4>1. lastExit' = b.exit /\ x[gone + 1] = b.exit
        BY <1>1, <1>3, <1>7, <3>5 DEF Positional
      <4>2. Positional(q[gone + 2]) => CanEnter(q[gone + 2], x[gone + 1], x[gone + 2])
        BY <1>1, <1>8, <3>1, <3>5 DEF Reachable, Joined
      <4> HIDE DEF b
      <4> QED BY <2>3, <3>1, <4>1, <4>2 DEF Enters
    <3> QED BY <3>4, <3>5
  <2> QED BY <2>2, <2>3
<1> HIDE DEF b
<1>10. CASE InPass /\ gone' = gone + 1 /\ q' = q
  <2>1. IF gone' = Len(q') THEN lastExit' = 0
        ELSE \E r \in SpeedPlans :
               Reachable(q', r) /\ Enters(q'[gone' + 1], lastExit', r[gone' + 1])
    <3>1. gone' + 1 = gone + 2
      BY <1>1, <1>10
    <3> QED BY <1>7, <1>8, <1>9, <1>10, <3>1
  <2>2. Exits(q') = Exits(q) /\ (Reachable(q', Exits(q')) <=> Reachable(q, Exits(q)))
    BY <1>10
  <2>3. /\ Reachable(q', Exits(q'))
        /\ \A i \in 1 .. Len(q') : Cached(q', i) /\ SlowsWithin(q'[i])
    BY <1>10, <2>2 DEF Paced, Braking, Cached, Joined
  <2>4. Braking'
    BY <1>3, <1>4, <1>10, <2>1, <2>3 DEF Paced, Braking
  <2>5. Counts'
    BY <1>3, <1>5, <1>6, <1>10 DEF Paced, Counts
  <2> QED BY <2>4, <2>5 DEF Paced
<1>11. CASE ~InPass /\ q' = Tail(q) /\ gone' = gone
  <2>1. gone = 0 /\ pc \in {"idle", "add"}
    BY <1>11 DEF LIInv, Types, InPass
  <2>2. q' = SubSeq(q, 1 + 1, Len(q)) /\ 1 \in 0 .. Len(q)
    BY <1>1, <1>11, <2>1
  <2>3. /\ q' \in Seq(SoundBlocks) /\ Len(q') = Len(q) - 1
        /\ \A i \in 1 .. Len(q') : q'[i] = q[i + 1]
    BY <2>2, Dropped
  <2>4. Exits(q') \in SpeedPlans /\ \A i \in 1 .. Len(q') : Exits(q')[i] = q'[i].exit
    BY <2>3, ExitsPlan
  <2>5. Reachable(q', Exits(q'))
    <3>1. \A i \in 1 .. Len(q') : Exits(q')[i] = x[i + 1]
      BY <1>1, <1>7, <2>3, <2>4
    <3> QED BY <1>7, <1>8, <2>2, <2>4, <3>1, ReachableLess
  <2>6. ASSUME NEW i \in 1 .. Len(q') PROVE Cached(q', i) /\ SlowsWithin(q'[i])
    <3>1. i + 1 \in 1 .. Len(q) /\ q'[i] = q[i + 1]
      BY <1>1, <2>3
    <3>2. Cached(q, i + 1) /\ SlowsWithin(q[i + 1])
      BY <3>1 DEF Paced, Braking
    <3>3. Joined(q, i + 1) => Joined(q', i) /\ q'[i + 1] = q[(i + 1) + 1]
      BY <1>1, <2>3 DEF Joined
    <3> QED BY <3>1, <3>2, <3>3 DEF Cached
  <2>7. IF 0 = Len(q') THEN lastExit' = 0
        ELSE \E r \in SpeedPlans : Reachable(q', r) /\ Enters(q'[1], lastExit', r[1])
    <3>1. CASE Len(q) = 1
      BY <1>1, <1>9, <2>1, <2>3, <3>1
    <3>2. CASE Len(q) # 1
      <4>1. 1 \in 1 .. Len(q') /\ Len(q') # 0 /\ 2 \in 1 .. Len(q)
        BY <1>1, <2>3, <3>2
      <4>2. q'[1] = q[2] /\ Exits(q')[1] = x[2]
        BY <1>7, <2>3, <2>4, <4>1
      <4>3. gone + 1 # Len(q) /\ gone + 2 = 2
        BY <2>1, <3>2
      <4>4. Enters(q[2], lastExit', x[2])
        BY <1>9, <4>3
      <4> QED BY <2>4, <2>5, <4>1, <4>2, <4>4
    <3> QED BY <3>1, <3>2
  <2>8. Braking'
    BY <1>3, <1>4, <1>11, <2>1, <2>3, <2>5, <2>6, <2>7, BetweenPasses
  <2>9. Len(q') <= Capacity
    BY <1>1, <2>3, CapacityAssumption DEF Paced, Counts
  <2>10. Counts'
    BY <1>3, <1>5, <1>6, <2>9 DEF Paced, Counts
  <2> QED BY <2>8, <2>10 DEF Paced
<1> QED BY <1>3, <1>10, <1>11

LEMMA FinishPaced == ASSUME LIInv, Paced, Finish PROVE Paced'
<1>1. /\ run' = Ended(run)
      /\ UNCHANGED <<q, gone, committed, lastExit, pc, pos, entry0, trouble>>
  BY DEF Finish, queueVars, plannerVars
<1>2. SlowsWithin(run')
  BY <1>1 DEF Ended, Block, NoMove, SlowsWithin, NotProfiled
<1>3. speed' \in Nat
  <2>1. /\ speed \in Nat /\ run.exit \in Nat /\ run.reach \in Nat /\ run.nominal \in Nat
        /\ SlowsWithin(run)
    BY DEF LIInv, Types, SoundBlocks, Blocks, Paced, Braking, Counts
  <2>2. \A a \in SlowsAt(run) : a \in Nat
    BY <2>1 DEF SlowsAt, SlowsWithin, NotProfiled
  <2>3. \A a \in Nat : EndSpeed(speed, run, a) \in Nat
    BY <2>1 DEF EndSpeed, Least, Greatest
  <2> QED BY <2>2, <2>3 DEF Finish
<1>4. Braking'
  BY <1>1, <1>2 DEF Paced, Braking, Reachable, Exits, Cached, Joined
<1>5. Counts'
  BY <1>1, <1>3 DEF Paced, Counts
<1> QED BY <1>4, <1>5 DEF Paced

LEMMA PacedNext == ASSUME LIInv, Paced, [Next]_vars PROVE Paced'
<1>1. CASE \E m \in Moves, k \in SegmentCounts : BeginMove(m, k)
  BY <1>1, BeginPaced
<1>2. CASE AddSegment
  BY <1>2, AddPaced
<1>3. CASE EmptyMove
  BY <1>3, EmptyPaced
<1>4. CASE ReverseStep
  BY <1>4, ReversePaced
<1>5. CASE ForwardStep
  BY <1>5, ForwardPaced
<1>6. CASE Commit
  BY <1>6, CommitPaced
<1>7. CASE \E kind \in {"Velocity", "Reset"} : AddOther(kind)
  BY <1>7, OtherPaced
<1>8. CASE Fetch
  BY <1>8, FetchPaced
<1>9. CASE Finish
  BY <1>9, FinishPaced
<1>10. CASE UNCHANGED vars
  BY <1>10 DEF vars, queueVars, plannerVars, stepperVars,
    Paced, Braking, Counts, Reachable, Exits, Cached, Joined
<1> QED BY <1>1, <1>2, <1>3, <1>4, <1>5, <1>6, <1>7, <1>8, <1>9, <1>10 DEF Next, Plan

LEMMA PacedInvariant == Spec => []Paced
<1>1. Init => LIInv /\ Paced
  BY InvInit, PacedInit
<1>2. LIInv /\ Paced /\ [Next]_vars => (LIInv /\ Paced)'
  BY InvNext, PacedNext
<1> QED BY <1>1, <1>2, PTL DEF Spec

\* Every variable keeps its type. In particular the point where a block slows down
\* is never negative (stepper.c takes it for an unsigned number of steps) and never
\* behind its end, and no speed is the root of a negative number.
THEOREM TypeCorrect == Spec => []TypeOK
<1>1. LIInv /\ Paced => TypeOK
  <2> SUFFICES ASSUME LIInv, Paced PROVE TypeOK
    OBVIOUS
  <2>1. ASSUME NEW b \in SoundBlocks, SlowsWithin(b) PROVE BlockOK(b)
    BY <2>1 DEF BlockOK, Speeds, SoundBlocks, Blocks, SlowsWithin
  <2>2. BlockOK(run)
    BY <2>1 DEF LIInv, Types, Paced, Braking
  <2>3. \A i \in 1 .. Len(q) : BlockOK(q[i])
    BY <2>1 DEF LIInv, Types, Paced, Braking
  <2>4. gone \in 0 .. Len(q) /\ committed \in 0 .. Len(q) - gone /\ pos \in 0 .. Len(q)
    BY DEF LIInv, Types, Paced, Counts
  <2> QED BY <2>2, <2>3, <2>4 DEF LIInv, Types, Paced, Counts, TypeOK, Speeds
<1> QED BY <1>1, Invariant, PacedInvariant, PTL

-----------------------------------------------------------------------------
(* The plan is kept.  The passes leave a block its trapezoid as long as the    *)
(* exit speed they find for it is the one that is cached, and never look at    *)
(* the speed it is entered with.  That this is right needs an invariant over   *)
(* a whole pass: the speeds of the committed blocks solve the two equations of *)
(* the passes (Back, Front), and a block whose profile the reverse pass does   *)
(* not touch fixes the solution of all blocks before it.                       *)

\* As fast as n can brake from to its exit speed e, and as the corner allows.
Brake(b, n, e) ==
  IF NominalLength(n) THEN Corner(b, n) ELSE Least(Corner(b, n), e + n.reach)

\* As fast as b gets from its entry speed u, r being allowed.
Reached(b, u, r) == IF NominalLength(b) \/ r <= u + b.reach THEN r ELSE u + b.reach

\* The speed block i is entered with if the blocks have exit speeds x and the
\* first one is entered with u.
EnterAt(s, x, u, i) ==
  CASE i = 1 -> u
    [] i > 1 /\ ~Positional(s[i - 1]) -> 0
    [] OTHER -> x[i - 1]

\* What the reverse pass over the first len blocks makes of block i ...
Back(s, len, r, i) ==
  Positional(s[i]) =>
    r[i] = IF i < len /\ Positional(s[i + 1]) THEN Brake(s[i], s[i + 1], r[i + 1]) ELSE 0

\* ... and what the forward pass makes of that.
Front(s, r, x, u, i) ==
  Positional(s[i]) => x[i] = Reached(s[i], EnterAt(s, x, u, i), r[i])

Solves(s, len, u, r, x) ==
  /\ \A i \in 1 .. len : Back(s, len, r, i) /\ Front(s, r, x, u, i)
  /\ len > 0 => Enters(s[1], u, r[1])

\* Block i has these exit speeds and the trapezoid that goes with them.
Current(s, x, u, i) ==
  Positional(s[i]) =>
    s[i].exit = x[i] /\ s[i].after = Trapezoid(EnterAt(s, x, u, i), s[i])

Fresh(b) == Positional(b) => ~b.profiled
Kept(b) == Positional(b) /\ b.profiled

\* The first len blocks of s have the speeds and the trapezoids of a solution.
Settled(s, len, u) ==
  \E r, x \in SpeedPlans :
    Solves(s, len, u, r, x) /\ \A i \in 1 .. len : Current(s, x, u, i)

\* The slots from p on, which the reverse pass has done: those that kept their
\* profile are committed and current, and the blocks before them, as far as they
\* are done, have got the speeds they had.
Reversed(p, r, x) ==
  \A i \in p .. Len(q) :
    /\ Back(q, Len(q), Exits(q), i)
    /\ Kept(q[i]) =>
         /\ i <= committed /\ Current(q, x, lastExit, i)
         /\ \A j \in p .. i : Positional(q[j]) => q[j].exit = r[j]

Reversing(r, x) ==
  /\ Solves(q, committed, lastExit, r, x)
  /\ \A i \in 1 .. pos : IF i <= committed THEN Current(q, x, lastExit, i) ELSE Fresh(q[i])
  /\ Reversed(pos + 1, r, x)

\* Up to block i the new solution s of the reverse pass is the old one.
Agree(r, s, i) == i <= committed /\ \A j \in 1 .. i : Positional(q[j]) => s[j] = r[j]

Forwarding(r, x, s) ==
  /\ Solves(q, committed, lastExit, r, x)
  /\ \A i \in 1 .. Len(q) : Back(q, Len(q), s, i)
  /\ Enters(q[1], lastExit, s[1])
  /\ \A i \in pos .. Len(q) :
       /\ Positional(q[i]) => q[i].exit = s[i]
       /\ Kept(q[i]) => Current(q, x, lastExit, i) /\ Agree(r, s, i)
  /\ \A i \in 1 .. pos - 1 :
       /\ Front(q, s, Exits(q), lastExit, i)
       /\ Current(q, Exits(q), lastExit, i)
       /\ Agree(r, s, i) /\ Positional(q[i]) => Exits(q)[i] = x[i]

Planned ==
  /\ gone = 0
  /\ committed = 0 => lastExit = 0
  /\ pc \in {"reverse", "forward"} => entry0 = lastExit
  /\ pc \in {"idle", "add"} =>
       Settled(q, committed, lastExit) /\ \A i \in committed + 1 .. Len(q) : Fresh(q[i])
  /\ pc = "reverse" => \E r, x \in SpeedPlans : Reversing(r, x)
  /\ pc = "forward" => \E r, x, s \in SpeedPlans : Forwarding(r, x, s)
  /\ pc = "commit" => Settled(q, Len(q), lastExit)

\* The block that runs has been entered as planned; the next one will be.
Running ==
  IF Positional(run)
    THEN /\ lastExit = run.exit
         /\ run.after = Trapezoid(speed, run)
         /\ Even(speed) /\ speed <= run.nominal /\ run.exit <= run.nominal
         /\ NominalLength(run) \/ (speed <= run.exit + run.reach /\ run.exit <= speed + run.reach)
    ELSE speed = lastExit /\ (run.kind = "Velocity" => speed = 0)

\* The speed the next block will be entered with keeps to the corner.
NextCorner == IF Len(q) = gone THEN lastExit = 0 ELSE Limit(run, q[gone + 1], lastExit)

Smooth == NextCorner /\ (trouble = {} => Planned /\ Running)

-----------------------------------------------------------------------------
(* The kernels *)

LEMMA BackwardKeeps ==
  ASSUME NEW b \in SoundBlocks, NEW n \in SoundBlocks,
         b.maxValid => b.maxExit = Corner(b, n),
         b.exit <= Corner(b, n), CanEnter(n, b.exit, n.exit)
  PROVE  LET c == Backward(b, n)
         IN  /\ c.exit = Brake(b, n, n.exit)
             /\ c.profiled => b.profiled /\ c.exit = b.exit /\ b.exit = Corner(b, n)
<1> DEFINE m == Corner(b, n)
           c == WithMaxExit(b, n)
           x == Brake(b, n, n.exit)
           d == [c EXCEPT !.profiled = FALSE, !.exit = x]
<1>1. m \in Nat /\ n.exit \in Nat /\ n.reach \in Nat /\ b.exit \in Nat
  BY CornerBounds DEF SoundBlocks, Blocks
<1>2. /\ c.maxExit = m /\ c.exit = b.exit /\ c.profiled = b.profiled
      /\ d.exit = x /\ d.profiled = FALSE
  BY DEF WithMaxExit, SoundBlocks, Blocks
<1>3. Backward(b, n) = IF c.exit = m THEN c ELSE d
  BY <1>2 DEF Backward, Brake
<1>4. b.exit = m => x = m
  BY <1>1 DEF Brake, CanEnter, Least
<1> HIDE DEF m, c, d, x
<1>5. CASE c.exit = m
  BY <1>2, <1>3, <1>4, <1>5 DEF m, x
<1>6. CASE c.exit # m
  BY <1>2, <1>3, <1>6 DEF x
<1> QED BY <1>5, <1>6

LEMMA ForwardKeeps ==
  ASSUME NEW b \in SoundBlocks, NEW u \in Nat, ~b.maxValid => b.exit = 0
  PROVE  LET p == Profiled(u, Forward(u, b))
         IN  /\ p.exit = Reached(b, u, b.exit)
             /\ p.after = Trapezoid(u, p) \/ (b.profiled /\ p = b)
<1> DEFINE x == u + b.reach
           f == [b EXCEPT !.exit = x, !.profiled = FALSE]
           g == Forward(u, b)
           p == [g EXCEPT !.profiled = TRUE, !.after = Trapezoid(u, g)]
<1>1. b.exit \in Nat /\ b.reach \in Nat /\ b.nominal \in Nat
  BY DEF SoundBlocks, Blocks
<1>2. g = IF NominalLength(b) \/ ~b.maxValid \/ b.exit <= x \/ u >= b.exit THEN b ELSE f
  BY DEF Forward
<1>3. g.exit = Reached(b, u, b.exit)
  <2>1. f.exit = x
    BY DEF SoundBlocks, Blocks
  <2> HIDE DEF f, g
  <2> QED BY <1>1, <1>2, <2>1 DEF Reached
<1>4. g \in Blocks
  <2>1. x \in Nat
    BY <1>1
  <2> HIDE DEF x
  <2>2. f \in Blocks
    BY <2>1 DEF SoundBlocks, Blocks
  <2> HIDE DEF f, g
  <2> QED BY <1>2, <2>2 DEF SoundBlocks
<1>5. ~f.profiled
  BY DEF SoundBlocks, Blocks
<1>6. g.profiled => g = b
  <2> HIDE DEF f, g
  <2> QED BY <1>2, <1>5
<1>7. Profiled(u, g) = IF g.profiled THEN g ELSE p
  BY DEF Profiled
<1> HIDE DEF g
<1>8. p.exit = g.exit /\ p.reach = g.reach /\ p.nominal = g.nominal
      /\ p.after = Trapezoid(u, g)
  BY <1>4 DEF Blocks
<1> HIDE DEF p
<1>9. Trapezoid(u, p) = Trapezoid(u, g)
  BY <1>8 DEF Trapezoid
<1>10. CASE g.profiled
  BY <1>3, <1>6, <1>7, <1>10 DEF g
<1>11. CASE ~g.profiled
  BY <1>3, <1>7, <1>8, <1>9, <1>11 DEF g
<1> QED BY <1>10, <1>11

LEMMA ReachedBounds ==
  ASSUME NEW b \in SoundBlocks, NEW u \in Nat, NEW r \in Nat
  PROVE  /\ Reached(b, u, r) \in Nat /\ Reached(b, u, r) <= r
         /\ NominalLength(b) \/ Reached(b, u, r) <= u + b.reach
         /\ CanEnter(b, u, r) => CanEnter(b, u, Reached(b, u, r))
         /\ r = 0 => Reached(b, u, r) = 0
<1>1. b.reach \in Nat
  BY DEF SoundBlocks, Blocks
<1> QED BY <1>1 DEF Reached, CanEnter

LEMMA BrakeBounds ==
  ASSUME NEW b \in SoundBlocks, NEW n \in SoundBlocks, NEW e \in Nat
  PROVE  /\ Brake(b, n, e) \in Nat /\ Brake(b, n, e) <= Corner(b, n)
         /\ CanEnter(n, Brake(b, n, e), e)
<1>1. n.reach \in Nat /\ Corner(b, n) \in Nat
  BY CornerBounds DEF SoundBlocks, Blocks
<1> QED BY <1>1 DEF Brake, CanEnter, Least

\* A block entered at u and left at its exit speed, both of which it can brake
\* and speed up to, ends with just that speed.
LEMMA TrapezoidEnds ==
  ASSUME NEW b \in SoundBlocks, NEW u \in Nat, Even(u),
         u <= b.nominal, b.exit <= b.nominal,
         NominalLength(b) \/ (u <= b.exit + b.reach /\ b.exit <= u + b.reach)
  PROVE  EndSpeed(u, b, Trapezoid(u, b)) = b.exit
<1>1. /\ b.exit \in Nat /\ b.reach \in Nat /\ b.nominal \in Nat
      /\ Even(b.exit) /\ Even(b.reach)
  BY DEF SoundBlocks, Blocks, Sound
<1> DEFINE plateau == b.reach - (b.nominal - u) - (b.nominal - b.exit)
           h == (b.reach - u + b.exit) \div 2
           a == Trapezoid(u, b)
           peak == Least(b.nominal, u + a)
<1>2. EndSpeed(u, b, a) = IF a >= b.reach THEN peak ELSE Greatest(b.exit, peak - (b.reach - a))
  BY DEF EndSpeed
<1>3. CASE plateau >= 0
  <2>1. a = b.reach - b.nominal + b.exit
    BY <1>1, <1>3 DEF Trapezoid
  <2> HIDE DEF a
  <2>2. peak = b.nominal
    BY <1>1, <1>3, <2>1 DEF Least
  <2> QED BY <1>1, <1>2, <2>1, <2>2 DEF Greatest, a
<1>4. CASE plateau < 0
  <2>1. h \in Int /\ 2 * h = b.reach - u + b.exit
    BY <1>1 DEF Even
  <2>2. a = Greatest(0, h)
    BY <1>1, <1>4 DEF Trapezoid
  <2> HIDE DEF h, a
  <2>3. h >= 0 /\ u + h < b.nominal /\ (h >= b.reach => u + h = b.exit)
    BY <1>1, <1>4, <2>1 DEF NominalLength
  <2>4. a = h /\ peak = u + h
    BY <1>1, <2>1, <2>2, <2>3 DEF Greatest, Least
  <2> QED BY <1>1, <1>2, <2>1, <2>3, <2>4 DEF Greatest, a
<1> QED BY <1>1, <1>3, <1>4

-----------------------------------------------------------------------------
(* Sequences of the same blocks *)

LEMMA SpeedsAlike ==
  ASSUME NEW b, NEW n, NEW c, NEW d, Alike(c, b), Alike(d, n), NEW u, NEW e
  PROVE  /\ Brake(c, d, e) = Brake(b, n, e)
         /\ Reached(c, u, e) = Reached(b, u, e)
         /\ c.exit = b.exit => Trapezoid(u, c) = Trapezoid(u, b)
         /\ Positional(c) <=> Positional(b)
         /\ Enters(c, u, e) <=> Enters(b, u, e)
<1>1. Corner(c, d) = Corner(b, n)
  BY CornerAlike
<1> QED BY <1>1 DEF Brake, Reached, Trapezoid, NominalLength, Alike, Positional, Enters, CanEnter

\* The equations depend on what the first len blocks are, not on their speeds.
LEMMA SolvesAlike ==
  ASSUME NEW s, NEW t, NEW len \in Nat, \A i \in 1 .. len : Alike(t[i], s[i]),
         NEW u, NEW r, NEW x
  PROVE  /\ \A i \in 1 .. len : EnterAt(t, x, u, i) = EnterAt(s, x, u, i)
         /\ \A i \in 1 .. len : Back(t, len, r, i) <=> Back(s, len, r, i)
         /\ \A i \in 1 .. len : Front(t, r, x, u, i) <=> Front(s, r, x, u, i)
         /\ Solves(t, len, u, r, x) <=> Solves(s, len, u, r, x)
<1>1. ASSUME NEW i \in 1 .. len PROVE EnterAt(t, x, u, i) = EnterAt(s, x, u, i)
  <2>1. i > 1 => i - 1 \in 1 .. len
    OBVIOUS
  <2>2. i > 1 => (Positional(t[i - 1]) <=> Positional(s[i - 1]))
    BY <2>1 DEF Alike, Positional
  <2> QED BY <2>2 DEF EnterAt
<1>2. ASSUME NEW i \in 1 .. len PROVE Back(t, len, r, i) <=> Back(s, len, r, i)
  <2>1. CASE i < len
    <3>1. i + 1 \in 1 .. len
      BY <2>1
    <3>2. /\ Brake(t[i], t[i + 1], r[i + 1]) = Brake(s[i], s[i + 1], r[i + 1])
          /\ Positional(t[i + 1]) <=> Positional(s[i + 1])
          /\ Positional(t[i]) <=> Positional(s[i])
      BY <3>1, SpeedsAlike
    <3> QED BY <3>2 DEF Back
  <2>2. CASE ~(i < len)
    BY <2>2 DEF Back, Alike, Positional
  <2> QED BY <2>1, <2>2
<1>3. ASSUME NEW i \in 1 .. len PROVE Front(t, r, x, u, i) <=> Front(s, r, x, u, i)
  <2>1. /\ Reached(t[i], EnterAt(t, x, u, i), r[i]) = Reached(s[i], EnterAt(s, x, u, i), r[i])
        /\ Positional(t[i]) <=> Positional(s[i])
    BY <1>1, SpeedsAlike
  <2> QED BY <2>1 DEF Front
<1>4. len > 0 => (Enters(t[1], u, r[1]) <=> Enters(s[1], u, r[1]))
  BY SpeedsAlike
<1> QED BY <1>1, <1>2, <1>3, <1>4 DEF Solves

LEMMA ItselfAlike == \A b : Alike(b, b)
BY DEF Alike

\* Blocks that are left as they are stay current.
LEMMA CurrentAlike ==
  ASSUME NEW s, NEW t, NEW i \in Nat \ {0}, t[i] = s[i],
         i > 1 => Alike(t[i - 1], s[i - 1]), NEW x, NEW u
  PROVE  Current(t, x, u, i) <=> Current(s, x, u, i)
<1>1. EnterAt(t, x, u, i) = EnterAt(s, x, u, i)
  BY DEF EnterAt, Alike, Positional
<1> QED BY <1>1 DEF Current

\* The solution gives every block a speed it can be left at and the next one entered with.
LEMMA SolvesBounds ==
  ASSUME NEW s \in Seq(SoundBlocks), NEW len \in 0 .. Len(s), NEW u \in Nat,
         NEW r \in SpeedPlans, NEW x \in SpeedPlans, Solves(s, len, u, r, x),
         NEW i \in 1 .. len, Positional(s[i])
  PROVE  /\ x[i] <= r[i]
         /\ i < len /\ Positional(s[i + 1]) =>
              r[i] <= Corner(s[i], s[i + 1]) /\ Enters(s[i + 1], x[i], r[i + 1])
         /\ ~(i < len /\ Positional(s[i + 1])) => r[i] = 0 /\ x[i] = 0
         /\ EnterAt(s, x, u, i) \in Nat
<1>1. /\ s[i] \in SoundBlocks /\ r[i] \in Nat /\ x[i] \in Nat
      /\ Back(s, len, r, i) /\ Front(s, r, x, u, i)
  BY DEF SpeedPlans, Solves
<1>2. EnterAt(s, x, u, i) \in Nat
  <2>1. CASE i = 1
    BY <2>1 DEF EnterAt
  <2>2. CASE i > 1
    <3>0. i - 1 \in Nat
      BY <2>2
    <3>1. x[i - 1] \in Nat
      BY <3>0 DEF SpeedPlans
    <3>2. EnterAt(s, x, u, i) = 0 \/ EnterAt(s, x, u, i) = x[i - 1]
      BY <2>2 DEF EnterAt
    <3> QED BY <3>1, <3>2
  <2> QED BY <2>1, <2>2
<1>3. x[i] <= r[i] /\ (r[i] = 0 => x[i] = 0)
  BY <1>1, <1>2, ReachedBounds DEF Front
<1>4. CASE i < len /\ Positional(s[i + 1])
  <2>1. s[i + 1] \in SoundBlocks /\ r[i + 1] \in Nat /\ s[i + 1].reach \in Nat
    <3>1. i + 1 \in 1 .. Len(s)
      BY <1>4
    <3>2. s[i + 1] \in SoundBlocks /\ r[i + 1] \in Nat
      BY <3>1 DEF SpeedPlans
    <3> QED BY <3>2 DEF SoundBlocks, Blocks
  <2>2. r[i] = Brake(s[i], s[i + 1], r[i + 1])
    BY <1>1, <1>4 DEF Back
  <2>3. r[i] <= Corner(s[i], s[i + 1]) /\ CanEnter(s[i + 1], r[i], r[i + 1])
    BY <1>1, <2>1, <2>2, BrakeBounds
  <2>4. CanEnter(s[i + 1], x[i], r[i + 1])
    BY <1>1, <1>3, <2>1, <2>3 DEF CanEnter
  <2> QED BY <1>2, <1>3, <1>4, <2>3, <2>4 DEF Enters
<1>5. CASE ~(i < len /\ Positional(s[i + 1]))
  BY <1>1, <1>2, <1>3, <1>5 DEF Back
<1> QED BY <1>2, <1>3, <1>4, <1>5

\* The slot a pass is at, and what it writes there.
LEMMA ReverseWrites ==
  ASSUME LIInv, Paced, ReverseStep
  PROVE  LET c == q[pos]
             n == q[pos + 1]
             b == q'[pos]
         IN  /\ pos \in 1 .. Len(q) /\ q' \in Seq(SoundBlocks) /\ Len(q') = Len(q)
             /\ Alike(b, c) /\ b.after = c.after
             /\ \A i \in 1 .. Len(q) : i # pos => q'[i] = q[i]
             /\ Positional(c) =>
                  IF Joined(q, pos)
                    THEN /\ b.exit = Brake(c, n, n.exit)
                         /\ b.profiled => c.profiled /\ b.exit = c.exit /\ c.exit = Corner(c, n)
                    ELSE b.exit = 0 /\ ~b.profiled
<1> DEFINE c == q[pos]
           n == q[pos + 1]
           w == CASE c.kind # "Positional" -> c
                  [] c.kind = "Positional" /\ (pos = Len(q) \/ q[pos + 1].kind # "Positional")
                       -> AtRest(c)
                  [] OTHER -> Backward(c, q[pos + 1])
           x == Exits(q)
<1>1. /\ q \in Seq(SoundBlocks) /\ Len(q) \in Nat
      /\ pos \in 1 .. Len(q) /\ c \in SoundBlocks /\ CornerAt(q, pos) /\ Cached(q, pos)
  BY DEF ReverseStep, LIInv, Types, Corners, Paced, Braking
<1>2. q' = [q EXCEPT ![pos] = w]
  BY <1>1 DEF ReverseStep
<1>3. Joined(q, pos) => n \in SoundBlocks /\ Positional(n)
  BY <1>1 DEF Joined
<1>4. Positional(c) /\ Joined(q, pos) => c.exit <= Corner(c, n) /\ CanEnter(n, c.exit, n.exit)
  <2>1. \A i \in 1 .. Len(q) : x[i] = q[i].exit
    BY <1>1, ExitsPlan
  <2>2. Joined(q, pos) => x[pos + 1] = n.exit
    BY <1>1, <2>1 DEF Joined
  <2> HIDE DEF x
  <2>3. Reachable(q, x)
    BY DEF Paced, Braking, x
  <2> QED BY <1>1, <2>1, <2>2, <2>3 DEF Reachable
<1>5. Positional(c) /\ Joined(q, pos) =>
        w = Backward(c, n) /\ (c.maxValid => c.maxExit = Corner(c, n))
  BY <1>1 DEF Joined, Positional, Cached
<1>6. Positional(c) /\ ~Joined(q, pos) => w = AtRest(c)
  BY <1>1 DEF Joined, Positional
<1>7. ~Positional(c) => w = c
  BY DEF Positional
<1> HIDE DEF w, c, n, x
<1>8. /\ w \in SoundBlocks /\ Alike(w, c) /\ w.after = c.after
      /\ Positional(c) =>
           IF Joined(q, pos)
             THEN /\ w.exit = Brake(c, n, n.exit)
                  /\ w.profiled => c.profiled /\ w.exit = c.exit /\ c.exit = Corner(c, n)
             ELSE w.exit = 0 /\ ~w.profiled
  <2>1. CASE ~Positional(c)
    BY <1>1, <1>7, <2>1 DEF Alike
  <2>2. CASE Positional(c) /\ ~Joined(q, pos)
    <3>1. ~AtRest(c).profiled
      BY <1>1 DEF AtRest, SoundBlocks, Blocks
    <3> QED BY <1>1, <1>6, <2>2, <3>1, AtRestBlock
  <2>3. CASE Positional(c) /\ Joined(q, pos)
    <3>1. /\ w.exit = Brake(c, n, n.exit)
          /\ w.profiled => c.profiled /\ w.exit = c.exit /\ c.exit = Corner(c, n)
      BY <1>1, <1>3, <1>4, <1>5, <2>3, BackwardKeeps
    <3>2. (c.maxValid => Limit(c, n, c.maxExit)) /\ Limit(c, n, c.exit)
      BY <1>1, <2>3 DEF CornerAt, Joined, c, n
    <3>3. w \in SoundBlocks /\ Alike(w, c) /\ w.after = c.after
      BY <1>1, <1>3, <1>5, <2>3, <3>2, BackwardBlock DEF Positional
    <3> QED BY <2>3, <3>1, <3>3
  <2> QED BY <2>1, <2>2, <2>3
<1>9. /\ q' \in Seq(SoundBlocks) /\ Len(q') = Len(q) /\ q'[pos] = w
      /\ \A i \in 1 .. Len(q) : i # pos => q'[i] = q[i]
  BY <1>1, <1>2, <1>8
<1> QED BY <1>1, <1>8, <1>9 DEF c, n

LEMMA ForwardWrites ==
  ASSUME LIInv, Paced, ForwardStep
  PROVE  LET c == q[pos]
             b == q'[pos]
             u == EntrySpeed(pos)
         IN  /\ pos \in 1 .. Len(q) /\ q' \in Seq(SoundBlocks) /\ Len(q') = Len(q)
             /\ Alike(b, c) /\ u \in Nat
             /\ \A i \in 1 .. Len(q) : i # pos => q'[i] = q[i]
             /\ Positional(c) =>
                  /\ b.exit = Reached(c, u, c.exit)
                  /\ b.after = Trapezoid(u, b) \/ (c.profiled /\ b = c)
<1> DEFINE c == q[pos]
           u == EntrySpeed(pos)
           w == IF c.kind # "Positional" THEN c ELSE Profiled(u, Forward(u, c))
<1>1. /\ q \in Seq(SoundBlocks) /\ Len(q) \in Nat
      /\ pos \in 1 .. Len(q) /\ c \in SoundBlocks /\ Cached(q, pos)
  BY DEF ForwardStep, LIInv, Types, Paced, Braking
<1>2. q' = [q EXCEPT ![pos] = w]
  BY <1>1 DEF ForwardStep
<1>3. u \in Nat /\ Even(u)
  <2>1. CASE pos = 1
    BY <2>1 DEF EntrySpeed, LIInv, Types
  <2>2. CASE pos # 1
    <3>1. q[pos - 1] \in SoundBlocks
      BY <1>1, <2>2
    <3>2. u = 0 \/ u = q[pos - 1].exit
      BY <1>1, <2>2 DEF EntrySpeed
    <3> QED BY <3>1, <3>2, EvenZero DEF SoundBlocks, Blocks, Sound
  <2> QED BY <2>1, <2>2
<1> HIDE DEF u
<1>4. /\ w \in SoundBlocks /\ Alike(w, c)
      /\ Positional(c) =>
           /\ w.exit = Reached(c, u, c.exit)
           /\ w.after = Trapezoid(u, w) \/ (c.profiled /\ w = c)
  <2>1. CASE c.kind # "Positional"
    <3>1. w = c
      BY <2>1
    <3> HIDE DEF w, c
    <3> QED BY <1>1, <2>1, <3>1 DEF Alike, Positional
  <2>2. CASE c.kind = "Positional"
    <3> DEFINE f == Forward(u, c)
    <3>1. w = Profiled(u, f)
      BY <2>2
    <3>2. ~c.maxValid => c.exit = 0
      BY <1>1, <2>2 DEF Cached, Positional
    <3> HIDE DEF w, c
    <3>3. f \in SoundBlocks /\ Alike(f, c)
      BY <1>1, <1>3, ForwardBlock
    <3>4. /\ w.exit = Reached(c, u, c.exit)
          /\ w.after = Trapezoid(u, w) \/ (c.profiled /\ w = c)
      BY <1>1, <1>3, <3>1, <3>2, ForwardKeeps
    <3> HIDE DEF f
    <3>5. w \in SoundBlocks /\ Alike(w, f)
      BY <1>3, <3>1, <3>3, ProfiledBlock
    <3> QED BY <3>3, <3>4, <3>5 DEF Alike
  <2> QED BY <2>1, <2>2
<1> HIDE DEF w, c
<1>5. /\ q' \in Seq(SoundBlocks) /\ Len(q') = Len(q) /\ q'[pos] = w
      /\ \A i \in 1 .. Len(q) : i # pos => q'[i] = q[i]
  BY <1>1, <1>2, <1>4
<1> QED BY <1>1, <1>3, <1>4, <1>5 DEF c, u

LEMMA KernelsAlike ==
  ASSUME LIInv, Paced, ReverseStep \/ ForwardStep
  PROVE  /\ q' \in Seq(SoundBlocks) /\ Len(q') = Len(q)
         /\ \A i \in 1 .. Len(q) : Alike(q'[i], q[i])
<1>1. /\ q' \in Seq(SoundBlocks) /\ Len(q') = Len(q) /\ Alike(q'[pos], q[pos])
      /\ \A i \in 1 .. Len(q) : i # pos => q'[i] = q[i]
  BY ReverseWrites, ForwardWrites
<1> QED BY <1>1, ItselfAlike

-----------------------------------------------------------------------------
(* The speed at the end of what has been fetched *)

LEMMA NextCornerInit == Init => NextCorner
BY DEF Init, NextCorner

LEMMA NextCornerKept ==
  ASSUME LIInv, Paced, NextCorner, [Next]_vars
  PROVE  NextCorner'
<1>1. /\ q \in Seq(SoundBlocks) /\ Len(q) \in Nat /\ gone \in 0 .. Len(q) /\ run \in SoundBlocks
      /\ committed \in Nat /\ gone + committed <= Len(q) /\ MoveOK(move)
      /\ ~InPass => gone = 0
  BY DEF LIInv, Types
<1>2. \A n \in SoundBlocks : Limit(run, n, 0)
  BY DEF Limit, SoundBlocks, Blocks
<1>3. ASSUME NEW b \in SoundBlocks, q' = Append(q, b), UNCHANGED <<gone, lastExit, run>>, gone = 0
      PROVE  NextCorner'
  <2>1. Len(q') = Len(q) + 1 /\ q'[Len(q) + 1] = b /\ \A i \in 1 .. Len(q) : q'[i] = q[i]
    BY <1>1, <1>3
  <2>2. CASE Len(q) = 0
    BY <1>2, <1>3, <2>1, <2>2 DEF NextCorner
  <2>3. CASE Len(q) # 0
    BY <1>1, <1>3, <2>1, <2>3 DEF NextCorner
  <2> QED BY <2>2, <2>3
<1>4. ASSUME UNCHANGED <<q, gone, lastExit, run>> PROVE NextCorner'
  BY <1>4 DEF NextCorner
<1>5. CASE AddSegment
  <2>1. Block("Positional", move) \in SoundBlocks
    BY <1>1, NewBlock DEF Kinds
  <2>2. gone = 0 /\ q' = Append(q, Block("Positional", move)) /\ UNCHANGED <<gone, lastExit, run>>
    BY <1>1, <1>5 DEF AddSegment, InPass, stepperVars
  <2> QED BY <1>3, <2>1, <2>2
<1>6. ASSUME NEW kind \in {"Velocity", "Reset"}, AddOther(kind) PROVE NextCorner'
  <2>1. Block(kind, NoMove) \in SoundBlocks
    BY NewBlock, MovesAreOK DEF Kinds
  <2>2. gone = 0 /\ q' = Append(q, Block(kind, NoMove)) /\ UNCHANGED <<gone, lastExit, run>>
    BY <1>1, <1>6 DEF AddOther, InPass, stepperVars
  <2> QED BY <1>3, <2>1, <2>2
<1>7. CASE ReverseStep \/ ForwardStep
  <2>1. UNCHANGED <<gone, lastExit, run>>
    BY <1>7 DEF ReverseStep, ForwardStep, stepperVars
  <2>2. Len(q') = Len(q) /\ \A i \in 1 .. Len(q) : Alike(q'[i], q[i])
    BY <1>7, KernelsAlike
  <2>5. CASE Len(q) = gone
    BY <2>1, <2>2, <2>5 DEF NextCorner
  <2>6. CASE Len(q) # gone
    <3>1. Alike(q'[gone + 1], q[gone + 1])
      BY <1>1, <2>2, <2>6
    <3> QED BY <2>1, <2>2, <2>6, <3>1 DEF NextCorner, Limit, Alike, Reverses
  <2> QED BY <2>5, <2>6
<1>8. CASE Commit
  <2>1. q' = SubSeq(q, gone + 1, Len(q)) /\ gone' = 0 /\ UNCHANGED <<lastExit, run>>
    BY <1>8 DEF Commit, stepperVars
  <2>2. Len(q') = Len(q) - gone /\ \A i \in 1 .. Len(q') : q'[i] = q[i + gone]
    BY <1>1, <2>1, Dropped
  <2>3. CASE Len(q) = gone
    <3>1. Len(q') = gone' /\ lastExit' = 0
      BY <1>1, <2>1, <2>2, <2>3 DEF NextCorner
    <3> QED BY <3>1 DEF NextCorner
  <2>4. CASE Len(q) # gone
    <3>1. q'[gone' + 1] = q[gone + 1] /\ Len(q') # gone'
      BY <1>1, <2>1, <2>2, <2>4
    <3> QED BY <2>1, <2>4, <3>1 DEF NextCorner
  <2> QED BY <2>3, <2>4
<1>9. CASE Fetch
  <2> DEFINE b == q[gone + 1]
  <2>1. /\ committed > 0 /\ gone + 1 \in 1 .. Len(q) /\ b \in SoundBlocks
    BY <1>1, <1>9 DEF Fetch
  <2>2. CornerAt(q, gone + 1)
    BY <2>1 DEF LIInv, Corners
  <2>3. /\ lastExit' = IF b.kind = "Positional" THEN b.exit ELSE 0
        /\ run' = IF b.kind = "Reset" THEN Ended(run) ELSE b
        /\ \/ gone' = gone + 1 /\ q' = q
           \/ gone = 0 /\ gone' = gone /\ q' = Tail(q)
    BY <1>1, <1>9 DEF Fetch
  <2>4. run' \in SoundBlocks
    BY <1>1, <2>1, <2>3, EndedBlock
  <2>5. /\ Len(q') = gone' <=> Len(q) = gone + 1
        /\ Len(q) # gone + 1 => q'[gone' + 1] = q[(gone + 1) + 1] /\ q[(gone + 1) + 1] \in SoundBlocks
    BY <1>1, <2>1, <2>3
  <2> HIDE DEF b
  <2>6. CASE b.kind = "Positional"
    <3>1. run' = b /\ lastExit' = b.exit
      BY <2>3, <2>6
    <3>2. IF Len(q) = gone + 1 THEN b.exit = 0 ELSE Limit(b, q[(gone + 1) + 1], b.exit)
      BY <2>2, <2>6 DEF CornerAt, Positional, b
    <3> QED BY <2>5, <3>1, <3>2 DEF NextCorner
  <2>7. CASE b.kind # "Positional"
    <3>1. lastExit' = 0
      BY <2>3, <2>7
    <3>2. \A n \in SoundBlocks : Limit(run', n, 0)
      BY <2>4 DEF Limit, SoundBlocks, Blocks
    <3> QED BY <2>5, <3>1, <3>2 DEF NextCorner
  <2> QED BY <2>6, <2>7
<1>10. CASE Finish
  <2>1. run' = Ended(run) /\ UNCHANGED <<q, gone, lastExit>>
    BY <1>10 DEF Finish, queueVars
  <2>2. Ended(run).axis = run.axis /\ Ended(run).dir = run.dir
    BY DEF Ended, Block, NoMove
  <2> QED BY <2>1, <2>2 DEF NextCorner, Limit, Reverses
<1>11. CASE \/ \E m \in Moves, k \in SegmentCounts : BeginMove(m, k)
            \/ EmptyMove \/ UNCHANGED vars
  <2>1. UNCHANGED <<q, gone, lastExit, run>>
    BY <1>11 DEF BeginMove, EmptyMove, vars, queueVars, stepperVars
  <2> QED BY <1>4, <2>1
<1> QED BY <1>5, <1>6, <1>7, <1>8, <1>9, <1>10, <1>11 DEF Next, Plan

-----------------------------------------------------------------------------
(* The steps of a pass *)

LEMMA SettledAlike ==
  ASSUME NEW s, NEW t, NEW len \in Nat, \A i \in 1 .. len : t[i] = s[i],
         NEW u, Settled(s, len, u)
  PROVE  Settled(t, len, u)
<1>1. \A i \in 1 .. len : Alike(t[i], s[i])
  BY ItselfAlike
<1>2. PICK r \in SpeedPlans, x \in SpeedPlans :
        Solves(s, len, u, r, x) /\ \A i \in 1 .. len : Current(s, x, u, i)
  BY DEF Settled
<1>3. Solves(t, len, u, r, x)
  BY <1>1, <1>2, SolvesAlike
<1>4. ASSUME NEW i \in 1 .. len PROVE Current(t, x, u, i)
  <2>1. i \in Nat \ {0} /\ t[i] = s[i] /\ (i > 1 => Alike(t[i - 1], s[i - 1]))
    BY <1>1
  <2> QED BY <1>2, <2>1, CurrentAlike
<1> QED BY <1>3, <1>4 DEF Settled

\* A block that is no move ends the plan as the end of the queue did.
LEMMA SettledAppend ==
  ASSUME NEW s \in Seq(SoundBlocks), NEW t, NEW b \in SoundBlocks, ~Positional(b),
         t = Append(s, b), NEW u \in Nat, Settled(s, Len(s), u)
  PROVE  Settled(t, Len(t), u)
<1>1. /\ Len(s) \in Nat /\ Len(t) = Len(s) + 1 /\ t[Len(s) + 1] = b
      /\ \A i \in 1 .. Len(s) : t[i] = s[i] /\ s[i] \in SoundBlocks
  OBVIOUS
<1>2. PICK r \in SpeedPlans, x \in SpeedPlans :
        Solves(s, Len(s), u, r, x) /\ \A i \in 1 .. Len(s) : Current(s, x, u, i)
  BY DEF Settled
<1> DEFINE len == Len(s)
<1> HIDE DEF len
<1>3. ASSUME NEW i \in 1 .. len
      PROVE  Back(t, len + 1, r, i) /\ Front(t, r, x, u, i) /\ Current(t, x, u, i)
  <2>1. Back(s, len, r, i) /\ Front(s, r, x, u, i) /\ Current(s, x, u, i)
    BY <1>2 DEF Solves, len
  <2>2. t[i] = s[i] /\ i \in Nat \ {0} /\ len \in Nat
    BY <1>1 DEF len
  <2>3. Back(t, len + 1, r, i)
    <3>1. CASE i < len
      <4>1. t[i + 1] = s[i + 1]
        BY <1>1, <2>2, <3>1 DEF len
      <4> QED BY <2>1, <2>2, <3>1, <4>1 DEF Back
    <3>2. CASE ~(i < len)
      <4>1. ~Positional(t[i + 1])
        BY <1>1, <2>2, <3>2 DEF len
      <4> QED BY <2>1, <2>2, <3>2, <4>1 DEF Back
    <3> QED BY <3>1, <3>2
  <2>4. i > 1 => t[i - 1] = s[i - 1]
    BY <1>1, <2>2 DEF len
  <2>5. EnterAt(t, x, u, i) = EnterAt(s, x, u, i)
    BY <2>4 DEF EnterAt
  <2> QED BY <2>1, <2>2, <2>3, <2>5 DEF Front, Current
<1>4. Back(t, len + 1, r, len + 1) /\ Front(t, r, x, u, len + 1) /\ Current(t, x, u, len + 1)
  BY <1>1 DEF Back, Front, Current, len
<1>5. Enters(t[1], u, r[1])
  <2>1. CASE len = 0
    BY <1>1, <2>1 DEF Enters, len
  <2>2. CASE len # 0
    BY <1>1, <1>2, <2>2 DEF Solves, len
  <2> QED BY <2>1, <2>2
<1>6. \A i \in 1 .. Len(t) : i \in 1 .. len \/ i = len + 1
  BY <1>1 DEF len
<1>7. Len(t) = len + 1
  BY <1>1 DEF len
<1> QED BY <1>2, <1>3, <1>4, <1>5, <1>6, <1>7 DEF Settled, Solves

\* The first block goes: it is entered and left as planned, and the others stay.
LEMMA SettledTail ==
  ASSUME NEW s \in Seq(SoundBlocks), NEW t, NEW len \in 1 .. Len(s), t = Tail(s),
         NEW u \in Nat, Settled(s, len, u), NEW v,
         v = IF Positional(s[1]) THEN s[1].exit ELSE 0
  PROVE  /\ Settled(t, len - 1, v)
         /\ len = 1 => v = 0
         /\ Positional(s[1]) =>
              /\ s[1].after = Trapezoid(u, s[1]) /\ v <= s[1].nominal
              /\ NominalLength(s[1]) \/ (u <= v + s[1].reach /\ v <= u + s[1].reach)
<1> DEFINE b == s[1]
<1>1. /\ Len(s) \in Nat /\ Len(t) = Len(s) - 1 /\ len \in Nat /\ len > 0 /\ len <= Len(s)
      /\ \A i \in 1 .. Len(s) - 1 : t[i] = s[i + 1]
      /\ b \in SoundBlocks /\ b.reach \in Nat /\ b.nominal \in Nat
  <2>1. b \in SoundBlocks
    OBVIOUS
  <2>2. /\ Len(s) \in Nat /\ Len(t) = Len(s) - 1 /\ len \in Nat /\ len > 0 /\ len <= Len(s)
        /\ \A i \in 1 .. Len(s) - 1 : t[i] = s[i + 1]
    OBVIOUS
  <2> HIDE DEF b
  <2>3. b.reach \in Nat /\ b.nominal \in Nat
    BY <2>1 DEF SoundBlocks, Blocks
  <2> QED BY <2>1, <2>2, <2>3
<1>2. PICK r \in SpeedPlans, x \in SpeedPlans :
        Solves(s, len, u, r, x) /\ \A i \in 1 .. len : Current(s, x, u, i)
  BY DEF Settled
<1>3. /\ \A i \in 1 .. len : Back(s, len, r, i) /\ Front(s, r, x, u, i) /\ Current(s, x, u, i)
      /\ Enters(b, u, r[1])
  BY <1>1, <1>2 DEF Solves
<1>4. Positional(b) => v = x[1] /\ b.after = Trapezoid(u, b) /\ x[1] = Reached(b, u, r[1])
  BY <1>1, <1>3 DEF Current, Front, EnterAt
<1> HIDE DEF b
<1>5. Positional(b) =>
        /\ x[1] <= r[1]
        /\ 1 < len /\ Positional(s[2]) => r[1] <= Corner(b, s[2]) /\ Enters(s[2], x[1], r[2])
        /\ ~(1 < len /\ Positional(s[2])) => r[1] = 0 /\ x[1] = 0
  <2>1. len \in 0 .. Len(s) /\ 1 \in 1 .. len /\ 1 + 1 = 2
    BY <1>1
  <2> QED BY <1>2, <2>1, SolvesBounds DEF b
<1>6. r[1] \in Nat /\ x[1] \in Nat
  BY DEF SpeedPlans
<1>7. v \in Nat
  BY <1>4, <1>6 DEF b
<1>8. len = 1 => v = 0
  BY <1>4, <1>5 DEF b
<1>9. Positional(b) => v <= b.nominal
  <2>1. CASE 1 < len /\ Positional(s[2])
    <3>1. s[2] \in SoundBlocks
      BY <1>1, <2>1
    <3>2. Corner(b, s[2]) \in Nat /\ Corner(b, s[2]) <= b.nominal
      BY <1>1, <3>1, CornerBounds
    <3> QED BY <1>1, <1>4, <1>5, <1>6, <2>1, <3>2
  <2>2. CASE ~(1 < len /\ Positional(s[2]))
    BY <1>1, <1>4, <1>5, <2>2
  <2> QED BY <2>1, <2>2
<1>10. Positional(b) => NominalLength(b) \/ (u <= v + b.reach /\ v <= u + b.reach)
  <2> SUFFICES ASSUME Positional(b)
               PROVE  NominalLength(b) \/ (u <= v + b.reach /\ v <= u + b.reach)
    OBVIOUS
  <2>1. CanEnter(b, u, r[1])
    BY <1>3 DEF Enters
  <2>2. /\ CanEnter(b, u, Reached(b, u, r[1]))
        /\ NominalLength(b) \/ Reached(b, u, r[1]) <= u + b.reach
    BY <1>1, <1>6, <2>1, ReachedBounds
  <2>3. v = Reached(b, u, r[1])
    BY <1>4
  <2> QED BY <2>2, <2>3 DEF CanEnter
<1> DEFINE rr == [i \in Nat |-> r[i + 1]]
           xx == [i \in Nat |-> x[i + 1]]
<1>11. rr \in SpeedPlans /\ xx \in SpeedPlans
  <2>1. \A i \in Nat : i + 1 \in Nat
    OBVIOUS
  <2>2. \A i \in Nat : r[i + 1] \in Nat /\ x[i + 1] \in Nat
    BY <2>1 DEF SpeedPlans
  <2> QED BY <2>2 DEF SpeedPlans
<1>12. \A i \in Nat : rr[i] = r[i + 1] /\ xx[i] = x[i + 1]
  OBVIOUS
<1> HIDE DEF rr, xx
<1>13. ASSUME NEW i \in 1 .. len - 1
       PROVE  Back(t, len - 1, rr, i) /\ Front(t, rr, xx, v, i) /\ Current(t, xx, v, i)
  <2>1. /\ i \in Nat /\ i + 1 \in 1 .. len /\ t[i] = s[i + 1] /\ i + 1 # 1 /\ i + 1 > 1
        /\ (i + 1) - 1 = i /\ rr[i] = r[i + 1] /\ xx[i] = x[i + 1]
    BY <1>1, <1>12
  <2>2. Back(s, len, r, i + 1) /\ Front(s, r, x, u, i + 1) /\ Current(s, x, u, i + 1)
    BY <1>3, <2>1
  <2>3. Back(t, len - 1, rr, i)
    <3>1. i < len - 1 <=> i + 1 < len
      BY <1>1, <2>1
    <3>2. i < len - 1 => t[i + 1] = s[(i + 1) + 1] /\ rr[i + 1] = r[(i + 1) + 1]
      BY <1>1, <1>12, <2>1
    <3> QED BY <2>1, <2>2, <3>1, <3>2 DEF Back
  <2>4. EnterAt(t, xx, v, i) = EnterAt(s, x, u, i + 1)
    <3>1. CASE i = 1
      <4>1. EnterAt(s, x, u, i + 1) = IF Positional(b) THEN x[1] ELSE 0
        BY <2>1, <3>1 DEF EnterAt, b
      <4>2. EnterAt(t, xx, v, i) = v
        BY <3>1 DEF EnterAt
      <4> QED BY <1>4, <4>1, <4>2 DEF b
    <3>2. CASE i # 1
      <4>1. i > 1 /\ t[i - 1] = s[i] /\ xx[i - 1] = x[i]
        <5>1. i - 1 \in Nat /\ i - 1 \in 1 .. Len(s) - 1 /\ (i - 1) + 1 = i /\ i > 1
          BY <1>1, <3>2
        <5>2. t[i - 1] = s[(i - 1) + 1] /\ xx[i - 1] = x[(i - 1) + 1]
          BY <1>1, <1>12, <5>1
        <5> QED BY <5>1, <5>2
      <4> QED BY <2>1, <3>2, <4>1 DEF EnterAt
    <3> QED BY <3>1, <3>2
  <2> QED BY <2>1, <2>2, <2>3, <2>4 DEF Front, Current
<1>14. len - 1 > 0 => Enters(t[1], v, rr[1])
  <2> SUFFICES ASSUME len - 1 > 0 PROVE Enters(t[1], v, rr[1])
    OBVIOUS
  <2>1. t[1] = s[2] /\ rr[1] = r[2] /\ s[2] \in SoundBlocks /\ r[2] \in Nat
    <3>1. 1 + 1 = 2 /\ 1 \in 1 .. Len(s) - 1 /\ 2 \in 1 .. Len(s) /\ 1 \in Nat
      BY <1>1
    <3>2. t[1] = s[1 + 1] /\ rr[1] = r[1 + 1]
      BY <1>1, <1>12, <3>1
    <3>3. s[2] \in SoundBlocks
      BY <3>1
    <3>4. r[2] \in Nat
      BY DEF SpeedPlans
    <3> QED BY <3>1, <3>2, <3>3, <3>4
  <2>2. CASE Positional(b)
    BY <1>1, <1>4, <1>5, <2>1, <2>2 DEF Enters
  <2>3. CASE ~Positional(b)
    <3>1. v = 0
      BY <2>3 DEF b
    <3>2. s[2].reach \in Nat
      BY <2>1 DEF SoundBlocks, Blocks
    <3> QED BY <2>1, <3>1, <3>2 DEF Enters, CanEnter
  <2> QED BY <2>2, <2>3
<1>15. Settled(t, len - 1, v)
  BY <1>11, <1>13, <1>14 DEF Settled, Solves
<1> QED BY <1>4, <1>8, <1>9, <1>10, <1>15 DEF b

LEMMA ReversePlanned ==
  ASSUME LIInv, Paced, ReverseStep, entry0 = lastExit,
         NEW r \in SpeedPlans, NEW x \in SpeedPlans, Reversing(r, x),
         NEW s, s = Exits(q')
  PROVE  /\ pc' = "reverse" => Reversing(r, x)'
         /\ pc' = "forward" => Forwarding(r, x, s)'
<1> DEFINE c == q[pos]
           n == q[pos + 1]
           b == q'[pos]
<1>1. /\ q \in Seq(SoundBlocks) /\ Len(q) \in Nat /\ pos \in 1 .. Len(q) /\ pos \in Nat
      /\ committed \in Nat /\ committed <= Len(q) /\ lastExit \in Nat
      /\ c \in SoundBlocks
  <2>1. pos \in 1 .. Len(q)
    BY ReverseWrites
  <2> QED BY <2>1 DEF LIInv, Types
<1>2. /\ q' \in Seq(SoundBlocks) /\ Len(q') = Len(q)
      /\ Alike(b, c) /\ b.after = c.after
      /\ \A i \in 1 .. Len(q) : i # pos => q'[i] = q[i]
      /\ Positional(c) =>
           IF Joined(q, pos)
             THEN /\ b.exit = Brake(c, n, n.exit)
                  /\ b.profiled => c.profiled /\ b.exit = c.exit /\ c.exit = Corner(c, n)
             ELSE b.exit = 0 /\ ~b.profiled
  BY ReverseWrites
<1>3. /\ UNCHANGED <<committed, lastExit, entry0>>
      /\ \/ pc' = "reverse" /\ pos > 1 /\ pos' = pos - 1
         \/ pc' = "forward" /\ pos = 1 /\ pos' = 1
  BY <1>1 DEF ReverseStep
<1>4. \A i \in 1 .. Len(q) : Alike(q'[i], q[i])
  BY KernelsAlike
<1>5. /\ Solves(q, committed, lastExit, r, x) /\ Reversed(pos + 1, r, x)
      /\ \A i \in 1 .. pos : IF i <= committed THEN Current(q, x, lastExit, i) ELSE Fresh(q[i])
  BY DEF Reversing
<1>6. \A i \in 1 .. Len(q) : Exits(q)[i] = q[i].exit /\ Exits(q')[i] = q'[i].exit
  BY <1>1, <1>2, ExitsPlan
<1> HIDE DEF b, c, n
<1>7. Solves(q', committed, lastExit, r, x)
  <2>1. \A i \in 1 .. committed : Alike(q'[i], q[i])
    BY <1>1, <1>4
  <2> QED BY <1>1, <1>5, <2>1, SolvesAlike
<1>8. \A i \in 1 .. Len(q) : i # pos => (Current(q', x, lastExit, i) <=> Current(q, x, lastExit, i))
  <2> SUFFICES ASSUME NEW i \in 1 .. Len(q), i # pos
               PROVE  Current(q', x, lastExit, i) <=> Current(q, x, lastExit, i)
    OBVIOUS
  <2>1. i > 1 => i - 1 \in 1 .. Len(q)
    BY <1>1
  <2>2. i \in Nat \ {0} /\ q'[i] = q[i] /\ (i > 1 => Alike(q'[i - 1], q[i - 1]))
    BY <1>2, <1>4, <2>1
  <2> QED BY <2>2, CurrentAlike
\* A slot that keeps its profile is at its corner, which no plan exceeds.
<1>9. Kept(b) => /\ pos <= committed /\ b.exit = c.exit /\ c.exit = x[pos] /\ c.exit = r[pos]
                 /\ Current(q', x, lastExit, pos)
  <2> SUFFICES ASSUME Kept(b)
               PROVE  /\ pos <= committed /\ b.exit = c.exit /\ c.exit = x[pos] /\ c.exit = r[pos]
                      /\ Current(q', x, lastExit, pos)
    OBVIOUS
  <2>1. /\ Positional(c) /\ Joined(q, pos) /\ c.profiled /\ b.exit = c.exit
        /\ c.exit = Corner(c, n)
    BY <1>2 DEF Kept, Alike, Positional
  <2>2. pos <= committed /\ Current(q, x, lastExit, pos)
    BY <1>1, <1>5, <2>1 DEF Fresh, c
  <2>3. c.exit = x[pos] /\ c.after = Trapezoid(EnterAt(q, x, lastExit, pos), c)
    BY <2>1, <2>2 DEF Current, c
  <2>4. EnterAt(q', x, lastExit, pos) = EnterAt(q, x, lastExit, pos)
    <3>1. pos > 1 => pos - 1 \in 1 .. Len(q)
      BY <1>1
    <3>2. pos > 1 => (Positional(q'[pos - 1]) <=> Positional(q[pos - 1]))
      BY <1>4, <3>1 DEF Alike, Positional
    <3> QED BY <3>2 DEF EnterAt
  <2>5. Trapezoid(EnterAt(q, x, lastExit, pos), b) = Trapezoid(EnterAt(q, x, lastExit, pos), c)
    BY <1>2, <2>1, SpeedsAlike
  <2>6. Current(q', x, lastExit, pos)
    BY <1>2, <2>1, <2>3, <2>4, <2>5 DEF Current, b
  <2>7. c.exit = r[pos]
    <3>1. committed \in 0 .. Len(q) /\ pos \in 1 .. committed
      BY <1>1, <2>2
    <3>2. x[pos] <= r[pos] /\ x[pos] \in Nat /\ r[pos] \in Nat
      BY <1>1, <1>5, <2>1, <3>1, SolvesBounds DEF c, SpeedPlans
    <3>3. CASE pos < committed
      <4>1. r[pos] <= Corner(c, n) /\ Corner(c, n) = x[pos]
        BY <1>1, <1>5, <2>1, <2>3, <3>1, <3>3, SolvesBounds DEF c, n, Joined
      <4> QED BY <2>3, <3>2, <4>1
    <3>4. CASE ~(pos < committed)
      <4>1. r[pos] = 0 /\ x[pos] = 0
        BY <1>1, <1>5, <2>1, <3>1, <3>4, SolvesBounds DEF c
      <4> QED BY <2>3, <4>1
    <3> QED BY <3>3, <3>4
  <2> QED BY <2>1, <2>2, <2>3, <2>6, <2>7
<1>10. Back(q', Len(q), Exits(q'), pos)
  <2> SUFFICES ASSUME Positional(b)
               PROVE  b.exit = IF pos < Len(q) /\ Positional(q'[pos + 1])
                                 THEN Brake(b, q'[pos + 1], Exits(q')[pos + 1]) ELSE 0
    BY <1>1, <1>6 DEF Back, b
  <2>1. Positional(c)
    BY <1>2 DEF Alike, Positional
  <2>2. CASE Joined(q, pos)
    <3>1. pos + 1 \in 1 .. Len(q) /\ pos + 1 # pos /\ pos < Len(q) /\ Positional(n)
      BY <1>1, <2>2 DEF Joined, n
    <3>2. q'[pos + 1] = n /\ Exits(q')[pos + 1] = n.exit
      BY <1>2, <1>6, <3>1 DEF n
    <3>3. Brake(b, n, n.exit) = Brake(c, n, n.exit)
      <4>1. Alike(n, n)
        BY ItselfAlike
      <4> QED BY <1>2, <4>1, SpeedsAlike
    <3> QED BY <1>2, <2>1, <2>2, <3>1, <3>2, <3>3
  <2>3. CASE ~Joined(q, pos)
    <3>1. ~(pos < Len(q) /\ Positional(q'[pos + 1]))
      <4>1. pos < Len(q) => pos + 1 \in 1 .. Len(q)
        BY <1>1
      <4> QED BY <1>4, <2>3, <4>1 DEF Joined, Alike, Positional
    <3> QED BY <1>2, <2>1, <2>3, <3>1
  <2> QED BY <2>2, <2>3
<1>11. \A i \in pos + 1 .. Len(q) :
         /\ Back(q', Len(q), Exits(q'), i)
         /\ Kept(q'[i]) =>
              /\ i <= committed /\ Current(q', x, lastExit, i)
              /\ \A j \in pos .. i : Positional(q'[j]) => q'[j].exit = r[j]
  <2> SUFFICES ASSUME NEW i \in pos + 1 .. Len(q)
               PROVE  /\ Back(q', Len(q), Exits(q'), i)
                      /\ Kept(q'[i]) =>
                           /\ i <= committed /\ Current(q', x, lastExit, i)
                           /\ \A j \in pos .. i : Positional(q'[j]) => q'[j].exit = r[j]
    OBVIOUS
  <2>1. /\ i \in 1 .. Len(q) /\ i \in Nat /\ i # pos /\ i > pos /\ q'[i] = q[i]
        /\ i < Len(q) => i + 1 \in 1 .. Len(q) /\ q'[i + 1] = q[i + 1]
    BY <1>1, <1>2
  <2>2. /\ Back(q, Len(q), Exits(q), i)
        /\ Kept(q[i]) =>
             /\ i <= committed /\ Current(q, x, lastExit, i)
             /\ \A j \in pos + 1 .. i : Positional(q[j]) => q[j].exit = r[j]
    BY <1>5 DEF Reversed
  <2>3. Back(q', Len(q), Exits(q'), i)
    BY <1>6, <2>1, <2>2 DEF Back
  <2>4. ASSUME Kept(q'[i])
        PROVE  /\ i <= committed /\ Current(q', x, lastExit, i)
               /\ \A j \in pos .. i : Positional(q'[j]) => q'[j].exit = r[j]
    <3>1. /\ i <= committed /\ Current(q', x, lastExit, i)
          /\ \A j \in pos + 1 .. i : Positional(q[j]) => q[j].exit = r[j]
      BY <1>8, <2>1, <2>2, <2>4
    <3>2. ASSUME NEW j \in pos + 1 .. i, Positional(q'[j]) PROVE q'[j].exit = r[j]
      <4>1. j \in 1 .. Len(q) /\ j # pos
        BY <1>1, <2>1
      <4> QED BY <1>2, <3>1, <3>2, <4>1
    <3>3. Positional(b) => b.exit = r[pos]
      <4> SUFFICES ASSUME Positional(b) PROVE b.exit = r[pos]
        OBVIOUS
      <4>1. /\ Positional(c) /\ pos \in 1 .. committed /\ pos < committed /\ pos < Len(q)
            /\ pos + 1 \in pos + 1 .. i
        BY <1>1, <1>2, <2>1, <3>1 DEF Alike, Positional
      <4>2. r[pos] = IF Positional(n) THEN Brake(c, n, r[pos + 1]) ELSE 0
        BY <1>5, <4>1 DEF Solves, Back, c, n
      <4>3. Positional(n) => n.exit = r[pos + 1]
        BY <3>1, <4>1 DEF n
      <4>4. Joined(q, pos) <=> Positional(n)
        BY <4>1 DEF Joined, n
      <4> QED BY <1>2, <4>1, <4>2, <4>3, <4>4
    <3>4. ASSUME NEW j \in pos .. i, Positional(q'[j]) PROVE q'[j].exit = r[j]
      <4>1. CASE j = pos
        BY <3>3, <3>4, <4>1 DEF b
      <4>2. CASE j # pos
        <5>1. j \in pos + 1 .. i
          BY <1>1, <2>1, <4>2
        <5> QED BY <3>2, <3>4, <5>1
      <4> QED BY <4>1, <4>2
    <3> QED BY <3>1, <3>4
  <2> QED BY <2>3, <2>4
<1>12. \A i \in pos .. Len(q) :
         /\ Back(q', Len(q), Exits(q'), i)
         /\ Kept(q'[i]) =>
              /\ i <= committed /\ Current(q', x, lastExit, i)
              /\ \A j \in pos .. i : Positional(q'[j]) => q'[j].exit = r[j]
  <2> SUFFICES ASSUME NEW i \in pos .. Len(q)
               PROVE  /\ Back(q', Len(q), Exits(q'), i)
                      /\ Kept(q'[i]) =>
                           /\ i <= committed /\ Current(q', x, lastExit, i)
                           /\ \A j \in pos .. i : Positional(q'[j]) => q'[j].exit = r[j]
    OBVIOUS
  <2>1. CASE i = pos
    <3>1. Kept(b) => \A j \in pos .. i : Positional(q'[j]) => q'[j].exit = r[j]
      <4>1. \A j \in pos .. i : j = pos
        BY <1>1, <2>1
      <4> QED BY <1>9, <4>1 DEF b
    <3> QED BY <1>9, <1>10, <2>1, <3>1 DEF b
  <2>2. CASE i # pos
    <3>1. i \in pos + 1 .. Len(q)
      BY <1>1, <2>2
    <3> QED BY <1>11, <3>1
  <2> QED BY <2>1, <2>2
<1>13. CASE pc' = "reverse"
  <2>1. pos' = pos - 1 /\ pos' + 1 = pos /\ pc' # "forward"
    BY <1>1, <1>3, <1>13
  <2>2. Reversed(pos + 1, r, x)'
    BY <1>2, <1>3, <1>12, <2>1 DEF Reversed
  <2>3. \A i \in 1 .. pos' : IF i <= committed' THEN Current(q', x, lastExit', i) ELSE Fresh(q'[i])
    <3>1. \A i \in 1 .. pos' : i \in 1 .. pos /\ i \in 1 .. Len(q) /\ i # pos
      BY <1>1, <2>1
    <3> QED BY <1>2, <1>3, <1>5, <1>8, <3>1
  <2> QED BY <1>3, <1>7, <2>1, <2>2, <2>3 DEF Reversing
<1>14. CASE pc' = "forward"
  <2>1. pos = 1 /\ pos' = 1 /\ pc' # "reverse"
    BY <1>3, <1>14
  <2>2. \A i \in 1 .. Len(q') : Back(q', Len(q'), s, i)
    BY <1>2, <1>12, <2>1
  <2>3. Enters(q'[1], lastExit', s[1])
    <3>1. Enters(q'[1], entry0', q'[1].exit)
      BY <1>14, <2>1, ReversePaced DEF Paced, Braking
    <3> QED BY <1>1, <1>3, <1>6, <2>1, <3>1
  <2>4. ASSUME NEW i \in 1 .. Len(q')
        PROVE  /\ Positional(q'[i]) => q'[i].exit = s[i]
               /\ Kept(q'[i]) => Current(q', x, lastExit', i) /\ Agree(r, s, i)'
    <3>1. \A j \in 1 .. i : j \in 1 .. Len(q)
      BY <1>1, <1>2
    <3>2. ASSUME Kept(q'[i]) PROVE Agree(r, s, i)'
      <4>1. i \in pos .. Len(q)
        BY <1>2, <2>1
      <4>2. /\ i <= committed
            /\ \A j \in pos .. i : Positional(q'[j]) => q'[j].exit = r[j]
        BY <1>12, <3>2, <4>1
      <4>3. \A j \in 1 .. i : Positional(q'[j]) => s[j] = r[j]
        BY <1>6, <2>1, <3>1, <4>2
      <4> QED BY <1>3, <4>2, <4>3 DEF Agree
    <3>3. Kept(q'[i]) => Current(q', x, lastExit', i)
      BY <1>2, <1>3, <1>12, <2>1
    <3>4. Positional(q'[i]) => q'[i].exit = s[i]
      BY <1>2, <1>6
    <3> QED BY <3>2, <3>3, <3>4
  <2>5. 1 .. pos' - 1 = {}
    BY <2>1
  <2>6. Solves(q', committed', lastExit', r, x)
    BY <1>3, <1>7
  <2> QED BY <2>1, <2>2, <2>3, <2>4, <2>5, <2>6 DEF Forwarding
<1> QED BY <1>3, <1>13, <1>14

LEMMA ForwardPlanned ==
  ASSUME LIInv, Paced, ForwardStep, entry0 = lastExit,
         NEW r \in SpeedPlans, NEW x \in SpeedPlans, NEW s \in SpeedPlans, Forwarding(r, x, s)
  PROVE  /\ pc' = "forward" => Forwarding(r, x, s)'
         /\ pc' = "commit" => Settled(q', Len(q'), lastExit')
<1> DEFINE c == q[pos]
           b == q'[pos]
           u == EntrySpeed(pos)
           z == Exits(q)
           y == Exits(q')
<1>1. /\ q \in Seq(SoundBlocks) /\ Len(q) \in Nat /\ pos \in 1 .. Len(q) /\ pos \in Nat
      /\ committed \in Nat /\ committed <= Len(q) /\ lastExit \in Nat
      /\ c \in SoundBlocks
  <2>1. pos \in 1 .. Len(q)
    BY ForwardWrites
  <2> QED BY <2>1 DEF LIInv, Types
<1>2. /\ q' \in Seq(SoundBlocks) /\ Len(q') = Len(q)
      /\ Alike(b, c) /\ u \in Nat
      /\ \A i \in 1 .. Len(q) : i # pos => q'[i] = q[i]
      /\ Positional(c) =>
           /\ b.exit = Reached(c, u, c.exit)
           /\ b.after = Trapezoid(u, b) \/ (c.profiled /\ b = c)
  BY ForwardWrites
<1>3. /\ UNCHANGED <<committed, lastExit>>
      /\ \/ pc' = "forward" /\ pos # Len(q) /\ pos' = pos + 1
         \/ pc' = "commit" /\ pos = Len(q)
  BY <1>1 DEF ForwardStep, PassOver
<1>4. \A i \in 1 .. Len(q) : Alike(q'[i], q[i])
  BY KernelsAlike
<1>5. /\ Solves(q, committed, lastExit, r, x)
      /\ \A i \in 1 .. Len(q) : Back(q, Len(q), s, i)
      /\ Enters(q[1], lastExit, s[1])
      /\ \A i \in pos .. Len(q) :
           /\ Positional(q[i]) => q[i].exit = s[i]
           /\ Kept(q[i]) => Current(q, x, lastExit, i) /\ Agree(r, s, i)
      /\ \A i \in 1 .. pos - 1 :
           /\ Front(q, s, z, lastExit, i)
           /\ Current(q, z, lastExit, i)
           /\ Agree(r, s, i) /\ Positional(q[i]) => z[i] = x[i]
  BY DEF Forwarding
<1>6. /\ \A i \in 1 .. Len(q) : z[i] = q[i].exit /\ y[i] = q'[i].exit
      /\ y \in SpeedPlans
  BY <1>1, <1>2, ExitsPlan
<1>7. u = EnterAt(q, z, lastExit, pos)
  <2>1. CASE pos = 1
    BY <2>1 DEF EntrySpeed, EnterAt
  <2>2. CASE pos # 1
    <3>1. pos > 1 /\ pos - 1 \in 1 .. Len(q)
      BY <1>1, <2>2
    <3>2. z[pos - 1] = q[pos - 1].exit
      BY <1>6, <3>1
    <3> HIDE DEF z
    <3> QED BY <2>2, <3>1, <3>2 DEF EntrySpeed, EnterAt, Positional
  <2> QED BY <2>1, <2>2
<1> HIDE DEF b, c, u, y, z
<1>8. /\ Solves(q', committed, lastExit, r, x)
      /\ \A i \in 1 .. Len(q) : Back(q', Len(q), s, i)
      /\ Enters(q'[1], lastExit, s[1])
  <2>1. \A i \in 1 .. committed : Alike(q'[i], q[i])
    BY <1>1, <1>4
  <2>2. Solves(q', committed, lastExit, r, x)
    BY <1>1, <1>5, <2>1, SolvesAlike
  <2>3. \A i \in 1 .. Len(q) : Back(q', Len(q), s, i) <=> Back(q, Len(q), s, i)
    BY <1>1, <1>4, SolvesAlike
  <2>4. Alike(q'[1], q[1])
    BY <1>1, <1>4
  <2>5. Enters(q'[1], lastExit, s[1])
    BY <1>5, <2>4, SpeedsAlike
  <2> QED BY <1>5, <2>2, <2>3, <2>5
\* The speeds before the slot stay, and with them what its blocks are entered with.
<1>9. \A i \in 1 .. pos : EnterAt(q', y, lastExit, i) = EnterAt(q, z, lastExit, i)
  <2> SUFFICES ASSUME NEW i \in 1 .. pos
               PROVE  EnterAt(q', y, lastExit, i) = EnterAt(q, z, lastExit, i)
    OBVIOUS
  <2>1. CASE i = 1
    BY <2>1 DEF EnterAt
  <2>2. CASE i # 1
    <3>1. i > 1 /\ i - 1 \in 1 .. Len(q) /\ i - 1 # pos
      BY <1>1, <2>2
    <3>2. q'[i - 1] = q[i - 1] /\ y[i - 1] = z[i - 1]
      BY <1>2, <1>6, <3>1
    <3> QED BY <2>2, <3>2 DEF EnterAt
  <2> QED BY <2>1, <2>2
<1>10. Front(q', s, y, lastExit, pos)
  <2> SUFFICES ASSUME Positional(b)
               PROVE  y[pos] = Reached(b, EnterAt(q', y, lastExit, pos), s[pos])
    BY DEF Front, b
  <2>1. Positional(c) /\ pos \in 1 .. pos /\ pos \in pos .. Len(q)
    BY <1>1, <1>2 DEF Alike, Positional
  <2>2. c.exit = s[pos]
    BY <1>5, <2>1 DEF c
  <2>3. EnterAt(q', y, lastExit, pos) = u
    BY <1>7, <1>9, <2>1
  <2>4. Reached(b, u, s[pos]) = Reached(c, u, s[pos])
    <3>1. Alike(c, c)
      BY ItselfAlike
    <3> QED BY <1>2, <3>1, SpeedsAlike
  <2>5. y[pos] = b.exit
    BY <1>1, <1>6 DEF b
  <2> QED BY <1>2, <2>1, <2>2, <2>3, <2>4, <2>5
\* A slot up to which nothing has changed gets the speed it had.
<1>11. ASSUME Agree(r, s, pos), Positional(c)
       PROVE  EnterAt(q, x, lastExit, pos) = u /\ b.exit = x[pos]
  <2>1. EnterAt(q, x, lastExit, pos) = u
    <3>1. CASE pos = 1
      BY <1>7, <3>1 DEF EnterAt
    <3>2. CASE pos # 1
      <4>1. pos > 1 /\ pos - 1 \in 1 .. pos - 1 /\ pos - 1 \in Nat
        BY <1>1, <3>2
      <4>2. Agree(r, s, pos - 1)
        BY <1>1, <1>11, <4>1 DEF Agree
      <4>3. Positional(q[pos - 1]) => z[pos - 1] = x[pos - 1]
        BY <1>5, <4>1, <4>2
      <4> QED BY <1>7, <4>1, <4>3 DEF EnterAt
    <3> QED BY <3>1, <3>2
  <2>2. pos \in 1 .. committed /\ s[pos] = r[pos] /\ pos \in pos .. Len(q)
    BY <1>1, <1>11 DEF Agree, c
  <2>3. c.exit = r[pos]
    BY <1>5, <1>11, <2>2 DEF c
  <2>4. x[pos] = Reached(c, u, r[pos])
    BY <1>5, <1>11, <2>1, <2>2 DEF Solves, Front, c
  <2> QED BY <1>2, <1>11, <2>1, <2>3, <2>4
<1>12. Current(q', y, lastExit, pos)
  <2> SUFFICES ASSUME Positional(b)
               PROVE  b.exit = y[pos] /\ b.after = Trapezoid(u, b)
    BY <1>1, <1>7, <1>9 DEF Current, b
  <2>1. Positional(c) /\ pos \in pos .. Len(q) /\ b.exit = y[pos]
    BY <1>1, <1>2, <1>6 DEF Alike, Positional, b
  <2>2. CASE c.profiled /\ b = c
    <3>1. Current(q, x, lastExit, pos) /\ Agree(r, s, pos)
      BY <1>5, <2>1, <2>2 DEF Kept, c
    <3>2. c.after = Trapezoid(EnterAt(q, x, lastExit, pos), c)
      BY <2>1, <3>1 DEF Current, c
    <3> QED BY <1>11, <2>1, <2>2, <3>1, <3>2
  <2> QED BY <1>2, <2>1, <2>2
<1>13. \A i \in 1 .. pos :
         /\ Front(q', s, y, lastExit, i)
         /\ Current(q', y, lastExit, i)
         /\ Agree(r, s, i) /\ Positional(q'[i]) => y[i] = x[i]
  <2> SUFFICES ASSUME NEW i \in 1 .. pos
               PROVE  /\ Front(q', s, y, lastExit, i)
                      /\ Current(q', y, lastExit, i)
                      /\ Agree(r, s, i) /\ Positional(q'[i]) => y[i] = x[i]
    OBVIOUS
  <2>1. CASE i = pos
    <3>1. Agree(r, s, pos) /\ Positional(b) => y[pos] = x[pos]
      BY <1>1, <1>2, <1>6, <1>11 DEF Alike, Positional, b
    <3> QED BY <1>10, <1>12, <2>1, <3>1 DEF b
  <2>2. CASE i # pos
    <3>1. i \in 1 .. pos - 1 /\ i \in 1 .. Len(q)
      BY <1>1, <2>2
    <3>2. q'[i] = q[i] /\ y[i] = z[i] /\ EnterAt(q', y, lastExit, i) = EnterAt(q, z, lastExit, i)
      BY <1>2, <1>6, <1>9, <2>2, <3>1
    <3>3. /\ Front(q, s, z, lastExit, i) /\ Current(q, z, lastExit, i)
          /\ Agree(r, s, i) /\ Positional(q[i]) => z[i] = x[i]
      BY <1>5, <3>1
    <3> QED BY <3>2, <3>3 DEF Front, Current
  <2> QED BY <2>1, <2>2
<1>14. \A i \in pos + 1 .. Len(q) :
         /\ Positional(q'[i]) => q'[i].exit = s[i]
         /\ Kept(q'[i]) => Current(q', x, lastExit, i) /\ Agree(r, s, i)
  <2> SUFFICES ASSUME NEW i \in pos + 1 .. Len(q)
               PROVE  /\ Positional(q'[i]) => q'[i].exit = s[i]
                      /\ Kept(q'[i]) => Current(q', x, lastExit, i) /\ Agree(r, s, i)
    OBVIOUS
  <2>1. /\ i \in 1 .. Len(q) /\ i \in pos .. Len(q) /\ i # pos
        /\ i \in Nat \ {0} /\ i - 1 \in 1 .. Len(q)
    BY <1>1
  <2>2. q'[i] = q[i] /\ (i > 1 => Alike(q'[i - 1], q[i - 1]))
    BY <1>2, <1>4, <2>1
  <2>3. Current(q', x, lastExit, i) <=> Current(q, x, lastExit, i)
    BY <2>1, <2>2, CurrentAlike
  <2> QED BY <1>5, <2>1, <2>2, <2>3
<1>15. \A i \in 1 .. Len(q) : Agree(r, s, i)' <=> Agree(r, s, i)
  <2> SUFFICES ASSUME NEW i \in 1 .. Len(q) PROVE Agree(r, s, i)' <=> Agree(r, s, i)
    OBVIOUS
  <2>1. \A j \in 1 .. i : j \in 1 .. Len(q) /\ (Positional(q'[j]) <=> Positional(q[j]))
    BY <1>1, <1>4 DEF Alike, Positional
  <2> QED BY <1>3, <2>1 DEF Agree
<1>16. CASE pc' = "forward"
  <2>1. pos' = pos + 1 /\ pos' - 1 = pos
    BY <1>1, <1>3, <1>16
  <2>2. \A i \in pos' .. Len(q') :
          /\ Positional(q'[i]) => q'[i].exit = s[i]
          /\ Kept(q'[i]) => Current(q', x, lastExit', i) /\ Agree(r, s, i)'
    <3> SUFFICES ASSUME NEW i \in pos + 1 .. Len(q)
                 PROVE  /\ Positional(q'[i]) => q'[i].exit = s[i]
                        /\ Kept(q'[i]) => Current(q', x, lastExit', i) /\ Agree(r, s, i)'
      BY <1>2, <2>1
    <3>1. i \in 1 .. Len(q)
      BY <1>1
    <3> QED BY <1>3, <1>14, <1>15, <3>1
  <2>3. \A i \in 1 .. pos' - 1 :
          /\ Front(q', s, Exits(q'), lastExit', i)
          /\ Current(q', Exits(q'), lastExit', i)
          /\ Agree(r, s, i)' /\ Positional(q'[i]) => Exits(q')[i] = x[i]
    <3> SUFFICES ASSUME NEW i \in 1 .. pos
                 PROVE  /\ Front(q', s, y, lastExit', i)
                        /\ Current(q', y, lastExit', i)
                        /\ Agree(r, s, i)' /\ Positional(q'[i]) => y[i] = x[i]
      BY <2>1 DEF y
    <3>1. i \in 1 .. Len(q)
      BY <1>1
    <3> QED BY <1>3, <1>13, <1>15, <3>1
  <2>4. /\ Solves(q', committed', lastExit', r, x)
        /\ \A i \in 1 .. Len(q') : Back(q', Len(q'), s, i)
        /\ Enters(q'[1], lastExit', s[1])
    BY <1>2, <1>3, <1>8
  <2>5. Forwarding(r, x, s)'
    BY <2>2, <2>3, <2>4 DEF Forwarding
  <2> QED BY <1>16, <2>5
<1>17. CASE pc' = "commit"
  <2>1. pos = Len(q) /\ Len(q') = pos
    BY <1>2, <1>3, <1>17
  <2>2. Solves(q', Len(q'), lastExit', s, y)
    BY <1>3, <1>8, <1>13, <2>1 DEF Solves
  <2>3. \A i \in 1 .. Len(q') : Current(q', y, lastExit', i)
    BY <1>3, <1>13, <2>1
  <2>4. Settled(q', Len(q'), lastExit')
    BY <1>6, <2>2, <2>3 DEF Settled
  <2> QED BY <1>17, <2>4
<1> QED BY <1>3, <1>16, <1>17

\* A pass begins with nothing done, or there is nothing to plan.
LEMMA PassPlanned ==
  ASSUME LIInv', StartPass, lastExit' = lastExit, gone' = 0,
         committed' = 0 => lastExit' = 0, Settled(q', committed', lastExit'),
         \A i \in committed' + 1 .. Len(q') : Fresh(q'[i])
  PROVE  Planned'
<1>1. q' \in Seq(SoundBlocks) /\ Len(q') \in Nat /\ committed' \in Nat /\ committed' <= Len(q')
  BY DEF LIInv, Types
<1>2. CASE Len(q') > 0
  <2>1. pc' = "reverse" /\ pos' = Len(q') /\ entry0' = lastExit'
    BY <1>2 DEF StartPass
  <2>2. PICK r \in SpeedPlans, x \in SpeedPlans :
          /\ Solves(q', committed', lastExit', r, x)
          /\ \A i \in 1 .. committed' : Current(q', x, lastExit', i)
    BY DEF Settled
  <2>3. pos' + 1 .. Len(q') = {}
    BY <1>1, <2>1
  <2>4. Reversed(pos + 1, r, x)'
    BY <2>3 DEF Reversed
  <2>5. \A i \in 1 .. pos' : IF i <= committed' THEN Current(q', x, lastExit', i) ELSE Fresh(q'[i])
    <3> SUFFICES ASSUME NEW i \in 1 .. pos'
                 PROVE  IF i <= committed' THEN Current(q', x, lastExit', i) ELSE Fresh(q'[i])
      OBVIOUS
    <3>1. CASE i <= committed'
      <4>1. i \in 1 .. committed'
        BY <1>1, <2>1, <3>1
      <4> QED BY <2>2, <3>1, <4>1
    <3>2. CASE ~(i <= committed')
      <4>1. i \in committed' + 1 .. Len(q')
        <5> DEFINE k == committed'
                   l == Len(q')
        <5>1. k \in Nat /\ l \in Nat /\ i \in 1 .. l /\ ~(i <= k)
          BY <1>1, <2>1, <3>2
        <5> HIDE DEF k, l
        <5>2. i \in k + 1 .. l
          BY <5>1
        <5> QED BY <5>2 DEF k, l
      <4> QED BY <3>2, <4>1
    <3> QED BY <3>1, <3>2
  <2>6. Reversing(r, x)'
    BY <2>2, <2>4, <2>5 DEF Reversing
  <2> QED BY <2>1, <2>6 DEF Planned
<1>3. CASE ~(Len(q') > 0)
  <2>1. pc' = "idle"
    BY <1>3 DEF StartPass
  <2> QED BY <2>1 DEF Planned
<1> QED BY <1>2, <1>3

LEMMA SmoothInit == Init => Smooth
<1> SUFFICES ASSUME Init PROVE Smooth
  OBVIOUS
<1>1. Settled(q, committed, lastExit)
  <2>1. PICK r : r \in SpeedPlans
    <3>1. [i \in Nat |-> 0] \in SpeedPlans
      BY DEF SpeedPlans
    <3> QED BY <3>1
  <2>2. committed = 0 /\ 1 .. committed = {}
    BY DEF Init
  <2> QED BY <2>1, <2>2 DEF Settled, Solves
<1>2. Planned
  BY <1>1 DEF Planned, Init
<1>3. Running
  BY DEF Running, Init, Positional, Block
<1> QED BY <1>2, <1>3, NextCornerInit DEF Smooth

\* The planner does not touch what runs.
LEMMA RunningStays ==
  ASSUME Running, UNCHANGED <<lastExit, run, speed>>
  PROVE  Running'
BY DEF Running

LEMMA FreshBlock ==
  ASSUME NEW kind, NEW m
  PROVE  Fresh(Block(kind, m)) /\ (kind # "Positional" => ~Positional(Block(kind, m)))
BY DEF Fresh, Block, Positional

LEMMA AddSmooth ==
  ASSUME LIInv, LIInv', Planned, trouble' = {}, AddSegment
  PROVE  Planned'
<1>1. /\ pc = "add" /\ gone = 0 /\ q' = Append(q, Block("Positional", move))
      /\ UNCHANGED <<gone, committed, lastExit>>
      /\ q \in Seq(SoundBlocks) /\ Len(q) \in Nat /\ committed \in Nat /\ committed <= Len(q)
      /\ MoveOK(move)
  BY DEF AddSegment, LIInv, Types, InPass
<1>2. Len(q') = Len(q) + 1 /\ q'[Len(q) + 1] = Block("Positional", move)
      /\ \A i \in 1 .. Len(q) : q'[i] = q[i]
  <2>1. Block("Positional", move) \in SoundBlocks
    BY <1>1, NewBlock DEF Kinds
  <2> QED BY <1>1, <2>1
<1>3. /\ Settled(q, committed, lastExit) /\ (committed = 0 => lastExit = 0)
      /\ \A i \in committed + 1 .. Len(q) : Fresh(q[i])
  BY <1>1 DEF Planned
<1>4. Settled(q', committed', lastExit')
  <2>1. \A i \in 1 .. committed : q'[i] = q[i]
    BY <1>1, <1>2
  <2>2. Settled(q', committed, lastExit)
    BY <1>1, <1>3, <2>1, SettledAlike
  <2> QED BY <1>1, <2>2
<1>5. ASSUME NEW i \in committed' + 1 .. Len(q') PROVE Fresh(q'[i])
  <2>1. CASE i \in committed + 1 .. Len(q)
    <3>1. q'[i] = q[i]
      BY <1>1, <1>2, <2>1
    <3> QED BY <1>3, <2>1, <3>1
  <2>2. CASE i \notin committed + 1 .. Len(q)
    <3>1. i = Len(q) + 1
      BY <1>1, <1>2, <2>2
    <3> QED BY <1>2, <3>1, FreshBlock
  <2> QED BY <2>1, <2>2
<1>6. CASE StartPass
  BY <1>1, <1>3, <1>4, <1>5, <1>6, PassPlanned
<1>7. CASE ~StartPass
  <2>1. pc' = "add"
    <3>1. \/ pc' = pc
          \/ trouble' = trouble \cup {"skipped"}
      BY <1>7 DEF AddSegment
    <3> QED BY <1>1, <3>1
  <2> QED BY <1>1, <1>3, <1>4, <1>5, <2>1 DEF Planned
<1> QED BY <1>6, <1>7

LEMMA EmptySmooth ==
  ASSUME LIInv, LIInv', Planned, EmptyMove
  PROVE  Planned'
<1>1. /\ StartPass /\ UNCHANGED <<q, gone, committed, lastExit>> /\ pc = "idle"
      /\ gone = 0
  BY DEF EmptyMove, LIInv, Types, InPass
<1>2. /\ Settled(q, committed, lastExit) /\ (committed = 0 => lastExit = 0)
      /\ \A i \in committed + 1 .. Len(q) : Fresh(q[i])
  BY <1>1 DEF Planned
<1> QED BY <1>1, <1>2, PassPlanned

LEMMA CommitSmooth ==
  ASSUME LIInv, LIInv', NextCorner, Planned, Commit
  PROVE  Planned'
<1>1. /\ pc = "commit" /\ gone = 0 /\ gone' = 0 /\ lastExit' = lastExit
      /\ q' = SubSeq(q, gone + 1, Len(q)) /\ committed' = Len(q')
      /\ q \in Seq(SoundBlocks) /\ Len(q) \in Nat /\ gone \in 0 .. Len(q)
  BY DEF Commit, Planned, LIInv, Types
<1>2. Len(q') = Len(q) /\ \A i \in 1 .. Len(q) : q'[i] = q[i]
  <2>1. Len(q') = Len(q) - gone /\ \A i \in 1 .. Len(q') : q'[i] = q[i + gone]
    BY <1>1, Dropped
  <2>2. Len(q') = Len(q)
    BY <1>1, <2>1
  <2>3. ASSUME NEW i \in 1 .. Len(q) PROVE q'[i] = q[i]
    <3>1. q'[i] = q[i + gone] /\ i + gone = i
      BY <1>1, <2>1, <2>2
    <3> QED BY <3>1
  <2> QED BY <2>2, <2>3
<1>3. Settled(q', committed', lastExit')
  <2>1. Settled(q, Len(q), lastExit)
    BY <1>1 DEF Planned
  <2>2. Settled(q', Len(q), lastExit)
    BY <1>1, <1>2, <2>1, SettledAlike
  <2> QED BY <1>1, <1>2, <2>2
<1>4. committed' = 0 => lastExit' = 0
  BY <1>1, <1>2 DEF NextCorner
<1>5. \A i \in committed' + 1 .. Len(q') : Fresh(q'[i])
  BY <1>1, <1>2
<1>6. CASE StartPass
  BY <1>1, <1>3, <1>4, <1>5, <1>6, PassPlanned
<1>7. CASE ~StartPass
  <2>1. pc' \in {"add", "idle"}
    BY <1>7 DEF Commit
  <2> QED BY <1>1, <1>3, <1>4, <1>5, <2>1 DEF Planned
<1> QED BY <1>6, <1>7

LEMMA OtherSmooth ==
  ASSUME LIInv, NextCorner, Planned, trouble = {},
         NEW kind \in {"Velocity", "Reset"}, AddOther(kind)
  PROVE  Planned'
<1>1. /\ pc = "idle" /\ pc' = "idle" /\ gone = 0 /\ UNCHANGED <<gone, lastExit>>
      /\ q' = Append(q, Block(kind, NoMove)) /\ committed' = Len(q')
      /\ q \in Seq(SoundBlocks) /\ Len(q) \in Nat /\ lastExit \in Nat
      /\ Settled(q, committed, lastExit) /\ committed = Len(q)
  BY DEF AddOther, LIInv, Types, InPass, plannerVars, Planned, Profiles
<1>2. Block(kind, NoMove) \in SoundBlocks /\ ~Positional(Block(kind, NoMove))
  BY NewBlock, MovesAreOK, FreshBlock DEF Kinds
<1>3. Len(q') = Len(q) + 1
  BY <1>1, <1>2
<1>4. Settled(q', Len(q'), lastExit)
  BY <1>1, <1>2, SettledAppend
<1>5. committed' # 0 /\ \A i \in committed' + 1 .. Len(q') : Fresh(q'[i])
  BY <1>1, <1>3
<1> QED BY <1>1, <1>4, <1>5 DEF Planned

LEMMA FetchSmooth ==
  ASSUME LIInv, NextCorner, Planned, Running, trouble = {}, trouble' = {}, Fetch
  PROVE  Planned' /\ Running'
<1> DEFINE b == q[1]
<1>1. /\ committed > 0 /\ committed' = committed - 1 /\ gone = 0 /\ ~InPass
      /\ committed \in Nat /\ committed <= Len(q) /\ Len(q) \in Nat
      /\ q \in Seq(SoundBlocks) /\ q # <<>> /\ b \in SoundBlocks
      /\ lastExit \in Nat /\ Even(lastExit)
  <2>1. gone = 0 /\ ~InPass /\ committed > 0 /\ committed' = committed - 1
    BY DEF Fetch, Planned
  <2> QED BY <2>1 DEF LIInv, Types
<1>2. q' = Tail(q) /\ gone' = 0 /\ UNCHANGED plannerVars
  BY <1>1 DEF Fetch
<1>3. /\ lastExit' = IF Positional(b) THEN b.exit ELSE 0
      /\ run' = IF b.kind = "Reset" THEN Ended(run) ELSE b
      /\ ~Positional(run)
      /\ ~(run.kind = "Velocity" /\ b.kind # "Velocity")
      /\ IF b.kind = "Velocity" THEN speed' = 0 ELSE speed' = speed
      /\ ~(Positional(b) /\ speed' > b.nominal)
  <2> DEFINE aliased == run.kind = "Velocity" /\ b.kind # "Velocity"
  <2>1. /\ lastExit' = IF b.kind = "Positional" THEN b.exit ELSE 0
        /\ run' = IF b.kind = "Reset" THEN Ended(run) ELSE b
        /\ run.kind # "Positional"
        /\ speed' \in CASE aliased -> {0} \cup Magnitudes
                        [] b.kind = "Velocity" -> {0}
                        [] OTHER -> {speed}
        /\ (IF aliased THEN {"aliased"} ELSE {}) \subseteq trouble'
        /\ (IF b.kind = "Positional" /\ speed' > b.nominal THEN {"overspeed"} ELSE {}) \subseteq trouble'
    <3>1. gone + 1 = 1
      BY <1>1
    <3> HIDE DEF aliased
    <3> QED BY <3>1 DEF Fetch, aliased
  <2>2. ~aliased
    BY <2>1
  <2>3. ~(b.kind = "Positional" /\ speed' > b.nominal)
    BY <2>1
  <2> QED BY <2>1, <2>2, <2>3 DEF Positional
<1>4. /\ Settled(q, committed, lastExit) /\ speed = lastExit
      /\ pc \in {"idle", "add"} /\ pc' = pc
      /\ \A i \in committed + 1 .. Len(q) : Fresh(q[i])
  BY <1>1, <1>2, <1>3 DEF Planned, Running, InPass, LIInv, Types, plannerVars
<1>5. /\ Settled(q', committed', lastExit')
      /\ committed' = 0 => lastExit' = 0
      /\ Positional(b) =>
           /\ b.after = Trapezoid(lastExit, b) /\ lastExit' <= b.nominal
           /\ NominalLength(b) \/ (lastExit <= lastExit' + b.reach /\ lastExit' <= lastExit + b.reach)
  <2>1. committed \in 1 .. Len(q)
    BY <1>1
  <2> DEFINE v == lastExit'
  <2>2. /\ q \in Seq(SoundBlocks) /\ q' = Tail(q) /\ lastExit \in Nat
        /\ Settled(q, committed, lastExit)
        /\ v = IF Positional(b) THEN b.exit ELSE 0
    BY <1>1, <1>2, <1>3, <1>4
  <2> HIDE DEF v
  <2>3. /\ Settled(q', committed - 1, v)
        /\ committed = 1 => v = 0
        /\ Positional(b) =>
             /\ b.after = Trapezoid(lastExit, b) /\ v <= b.nominal
             /\ NominalLength(b) \/ (lastExit <= v + b.reach /\ v <= lastExit + b.reach)
    BY <2>1, <2>2, SettledTail
  <2>4. committed' = 0 => committed = 1
    BY <1>1
  <2> QED BY <1>1, <2>3, <2>4 DEF v
<1> HIDE DEF b
<1>6. \A i \in committed' + 1 .. Len(q') : Fresh(q'[i])
  <2> SUFFICES ASSUME NEW i \in committed' + 1 .. Len(q') PROVE Fresh(q'[i])
    OBVIOUS
  <2>1. q'[i] = q[i + 1] /\ i + 1 \in committed + 1 .. Len(q)
    BY <1>1, <1>2
  <2> QED BY <1>4, <2>1
<1>7. Planned'
  BY <1>2, <1>4, <1>5, <1>6 DEF Planned
<1>8. Running'
  <2>1. CASE Positional(b)
    <3>1. run' = b /\ lastExit' = b.exit /\ speed' = lastExit
      BY <1>3, <1>4, <2>1 DEF Positional
    <3>2. speed' <= b.nominal
      BY <1>1, <1>3, <2>1, <3>1 DEF SoundBlocks, Blocks
    <3> QED BY <1>1, <1>5, <2>1, <3>1, <3>2 DEF Running
  <2>2. CASE b.kind = "Velocity"
    BY <1>3, <2>2 DEF Running, Positional
  <2>3. CASE ~Positional(b) /\ b.kind # "Velocity"
    <3>1. lastExit = 0
      <4>1. Limit(run, q[gone + 1], lastExit) /\ gone + 1 = 1
        BY <1>1 DEF NextCorner
      <4> QED BY <2>3, <4>1 DEF Limit, Positional, b
    <3>2. speed' = 0 /\ lastExit' = 0
      BY <1>3, <1>4, <2>3, <3>1
    <3>3. ~Positional(run') /\ run'.kind # "Velocity"
      <4>1. Ended(run).kind = "Idle"
        BY EndedBlock DEF LIInv, Types
      <4> QED BY <1>3, <2>3, <4>1 DEF Positional
    <3> QED BY <3>2, <3>3 DEF Running
  <2> QED BY <2>1, <2>2, <2>3
<1> QED BY <1>7, <1>8

\* A block that ends does so with the speed it was planned to end with.
LEMMA FinishSmooth ==
  ASSUME LIInv, Paced, Running, Finish
  PROVE  /\ speed' = lastExit /\ Running'
         /\ Positional(run) => speed' = run.exit
<1>1. /\ run \in SoundBlocks /\ run' = Ended(run) /\ lastExit' = lastExit /\ lastExit \in Nat
      /\ run.kind \in {"Positional", "Velocity"}
      /\ Ended(run).kind = "Idle"
  BY EndedBlock DEF LIInv, Types, Finish, queueVars
<1>2. CASE Positional(run)
  <2>1. /\ lastExit = run.exit /\ run.after = Trapezoid(speed, run)
        /\ Even(speed) /\ speed <= run.nominal /\ run.exit <= run.nominal
        /\ NominalLength(run) \/ (speed <= run.exit + run.reach /\ run.exit <= speed + run.reach)
    BY <1>2 DEF Running
  <2>2. speed \in Nat
    BY DEF Paced, Counts
  <2>3. run.after # NotProfiled
    BY <1>1, <2>1, <2>2, TrapezoidIsNoMark
  <2>4. speed' = EndSpeed(speed, run, run.after)
    BY <1>2, <2>3 DEF Finish, SlowsAt, Positional
  <2>5. speed' = run.exit
    BY <1>1, <2>1, <2>2, <2>4, TrapezoidEnds
  <2> QED BY <1>1, <2>1, <2>5 DEF Running, Positional
<1>3. CASE ~Positional(run)
  <2>1. speed = lastExit /\ speed = 0 /\ speed' = 0
    BY <1>1, <1>3 DEF Running, Finish, Positional
  <2> QED BY <1>1, <1>3, <2>1 DEF Running, Positional
<1> QED BY <1>2, <1>3

LEMMA SmoothNext ==
  ASSUME LIInv, Paced, Smooth, [Next]_vars
  PROVE  Smooth'
<1>1. LIInv' /\ NextCorner'
  BY InvNext, NextCornerKept DEF Smooth
<1> SUFFICES ASSUME trouble' = {} PROVE Planned' /\ Running'
  BY <1>1 DEF Smooth
<1>2. trouble = {}
  <2>1. trouble \subseteq trouble'
    BY DEF Next, Plan, BeginMove, AddSegment, EmptyMove, ReverseStep, ForwardStep, Commit,
           AddOther, Fetch, Finish, vars
  <2> QED BY <2>1
<1>3. NextCorner /\ Planned /\ Running
  BY <1>2 DEF Smooth
<1>4. ASSUME NEW m \in Moves, NEW k \in SegmentCounts, BeginMove(m, k)
      PROVE  Planned' /\ Running'
  <2>1. pc = "idle" /\ pc' = "add" /\ UNCHANGED <<q, gone, committed, lastExit, run, speed>>
    BY <1>4 DEF BeginMove, queueVars, stepperVars
  <2> QED BY <1>3, <2>1, RunningStays DEF Planned
<1>5. CASE AddSegment
  BY <1>1, <1>3, <1>5, AddSmooth, RunningStays DEF AddSegment, stepperVars
<1>6. CASE EmptyMove
  BY <1>1, <1>3, <1>6, EmptySmooth, RunningStays DEF EmptyMove, stepperVars
<1>7. ASSUME NEW kind \in {"Velocity", "Reset"}, AddOther(kind) PROVE Planned' /\ Running'
  BY <1>2, <1>3, <1>7, OtherSmooth, RunningStays DEF AddOther, stepperVars
<1>8. CASE ReverseStep
  <2>1. /\ pc = "reverse" /\ pc' \in {"reverse", "forward"}
        /\ UNCHANGED <<gone, committed, lastExit, entry0, run, speed>>
    BY <1>8 DEF ReverseStep, stepperVars
  <2>2. entry0 = lastExit
    BY <1>3, <2>1 DEF Planned
  <2>3. PICK r \in SpeedPlans, x \in SpeedPlans : Reversing(r, x)
    BY <1>3, <2>1 DEF Planned
  <2>4. PICK s : s = Exits(q') /\ s \in SpeedPlans
    BY <1>8, KernelsAlike, ExitsPlan
  <2>5. /\ pc' = "reverse" => Reversing(r, x)'
        /\ pc' = "forward" => Forwarding(r, x, s)'
    BY <1>8, <2>2, <2>3, <2>4, ReversePlanned
  <2>6. Planned'
    BY <1>3, <2>1, <2>2, <2>4, <2>5 DEF Planned
  <2> QED BY <1>3, <2>1, <2>6, RunningStays
<1>9. CASE ForwardStep
  <2>1. /\ pc = "forward" /\ pc' \in {"forward", "commit"}
        /\ UNCHANGED <<gone, committed, lastExit, run, speed>>
        /\ pc' = "forward" => entry0' = entry0
    BY <1>9 DEF ForwardStep, stepperVars
  <2>2. entry0 = lastExit
    BY <1>3, <2>1 DEF Planned
  <2>3. PICK r \in SpeedPlans, x \in SpeedPlans, s \in SpeedPlans : Forwarding(r, x, s)
    BY <1>3, <2>1 DEF Planned
  <2>4. /\ pc' = "forward" => Forwarding(r, x, s)'
        /\ pc' = "commit" => Settled(q', Len(q'), lastExit')
    BY <1>9, <2>2, <2>3, ForwardPlanned
  <2>5. Planned'
    BY <1>3, <2>1, <2>2, <2>4 DEF Planned
  <2> QED BY <1>3, <2>1, <2>5, RunningStays
<1>10. CASE Commit
  BY <1>1, <1>3, <1>10, CommitSmooth, RunningStays DEF Commit, stepperVars
<1>11. CASE Fetch
  BY <1>2, <1>3, <1>11, FetchSmooth
<1>12. CASE Finish
  <2>1. UNCHANGED <<q, gone, committed, lastExit, pc, pos, entry0>>
    BY <1>12 DEF Finish, queueVars, plannerVars
  <2>2. Planned'
    BY <1>3, <2>1 DEF Planned, Reversing, Reversed, Forwarding, Agree
  <2> QED BY <1>3, <1>12, <2>2, FinishSmooth
<1>13. CASE UNCHANGED vars
  <2>1. UNCHANGED <<q, gone, committed, lastExit, pc, pos, entry0, run, speed>>
    BY <1>13 DEF vars, queueVars, plannerVars, stepperVars
  <2>2. Planned'
    BY <1>3, <2>1 DEF Planned, Reversing, Reversed, Forwarding, Agree
  <2> QED BY <1>3, <2>1, <2>2, RunningStays
<1> QED BY <1>4, <1>5, <1>6, <1>7, <1>8, <1>9, <1>10, <1>11, <1>12, <1>13 DEF Next, Plan

LEMMA SmoothInvariant == Spec => []Smooth
<1>1. Init => Smooth
  BY SmoothInit
<1>2. LIInv /\ Paced /\ Smooth /\ [Next]_vars => Smooth'
  BY SmoothNext
<1> QED BY <1>1, <1>2, Invariant, PacedInvariant, PTL DEF Spec

\* The cached profiles never go stale: as long as nothing disturbed the planner, the
\* block that runs has the trapezoid of the speed it was entered with, although the
\* passes recompute it only when the exit speed of the block changes.
THEOREM ProfilesStayCurrent == Spec => []ProfileCurrent
<1>1. Smooth => ProfileCurrent
  BY DEF Smooth, Running, ProfileCurrent, Positional
<1> QED BY <1>1, SmoothInvariant, PTL

\* Blocks end as planned, as long as nothing disturbed the planner: the trapezoid of
\* the forward pass takes a block from where it was entered to its exit speed.
THEOREM PlansAreKept == Spec => KeepsPlan
<1>1. LIInv /\ Paced /\ Smooth /\ [Next]_vars
        => [Finish /\ trouble = {} /\ run.kind = "Positional" => speed' = run.exit]_vars
  BY FinishSmooth DEF Smooth, Positional
<1> QED BY <1>1, Invariant, PacedInvariant, SmoothInvariant, PTL DEF Spec, KeepsPlan

\* As long as nothing disturbed the planner, a block that ends while the machine
\* moves has a committed one behind it: the last committed block stops.
THEOREM NoEndInMotion == Spec => StopsBeforeTheEnd
<1>1. ASSUME LIInv, Paced, Smooth, Finish, trouble = {} PROVE speed' = 0 \/ committed > 0
  <2>1. speed' = lastExit /\ (committed = 0 => lastExit = 0) /\ committed \in Nat
    BY <1>1, FinishSmooth DEF Smooth, Planned, LIInv, Types
  <2> QED BY <2>1
<1>2. LIInv /\ Paced /\ Smooth /\ [Next]_vars
        => [Finish /\ trouble = {} => speed' = 0 \/ committed > 0]_vars
  BY <1>1
<1> QED BY <1>2, Invariant, PacedInvariant, SmoothInvariant, PTL DEF Spec, StopsBeforeTheEnd

\* The one way to enter a block above its nominal speed, with the planner
\* undisturbed: it turns back on the axis of the block before.
THEOREM OverspeedReverses == Spec => OverspeedOnlyOnReversal
<1>1. ASSUME LIInv, Smooth, Fetch, trouble = {}, trouble' = {"overspeed"}
      PROVE  Reverses(run, run')
  <2> DEFINE b == q[gone + 1]
             aliased == run.kind = "Velocity" /\ b.kind # "Velocity"
  <2>1. gone = 0 /\ ~InPass
    BY <1>1 DEF Smooth, Planned, Fetch
  <2>2. /\ "overspeed" \in (IF b.kind = "Positional" /\ speed' > b.nominal
                              THEN {"overspeed"} ELSE {})
        /\ ~aliased
    <3>1. trouble' = trouble
            \cup (IF InPass THEN {"torn"} ELSE {})
            \cup (IF aliased THEN {"aliased"} ELSE {})
            \cup (IF b.kind = "Positional" /\ speed' > b.nominal THEN {"overspeed"} ELSE {})
      BY <1>1 DEF Fetch
    <3> HIDE DEF aliased, b
    <3> QED BY <1>1, <2>1, <3>1
  <2>3. b.kind = "Positional" /\ speed' > b.nominal
    BY <2>2
  <2>4. run' = b /\ run.kind # "Positional" /\ speed' = speed
    <3> HIDE DEF b
    <3>1. /\ run.kind # "Positional"
          /\ run' = IF b.kind = "Reset" THEN Ended(run) ELSE b
          /\ speed' \in CASE aliased -> {0} \cup Magnitudes
                          [] b.kind = "Velocity" -> {0}
                          [] OTHER -> {speed}
      BY <1>1 DEF Fetch, b
    <3> QED BY <2>2, <2>3, <3>1
  <2>5. speed = lastExit
    BY <1>1, <2>4 DEF Smooth, Running, Positional
  <2>6. committed > 0 /\ gone + 1 \in 1 .. Len(q) /\ b \in SoundBlocks /\ lastExit \in Nat
        /\ Len(q) # gone
    <3>1. committed > 0 /\ gone \in Nat /\ committed \in Nat /\ gone + committed <= Len(q)
          /\ q \in Seq(SoundBlocks) /\ lastExit \in Nat
      BY <1>1 DEF Fetch, LIInv, Types
    <3> QED BY <3>1
  <2>7. Limit(run, b, lastExit)
    BY <1>1, <2>6 DEF Smooth, NextCorner
  <2>8. b.nominal \in Nat
    BY <2>6 DEF SoundBlocks, Blocks
  <2> HIDE DEF b
  <2> QED BY <2>3, <2>4, <2>5, <2>6, <2>7, <2>8 DEF Limit, Reverses
<1>2. LIInv /\ Smooth /\ [Next]_vars
        => [Fetch /\ trouble = {} /\ trouble' = {"overspeed"} => Reverses(run, run')]_vars
  BY <1>1
<1> QED BY <1>2, Invariant, SmoothInvariant, PTL DEF Spec, OverspeedOnlyOnReversal
=============================================================================
