------------------------- MODULE PlannerQueueProofs -------------------------
(***************************************************************************)
(* Theorems about PlannerQueue, for every buffer size, set of callers,     *)
(* priorities, operations and segment counts.  With one calling thread, as *)
(* the comment above plannerInit asks, the ring implements the abstract    *)
(* queue of BlockQueue, and two properties of a stopped machine and of     *)
(* uncommitted blocks follow.                                              *)
(***************************************************************************)
EXTENDS PlannerQueue, FiniteSetTheorems, SequenceTheorems, TLAPS

-----------------------------------------------------------------------------
(* Arithmetic of ring indices *)

\* Division with remainder, and its uniqueness.
LEMMA DivMod ==
  ASSUME NEW S \in Nat \ {0}, NEW a \in Nat
  PROVE  /\ a \div S \in Nat
         /\ a % S \in 0 .. S - 1
         /\ a = S * (a \div S) + (a % S)
OBVIOUS

LEMMA ModUnique ==
  ASSUME NEW S \in Nat \ {0}, NEW q \in Nat, NEW r \in 0 .. S - 1
  PROVE  (S * q + r) % S = r
OBVIOUS

\* A number below the modulus is its own remainder.
LEMMA ModSmall ==
  ASSUME NEW S \in Nat \ {0}, NEW r \in 0 .. S - 1
  PROVE  r % S = r
<1>1. S * 0 + r = r  OBVIOUS
<1> QED BY <1>1, ModUnique

\* Advancing a wrapped index is wrapping the advanced one.
LEMMA ModSucc ==
  ASSUME NEW S \in Nat \ {0}, NEW a \in Nat
  PROVE  ((a % S) + 1) % S = (a + 1) % S
<1> DEFINE q == a \div S
           r == a % S
<1>1. q \in Nat /\ r \in 0 .. S - 1 /\ a = S * q + r
  BY DivMod
<1> HIDE DEF q, r
<1>2. CASE r + 1 < S
  <2>1. a + 1 = S * q + (r + 1) /\ r + 1 \in 0 .. S - 1  BY <1>1, <1>2
  <2>2. (a + 1) % S = r + 1  BY <2>1, <1>1, ModUnique
  <2>3. (r + 1) % S = r + 1  BY <2>1, ModSmall
  <2> QED BY <2>2, <2>3 DEF r
<1>3. CASE r + 1 = S
  <2>1. a + 1 = S * (q + 1) + 0 /\ q + 1 \in Nat /\ 0 \in 0 .. S - 1
    BY <1>1, <1>3
  <2>2. (a + 1) % S = 0  BY <2>1, ModUnique
  <2>3. S = S * 1 + 0 /\ 0 \in 0 .. S - 1  OBVIOUS
  <2>4. S % S = 0  BY <2>3, ModUnique
  <2> QED BY <1>3, <2>2, <2>4 DEF r
<1> QED BY <1>1, <1>2, <1>3

\* A summand may be wrapped first.
LEMMA ModAdd ==
  ASSUME NEW S \in Nat \ {0}, NEW a \in Nat, NEW b \in Nat
  PROVE  ((a % S) + b) % S = (a + b) % S
<1> DEFINE q == a \div S
           r == a % S
<1>1. q \in Nat /\ r \in 0 .. S - 1 /\ a = S * q + r
  BY DivMod
<1> HIDE DEF q, r
<1>2. r + b \in Nat  BY <1>1
<1> DEFINE t == (r + b) \div S
           u == (r + b) % S
<1>3. t \in Nat /\ u \in 0 .. S - 1 /\ r + b = S * t + u
  BY <1>2, DivMod
<1>4. u = (r + b) % S  OBVIOUS
<1> HIDE DEF t, u
<1>5. a + b = S * (q + t) + u /\ q + t \in Nat
  BY <1>1, <1>3
<1>6. (a + b) % S = u
  BY <1>3, <1>5, ModUnique
<1> QED BY <1>4, <1>6 DEF r

\* Fewer than S consecutive numbers have different remainders modulo S.
LEMMA ModDistinct ==
  ASSUME NEW S \in Nat \ {0}, NEW a \in Nat, NEW i \in Nat, NEW n \in Nat,
         i < n, n < S
  PROVE  (a + i) % S # (a + n) % S
<1>1. (a + i) % S = (a + n) % S => FALSE
  <2> SUFFICES ASSUME (a + i) % S = (a + n) % S PROVE FALSE
    OBVIOUS
  <2> DEFINE q == (a + i) \div S
             p == (a + n) \div S
             r == (a + i) % S
  <2>0. a + i \in Nat /\ a + n \in Nat
    OBVIOUS
  <2>1. q \in Nat /\ r \in 0 .. S - 1 /\ a + i = S * q + r
    BY <2>0, DivMod
  <2>2. p \in Nat /\ a + n = S * p + r
    BY <2>0, DivMod
  <2> HIDE DEF q, p, r
  <2>3. n - i = S * (p - q)
    BY <2>1, <2>2
  <2>4. n - i \in 1 .. S - 1
    OBVIOUS
  <2>5. CASE p - q <= 0
    <3>1. S * (p - q) <= 0  BY <2>1, <2>5
    <3> QED BY <2>3, <2>4, <3>1
  <2>6. CASE p - q >= 1
    <3>1. S * (p - q) >= S  BY <2>1, <2>6
    <3> QED BY <2>3, <2>4, <3>1
  <2> QED BY <2>1, <2>5, <2>6
<1> QED BY <1>1

-----------------------------------------------------------------------------
(* Types *)

\* Succ stays inside the buffer.
LEMMA SuccInSlots ==
  ASSUME NEW p \in Nat
  PROVE  Succ(p) \in Slots
<1>1. Size \in Nat \ {0} /\ p + 1 \in Nat  BY SizeAssumption
<1> QED BY <1>1, DivMod DEF Succ, Slots

\* The step to the next segment of a move keeps the types of what it changes.
LEMMA NextSegmentType ==
  ASSUME TypeOK, NEW c \in Callers, NextSegment(c)
  PROVE  seg' \in [Callers -> Nat \ {0}] /\ pc' \in [Callers -> Places]
<1>1. seg[c] + 1 \in Nat \ {0} /\ seg' = [seg EXCEPT ![c] = seg[c] + 1]
  BY DEF TypeOK, NextSegment
<1>2. seg' \in [Callers -> Nat \ {0}]
  BY <1>1 DEF TypeOK
<1>3. \E p \in Places : pc' = [pc EXCEPT ![c] = p]
  BY DEF NextSegment, Places
<1>4. pc' \in [Callers -> Places]
  BY <1>3 DEF TypeOK
<1> QED BY <1>2, <1>4

\* So does the signal of the semaphore.
LEMMA SemSignalType ==
  ASSUME TypeOK, SemSignal
  PROVE  /\ sem' \in Nat
         /\ waiters' \in Seq(Callers)
         /\ pc' \in [Callers -> Places]
<1>1. CASE waiters = <<>>
  BY <1>1 DEF TypeOK, SemSignal
<1>2. CASE waiters # <<>>
  <2>1. Head(waiters) \in Callers /\ Tail(waiters) \in Seq(Callers)
    BY <1>2 DEF TypeOK
  <2> QED BY <1>2, <2>1 DEF TypeOK, SemSignal, Places
<1> QED BY <1>1, <1>2

LEMMA TypeInit == Init => TypeOK
<1> SUFFICES ASSUME Init PROVE TypeOK
  OBVIOUS
<1>1. 0 \in Slots /\ Size - 2 \in Nat  BY SizeAssumption DEF Slots
<1>2. <<>> \in Seq(Callers)  OBVIOUS
<1>3. buf \in [Slots -> Modes] /\ op \in [Callers -> Modes]
  BY DEF Init, Modes
<1>4. pc \in [Callers -> Places]
  BY DEF Init, Places
<1>5. slot \in [Callers -> Slots]
  BY <1>1 DEF Init
<1>6. seg \in [Callers -> Nat \ {0}] /\ segs \in [Callers -> Nat \ {0}]
  BY DEF Init
<1> QED BY <1>1, <1>2, <1>3, <1>4, <1>5, <1>6 DEF Init, TypeOK

LEMMA TypeStep == TypeOK /\ [Next]_vars => TypeOK'
<1> SUFFICES ASSUME TypeOK, [Next]_vars PROVE TypeOK'
  OBVIOUS
<1> USE DEF TypeOK
<1>1. ASSUME NEW c \in Callers, BeginCommand(c) PROVE TypeOK'
  <2>1. PICK m \in Motion \cup {"Reset"}, k \in Nat \ {0} : Begin(c, m, k)
    BY <1>1, SegmentsAssumption DEF BeginCommand, Motion
  <2> QED BY <1>1, <2>1 DEF BeginCommand, Begin, Motion, Modes, CallModes, Places,
          queueVars, semVars, stepperVars
<1>2. ASSUME NEW c \in Callers, BeginVelocity(c) \/ BeginEmpty(c) PROVE TypeOK'
  <2>1. CASE BeginVelocity(c)
    BY <2>1 DEF BeginVelocity, Begin, Motion, Modes, CallModes, Places,
       queueVars, semVars, stepperVars
  <2>2. CASE BeginEmpty(c)
    BY <2>2 DEF BeginEmpty, Begin, Motion, Modes, CallModes, Places,
       queueVars, semVars, stepperVars
  <2> QED BY <1>2, <2>1, <2>2
<1>3. ASSUME NEW c \in Callers, BeginEstop(c) PROVE TypeOK'
  <2>1. PICK m \in {"Estop", "Estop_Clear"} : Begin(c, m, 1)
    BY <1>3 DEF BeginEstop
  <2>2. mtx' \in Callers \cup {Nobody} /\ pc' \in [Callers -> Places]
    BY <1>3 DEF BeginEstop, Places
  <2>3. op' \in [Callers -> Modes] /\ seg' \in [Callers -> Nat \ {0}]
        /\ segs' \in [Callers -> Nat \ {0}]
    BY <2>1 DEF Begin, Modes, CallModes
  <2> QED BY <2>1, <2>2, <2>3 DEF Begin, queueVars, semVars, stepperVars
<1>4. ASSUME NEW c \in Callers, Locked(c) PROVE TypeOK'
  BY <1>4 DEF Locked, Places, queueVars, semVars, stepperVars
<1>5. ASSUME NEW c \in Callers, Finish(c) PROVE TypeOK'
  <2>1. mtx' \in Callers \cup {Nobody} /\ pc' \in [Callers -> Places]
    <3>1. CASE mtx = c /\ MutexWaiters # {}
      BY <1>5, <3>1 DEF Finish, MutexWaiters, Places
    <3>2. CASE ~(mtx = c /\ MutexWaiters # {})
      BY <1>5, <3>2 DEF Finish, Places
    <3> QED BY <3>1, <3>2
  <2>2. 0 \in Slots  BY SizeAssumption DEF Slots
  <2> QED BY <1>5, <2>1, <2>2 DEF Finish, Modes, queueVars, semVars, stepperVars
<1>6. ASSUME NEW c \in Callers, Reserve(c) PROVE TypeOK'
  <2>1. CASE sem > 0
    BY <1>6, <2>1 DEF Reserve, Places, queueVars, stepperVars, printerVars
  <2>2. CASE ~(sem > 0)
    <3>1. Append(waiters, c) \in Seq(Callers)  OBVIOUS
    <3> QED BY <1>6, <2>2, <3>1 DEF Reserve, Places, queueVars, stepperVars, printerVars
  <2> QED BY <2>1, <2>2
<1>7. ASSUME NEW c \in Callers, TakeSlot(c) PROVE TypeOK'
  BY <1>7 DEF TakeSlot, Places, queueVars, semVars, stepperVars, printerVars
<1>8. ASSUME NEW c \in Callers, Fill(c) PROVE TypeOK'
  BY <1>8 DEF Fill, Places, semVars, stepperVars, printerVars
<1>9. ASSUME NEW c \in Callers, AddBlock(c) PROVE TypeOK'
  <2>1. wrptr' \in Slots
    <3>1. wrptr \in Nat  BY DEF Slots
    <3> QED BY <1>9, <3>1, SuccInSlots DEF AddBlock
  <2>2. seg' \in [Callers -> Nat \ {0}] /\ pc' \in [Callers -> Places]
    BY <1>9, NextSegmentType DEF AddBlock, Places
  <2> QED BY <1>9, <2>1, <2>2 DEF AddBlock, semVars, stepperVars, printerVars
<1>10. ASSUME NEW c \in Callers, Commit(c) PROVE TypeOK'
  <2>1. seg' \in [Callers -> Nat \ {0}] /\ pc' \in [Callers -> Places]
    BY <1>10, NextSegmentType DEF Commit, Places
  <2> QED BY <1>10, <2>1 DEF Commit, semVars, stepperVars, printerVars
<1>11. ASSUME NEW c \in Callers, InterruptCommit(c) PROVE TypeOK'
  <2>1. wrptr' \in Slots
    <3>1. rdptr \in Nat  BY DEF Slots
    <3> QED BY <1>11, <3>1, SuccInSlots DEF InterruptCommit, WriteAfterInterrupt
  <2>2. pc' \in [Callers -> Places]
    BY <1>11 DEF InterruptCommit, Places
  <2>3. sem' \in Nat
    BY <1>11, SizeAssumption DEF InterruptCommit, UnitsAfterInterrupt
  <2>4. waiters' \in Seq(Callers)
    BY <1>11 DEF InterruptCommit
  <2> QED BY <1>11, <2>1, <2>2, <2>3, <2>4 DEF InterruptCommit, stepperVars, printerVars
<1>12. CASE StepperFetch
  <2>1. rdptr' \in Slots
    <3>1. rdptr \in Nat  BY DEF Slots
    <3> QED BY <1>12, <3>1, SuccInSlots DEF StepperFetch
  <2>2. counter' \in Nat
    BY <1>12 DEF StepperFetch, MayFetch
  <2>3. estop' \in BOOLEAN
    BY <1>12 DEF StepperFetch, EstopAfter
  <2>4. active' \in Motion \cup {"Idle"}
    BY <1>12 DEF StepperFetch, ActiveAfter
  <2> QED BY <1>12, <2>1, <2>2, <2>3, <2>4, SemSignalType DEF StepperFetch, printerVars
<1>13. CASE StepperDone
  BY <1>13 DEF StepperDone, queueVars, semVars, callerVars, printerVars
<1>14. CASE UNCHANGED vars
  BY <1>14 DEF vars, queueVars, semVars, callerVars, stepperVars, printerVars
<1> QED BY <1>1, <1>2, <1>3, <1>4, <1>5, <1>6, <1>7, <1>8, <1>9, <1>10, <1>11, <1>12,
           <1>13, <1>14 DEF Next, Call, Proceed

\* The ring's pointers stay inside the buffer, q_sem and q_counter never go
\* below zero, and every thread is where the code can be, whatever the callers do.
THEOREM TypeCorrect == Spec => []TypeOK
BY TypeInit, TypeStep, PTL DEF Spec

-----------------------------------------------------------------------------
(* The pointers and the counters *)

LEMMA PointersInit == Init => PointersAgree
<1> SUFFICES ASSUME Init PROVE PointersAgree
  OBVIOUS
<1>1. 0 \in 0 .. Size - 1 /\ Size \in Nat \ {0}  BY SizeAssumption
<1>2. 0 % Size = 0  BY <1>1, ModSmall
<1> QED BY <1>2 DEF Init, PointersAgree

LEMMA PointersStep == TypeOK /\ PointersAgree /\ [Next]_vars => PointersAgree'
<1> SUFFICES ASSUME TypeOK, PointersAgree, [Next]_vars PROVE PointersAgree'
  OBVIOUS
<1>0. Size \in Nat \ {0} /\ rdptr \in Nat /\ counter \in Nat /\ pending \in Nat
  BY SizeAssumption DEF TypeOK, Slots
<1> DEFINE Still == UNCHANGED <<rdptr, wrptr, counter, pending>>
<1>1. CASE Still
  BY <1>1 DEF PointersAgree
<1>2. ASSUME NEW c \in Callers, AddBlock(c) PROVE PointersAgree'
  <2>1. rdptr + counter + pending \in Nat  BY <1>0
  <2>2. wrptr' = (rdptr + counter + pending + 1) % Size
    BY <1>0, <1>2, <2>1, ModSucc DEF AddBlock, Succ, PointersAgree
  <2>3. rdptr' + counter' + pending' = rdptr + counter + pending + 1
    BY <1>0, <1>2 DEF AddBlock
  <2> QED BY <2>2, <2>3 DEF PointersAgree
<1>3. ASSUME NEW c \in Callers, Commit(c) PROVE PointersAgree'
  <2>1. rdptr' + counter' + pending' = rdptr + counter + pending
    BY <1>0, <1>3 DEF Commit
  <2>2. wrptr' = wrptr  BY <1>3 DEF Commit
  <2> QED BY <2>1, <2>2 DEF PointersAgree
<1>4. ASSUME NEW c \in Callers, InterruptCommit(c) PROVE PointersAgree'
  <2>1. rdptr' + counter' + pending' = rdptr + 1
    BY <1>0, <1>4 DEF InterruptCommit
  <2>2. wrptr' = (rdptr + 1) % Size
    BY <1>4 DEF InterruptCommit, WriteAfterInterrupt, Succ
  <2> QED BY <2>1, <2>2 DEF PointersAgree
<1>5. CASE StepperFetch
  <2>1. counter - 1 + pending \in Nat /\ rdptr + 1 \in Nat
    BY <1>0, <1>5 DEF StepperFetch, MayFetch
  <2>2. rdptr' = (rdptr + 1) % Size
    BY <1>5 DEF StepperFetch, Succ
  <2>3. rdptr + 1 + (counter - 1 + pending) = rdptr + counter + pending
    BY <1>0
  <2>4. (((rdptr + 1) % Size) + (counter - 1 + pending)) % Size
          = (rdptr + counter + pending) % Size
    <3> DEFINE x == rdptr + 1
               y == counter - 1 + pending
    <3>1. x \in Nat /\ y \in Nat /\ x + y = rdptr + counter + pending
      BY <2>1, <2>3
    <3> HIDE DEF x, y
    <3>2. ((x % Size) + y) % Size = (x + y) % Size
      BY <1>0, <3>1, ModAdd
    <3> QED BY <3>1, <3>2 DEF x, y
  <2>5. rdptr' \in Nat
    <3>1. (rdptr + 1) % Size \in 0 .. Size - 1  BY <1>0, <2>1, DivMod
    <3> QED BY <1>0, <2>2, <3>1
  <2>6. rdptr' + counter' + pending' = rdptr' + (counter - 1 + pending)
    BY <1>0, <1>5, <2>5 DEF StepperFetch
  <2>7. wrptr' = wrptr  BY <1>5 DEF StepperFetch
  <2> QED BY <2>2, <2>4, <2>6, <2>7 DEF PointersAgree
<1>6. ASSUME NEW c \in Callers, Call(c) PROVE Still
  BY <1>6 DEF Call, BeginCommand, BeginEmpty, BeginVelocity, BeginEstop, Begin, queueVars
<1>7. ASSUME NEW c \in Callers,
             Locked(c) \/ Finish(c) \/ Reserve(c) \/ TakeSlot(c) \/ Fill(c)
      PROVE Still
  BY <1>7 DEF Locked, Finish, Reserve, TakeSlot, Fill, queueVars
<1>8. CASE StepperDone \/ UNCHANGED vars
  BY <1>1, <1>8 DEF StepperDone, vars, queueVars
<1> QED BY <1>1, <1>2, <1>3, <1>4, <1>5, <1>6, <1>7, <1>8 DEF Next, Proceed

\* The write pointer is always the slot after the last block added: adding,
\* committing, fetching and interrupting by any number of threads, in any order,
\* never lets the pointers drift from the counters.
THEOREM PointersAlwaysAgree == Spec => []PointersAgree
BY TypeInit, TypeStep, PointersInit, PointersStep, PTL DEF Spec

-----------------------------------------------------------------------------
(* The units of the semaphore *)

\* The threads in the semaphore's queue are blocked, each of them once.
WaitersBlocked ==
  \A i \in 1 .. Len(waiters) :
    /\ pc[waiters[i]] = "blocked"
    /\ \A j \in 1 .. Len(waiters) : i # j => waiters[i] # waiters[j]

\* A step that leaves the queue of the semaphore alone and unblocks nobody.
LEMMA WaitersKept ==
  ASSUME TypeOK, WaitersBlocked, waiters' = waiters,
         \A d \in Callers : pc[d] = "blocked" => pc'[d] = "blocked"
  PROVE  WaitersBlocked'
<1>1. \A i \in 1 .. Len(waiters) : waiters[i] \in Callers
  BY DEF TypeOK
<1> QED BY <1>1 DEF WaitersBlocked

LEMMA WaitersStep == TypeOK /\ WaitersBlocked /\ [Next]_vars => WaitersBlocked'
<1> SUFFICES ASSUME TypeOK, WaitersBlocked, [Next]_vars PROVE WaitersBlocked'
  OBVIOUS
<1> DEFINE Kept == /\ waiters' = waiters
                   /\ \A d \in Callers : pc[d] = "blocked" => pc'[d] = "blocked"
<1>0. pc \in [Callers -> Places] /\ waiters \in Seq(Callers)
  BY DEF TypeOK
<1>1. CASE Kept
  BY <1>1, WaitersKept
<1>2. ASSUME NEW c \in Callers, Call(c) PROVE Kept
  BY <1>0, <1>2 DEF Call, BeginCommand, BeginEmpty, BeginVelocity, BeginEstop, Begin, semVars
<1>3. ASSUME NEW c \in Callers, Locked(c) \/ TakeSlot(c) \/ Fill(c) PROVE Kept
  BY <1>0, <1>3 DEF Locked, TakeSlot, Fill, semVars
<1>4. ASSUME NEW c \in Callers, Finish(c) PROVE Kept
  BY <1>0, <1>4 DEF Finish, MutexWaiters, semVars
<1>5. ASSUME NEW c \in Callers, Reserve(c) PROVE WaitersBlocked'
  <2>1. CASE sem > 0
    <3>1. Kept  BY <1>0, <1>5, <2>1 DEF Reserve
    <3> QED BY <1>1, <3>1
  <2>2. CASE ~(sem > 0)
    <3>1. waiters' = Append(waiters, c) /\ pc' = [pc EXCEPT ![c] = "blocked"]
          /\ pc[c] = "reserve"
      BY <1>5, <2>2 DEF Reserve
    <3>2. /\ Len(waiters') = Len(waiters) + 1
          /\ waiters'[Len(waiters) + 1] = c
          /\ \A i \in 1 .. Len(waiters) : waiters'[i] = waiters[i]
      BY <1>0, <3>1
    <3>3. \A i \in 1 .. Len(waiters) :
            waiters[i] \in Callers /\ pc[waiters[i]] = "blocked" /\ waiters[i] # c
      BY <1>0, <3>1 DEF WaitersBlocked
    <3>4. \A i \in 1 .. Len(waiters') : pc'[waiters'[i]] = "blocked"
      BY <1>0, <3>1, <3>2, <3>3
    <3>5. \A i, j \in 1 .. Len(waiters') : i # j => waiters'[i] # waiters'[j]
      BY <1>0, <3>2, <3>3 DEF WaitersBlocked
    <3> QED BY <3>4, <3>5 DEF WaitersBlocked
  <2> QED BY <2>1, <2>2
<1>6. ASSUME NEW c \in Callers, AddBlock(c) \/ Commit(c) PROVE Kept
  BY <1>0, <1>6 DEF AddBlock, Commit, NextSegment, semVars
<1>7. ASSUME NEW c \in Callers, InterruptCommit(c) PROVE WaitersBlocked'
  BY <1>7 DEF InterruptCommit, WaitersBlocked
<1>8. CASE StepperFetch
  <2>1. CASE waiters = <<>>
    <3>1. Kept  BY <1>8, <2>1 DEF StepperFetch, SemSignal
    <3> QED BY <1>1, <3>1
  <2>2. CASE waiters # <<>>
    <3>1. /\ waiters' = Tail(waiters)
          /\ pc' = [pc EXCEPT ![waiters[1]] = "slot"]
      BY <1>8, <2>2 DEF StepperFetch, SemSignal
    <3>2. /\ Len(waiters') = Len(waiters) - 1
          /\ Len(waiters) \in Nat
          /\ \A i \in 1 .. Len(waiters') : waiters'[i] = waiters[i + 1]
      BY <1>0, <2>2, <3>1
    <3>3. \A i \in 1 .. Len(waiters') : i + 1 \in 1 .. Len(waiters) /\ i + 1 # 1
      BY <3>2
    <3>4. 1 \in 1 .. Len(waiters)
      BY <1>0, <2>2
    <3>5. \A i \in 1 .. Len(waiters') :
            /\ waiters'[i] \in Callers
            /\ pc[waiters'[i]] = "blocked"
            /\ waiters'[i] # waiters[1]
      BY <1>0, <3>2, <3>3, <3>4 DEF WaitersBlocked
    <3>6. \A i \in 1 .. Len(waiters') : pc'[waiters'[i]] = "blocked"
      BY <1>0, <3>1, <3>5
    <3>7. \A i, j \in 1 .. Len(waiters') : i # j => waiters'[i] # waiters'[j]
      <4> SUFFICES ASSUME NEW i \in 1 .. Len(waiters'), NEW j \in 1 .. Len(waiters'), i # j
                   PROVE  waiters'[i] # waiters'[j]
        OBVIOUS
      <4>1. i + 1 # j + 1  OBVIOUS
      <4> QED BY <4>1, <3>2, <3>3 DEF WaitersBlocked
    <3> QED BY <3>6, <3>7 DEF WaitersBlocked
  <2> QED BY <2>1, <2>2
<1>9. CASE StepperDone \/ UNCHANGED vars
  <2>1. Kept  BY <1>9 DEF StepperDone, vars, semVars, callerVars
  <2> QED BY <1>1, <2>1
<1> QED BY <1>1, <1>2, <1>3, <1>4, <1>5, <1>6, <1>7, <1>8, <1>9 DEF Next, Proceed

\* Holders is a finite set, no larger than the set of callers.
LEMMA HoldersFinite ==
  /\ IsFiniteSet(Holders)
  /\ Cardinality(Holders) \in Nat
  /\ Cardinality(Holders) <= Cardinality(Callers)
  /\ Cardinality(Callers) \in Nat
<1>1. Holders \in SUBSET Callers  BY DEF Holders
<1> QED BY <1>1, CallersAssumption, FS_Subset, FS_CardinalityType

\* A step that changes neither the holders nor the sum of the three counts.
LEMMA UnitsKept ==
  ASSUME UnitsBounded, Holders' = Holders,
         (sem + counter + pending)' = sem + counter + pending,
         TypeOK, TypeOK'
  PROVE  UnitsBounded'
<1>1. Cardinality(Holders') = Cardinality(Holders)  OBVIOUS
<1>2. /\ sem \in Nat /\ counter \in Nat /\ pending \in Nat
      /\ sem' \in Nat /\ counter' \in Nat /\ pending' \in Nat
  BY DEF TypeOK
<1>3. sem' + counter' + pending' = sem + counter + pending
  OBVIOUS
<1>4. Cardinality(Holders) \in Nat
  BY HoldersFinite
<1>5. Units' = sem' + Cardinality(Holders') + counter' + pending'
  BY DEF Units
<1>6. Units' = Units
  <2> DEFINE h == Cardinality(Holders)
  <2>1. h \in Nat /\ Units = sem + h + counter + pending
    BY <1>4 DEF Units
  <2>2. Units' = sem' + h + counter' + pending'
    BY <1>1, <1>5
  <2> HIDE DEF h
  <2>3. sem' + h + counter' + pending' = sem' + counter' + pending' + h
    BY <1>2, <2>1
  <2>4. sem + h + counter + pending = sem + counter + pending + h
    BY <1>2, <2>1
  <2> QED BY <1>3, <2>1, <2>2, <2>3, <2>4
<1> QED BY <1>6 DEF UnitsBounded

\* One caller c becomes a holder.
LEMMA HolderAdded ==
  ASSUME NEW c \in Callers, c \notin Holders, Holders' = Holders \cup {c}
  PROVE  Cardinality(Holders') = Cardinality(Holders) + 1
<1>1. Cardinality(Holders \cup {c}) = Cardinality(Holders) + 1
  BY HoldersFinite, FS_AddElement
<1> QED BY <1>1

\* One caller c is no longer a holder.
LEMMA HolderRemoved ==
  ASSUME NEW c \in Callers, c \in Holders, Holders' = Holders \ {c}
  PROVE  Cardinality(Holders') = Cardinality(Holders) - 1
<1>1. Cardinality(Holders \ {c}) = Cardinality(Holders) - 1
  BY HoldersFinite, FS_RemoveElement
<1> QED BY <1>1

LEMMA UnitsInit == Init => UnitsBounded
<1> SUFFICES ASSUME Init PROVE UnitsBounded
  OBVIOUS
<1>1. Holders = {}  BY DEF Init, Holders
<1>2. Cardinality(Holders) = 0  BY <1>1, FS_EmptySet
<1>3. Units = Size - 2  BY <1>2, SizeAssumption DEF Init, Units
<1> QED BY <1>3, SizeAssumption, HoldersFinite DEF UnitsBounded

LEMMA UnitsStep ==
  TypeOK /\ TypeOK' /\ WaitersBlocked /\ UnitsBounded /\ [Next]_vars => UnitsBounded'
<1> SUFFICES ASSUME TypeOK, TypeOK', WaitersBlocked, UnitsBounded, [Next]_vars
             PROVE  UnitsBounded'
  OBVIOUS
<1> DEFINE Kept == /\ Holders' = Holders
                   /\ (sem + counter + pending)' = sem + counter + pending
<1>0. /\ pc \in [Callers -> Places] /\ waiters \in Seq(Callers)
      /\ sem \in Nat /\ counter \in Nat /\ pending \in Nat
      /\ Cardinality(Holders) \in Nat
  BY HoldersFinite DEF TypeOK
<1>1. CASE Kept
  BY <1>1, UnitsKept
<1>2. ASSUME NEW c \in Callers, Call(c) PROVE Kept
  BY <1>0, <1>2 DEF Call, BeginCommand, BeginEmpty, BeginVelocity, BeginEstop, Begin, semVars,
     queueVars, Holders
<1>3. ASSUME NEW c \in Callers, Locked(c) \/ TakeSlot(c) \/ Fill(c) PROVE Kept
  BY <1>0, <1>3 DEF Locked, TakeSlot, Fill, semVars, queueVars, Holders
<1>4. ASSUME NEW c \in Callers, Finish(c) PROVE Kept
  BY <1>0, <1>4 DEF Finish, MutexWaiters, semVars, queueVars, Holders
<1>5. ASSUME NEW c \in Callers, Reserve(c) PROVE UnitsBounded'
  <2>1. CASE sem > 0
    <3>1. Holders' = Holders \cup {c} /\ c \notin Holders
      BY <1>0, <1>5, <2>1 DEF Reserve, Holders
    <3>2. Cardinality(Holders') = Cardinality(Holders) + 1
      BY <3>1, HolderAdded
    <3>3. sem' = sem - 1 /\ counter' = counter /\ pending' = pending
      BY <1>5, <2>1 DEF Reserve, queueVars
    <3>4. Units' = Units
      BY <1>0, <3>2, <3>3 DEF Units
    <3> QED BY <3>4 DEF UnitsBounded
  <2>2. CASE ~(sem > 0)
    <3>1. Kept  BY <1>0, <1>5, <2>2 DEF Reserve, queueVars, Holders
    <3> QED BY <1>1, <3>1
  <2> QED BY <2>1, <2>2
<1>6. ASSUME NEW c \in Callers, AddBlock(c) PROVE UnitsBounded'
  <2>1. \E p \in {"commit", "reserve", "done"} : pc' = [pc EXCEPT ![c] = p]
    BY <1>6 DEF AddBlock, NextSegment
  <2>2. Holders' = Holders \ {c} /\ c \in Holders
    BY <1>0, <1>6, <2>1 DEF AddBlock, Holders
  <2>3. Cardinality(Holders') = Cardinality(Holders) - 1
    BY <2>2, HolderRemoved
  <2>4. sem' = sem /\ counter' = counter /\ pending' = pending + 1
    BY <1>6 DEF AddBlock, semVars
  <2>5. Units' = Units
    BY <1>0, <2>3, <2>4 DEF Units
  <2> QED BY <2>5 DEF UnitsBounded
<1>7. ASSUME NEW c \in Callers, Commit(c) PROVE Kept
  <2>1. \E p \in {"commit", "reserve", "done"} : pc' = [pc EXCEPT ![c] = p]
    BY <1>7 DEF Commit, NextSegment
  <2>2. Holders' = Holders
    BY <1>0, <1>7, <2>1 DEF Commit, Holders
  <2> QED BY <1>0, <1>7, <2>2 DEF Commit, semVars
<1>8. ASSUME NEW c \in Callers, InterruptCommit(c) PROVE UnitsBounded'
  <2>1. sem' = Size - 1 /\ counter' = 1 /\ pending' = 0
    BY <1>8 DEF InterruptCommit, UnitsAfterInterrupt
  <2>2. pc'[c] = "done"
    BY <1>8 DEF InterruptCommit
  <2>3. Holders' \in SUBSET (Callers \ {c})
    BY <2>2 DEF Holders
  <2>4. /\ IsFiniteSet(Callers \ {c})
        /\ Cardinality(Callers \ {c}) = Cardinality(Callers) - 1
        /\ Cardinality(Callers) \in Nat
    BY CallersAssumption, FS_RemoveElement, FS_CardinalityType
  <2>5. Cardinality(Holders') \in Nat /\ Cardinality(Holders') <= Cardinality(Callers) - 1
    BY <2>3, <2>4, FS_Subset, FS_CardinalityType
  <2>6. Units' = Size + Cardinality(Holders')
    BY <2>1, <2>5, SizeAssumption DEF Units
  <2> QED BY <2>4, <2>5, <2>6, SizeAssumption DEF UnitsBounded
<1>9. CASE StepperFetch
  <2>1. counter' = counter - 1 /\ counter > 0 /\ pending' = pending
    BY <1>9 DEF StepperFetch, MayFetch
  <2>2. CASE waiters = <<>>
    <3>1. sem' = sem + 1 /\ pc' = pc
      BY <1>9, <2>2 DEF StepperFetch, SemSignal
    <3>2. Holders' = Holders  BY <3>1 DEF Holders
    <3>3. Kept  BY <1>0, <2>1, <3>1, <3>2
    <3> QED BY <1>1, <3>3
  <2>3. CASE waiters # <<>>
    <3>1. sem' = sem /\ pc' = [pc EXCEPT ![waiters[1]] = "slot"]
      BY <1>9, <2>3 DEF StepperFetch, SemSignal
    <3>2. waiters[1] \in Callers /\ pc[waiters[1]] = "blocked"
      BY <1>0, <2>3 DEF WaitersBlocked
    <3>3. Holders' = Holders \cup {waiters[1]} /\ waiters[1] \notin Holders
      BY <1>0, <3>1, <3>2 DEF Holders
    <3>4. Cardinality(Holders') = Cardinality(Holders) + 1
      BY <3>2, <3>3, HolderAdded
    <3>5. Units' = Units
      BY <1>0, <2>1, <3>1, <3>4 DEF Units
    <3> QED BY <3>5 DEF UnitsBounded
  <2> QED BY <2>2, <2>3
<1>10. CASE StepperDone \/ UNCHANGED vars
  <2>1. Kept
    BY <1>10 DEF StepperDone, vars, semVars, queueVars, callerVars, Holders
  <2> QED BY <1>1, <2>1
<1> QED BY <1>1, <1>2, <1>3, <1>4, <1>5, <1>6, <1>7, <1>8, <1>9, <1>10 DEF Next, Proceed

\* No slot of the ring is ever lost, and however many threads call planner.c the
\* semaphore resets of plannerQueueInterruptCommit give out at most one slot in
\* excess for every other thread.
THEOREM UnitsAlwaysBounded == Spec => []UnitsBounded
<1>1. Init => WaitersBlocked  BY DEF Init, WaitersBlocked
<1> QED BY <1>1, TypeInit, TypeStep, WaitersStep, UnitsInit, UnitsStep, PTL DEF Spec

-----------------------------------------------------------------------------
(* One caller, as planner.c demands *)

\* The slot a caller is about to write is the one the write pointer points at.
SlotCurrent == \A c \in Callers : pc[c] = "fill" => slot[c] = wrptr

LEMMA SlotStep ==
  ASSUME NEW p, Callers = {p}
  PROVE  TypeOK /\ SlotCurrent /\ [Next]_vars => SlotCurrent'
<1> SUFFICES ASSUME TypeOK, SlotCurrent, [Next]_vars PROVE SlotCurrent'
  OBVIOUS
<1>0. /\ pc \in [Callers -> Places]
      /\ slot \in [Callers -> Slots]
      /\ p \in Callers /\ \A c \in Callers : c = p
  BY DEF TypeOK
<1>1. CASE Call(p)
  BY <1>0, <1>1 DEF Call, BeginCommand, BeginEmpty, BeginVelocity, BeginEstop, Begin, SlotCurrent
<1>2. CASE Locked(p) \/ Finish(p) \/ Reserve(p)
  BY <1>0, <1>2 DEF Locked, Finish, Reserve, MutexWaiters, SlotCurrent
<1>3. CASE TakeSlot(p)
  BY <1>0, <1>3 DEF TakeSlot, SlotCurrent, queueVars
<1>4. CASE Fill(p)
  BY <1>0, <1>4 DEF Fill, SlotCurrent
<1>5. CASE AddBlock(p) \/ Commit(p)
  BY <1>0, <1>5 DEF AddBlock, Commit, NextSegment, SlotCurrent
<1>6. CASE InterruptCommit(p)
  BY <1>0, <1>6 DEF InterruptCommit, SlotCurrent
<1>7. CASE StepperFetch
  <2>1. waiters = <<>> \/ Head(waiters) \in Callers
    BY DEF TypeOK
  <2>2. pc' = pc \/ pc' = [pc EXCEPT ![p] = "slot"]
    BY <1>0, <1>7, <2>1 DEF StepperFetch, SemSignal
  <2> QED BY <1>0, <1>7, <2>2 DEF StepperFetch, SlotCurrent
<1>8. CASE StepperDone \/ UNCHANGED vars
  BY <1>0, <1>8 DEF StepperDone, vars, queueVars, callerVars, SlotCurrent
<1> QED BY <1>0, <1>1, <1>2, <1>3, <1>4, <1>5, <1>6, <1>7, <1>8 DEF Next, Proceed

\* With one caller the slot behind the write pointer is free while it is written.
LEMMA SlotIsFree ==
  ASSUME NEW p, Callers = {p}, TypeOK, PointersAgree, UnitsBounded, SlotCurrent
  PROVE  NoOverwrite
<1> SUFFICES ASSUME NEW c \in Callers, pc[c] = "fill" PROVE slot[c] \notin Queued
  BY DEF NoOverwrite
<1>0. /\ Size \in Nat \ {0} /\ rdptr \in Nat
      /\ sem \in Nat /\ counter \in Nat /\ pending \in Nat
  BY SizeAssumption DEF TypeOK, Slots
<1>1. Cardinality(Callers) = 1
  BY FS_Singleton
<1>2. Holders = {c}
  BY DEF Holders
<1>3. Cardinality(Holders) = 1
  BY <1>2, FS_Singleton
<1> DEFINE n == counter + pending
<1>4. n \in Nat /\ n < Size
  BY <1>0, <1>1, <1>3 DEF UnitsBounded, Units
<1>5. slot[c] = (rdptr + n) % Size
  <2>1. rdptr + counter + pending = rdptr + n  BY <1>0
  <2> QED BY <2>1 DEF SlotCurrent, PointersAgree
<1>6. \A s \in Queued : \E i \in 0 .. n - 1 : s = (rdptr + i) % Size
  BY <1>0 DEF Queued
<1> HIDE DEF n
<1>7. ASSUME NEW i \in 0 .. n - 1 PROVE (rdptr + i) % Size # (rdptr + n) % Size
  <2>1. i \in Nat /\ i < n  BY <1>4
  <2> QED BY <1>0, <1>4, <2>1, ModDistinct
<1> QED BY <1>5, <1>6, <1>7

\* When one thread alone calls planner.c, no block is written over one that is
\* still queued, however emergency stops and their semaphore resets interleave
\* with the stepper.
THEOREM OneCallerNeverOverwrites ==
  ASSUME NEW p, Callers = {p}
  PROVE  Spec => []NoOverwrite
<1>1. Init => SlotCurrent
  BY DEF Init, SlotCurrent
<1>2. Init => WaitersBlocked
  BY DEF Init, WaitersBlocked
<1>3. TypeOK /\ SlotCurrent /\ [Next]_vars => SlotCurrent'
  BY SlotStep
<1>4. TypeOK /\ PointersAgree /\ UnitsBounded /\ SlotCurrent => NoOverwrite
  BY SlotIsFree
<1> QED BY <1>1, <1>2, <1>3, <1>4, TypeInit, TypeStep, PointersInit, PointersStep,
           WaitersStep, UnitsInit, UnitsStep, PTL DEF Spec

-----------------------------------------------------------------------------
(* The part of a ring that begins somewhere, as a sequence *)

Ring(b, first, len) == [i \in 1 .. len |-> b[(first + i - 1) % Size]]
Rings == [Slots -> Modes]

\* The slots of that part.
Part(first, len) == {(first + i - 1) % Size : i \in 1 .. len}

LEMMA SizeNat == Size \in Nat \ {0}
BY SizeAssumption

LEMMA IndexInSlots == ASSUME NEW a \in Nat PROVE a % Size \in Slots
BY SizeNat, DivMod DEF Slots

LEMMA RingSeq ==
  ASSUME NEW b \in Rings, NEW f \in Nat, NEW n \in Nat
  PROVE  /\ Ring(b, f, n) \in Seq(Modes)
         /\ Len(Ring(b, f, n)) = n
         /\ \A i \in 1 .. n : Ring(b, f, n)[i] = b[(f + i - 1) % Size]
<1>1. \A i \in 1 .. n : b[(f + i - 1) % Size] \in Modes
  <2> SUFFICES ASSUME NEW i \in 1 .. n PROVE b[(f + i - 1) % Size] \in Modes
    OBVIOUS
  <2>1. f + i - 1 \in Nat  OBVIOUS
  <2> QED BY <2>1, IndexInSlots DEF Rings
<1>2. Ring(b, f, n) \in [1 .. n -> Modes]
  BY <1>1 DEF Ring
<1>3. Ring(b, f, n) \in Seq(Modes) /\ Len(Ring(b, f, n)) = n
  BY <1>2
<1> QED BY <1>3 DEF Ring

\* A sequence that has the length and the elements of a part of the ring is it.
LEMMA RingEqual ==
  ASSUME NEW b \in Rings, NEW f \in Nat, NEW n \in Nat, NEW s \in Seq(Modes),
         Len(s) = n, \A i \in 1 .. n : s[i] = b[(f + i - 1) % Size]
  PROVE  s = Ring(b, f, n)
<1> DEFINE r == Ring(b, f, n)
<1>1. /\ r \in Seq(Modes) /\ Len(r) = Len(s)
      /\ \A i \in 1 .. Len(s) : s[i] = r[i]
  BY RingSeq
<1> HIDE DEF r
<1>2. s = r
  BY <1>1, SeqEqual
<1> QED BY <1>2 DEF r

LEMMA RingEmpty ==
  ASSUME NEW b \in Rings, NEW f \in Nat
  PROVE  Ring(b, f, 0) = <<>>
<1>1. Ring(b, f, 0) \in Seq(Modes) /\ Len(Ring(b, f, 0)) = 0
  BY RingSeq
<1> QED BY <1>1, EmptySeq

LEMMA RingOne ==
  ASSUME NEW b \in Rings, NEW f \in Slots
  PROVE  Ring(b, f, 1) = <<b[f]>>
<1>1. f \in Nat /\ f % Size = f
  BY SizeNat, ModSmall DEF Slots
<1>2. b[f] \in Modes
  BY DEF Rings
<1>3. <<b[f]>> \in Seq(Modes) /\ Len(<<b[f]>>) = 1
  BY <1>2
<1>4. \A i \in 1 .. 1 : <<b[f]>>[i] = b[(f + i - 1) % Size]
  <2>1. \A i \in 1 .. 1 : i = 1 /\ f + i - 1 = f
    BY <1>1
  <2> QED BY <1>1, <2>1
<1> QED BY <1>1, <1>3, <1>4, RingEqual

\* Where it begins may be wrapped.
LEMMA RingWrap ==
  ASSUME NEW b \in Rings, NEW f \in Nat, NEW n \in Nat
  PROVE  Ring(b, f % Size, n) = Ring(b, f, n)
<1>1. f % Size \in Nat
  BY IndexInSlots, SizeNat DEF Slots
<1>2. \A i \in 1 .. n : ((f % Size) + i - 1) % Size = (f + i - 1) % Size
  <2> SUFFICES ASSUME NEW i \in 1 .. n
               PROVE  ((f % Size) + i - 1) % Size = (f + i - 1) % Size
    OBVIOUS
  <2> DEFINE k == i - 1
             g == f % Size
  <2>1. k \in Nat /\ g + i - 1 = g + k /\ f + i - 1 = f + k
    BY <1>1
  <2>2. ((f % Size) + k) % Size = (f + k) % Size
    BY <2>1, SizeNat, ModAdd
  <2> QED BY <2>1, <2>2
<1> QED BY <1>2 DEF Ring

\* Its first element, and the rest.
LEMMA RingTail ==
  ASSUME NEW b \in Rings, NEW f \in Slots, NEW n \in Nat \ {0}
  PROVE  /\ Ring(b, f, n) # <<>>
         /\ Head(Ring(b, f, n)) = b[f]
         /\ Tail(Ring(b, f, n)) = Ring(b, f + 1, n - 1)
<1> DEFINE r == Ring(b, f, n)
<1>0. f \in Nat /\ f + 1 \in Nat /\ n - 1 \in Nat /\ n \in Nat
  BY SizeNat DEF Slots
<1>1. /\ r \in Seq(Modes) /\ Len(r) = n
      /\ \A i \in 1 .. n : r[i] = b[(f + i - 1) % Size]
  BY <1>0, RingSeq
<1> HIDE DEF r
<1>2. r # <<>>
  BY <1>0, <1>1
<1>3. /\ Tail(r) \in Seq(Modes) /\ Len(Tail(r)) = n - 1
      /\ \A i \in 1 .. n - 1 : Tail(r)[i] = r[i + 1]
  BY <1>1, <1>2, HeadTailProperties
<1>4. \A i \in 1 .. n - 1 : Tail(r)[i] = b[((f + 1) + i - 1) % Size]
  <2> SUFFICES ASSUME NEW i \in 1 .. n - 1
               PROVE  Tail(r)[i] = b[((f + 1) + i - 1) % Size]
    OBVIOUS
  <2>1. i + 1 \in 1 .. n /\ f + (i + 1) - 1 = (f + 1) + i - 1
    BY <1>0
  <2> QED BY <1>1, <1>3, <2>1
<1>5. Tail(r) = Ring(b, f + 1, n - 1)
  BY <1>0, <1>3, <1>4, RingEqual
<1>6. Head(r) = b[f]
  <2>1. f % Size = f
    BY <1>0, SizeNat, ModSmall DEF Slots
  <2>2. Head(r) = r[1] /\ 1 \in 1 .. n /\ f + 1 - 1 = f
    BY <1>0, <1>1, <1>2
  <2> QED BY <1>1, <2>1, <2>2
<1> QED BY <1>2, <1>5, <1>6 DEF r

\* Two parts that follow each other.
LEMMA RingConcat ==
  ASSUME NEW b \in Rings, NEW f \in Nat, NEW m \in Nat, NEW n \in Nat
  PROVE  Ring(b, f, m) \o Ring(b, f + m, n) = Ring(b, f, m + n)
<1> DEFINE s == Ring(b, f, m)
           t == Ring(b, f + m, n)
<1>1. /\ s \in Seq(Modes) /\ Len(s) = m
      /\ \A i \in 1 .. m : s[i] = b[(f + i - 1) % Size]
  BY RingSeq
<1>2. /\ t \in Seq(Modes) /\ Len(t) = n
      /\ \A i \in 1 .. n : t[i] = b[((f + m) + i - 1) % Size]
  <2>1. f + m \in Nat
    OBVIOUS
  <2> QED BY <2>1, RingSeq
<1> HIDE DEF s, t
<1>3. /\ s \o t \in Seq(Modes) /\ Len(s \o t) = m + n
      /\ \A i \in 1 .. m + n : (s \o t)[i] = IF i <= m THEN s[i] ELSE t[i - m]
  BY <1>1, <1>2, ConcatProperties
<1>4. \A i \in 1 .. m + n : (s \o t)[i] = b[(f + i - 1) % Size]
  <2> SUFFICES ASSUME NEW i \in 1 .. m + n PROVE (s \o t)[i] = b[(f + i - 1) % Size]
    OBVIOUS
  <2>1. CASE i <= m
    BY <1>1, <1>3, <2>1
  <2>2. CASE ~(i <= m)
    <3>1. i - m \in 1 .. n /\ (f + m) + (i - m) - 1 = f + i - 1
      BY <2>2
    <3> QED BY <1>2, <1>3, <2>2, <3>1
  <2> QED BY <2>1, <2>2
<1>5. m + n \in Nat
  OBVIOUS
<1> QED BY <1>3, <1>4, <1>5, RingEqual DEF s, t

\* One slot more.
LEMMA RingAppend ==
  ASSUME NEW b \in Rings, NEW f \in Nat, NEW n \in Nat
  PROVE  Append(Ring(b, f, n), b[(f + n) % Size]) = Ring(b, f, n + 1)
<1> DEFINE s == Ring(b, f, n)
           e == b[(f + n) % Size]
<1>1. e \in Modes
  BY IndexInSlots DEF Rings
<1>2. /\ s \in Seq(Modes) /\ Len(s) = n
      /\ \A i \in 1 .. n : s[i] = b[(f + i - 1) % Size]
  BY RingSeq
<1>3. e = b[(f + (n + 1) - 1) % Size]
  <2>1. f + (n + 1) - 1 = f + n
    OBVIOUS
  <2> QED BY <2>1
<1> HIDE DEF s, e
<1>4. /\ Append(s, e) \in Seq(Modes) /\ Len(Append(s, e)) = n + 1
      /\ Append(s, e)[n + 1] = e
      /\ \A i \in 1 .. n : Append(s, e)[i] = s[i]
  BY <1>1, <1>2
<1>5. \A i \in 1 .. n + 1 : Append(s, e)[i] = b[(f + i - 1) % Size]
  <2>1. \A i \in 1 .. n + 1 : i = n + 1 \/ i \in 1 .. n
    OBVIOUS
  <2> QED BY <1>2, <1>3, <1>4, <2>1
<1>6. n + 1 \in Nat
  OBVIOUS
<1> QED BY <1>4, <1>5, <1>6, RingEqual DEF s, e

\* A slot outside it may be written.
LEMMA RingWrite ==
  ASSUME NEW b, NEW b2, NEW f \in Nat, NEW n \in Nat, NEW s \in Slots,
         \A x \in Slots : x # s => b2[x] = b[x],
         s \notin Part(f, n)
  PROVE  Ring(b2, f, n) = Ring(b, f, n)
<1>1. \A i \in 1 .. n : b2[(f + i - 1) % Size] = b[(f + i - 1) % Size]
  <2> SUFFICES ASSUME NEW i \in 1 .. n
               PROVE  b2[(f + i - 1) % Size] = b[(f + i - 1) % Size]
    OBVIOUS
  <2>1. (f + i - 1) % Size \in Slots
    <3>1. f + i - 1 \in Nat  OBVIOUS
    <3> QED BY <3>1, IndexInSlots
  <2>2. (f + i - 1) % Size # s
    BY DEF Part
  <2> QED BY <2>1, <2>2
<1> QED BY <1>1 DEF Ring

-----------------------------------------------------------------------------
(* The caller's block on its way into the ring *)

\* What the caller is queueing, and that its block is in the slot once written.
HandedOver ==
  \A c \in Callers :
    /\ segs[c] # 1 => op[c] = "Positional"
    /\ pc[c] \in {"locked", "mutex"} => op[c] \in {"Estop", "Estop_Clear"}
    /\ pc[c] \in {"reserve", "blocked", "slot", "fill", "add"} => op[c] \in CallModes
    /\ pc[c] = "add" => op[c] # "Estop" /\ slot[c] = wrptr /\ buf[slot[c]] = op[c]
    /\ pc[c] = "commit" => op[c] # "Estop"
    /\ pc[c] = "interrupt" => op[c] = "Estop" /\ buf[slot[c]] = "Estop"

LEMMA HandedStep ==
  ASSUME NEW p, Callers = {p}
  PROVE  TypeOK /\ WaitersBlocked /\ SlotCurrent /\ HandedOver /\ [Next]_vars => HandedOver'
<1> SUFFICES ASSUME TypeOK, WaitersBlocked, SlotCurrent, HandedOver, [Next]_vars
             PROVE  HandedOver'
  OBVIOUS
<1>0. /\ pc \in [Callers -> Places] /\ op \in [Callers -> Modes]
      /\ slot \in [Callers -> Slots] /\ buf \in [Slots -> Modes]
      /\ segs \in [Callers -> Nat \ {0}]
      /\ p \in Callers /\ \A c \in Callers : c = p
  BY DEF TypeOK
<1>1. ASSUME BeginCommand(p) PROVE HandedOver'
  <2>1. PICK m \in {"Positional", "Reset"}, k \in SegmentCounts \cup {1} :
          Begin(p, m, k) /\ (m = "Reset" => k = 1)
    BY <1>1 DEF BeginCommand
  <2>2. op'[p] = m /\ pc'[p] = "reserve" /\ segs'[p] = k
    BY <1>0, <1>1, <2>1 DEF BeginCommand, Begin
  <2>3. m \in CallModes /\ (k # 1 => m = "Positional")
    BY <2>1 DEF CallModes, Motion
  <2> QED BY <1>0, <2>2, <2>3 DEF HandedOver
<1>2. ASSUME BeginEmpty(p) PROVE HandedOver'
  <2>1. pc'[p] = "commit" /\ segs'[p] = 1 /\ op'[p] = "Positional"
    BY <1>0, <1>2 DEF BeginEmpty, Begin
  <2> QED BY <1>0, <2>1 DEF HandedOver
<1>3. ASSUME BeginVelocity(p) PROVE HandedOver'
  <2>1. op'[p] = "Velocity" /\ pc'[p] = "reserve" /\ segs'[p] = 1
    BY <1>0, <1>3 DEF BeginVelocity, Begin
  <2> QED BY <1>0, <2>1 DEF HandedOver, CallModes, Motion
<1>4. ASSUME BeginEstop(p) PROVE HandedOver'
  <2>1. PICK m \in {"Estop", "Estop_Clear"} : Begin(p, m, 1)
    BY <1>4 DEF BeginEstop
  <2>2. op'[p] = m /\ pc'[p] \in {"locked", "mutex"} /\ segs'[p] = 1
    BY <1>0, <1>4, <2>1 DEF BeginEstop, Begin
  <2> QED BY <1>0, <2>2 DEF HandedOver
<1>5. ASSUME Locked(p) PROVE HandedOver'
  <2>1. op' = op /\ segs' = segs /\ pc'[p] \in {"reserve", "done"} /\ pc[p] = "locked"
    BY <1>0, <1>5 DEF Locked
  <2> QED BY <1>0, <2>1 DEF HandedOver, CallModes
<1>6. ASSUME Finish(p) PROVE HandedOver'
  <2>1. MutexWaiters = {}
    BY <1>0, <1>6 DEF Finish, MutexWaiters
  <2>2. pc'[p] = "idle" /\ segs'[p] = 1
    BY <1>0, <1>6, <2>1 DEF Finish
  <2> QED BY <1>0, <2>2 DEF HandedOver
<1>7. ASSUME Reserve(p) \/ TakeSlot(p) PROVE HandedOver'
  <2>1. /\ op' = op /\ segs' = segs /\ pc'[p] \in {"slot", "blocked", "fill"}
        /\ pc[p] \in {"reserve", "slot"}
    BY <1>0, <1>7 DEF Reserve, TakeSlot
  <2> QED BY <1>0, <2>1 DEF HandedOver
<1>8. ASSUME Fill(p) PROVE HandedOver'
  <2>1. /\ pc[p] = "fill" /\ op' = op /\ segs' = segs /\ slot' = slot /\ wrptr' = wrptr
        /\ buf' = [buf EXCEPT ![slot[p]] = op[p]]
        /\ pc'[p] = IF op[p] = "Estop" THEN "interrupt" ELSE "add"
    BY <1>0, <1>8 DEF Fill
  <2>2. slot[p] \in Slots
    BY <1>0
  <2>3. buf'[slot[p]] = op[p] /\ slot[p] = wrptr
    BY <1>0, <2>1, <2>2 DEF SlotCurrent
  <2> QED BY <1>0, <2>1, <2>3 DEF HandedOver
<1>9. ASSUME AddBlock(p) \/ Commit(p) PROVE HandedOver'
  <2>1. /\ op' = op /\ pc'[p] \in {"commit", "reserve", "done"}
        /\ segs' = segs
    BY <1>0, <1>9 DEF AddBlock, Commit, NextSegment
  <2>2. pc'[p] = "reserve" => op[p] \in CallModes
    <3>1. CASE AddBlock(p)
      BY <1>0, <3>1 DEF AddBlock, HandedOver
    <3>2. CASE Commit(p)
      <4>1. pc'[p] = "reserve" => segs[p] # 1
        BY <1>0, <3>2 DEF Commit, NextSegment
      <4> QED BY <1>0, <4>1 DEF HandedOver, CallModes, Motion
    <3> QED BY <1>9, <3>1, <3>2
  <2>3. op[p] # "Estop" \/ pc'[p] = "done"
    BY <1>0, <1>9 DEF AddBlock, Commit, HandedOver
  <2> QED BY <1>0, <2>1, <2>2, <2>3 DEF HandedOver
<1>10. ASSUME InterruptCommit(p) PROVE HandedOver'
  <2>1. pc'[p] = "done" /\ op' = op /\ segs' = segs
    BY <1>0, <1>10 DEF InterruptCommit
  <2> QED BY <1>0, <2>1 DEF HandedOver
<1>11. ASSUME StepperFetch PROVE HandedOver'
  <2>0. op' = op /\ segs' = segs /\ slot' = slot /\ buf' = buf /\ wrptr' = wrptr
    BY <1>11 DEF StepperFetch
  <2>1. CASE pc' = pc
    BY <2>0, <2>1 DEF HandedOver
  <2>2. CASE pc' # pc
    <3>1. waiters # <<>> /\ pc' = [pc EXCEPT ![Head(waiters)] = "slot"]
      BY <1>11, <2>2 DEF StepperFetch, SemSignal
    <3>2. 1 \in 1 .. Len(waiters) /\ Head(waiters) = waiters[1] /\ waiters[1] \in Callers
      BY <3>1 DEF TypeOK
    <3>3. pc[p] = "blocked" /\ pc'[p] = "slot"
      BY <1>0, <3>1, <3>2 DEF WaitersBlocked
    <3> QED BY <1>0, <2>0, <3>3 DEF HandedOver
  <2> QED BY <2>1, <2>2
<1>12. ASSUME StepperDone \/ UNCHANGED vars PROVE HandedOver'
  BY <1>12 DEF StepperDone, vars, queueVars, callerVars, HandedOver
<1> QED BY <1>0, <1>1, <1>2, <1>3, <1>4, <1>5, <1>6, <1>7, <1>8, <1>9, <1>10, <1>11,
           <1>12 DEF Next, Call, Proceed

-----------------------------------------------------------------------------
(* The steps of the ring as steps of the queue *)

ready == Contents(rdptr, counter)
pend == Contents(rdptr + counter, pending)
Still == UNCHANGED <<ready, pend, active, estop>>

\* The two sequences as parts of the ring; with one caller there is room while
\* its block is on the way.
LEMMA Sequences ==
  ASSUME TypeOK
  PROVE  /\ buf \in Rings /\ rdptr \in Slots /\ rdptr \in Nat
         /\ counter \in Nat /\ pending \in Nat /\ rdptr + counter \in Nat
         /\ ready = Ring(buf, rdptr, counter)
         /\ pend = Ring(buf, rdptr + counter, pending)
         /\ ready \in Seq(Modes) /\ Len(ready) = counter
         /\ pend \in Seq(Modes) /\ Len(pend) = pending
<1>1. /\ buf \in Rings /\ rdptr \in Slots /\ rdptr \in Nat
      /\ counter \in Nat /\ pending \in Nat /\ rdptr + counter \in Nat
  BY SizeNat DEF TypeOK, Rings, Slots
<1>2. /\ ready = Ring(buf, rdptr, counter)
      /\ pend = Ring(buf, rdptr + counter, pending)
  BY DEF ready, pend, Contents, Ring
<1> QED BY <1>1, <1>2, RingSeq

\* A step that leaves the ring as it is.
LEMMA RingUntouched ==
  ASSUME UNCHANGED <<buf, rdptr, counter, pending, active, estop>>
  PROVE  Still
BY DEF Still, ready, pend, Contents

LEMMA FillMaps ==
  ASSUME NEW c \in Callers, TypeOK, NoOverwrite, Fill(c)
  PROVE  Still
<1>1. /\ buf' = [buf EXCEPT ![slot[c]] = op[c]] /\ slot[c] \in Slots
      /\ rdptr' = rdptr /\ counter' = counter /\ pending' = pending
      /\ active' = active /\ estop' = estop /\ slot[c] \notin Queued
  BY DEF Fill, TypeOK, NoOverwrite, stepperVars
<1>2. /\ buf \in Rings /\ rdptr \in Nat /\ counter \in Nat /\ pending \in Nat
      /\ rdptr + counter \in Nat
  BY Sequences
<1>3. \A k \in 0 .. counter + pending - 1 : (rdptr + k) % Size # slot[c]
  BY <1>1 DEF Queued
<1>4. slot[c] \notin Part(rdptr, counter)
  <2> SUFFICES ASSUME NEW i \in 1 .. counter PROVE (rdptr + i - 1) % Size # slot[c]
    BY DEF Part
  <2>1. i - 1 \in 0 .. counter + pending - 1 /\ rdptr + i - 1 = rdptr + (i - 1)
    BY <1>2
  <2> QED BY <1>3, <2>1
<1>5. slot[c] \notin Part(rdptr + counter, pending)
  <2> SUFFICES ASSUME NEW i \in 1 .. pending
               PROVE  (rdptr + counter + i - 1) % Size # slot[c]
    BY DEF Part
  <2>1. /\ counter + i - 1 \in 0 .. counter + pending - 1
        /\ rdptr + counter + i - 1 = rdptr + (counter + i - 1)
    BY <1>2
  <2> QED BY <1>3, <2>1
<1>6. buf' = [buf EXCEPT ![slot[c]] = op[c]] /\ buf \in [Slots -> Modes]
  BY <1>1 DEF TypeOK
<1>7. \A x \in Slots : x # slot[c] => buf'[x] = buf[x]
  BY <1>1, <1>6
<1> DEFINE b2 == buf'
           s == slot[c]
           f == rdptr + counter
<1>8. /\ s \in Slots /\ f \in Nat
      /\ \A x \in Slots : x # s => b2[x] = buf[x]
      /\ s \notin Part(rdptr, counter) /\ s \notin Part(f, pending)
  BY <1>1, <1>2, <1>4, <1>5, <1>7
<1>9. Ring(b2, rdptr, counter) = Ring(buf, rdptr, counter) /\ Ring(b2, f, pending) = Ring(buf, f, pending)
  <2> HIDE DEF b2, s, f
  <2>1. Ring(b2, rdptr, counter) = Ring(buf, rdptr, counter)
    BY <1>2, <1>8, RingWrite
  <2>2. Ring(b2, f, pending) = Ring(buf, f, pending)
    BY <1>2, <1>8, RingWrite
  <2> QED BY <2>1, <2>2
<1>10. ready' = ready /\ pend' = pend
  BY <1>1, <1>9 DEF ready, pend, Contents, Ring
<1> QED BY <1>1, <1>10 DEF Still

LEMMA AddMaps ==
  ASSUME NEW c \in Callers, Callers = {c}, TypeOK, PointersAgree, UnitsBounded,
         HandedOver, AddBlock(c)
  PROVE  /\ Abstract!Queue(op[c]) /\ op[c] \in Abstract!Queueable
         /\ pend' = Append(pend, op[c]) /\ ready' = ready
<1>0. /\ buf \in Rings /\ rdptr \in Nat /\ counter \in Nat /\ pending \in Nat
      /\ rdptr + counter \in Nat /\ Len(ready) = counter /\ Len(pend) = pending
      /\ pend = Ring(buf, rdptr + counter, pending) /\ sem \in Nat /\ Size \in Nat
  BY Sequences, SizeNat DEF TypeOK
<1>1. /\ pc[c] = "add" /\ pending' = pending + 1
      /\ UNCHANGED <<buf, rdptr, counter, active, estop>>
  BY DEF AddBlock, stepperVars
<1>2. op[c] \in CallModes /\ op[c] # "Estop" /\ buf[wrptr] = op[c]
  BY <1>1 DEF HandedOver
<1>3. Holders = {c} /\ Cardinality(Holders) = 1 /\ Cardinality(Callers) = 1
  BY <1>1, FS_Singleton DEF Holders
<1>4. counter + pending < Size
  BY <1>0, <1>3 DEF UnitsBounded, Units
<1>5. buf[(rdptr + counter + pending) % Size] = op[c]
  BY <1>2 DEF PointersAgree
<1>6. Append(pend, op[c]) = Ring(buf, rdptr + counter, pending + 1)
  <2> DEFINE f == rdptr + counter
  <2>1. f \in Nat /\ pend = Ring(buf, f, pending) /\ op[c] = buf[(f + pending) % Size]
    BY <1>0, <1>5
  <2> HIDE DEF f
  <2>2. Append(Ring(buf, f, pending), buf[(f + pending) % Size]) = Ring(buf, f, pending + 1)
    BY <1>0, <2>1, RingAppend
  <2>3. Append(pend, op[c]) = Ring(buf, f, pending + 1)
    BY <2>1, <2>2
  <2> QED BY <2>3 DEF f
<1>7. pend' = Append(pend, op[c]) /\ ready' = ready
  BY <1>1, <1>6 DEF pend, ready, Contents, Ring
<1>8. op[c] \in Abstract!Queueable
  BY <1>2 DEF Abstract!Queueable, Abstract!Motion, CallModes, Motion
<1> QED BY <1>0, <1>1, <1>4, <1>7, <1>8 DEF Abstract!Queue, pend, ready

LEMMA CommitMaps ==
  ASSUME NEW c \in Callers, TypeOK, Commit(c)
  PROVE  /\ Abstract!Publish
         /\ ready' = ready \o pend /\ pend' = <<>>
<1>0. /\ buf \in Rings /\ rdptr \in Nat /\ counter \in Nat /\ pending \in Nat
      /\ ready = Ring(buf, rdptr, counter)
      /\ pend = Ring(buf, rdptr + counter, pending)
      /\ rdptr + (counter + pending) \in Nat
  BY Sequences
<1>1. /\ counter' = counter + pending /\ pending' = 0
      /\ UNCHANGED <<buf, rdptr, active, estop>>
  BY DEF Commit, stepperVars
<1>2. ready' = Ring(buf, rdptr, counter + pending)
  BY <1>1 DEF ready, Contents, Ring
<1>3. ready' = ready \o pend
  BY <1>0, <1>2, RingConcat
<1>4. pend' = Ring(buf, rdptr + (counter + pending), 0)
  BY <1>1 DEF pend, Contents, Ring
<1>5. pend' = <<>>
  BY <1>0, <1>4, RingEmpty
<1> QED BY <1>1, <1>3, <1>5 DEF Abstract!Publish, pend, ready

LEMMA InterruptMaps ==
  ASSUME NEW c \in Callers, TypeOK, HandedOver, InterruptCommit(c)
  PROVE  /\ Abstract!Preempt
         /\ ready' = <<"Estop">> /\ pend' = <<>>
<1>0. buf \in Rings /\ rdptr \in Slots /\ rdptr + 1 \in Nat
  BY Sequences
<1>1. /\ counter' = 1 /\ pending' = 0 /\ buf' = [buf EXCEPT ![rdptr] = buf[slot[c]]]
      /\ pc[c] = "interrupt" /\ UNCHANGED <<rdptr, active, estop>>
  BY DEF InterruptCommit, stepperVars
<1>2. buf[slot[c]] = "Estop"
  BY <1>1 DEF HandedOver
<1>3. buf' \in Rings /\ buf'[rdptr] = "Estop"
  BY <1>0, <1>1, <1>2 DEF Rings, Modes, CallModes
<1>4. Ring(buf', rdptr, 1) = <<"Estop">> /\ Ring(buf', rdptr + 1, 0) = <<>>
  BY <1>0, <1>3, RingOne, RingEmpty
<1>5. ready' = <<"Estop">> /\ pend' = <<>>
  BY <1>1, <1>4 DEF ready, pend, Contents, Ring
<1> QED BY <1>1, <1>5 DEF Abstract!Preempt, pend, ready

LEMMA FetchMaps ==
  ASSUME TypeOK, StepperFetch
  PROVE  /\ Abstract!Execute
         /\ ready # <<>> /\ ready' = Tail(ready) /\ pend' = pend
         /\ estop' = EstopAfter(Head(ready)) /\ active' = ActiveAfter(Head(ready))
<1>0. /\ buf \in Rings /\ rdptr \in Slots /\ rdptr \in Nat /\ counter \in Nat /\ pending \in Nat
      /\ ready = Ring(buf, rdptr, counter)
      /\ pend = Ring(buf, rdptr + counter, pending)
  BY Sequences
<1>1. /\ counter \in Nat \ {0} /\ counter' = counter - 1
      /\ rdptr' = (rdptr + 1) % Size
      /\ active = "Positional" => buf[rdptr] = "Estop"
      /\ estop' = EstopAfter(buf[rdptr]) /\ active' = ActiveAfter(buf[rdptr])
      /\ UNCHANGED <<buf, pending>>
  BY <1>0 DEF StepperFetch, MayFetch, Succ
<1>2. ready # <<>> /\ Head(ready) = buf[rdptr] /\ Tail(ready) = Ring(buf, rdptr + 1, counter - 1)
  BY <1>0, <1>1, RingTail
<1>3. ready' = Tail(ready)
  <2>1. rdptr + 1 \in Nat /\ counter - 1 \in Nat
    BY <1>0, <1>1
  <2>2. Ring(buf, (rdptr + 1) % Size, counter - 1) = Ring(buf, rdptr + 1, counter - 1)
    BY <1>0, <2>1, RingWrap
  <2>3. ready' = Ring(buf, (rdptr + 1) % Size, counter - 1)
    BY <1>1 DEF ready, Contents, Ring
  <2> QED BY <1>2, <2>2, <2>3
<1>4. pend' = pend
  <2> DEFINE x == (rdptr + 1) % Size
             y == counter - 1
  <2>1. y \in Nat /\ rdptr + 1 \in Nat /\ (rdptr + 1) + y = rdptr + counter
    BY <1>0, <1>1
  <2>2. x \in Nat /\ x + y \in Nat
    BY <2>1, IndexInSlots, SizeNat DEF Slots
  <2>3. (x + y) % Size = (rdptr + counter) % Size
    BY <2>1, SizeNat, ModAdd
  <2>4. pend' = Ring(buf, x + y, pending)
    BY <1>1 DEF pend, Contents, Ring
  <2> HIDE DEF x, y
  <2>5. Ring(buf, (x + y) % Size, pending) = Ring(buf, x + y, pending)
    BY <1>0, <2>2, RingWrap
  <2>6. Ring(buf, (rdptr + counter) % Size, pending) = Ring(buf, rdptr + counter, pending)
    BY <1>0, RingWrap
  <2> QED BY <1>0, <2>3, <2>4, <2>5, <2>6
<1>5. estop \in BOOLEAN
  BY DEF TypeOK
<1>6. estop' = CASE Head(ready) = "Estop"       -> TRUE
                 [] Head(ready) = "Estop_Clear" -> FALSE
                 [] OTHER                       -> estop
  BY <1>1, <1>2, <1>5 DEF EstopAfter
<1>7. active' = IF Head(ready) \in Abstract!Motion /\ ~estop THEN Head(ready) ELSE "Idle"
  BY <1>1, <1>2 DEF ActiveAfter, Motion, Abstract!Motion
<1> QED BY <1>1, <1>2, <1>3, <1>4, <1>6, <1>7 DEF Abstract!Execute, pend, ready

LEMMA QueueStep ==
  ASSUME NEW p, Callers = {p}
  PROVE  /\ TypeOK /\ PointersAgree /\ UnitsBounded /\ NoOverwrite /\ HandedOver
         /\ [Next]_vars
         => [Abstract!Next]_(Abstract!vars)
<1> SUFFICES ASSUME TypeOK, PointersAgree, UnitsBounded, NoOverwrite, HandedOver,
                    [Next]_vars
             PROVE  [Abstract!Next]_(Abstract!vars)
  OBVIOUS
<1>0. p \in Callers /\ \A c \in Callers : c = p
  OBVIOUS
<1>1. Still => UNCHANGED Abstract!vars
  BY DEF Still, ready, pend, Abstract!vars
<1>2. CASE Call(p)
  <2>1. UNCHANGED <<buf, rdptr, counter, pending, active, estop>>
    BY <1>2 DEF Call, BeginCommand, BeginEmpty, BeginVelocity, BeginEstop, Begin,
       queueVars, stepperVars
  <2> QED BY <1>1, <2>1, RingUntouched
<1>3. CASE Locked(p) \/ Finish(p) \/ Reserve(p) \/ TakeSlot(p)
  <2>1. UNCHANGED <<buf, rdptr, counter, pending, active, estop>>
    BY <1>3 DEF Locked, Finish, Reserve, TakeSlot, queueVars, stepperVars
  <2> QED BY <1>1, <2>1, RingUntouched
<1>4. CASE Fill(p)
  BY <1>0, <1>1, <1>4, FillMaps
<1>5. CASE AddBlock(p)
  BY <1>0, <1>5, AddMaps DEF Abstract!Next
<1>6. CASE Commit(p)
  BY <1>0, <1>6, CommitMaps DEF Abstract!Next
<1>7. CASE InterruptCommit(p)
  BY <1>0, <1>7, InterruptMaps DEF Abstract!Next
<1>8. CASE StepperFetch
  BY <1>8, FetchMaps DEF Abstract!Next
<1>9. CASE StepperDone
  <2>1. ready' = ready /\ pend' = pend
    BY <1>9 DEF StepperDone, queueVars, ready, pend, Contents
  <2>2. Abstract!Complete
    BY <1>9, <2>1 DEF StepperDone, Abstract!Complete, Abstract!Motion, Motion, ready, pend
  <2> QED BY <2>2 DEF Abstract!Next
<1>10. CASE UNCHANGED vars
  <2>1. UNCHANGED <<buf, rdptr, counter, pending, active, estop>>
    BY <1>10 DEF vars, queueVars, stepperVars
  <2> QED BY <1>1, <2>1, RingUntouched
<1> QED BY <1>0, <1>2, <1>3, <1>4, <1>5, <1>6, <1>7, <1>8, <1>9, <1>10 DEF Next, Proceed

LEMMA QueueInit == Init => Abstract!Init
<1> SUFFICES ASSUME Init PROVE Abstract!Init
  OBVIOUS
<1>1. TypeOK
  BY TypeInit
<1>2. counter = 0 /\ pending = 0 /\ active = "Idle" /\ estop = FALSE
  BY DEF Init
<1>3. ready = <<>> /\ pend = <<>>
  BY <1>1, <1>2, Sequences, RingEmpty
<1> QED BY <1>2, <1>3 DEF Abstract!Init, ready, pend

\* What all steps of one caller keep.
OneCallerInv ==
  TypeOK /\ PointersAgree /\ UnitsBounded /\ WaitersBlocked /\ SlotCurrent /\ HandedOver

LEMMA OneCallerInvHolds ==
  ASSUME NEW p, Callers = {p}
  PROVE  Spec => []OneCallerInv
<1>1. Init => WaitersBlocked /\ SlotCurrent /\ HandedOver
  BY DEF Init, WaitersBlocked, SlotCurrent, HandedOver
<1>2. Init => OneCallerInv
  BY <1>1, TypeInit, PointersInit, UnitsInit DEF OneCallerInv
<1>3. OneCallerInv /\ [Next]_vars => OneCallerInv'
  BY TypeStep, PointersStep, UnitsStep, WaitersStep, SlotStep, HandedStep DEF OneCallerInv
<1> QED BY <1>2, <1>3, PTL DEF Spec

\* When one thread alone calls planner.c the ring, its pointers, its two counters
\* and its semaphore are a queue: blocks leave in the order they were added, become
\* visible in batches, none is lost or overwritten, and an emergency stop replaces
\* what is queued by itself.
THEOREM OneCallerImplementsQueue ==
  ASSUME NEW p, Callers = {p}
  PROVE  Spec => ImplementsBlockQueue
<1>1. OneCallerInv => NoOverwrite
  BY SlotIsFree DEF OneCallerInv
<1>2. OneCallerInv /\ [Next]_vars => [Abstract!Next]_(Abstract!vars)
  BY <1>1, QueueStep DEF OneCallerInv
<1>3. Spec => []OneCallerInv
  BY OneCallerInvHolds
<1> QED BY <1>2, <1>3, QueueInit, PTL DEF Spec, ImplementsBlockQueue, Abstract!Spec

-----------------------------------------------------------------------------
(* Blocks that stay uncommitted *)

LEMMA NoFinalRecalc ==
  ASSUME NEW k \in Nat \ {0}, k # 1, ~FinalRecalc(k)
  PROVE  SkipsLastCommit(k)
<1>0. RecalcEvery \in Nat \ {0} /\ (k + 1) % RecalcEvery = 0
  BY RecalcAssumption DEF FinalRecalc
<1> DEFINE q == k \div RecalcEvery
           r == k % RecalcEvery
<1>1. q \in Nat /\ r \in 0 .. RecalcEvery - 1 /\ k = RecalcEvery * q + r
  BY <1>0, DivMod
<1> HIDE DEF q, r
<1>2. CASE r + 1 < RecalcEvery
  <2>1. k + 1 = RecalcEvery * q + (r + 1) /\ r + 1 \in 0 .. RecalcEvery - 1
    BY <1>0, <1>1, <1>2
  <2>2. (k + 1) % RecalcEvery = r + 1
    BY <1>0, <1>1, <2>1, ModUnique
  <2> QED BY <1>0, <1>1, <2>2
<1>3. CASE ~(r + 1 < RecalcEvery)
  <2>1. r = RecalcEvery - 1
    BY <1>0, <1>1, <1>3
  <2> QED BY <2>1 DEF r, SkipsLastCommit
<1> QED BY <1>2, <1>3

LEMMA UncommittedStep ==
  ASSUME NEW p, Callers = {p}
  PROVE  TypeOK /\ HandedOver /\ UncommittedOnlyAfterSkip /\ [Next]_vars
         => UncommittedOnlyAfterSkip'
<1> SUFFICES ASSUME TypeOK, HandedOver, UncommittedOnlyAfterSkip, [Next]_vars
             PROVE  UncommittedOnlyAfterSkip'
  OBVIOUS
<1>0. /\ pc \in [Callers -> Places] /\ segs \in [Callers -> Nat \ {0}]
      /\ p \in Callers /\ \A c \in Callers : c = p
  BY DEF TypeOK
<1>1. CASE pc'[p] # "done" \/ op'[p] # "Positional" \/ pending' = 0
  BY <1>0, <1>1 DEF UncommittedOnlyAfterSkip
<1>2. CASE Call(p)
  <2>1. pc'[p] # "done"
    BY <1>0, <1>2 DEF Call, BeginCommand, BeginEmpty, BeginVelocity, BeginEstop, Begin
  <2> QED BY <1>1, <2>1
<1>3. CASE Locked(p)
  <2>1. op' = op /\ op[p] # "Positional"
    BY <1>0, <1>3 DEF Locked, HandedOver
  <2> QED BY <1>1, <2>1
<1>4. CASE Finish(p)
  <2>1. MutexWaiters = {}
    BY <1>0, <1>4 DEF Finish, MutexWaiters
  <2>2. pc'[p] = "idle"
    BY <1>0, <1>4, <2>1 DEF Finish
  <2> QED BY <1>1, <2>2
<1>5. CASE Reserve(p) \/ TakeSlot(p) \/ Fill(p)
  <2>1. pc'[p] # "done"
    BY <1>0, <1>5 DEF Reserve, TakeSlot, Fill
  <2> QED BY <1>1, <2>1
<1>6. CASE AddBlock(p)
  <2>1. segs' = segs /\ (pc'[p] = "done" => segs[p] # 1 /\ ~FinalRecalc(segs[p]))
    BY <1>0, <1>6 DEF AddBlock, NextSegment, RecalcAfter
  <2>2. pc'[p] = "done" => SkipsLastCommit(segs'[p])
    BY <1>0, <2>1, NoFinalRecalc
  <2> QED BY <1>0, <2>2 DEF UncommittedOnlyAfterSkip
<1>7. CASE Commit(p) \/ InterruptCommit(p)
  <2>1. pending' = 0
    BY <1>7 DEF Commit, InterruptCommit
  <2> QED BY <1>1, <2>1
<1>8. CASE StepperFetch
  <2>1. op' = op /\ segs' = segs /\ pending' = pending
    BY <1>8 DEF StepperFetch
  <2>2. waiters = <<>> \/ Head(waiters) \in Callers
    BY DEF TypeOK
  <2>3. pc' = pc \/ pc'[p] = "slot"
    BY <1>0, <1>8, <2>2 DEF StepperFetch, SemSignal
  <2> QED BY <1>1, <2>1, <2>3 DEF UncommittedOnlyAfterSkip
<1>9. CASE StepperDone \/ UNCHANGED vars
  BY <1>9 DEF StepperDone, vars, queueVars, callerVars, UncommittedOnlyAfterSkip
<1> QED BY <1>0, <1>2, <1>3, <1>4, <1>5, <1>6, <1>7, <1>8, <1>9 DEF Next, Proceed

\* However many segments a move has and wherever the passes fall, with one caller
\* only a move of 11, 23, ... segments (for a ring of 50) returns with blocks the
\* stepper cannot see.
THEOREM OneCallerCommits ==
  ASSUME NEW p, Callers = {p}
  PROVE  Spec => []UncommittedOnlyAfterSkip
<1>1. Init => UncommittedOnlyAfterSkip
  BY DEF Init, UncommittedOnlyAfterSkip
<1>2. OneCallerInv /\ UncommittedOnlyAfterSkip /\ [Next]_vars => UncommittedOnlyAfterSkip'
  BY UncommittedStep DEF OneCallerInv
<1>3. Spec => []OneCallerInv
  BY OneCallerInvHolds
<1> QED BY <1>1, <1>2, <1>3, PTL DEF Spec

-----------------------------------------------------------------------------
(* A stopped machine *)

\* The stepper drops blocks, or is about to: an Estop comes first.
Dropping == estop \/ (ready # <<>> /\ Head(ready) = "Estop")

\* The only Estop_Clear in the queue is the last block, and its caller has not
\* returned yet.
ClearIsLast ==
  /\ \A i \in 1 .. Len(ready) : ready[i] = "Estop_Clear" =>
       /\ i = Len(ready) /\ pend = <<>>
       /\ \A c \in Callers : op[c] = "Estop_Clear" /\ pc[c] = "done"
  /\ \A i \in 1 .. Len(pend) : pend[i] = "Estop_Clear" =>
       /\ i = Len(pend)
       /\ \A c \in Callers : op[c] = "Estop_Clear" /\ pc[c] = "commit"

\* Or the stepper has consumed it, and there is nothing else.
Cleared ==
  /\ ready = <<>> /\ pend = <<>>
  /\ \A c \in Callers : op[c] = "Estop_Clear" /\ pc[c] = "done"

StoppedSafely == halted /\ ~EstopOnItsWay => (Dropping /\ ClearIsLast) \/ Cleared

\* Steps that leave the queue alone and move no Estop_Clear from its commit.
LEMMA SafelyKept ==
  ASSUME NEW p, Callers = {p}, TypeOK, StoppedSafely, Still, op' = op,
         ~(halted /\ ~EstopOnItsWay)' \/ (halted /\ ~EstopOnItsWay),
         pc'[p] = pc[p] \/ pc[p] \notin {"commit", "done"}
  PROVE  StoppedSafely'
<1>1. p \in Callers /\ \A c \in Callers : c = p
  OBVIOUS
<1>2. ready' = ready /\ pend' = pend /\ estop' = estop
  BY DEF Still
<1>3. Cleared => Cleared'
  BY <1>1, <1>2 DEF Cleared
<1>4. ClearIsLast => ClearIsLast'
  BY <1>1, <1>2 DEF ClearIsLast
<1>5. Dropping => Dropping'
  BY <1>2 DEF Dropping
<1> QED BY <1>3, <1>4, <1>5 DEF StoppedSafely

LEMMA SafelyStep ==
  ASSUME NEW p, Callers = {p}
  PROVE  OneCallerInv /\ StoppedSafely /\ [Next]_vars => StoppedSafely'
<1> SUFFICES ASSUME OneCallerInv, StoppedSafely, [Next]_vars PROVE StoppedSafely'
  OBVIOUS
<1> USE DEF OneCallerInv
<1>0. /\ pc \in [Callers -> Places] /\ op \in [Callers -> Modes]
      /\ segs \in [Callers -> Nat \ {0}] /\ halted \in BOOLEAN
      /\ p \in Callers /\ \A c \in Callers : c = p
  BY DEF TypeOK
<1>00. /\ ready \in Seq(Modes) /\ pend \in Seq(Modes)
       /\ Len(ready) \in Nat /\ Len(pend) \in Nat
  BY Sequences
<1>e. EstopOnItsWay = (op[p] = "Estop" /\ pc[p] \notin {"idle", "done"})
  BY <1>0 DEF EstopOnItsWay
<1>f. EstopOnItsWay' = (op'[p] = "Estop" /\ pc'[p] \notin {"idle", "done"})
  BY <1>0 DEF EstopOnItsWay
<1>n. \* No Estop_Clear is in the queue unless its caller is where it says.
      ASSUME pc[p] \notin {"commit", "done"}, halted, ~EstopOnItsWay
      PROVE  /\ Dropping
             /\ \A i \in 1 .. Len(ready) : ready[i] # "Estop_Clear"
             /\ \A i \in 1 .. Len(pend) : pend[i] # "Estop_Clear"
  BY <1>0, <1>n DEF StoppedSafely, Cleared, ClearIsLast
<1>1. CASE Call(p)
  <2>1. /\ Still /\ pc[p] = "idle" /\ halted' = halted
    <3>1. UNCHANGED <<buf, rdptr, counter, pending, active, estop>>
      BY <1>1 DEF Call, BeginCommand, BeginEmpty, BeginVelocity, BeginEstop, Begin,
         queueVars, stepperVars
    <3>2. pc[p] = "idle" /\ halted' = halted
      BY <1>1 DEF Call, BeginCommand, BeginEmpty, BeginVelocity, BeginEstop, Begin
    <3> QED BY <3>1, <3>2, RingUntouched
  <2>2. ready' = ready /\ pend' = pend /\ estop' = estop
    BY <2>1 DEF Still
  <2>3. SUFFICES ASSUME halted PROVE Dropping' /\ ClearIsLast'
    BY <2>1 DEF StoppedSafely
  <2>4. ~EstopOnItsWay
    BY <1>e, <2>1
  <2> QED BY <1>n, <2>1, <2>2, <2>3, <2>4 DEF Dropping, ClearIsLast
<1>2. CASE Locked(p)
  <2>1. /\ Still /\ op' = op /\ pc[p] = "locked" /\ segs' = segs
    BY <1>2, RingUntouched DEF Locked, queueVars, stepperVars
  <2>2. /\ halted' = (halted \/ op[p] = "Estop")
        /\ pc'[p] = IF halted' THEN "reserve" ELSE "done"
    BY <1>0, <1>2 DEF Locked
  <2>3. (halted /\ ~EstopOnItsWay)' => halted /\ ~EstopOnItsWay
    BY <1>0, <1>e, <1>f, <2>1, <2>2
  <2> QED BY <1>0, <2>1, <2>3, SafelyKept
<1>3. CASE Finish(p)
  <2>1. Still /\ pc[p] = "done" /\ halted' = (halted /\ op[p] # "Estop_Clear")
    BY <1>3, RingUntouched DEF Finish, queueVars, stepperVars
  <2>2. ready' = ready /\ pend' = pend /\ estop' = estop
    BY <2>1 DEF Still
  <2>3. SUFFICES ASSUME halted, op[p] # "Estop_Clear" PROVE Dropping' /\ ClearIsLast'
    BY <1>0, <2>1 DEF StoppedSafely
  <2>4. ~EstopOnItsWay
    BY <1>e, <2>1
  <2>5. Dropping /\ ClearIsLast
    BY <1>0, <2>3, <2>4 DEF StoppedSafely, Cleared
  <2>6. /\ \A i \in 1 .. Len(ready) : ready[i] # "Estop_Clear"
        /\ \A i \in 1 .. Len(pend) : pend[i] # "Estop_Clear"
    BY <1>0, <2>3, <2>5 DEF ClearIsLast
  <2> QED BY <2>2, <2>5, <2>6 DEF Dropping, ClearIsLast
<1>4. CASE Reserve(p) \/ TakeSlot(p) \/ Fill(p)
  <2>1. Still
    <3>1. CASE Reserve(p) \/ TakeSlot(p)
      BY <3>1, RingUntouched DEF Reserve, TakeSlot, queueVars, stepperVars
    <3>2. CASE Fill(p)
      BY <1>0, <3>2, SlotIsFree, FillMaps
    <3> QED BY <1>4, <3>1, <3>2
  <2>2. /\ op' = op /\ halted' = halted /\ pc[p] \in {"reserve", "slot", "fill"}
        /\ pc'[p] \in {"slot", "blocked", "fill", "interrupt", "add"}
    BY <1>0, <1>4 DEF Reserve, TakeSlot, Fill, printerVars
  <2>3. (halted /\ ~EstopOnItsWay)' => halted /\ ~EstopOnItsWay
    BY <1>e, <1>f, <2>2
  <2> QED BY <1>0, <2>1, <2>2, <2>3, SafelyKept
<1>5. CASE AddBlock(p)
  <2>1. /\ pend' = Append(pend, op[p]) /\ ready' = ready
    BY <1>0, <1>5, AddMaps
  <2>2. /\ op' = op /\ halted' = halted /\ estop' = estop /\ pc[p] = "add"
        /\ op[p] # "Estop"
    BY <1>0, <1>5 DEF AddBlock, HandedOver, printerVars, stepperVars
  <2>3. op[p] = "Estop_Clear" => pc'[p] = "commit"
    <3>1. op[p] = "Estop_Clear" => segs[p] = 1
      BY <1>0 DEF HandedOver
    <3> QED BY <1>0, <1>5, <3>1 DEF AddBlock, RecalcAfter
  <2>4. SUFFICES ASSUME halted PROVE Dropping' /\ ClearIsLast'
    BY <2>2 DEF StoppedSafely
  <2>5. /\ Dropping
        /\ \A i \in 1 .. Len(ready) : ready[i] # "Estop_Clear"
        /\ \A i \in 1 .. Len(pend) : pend[i] # "Estop_Clear"
    BY <1>e, <1>n, <2>2, <2>4
  <2>6. /\ Len(pend') = Len(pend) + 1
        /\ \A i \in 1 .. Len(pend) : pend'[i] = pend[i]
        /\ pend'[Len(pend) + 1] = op[p]
    BY <1>0, <1>00, <2>1
  <2>7. \A i \in 1 .. Len(pend') : pend'[i] = "Estop_Clear" =>
          i = Len(pend') /\ op[p] = "Estop_Clear"
    <3>1. \A i \in 1 .. Len(pend') : i \in 1 .. Len(pend) \/ i = Len(pend) + 1
      BY <1>00, <2>6
    <3> QED BY <2>5, <2>6, <3>1
  <2>8. ClearIsLast'
    BY <1>0, <2>1, <2>2, <2>3, <2>5, <2>7 DEF ClearIsLast
  <2> QED BY <2>1, <2>2, <2>5, <2>8 DEF Dropping
<1>6. CASE Commit(p)
  <2>1. ready' = ready \o pend /\ pend' = <<>>
    BY <1>6, CommitMaps
  <2>2. /\ op' = op /\ halted' = halted /\ estop' = estop /\ pc[p] = "commit"
        /\ pc'[p] \in {"done", "reserve", "commit"}
        /\ op[p] = "Estop_Clear" => pc'[p] = "done"
    <3>1. op[p] = "Estop_Clear" => segs[p] = 1
      BY <1>0 DEF HandedOver
    <3> QED BY <1>0, <1>6, <3>1 DEF Commit, NextSegment, printerVars, stepperVars
  <2>3. SUFFICES ASSUME halted, ~EstopOnItsWay' PROVE Dropping' /\ ClearIsLast'
    BY <2>2 DEF StoppedSafely
  <2>4. op[p] # "Estop" /\ ~EstopOnItsWay
    BY <1>0, <1>e, <2>2 DEF HandedOver
  <2>5. Dropping /\ ClearIsLast
    BY <1>0, <2>2, <2>3, <2>4 DEF StoppedSafely, Cleared
  <2>6. /\ ready' \in Seq(Modes) /\ Len(ready') = Len(ready) + Len(pend)
        /\ \A i \in 1 .. Len(ready) + Len(pend) :
             ready'[i] = IF i <= Len(ready) THEN ready[i] ELSE pend[i - Len(ready)]
    BY <1>00, <2>1, ConcatProperties
  <2>7. Dropping'
    <3>1. CASE estop
      BY <2>2, <3>1 DEF Dropping
    <3>2. CASE ready # <<>> /\ Head(ready) = "Estop"
      <4>1. Len(ready) >= 1 /\ ready[1] = "Estop"
        BY <1>00, <3>2
      <4>2. ready'[1] = "Estop" /\ Len(ready') >= 1
        BY <1>00, <2>6, <4>1
      <4>3. ready' # <<>> /\ Head(ready') = "Estop"
        BY <2>6, <4>2
      <4> QED BY <4>3 DEF Dropping
    <3> QED BY <2>5, <3>1, <3>2 DEF Dropping
  <2>8. \A i \in 1 .. Len(ready') : ready'[i] = "Estop_Clear" =>
          i = Len(ready') /\ op[p] = "Estop_Clear"
    <3> SUFFICES ASSUME NEW i \in 1 .. Len(ready'), ready'[i] = "Estop_Clear"
                 PROVE  i = Len(ready') /\ op[p] = "Estop_Clear"
      OBVIOUS
    <3>1. CASE i <= Len(ready)
      <4>1. i \in 1 .. Len(ready) /\ ready[i] = "Estop_Clear"
        BY <1>00, <2>6, <3>1
      <4>2. pc[p] = "done"
        BY <1>0, <2>5, <4>1 DEF ClearIsLast
      <4> QED BY <2>2, <4>2
    <3>2. CASE ~(i <= Len(ready))
      <4>1. i - Len(ready) \in 1 .. Len(pend) /\ pend[i - Len(ready)] = "Estop_Clear"
        BY <1>00, <2>6, <3>2
      <4>2. i - Len(ready) = Len(pend) /\ op[p] = "Estop_Clear"
        BY <1>0, <2>5, <4>1 DEF ClearIsLast
      <4> QED BY <1>00, <2>6, <4>2
    <3> QED BY <3>1, <3>2
  <2>9. ClearIsLast'
    BY <1>0, <2>1, <2>2, <2>8 DEF ClearIsLast
  <2> QED BY <2>7, <2>9
<1>7. CASE InterruptCommit(p)
  <2>1. ready' = <<"Estop">> /\ pend' = <<>>
    BY <1>7, InterruptMaps
  <2>2. Dropping' /\ ClearIsLast'
    BY <2>1 DEF Dropping, ClearIsLast
  <2> QED BY <2>2 DEF StoppedSafely
<1>8. CASE StepperFetch
  <2>1. /\ ready # <<>> /\ ready' = Tail(ready) /\ pend' = pend
        /\ estop' = EstopAfter(Head(ready))
    BY <1>8, FetchMaps
  <2>2. op' = op /\ halted' = halted
    BY <1>8 DEF StepperFetch, printerVars
  <2>3. pc' = pc \/ (pc[p] = "blocked" /\ pc'[p] = "slot")
    <3>1. CASE waiters = <<>>
      BY <1>8, <3>1 DEF StepperFetch, SemSignal
    <3>2. CASE waiters # <<>>
      <4>1. 1 \in 1 .. Len(waiters) /\ Head(waiters) = waiters[1] /\ waiters[1] \in Callers
        BY <3>2 DEF TypeOK
      <4>2. pc[p] = "blocked" /\ pc' = [pc EXCEPT ![p] = "slot"]
        BY <1>0, <1>8, <3>2, <4>1 DEF StepperFetch, SemSignal, WaitersBlocked
      <4> QED BY <1>0, <4>2
    <3> QED BY <3>1, <3>2
  <2>4. SUFFICES ASSUME halted, ~EstopOnItsWay
                 PROVE  (Dropping' /\ ClearIsLast') \/ Cleared'
    BY <1>e, <1>f, <2>2, <2>3 DEF StoppedSafely
  <2>5. Dropping /\ ClearIsLast
    BY <2>1, <2>4 DEF StoppedSafely, Cleared
  <2>6. /\ Len(ready) >= 1 /\ Head(ready) = ready[1]
        /\ ready' \in Seq(Modes) /\ Len(ready') = Len(ready) - 1
        /\ \A i \in 1 .. Len(ready') : ready'[i] = ready[i + 1]
    BY <1>00, <2>1, HeadTailProperties
  <2>7. CASE ready[1] = "Estop_Clear"
    <3>1. /\ Len(ready) = 1 /\ pend = <<>>
          /\ op[p] = "Estop_Clear" /\ pc[p] = "done"
      BY <1>0, <1>00, <2>5, <2>6, <2>7 DEF ClearIsLast
    <3>2. ready' = <<>>
      BY <2>6, <3>1, EmptySeq
    <3> QED BY <1>0, <2>1, <2>2, <2>3, <3>1, <3>2 DEF Cleared
  <2>8. CASE ready[1] # "Estop_Clear"
    <3>1. estop'
      BY <2>1, <2>5, <2>6, <2>8 DEF Dropping, EstopAfter
    <3>2. \A i \in 1 .. Len(ready') : ready'[i] = "Estop_Clear" =>
            /\ i = Len(ready') /\ pend = <<>>
            /\ op[p] = "Estop_Clear" /\ pc[p] = "done"
      <4> SUFFICES ASSUME NEW i \in 1 .. Len(ready'), ready'[i] = "Estop_Clear"
                   PROVE  /\ i = Len(ready') /\ pend = <<>>
                          /\ op[p] = "Estop_Clear" /\ pc[p] = "done"
        OBVIOUS
      <4>1. i + 1 \in 1 .. Len(ready) /\ ready[i + 1] = "Estop_Clear"
        BY <1>00, <2>6
      <4>2. /\ i + 1 = Len(ready) /\ pend = <<>>
            /\ op[p] = "Estop_Clear" /\ pc[p] = "done"
        BY <1>0, <2>5, <4>1 DEF ClearIsLast
      <4> QED BY <1>00, <2>6, <4>2
    <3>3. ClearIsLast'
      BY <1>0, <2>1, <2>2, <2>3, <2>5, <3>2 DEF ClearIsLast
    <3> QED BY <3>1, <3>3 DEF Dropping
  <2> QED BY <2>7, <2>8
<1>9. CASE StepperDone \/ UNCHANGED vars
  <2>1. ready' = ready /\ pend' = pend /\ estop' = estop
    BY <1>9 DEF StepperDone, vars, queueVars, stepperVars, ready, pend, Contents
  <2>2. op' = op /\ pc' = pc /\ halted' = halted
    BY <1>9 DEF StepperDone, vars, callerVars, printerVars
  <2> QED BY <2>1, <2>2 DEF StoppedSafely, EstopOnItsWay, Dropping, ClearIsLast, Cleared
<1> QED BY <1>0, <1>1, <1>2, <1>3, <1>4, <1>5, <1>6, <1>7, <1>8, <1>9 DEF Next, Proceed

\* Only a fetch starts a block.
LEMMA OnlyAFetchStarts ==
  ASSUME TypeOK, [Next]_vars, active' # active, active' \in Motion
  PROVE  StepperFetch
<1>1. ASSUME NEW c \in Callers PROVE ~Call(c)
  BY DEF Call, BeginCommand, BeginEmpty, BeginVelocity, BeginEstop, Begin, stepperVars
<1>2. ASSUME NEW c \in Callers PROVE ~Proceed(c)
  BY DEF Proceed, Locked, Finish, Reserve, TakeSlot, Fill, AddBlock, Commit,
     InterruptCommit, stepperVars
<1>3. ~StepperDone
  BY DEF StepperDone, Motion
<1>4. ~UNCHANGED vars
  BY DEF vars, stepperVars
<1> QED BY <1>1, <1>2, <1>3, <1>4 DEF Next

\* From the moment printerEstop returns until the stop is cleared no block starts
\* to move the machine, whatever else the caller queues meanwhile: the Estop block
\* comes before all of it, and what clears it comes after.
THEOREM OneCallerStops ==
  ASSUME NEW p, Callers = {p}
  PROVE  Spec => NoMotionWhileHalted
<1>1. Init => StoppedSafely
  BY DEF Init, StoppedSafely
<1>2. OneCallerInv /\ StoppedSafely /\ [Next]_vars => StoppedSafely'
  BY SafelyStep
<1>3. OneCallerInv /\ StoppedSafely /\ [Next]_vars
      => [active' # active /\ active' \in Motion => ~halted \/ EstopOnItsWay]_vars
  <2> SUFFICES ASSUME OneCallerInv, StoppedSafely, [Next]_vars,
                      active' # active, active' \in Motion, halted, ~EstopOnItsWay
               PROVE  FALSE
    OBVIOUS
  <2>1. StepperFetch
    BY OnlyAFetchStarts DEF OneCallerInv
  <2>2. /\ ready # <<>> /\ active' = ActiveAfter(Head(ready))
    BY <2>1, FetchMaps DEF OneCallerInv
  <2>3. Dropping
    BY <2>2 DEF StoppedSafely, Cleared
  <2> QED BY <2>2, <2>3 DEF Dropping, ActiveAfter, Motion
<1>4. Spec => []OneCallerInv
  BY OneCallerInvHolds
<1> QED BY <1>1, <1>2, <1>3, <1>4, PTL DEF Spec, NoMotionWhileHalted

=============================================================================
