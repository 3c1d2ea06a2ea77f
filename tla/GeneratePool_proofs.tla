------------------------- MODULE GeneratePool_proofs -------------------------
(***************************************************************************)
(* The pool for any list, any limit and any outcome of the children.       *)
(***************************************************************************)
EXTENDS GeneratePool, FiniteSetTheorems, FunctionTheorems, TLAPS

\* Just the items up to the index were taken.
TakenUpToIndex == \A i \in Items : (child[i] = "none") <=> i > index

\* A worker waits for a child that was not closed, and each such child has one.
HeldIsOpen ==
    \A w \in Workers : worker[w] = "waiting" =>
        holds[w] \in Items /\ child[holds[w]] \in {"running", "exited"}

OpenIsHeld ==
    \A i \in Items : child[i] \in {"running", "exited"} =>
        \E w \in Workers : worker[w] = "waiting" /\ holds[w] = i

HeldApart ==
    \A v, w \in Workers :
        v # w /\ worker[v] = "waiting" /\ worker[w] = "waiting" => holds[v] # holds[w]

\* A worker leaves when every item was taken.
DoneAtEnd == \A w \in Workers : worker[w] = "done" => index = Len(items)

\* ok is what the closed children say; the others have said nothing yet.
OkIsSoFar ==
    /\ ok <=> \A i \in Items : child[i] = "closed" => code[i]
    /\ exit # "none" => \A w \in Workers : worker[w] = "done"
    /\ exit = "success" => ok
    /\ exit = "failure" => ~ok

IInv ==
    /\ TypeOK
    /\ TakenUpToIndex /\ HeldIsOpen /\ OpenIsHeld /\ HeldApart
    /\ DoneAtEnd /\ OkIsSoFar

LEMMA LengthIsNat == TypeOK => Len(items) \in Nat
  BY PoolAssumption DEF TypeOK

\* There is always a worker, as long as there is an item.
LEMMA LimitIsPositive ==
    ASSUME TypeOK
    PROVE  Limit \in Nat /\ Limit >= 1 /\ (Len(items) >= 1 => 1 \in Workers)
<1>1. /\ env \in Nat /\ cpus \in Nat /\ gib \in Nat /\ Len(items) \in Nat
  BY LengthIsNat, PoolAssumption DEF TypeOK
<1>2. gib \div 6 \in Nat
  BY <1>1
<1>3. Limit \in Nat /\ Limit >= 1
  BY <1>1, <1>2 DEF Limit, Concurrency, Least, GiBPerWorker
<1> QED
  BY <1>1, <1>3 DEF Workers, Least

LEMMA InitIInv == Init => IInv
<1> SUFFICES ASSUME Init PROVE IInv
  OBVIOUS
<1>1. Len(items) \in Nat
  BY PoolAssumption DEF Init
<1>2. TypeOK
  BY <1>1 DEF Init, TypeOK
<1> QED
  BY <1>1, <1>2 DEF Init, IInv, TakenUpToIndex, HeldIsOpen, OpenIsHeld, HeldApart,
     DoneAtEnd, OkIsSoFar, Items

LEMMA TakeKeeps == ASSUME IInv, NEW w \in Workers, Take(w) PROVE IInv'
<1>1. /\ worker[w] = "ready" /\ index < Len(items) /\ index' = index + 1
      /\ holds' = [holds EXCEPT ![w] = index + 1]
      /\ worker' = [worker EXCEPT ![w] = "waiting"]
      /\ child' = [child EXCEPT ![index + 1] = "running"]
      /\ UNCHANGED <<items, env, cpus, gib, ok, code, exit>>
      /\ Len(items) \in Nat /\ index \in Nat /\ index + 1 \in Items
      /\ Items' = Items /\ Workers' = Workers
  BY LengthIsNat DEF IInv, TypeOK, Take, machine, Items, Workers, Limit
<1>2. TypeOK'
  BY <1>1 DEF IInv, TypeOK, Items
<1>3. /\ \A i \in Items : child'[i] = IF i = index + 1 THEN "running" ELSE child[i]
      /\ \A v \in Workers : /\ worker'[v] = IF v = w THEN "waiting" ELSE worker[v]
                            /\ holds'[v] = IF v = w THEN index + 1 ELSE holds[v]
      /\ child[index + 1] = "none"
  BY <1>1 DEF IInv, TypeOK, TakenUpToIndex
<1>4. TakenUpToIndex'
  BY <1>1, <1>3 DEF IInv, TakenUpToIndex, Items
<1>5. HeldIsOpen' /\ OpenIsHeld' /\ HeldApart'
  BY <1>1, <1>3 DEF IInv, HeldIsOpen, OpenIsHeld, HeldApart
<1>6. DoneAtEnd'
  BY <1>1, <1>3 DEF IInv, DoneAtEnd
<1>7. OkIsSoFar'
  BY <1>1, <1>3 DEF IInv, OkIsSoFar
<1> QED
  BY <1>2, <1>4, <1>5, <1>6, <1>7 DEF IInv

LEMMA LeaveKeeps == ASSUME IInv, NEW w \in Workers, Leave(w) PROVE IInv'
<1>1. /\ worker[w] = "ready" /\ index >= Len(items)
      /\ worker' = [worker EXCEPT ![w] = "done"]
      /\ UNCHANGED <<items, env, cpus, gib, index, ok, holds, child, code, exit>>
      /\ Len(items) \in Nat /\ index \in 0..Len(items)
      /\ Items' = Items /\ Workers' = Workers
  BY LengthIsNat DEF IInv, TypeOK, Leave, machine, Items, Workers, Limit
<1>2. TypeOK'
  BY <1>1 DEF IInv, TypeOK
<1>3. \A v \in Workers : worker'[v] = IF v = w THEN "done" ELSE worker[v]
  BY <1>1 DEF IInv, TypeOK
<1>4. index = Len(items)
  BY <1>1
<1> QED
  BY <1>1, <1>2, <1>3, <1>4 DEF IInv, TakenUpToIndex, HeldIsOpen, OpenIsHeld,
     HeldApart, DoneAtEnd, OkIsSoFar

LEMMA ExitKeeps == ASSUME IInv, NEW i \in Items, Exit(i) PROVE IInv'
<1>1. /\ child[i] = "running" /\ child' = [child EXCEPT ![i] = "exited"]
      /\ UNCHANGED <<items, env, cpus, gib, index, ok, worker, holds, exit>>
      /\ Items' = Items /\ Workers' = Workers
  BY DEF Exit, machine, Items, Workers, Limit
<1>2. PICK success \in BOOLEAN : code' = [code EXCEPT ![i] = success]
  BY DEF Exit
<1>3. TypeOK'
  BY <1>1, <1>2 DEF IInv, TypeOK
<1>4. \A j \in Items : /\ child'[j] = IF j = i THEN "exited" ELSE child[j]
                       /\ j # i => code'[j] = code[j]
  BY <1>1, <1>2 DEF IInv, TypeOK
<1>5. OkIsSoFar'
  BY <1>1, <1>4 DEF IInv, OkIsSoFar
<1> QED
  BY <1>1, <1>3, <1>4, <1>5 DEF IInv, TakenUpToIndex, HeldIsOpen, OpenIsHeld,
     HeldApart, DoneAtEnd

LEMMA CloseKeeps == ASSUME IInv, NEW w \in Workers, Close(w) PROVE IInv'
<1> DEFINE i == holds[w]
<1>1. /\ worker[w] = "waiting" /\ i \in Items /\ child[i] = "exited"
      /\ child' = [child EXCEPT ![i] = "closed"]
      /\ ok' = (ok /\ code[i])
      /\ worker' = [worker EXCEPT ![w] = "ready"]
      /\ UNCHANGED <<items, env, cpus, gib, index, holds, code, exit>>
      /\ Items' = Items /\ Workers' = Workers
  BY DEF IInv, HeldIsOpen, Close, machine, Items, Workers, Limit
<1>2. code[i] \in BOOLEAN /\ ok \in BOOLEAN
  BY <1>1 DEF IInv, TypeOK
<1> HIDE DEF i
<1>3. TypeOK'
  BY <1>1, <1>2 DEF IInv, TypeOK
<1>4. /\ \A j \in Items : child'[j] = IF j = i THEN "closed" ELSE child[j]
      /\ \A v \in Workers : worker'[v] = IF v = w THEN "ready" ELSE worker[v]
  BY <1>1 DEF IInv, TypeOK
<1>5. TakenUpToIndex'
  BY <1>1, <1>4 DEF IInv, TakenUpToIndex
<1>6. HeldIsOpen' /\ OpenIsHeld' /\ HeldApart'
  <2>1. \A v \in Workers \ {w} : worker[v] = "waiting" => holds[v] # i
    BY <1>1 DEF IInv, HeldApart, i
  <2> QED
    BY <1>1, <1>4, <2>1 DEF IInv, HeldIsOpen, OpenIsHeld, HeldApart, i
<1>7. DoneAtEnd'
  BY <1>1, <1>4 DEF IInv, DoneAtEnd
<1>8. OkIsSoFar'
  <2>1. exit = "none"
    BY <1>1 DEF IInv, OkIsSoFar
  <2>2. ok' <=> \A j \in Items : child'[j] = "closed" => code[j]
    BY <1>1, <1>2, <1>4 DEF IInv, OkIsSoFar
  <2> QED
    BY <1>1, <2>1, <2>2 DEF OkIsSoFar
<1> QED
  BY <1>3, <1>5, <1>6, <1>7, <1>8 DEF IInv

LEMMA ReportKeeps == ASSUME IInv, Report PROVE IInv'
<1>1. /\ \A w \in Workers : worker[w] = "done"
      /\ exit' = IF ok THEN "success" ELSE "failure"
      /\ UNCHANGED <<items, env, cpus, gib, index, ok, worker, holds, child, code>>
      /\ Items' = Items /\ Workers' = Workers
  BY DEF Report, machine, Items, Workers, Limit
<1>2. TypeOK'
  BY <1>1 DEF IInv, TypeOK
<1>3. OkIsSoFar'
  BY <1>1 DEF IInv, OkIsSoFar
<1> QED
  BY <1>1, <1>2, <1>3 DEF IInv, TakenUpToIndex, HeldIsOpen, OpenIsHeld, HeldApart,
     DoneAtEnd

LEMMA Invariance == Spec => []IInv
<1>1. ASSUME IInv, [Next]_vars PROVE IInv'
  <2>1. CASE \E w \in Workers : Take(w) \/ Leave(w) \/ Close(w)
    BY <1>1, <2>1, TakeKeeps, LeaveKeeps, CloseKeeps
  <2>2. CASE \E i \in Items : Exit(i)
    BY <1>1, <2>2, ExitKeeps
  <2>3. CASE Report
    BY <1>1, <2>3, ReportKeeps
  <2>4. CASE UNCHANGED vars
    BY <1>1, <2>4 DEF vars, machine, IInv, TypeOK, TakenUpToIndex, HeldIsOpen,
       OpenIsHeld, HeldApart, DoneAtEnd, OkIsSoFar, Items, Workers, Limit
  <2> QED
    BY <1>1, <2>1, <2>2, <2>3, <2>4 DEF Next
<1> QED
  BY <1>1, InitIInv, PTL DEF Spec

\* The pool's variables keep their types.
THEOREM TypeCorrect == Spec => []TypeOK
  BY Invariance, PTL DEF IInv

(***************************************************************************)
(* No item, and with a list without duplicates no grammar, is generated by *)
(* two children at once (generate-all.js:84).                              *)
(***************************************************************************)
THEOREM OneChildEach == Spec => []HeldOnce
<1>1. IInv => HeldOnce
  <2> SUFFICES ASSUME IInv, NEW v \in Workers, NEW w \in Workers, v # w,
                      worker[v] = "waiting", worker[w] = "waiting"
               PROVE  /\ holds[v] # holds[w]
                      /\ NoDuplicates => items[holds[v]] # items[holds[w]]
    BY DEF HeldOnce
  <2> QED
    BY DEF IInv, HeldApart, HeldIsOpen, NoDuplicates
<1> QED
  BY <1>1, Invariance, PTL

(***************************************************************************)
(* The exit code tells the truth about every grammar of the list, for any  *)
(* number of workers (generate-all.js:79-100).                             *)
(***************************************************************************)
THEOREM HonestExit == Spec => []OutcomeIsHonest
<1>1. IInv => OutcomeIsHonest
  <2> SUFFICES ASSUME IInv, exit # "none"
               PROVE  /\ \A i \in Items : child[i] = "closed"
                      /\ exit = "success" <=> \A i \in Items : code[i]
    BY DEF OutcomeIsHonest
  <2>1. \A w \in Workers : worker[w] = "done"
    BY DEF IInv, OkIsSoFar
  <2>2. ASSUME NEW i \in Items PROVE child[i] = "closed"
    <3>1. index = Len(items)
      <4>1. Len(items) \in Nat /\ Len(items) >= 1
        BY LengthIsNat DEF IInv, Items
      <4> QED
        BY <2>1, <4>1, LimitIsPositive DEF IInv, DoneAtEnd
    <3>2. child[i] # "none"
      BY <3>1, LengthIsNat DEF IInv, TakenUpToIndex, Items
    <3>3. child[i] \notin {"running", "exited"}
      BY <2>1 DEF IInv, OpenIsHeld
    <3> QED
      BY <3>2, <3>3 DEF IInv, TypeOK
  <2> QED
    BY <2>2 DEF IInv, OkIsSoFar, TypeOK
<1> QED
  BY <1>1, Invariance, PTL

-----------------------------------------------------------------------------
\* Each running child has a worker of its own, so there are no more of them.
LEMMA RunningWithinLimit ==
    ASSUME IInv
    PROVE  /\ IsFiniteSet(RunningItems)
           /\ Cardinality(RunningItems) \in Nat
           /\ Cardinality(RunningItems) <= Limit
<1> DEFINE waitsFor == [i \in RunningItems |->
                          CHOOSE w \in Workers : worker[w] = "waiting" /\ holds[w] = i]
<1>1. ASSUME NEW i \in RunningItems
      PROVE  waitsFor[i] \in Workers /\ holds[waitsFor[i]] = i
  <2>1. \E w \in Workers : worker[w] = "waiting" /\ holds[w] = i
    BY DEF RunningItems, IInv, OpenIsHeld
  <2> QED
    BY <2>1
<1>2. Limit \in Nat /\ Len(items) \in Nat
  BY LimitIsPositive, LengthIsNat DEF IInv
<1>3. Workers \subseteq 1..Limit
  BY <1>2 DEF Workers, Least
<1>4. IsFiniteSet(1..Limit) /\ Cardinality(1..Limit) = Limit
  BY <1>2, FS_Interval
<1>5. waitsFor \in Injection(RunningItems, 1..Limit)
  <2>1. waitsFor \in [RunningItems -> 1..Limit]
    BY <1>1, <1>3
  <2>2. \A i, j \in RunningItems : waitsFor[i] = waitsFor[j] => i = j
    BY <1>1
  <2> QED
    BY <2>1, <2>2 DEF Injection, IsInjective
<1>6. IsFiniteSet(RunningItems) /\ Cardinality(RunningItems) <= Cardinality(1..Limit)
  <2> HIDE DEF waitsFor
  <2> QED
    BY <1>4, <1>5, FS_Injection
<1> QED
  BY <1>4, <1>6, FS_CardinalityType

(***************************************************************************)
(* The children that run at once fit the memory of any machine, unless     *)
(* there is only one or the user set their number (generate-all.js:62).    *)
(***************************************************************************)
THEOREM MemoryIsEnough == Spec => []FitsMemory
<1>1. IInv => FitsMemory
  <2> SUFFICES ASSUME IInv PROVE FitsMemory
    OBVIOUS
  <2> DEFINE n == Cardinality(RunningItems)
  <2>1. n \in Nat /\ n <= Limit
    BY RunningWithinLimit
  <2>2. gib \in Nat /\ cpus \in Nat
    BY PoolAssumption DEF IInv, TypeOK
  <2>3. ASSUME env = 0, ~(n <= 1) PROVE n * GiBPerWorker <= gib
    <3>1. Limit = Least(cpus, gib \div 6)
      BY <2>1, <2>2, <2>3 DEF Limit, Concurrency, GiBPerWorker, Least
    <3>2. n <= gib \div 6
      BY <2>1, <2>2, <3>1 DEF Least
    <3> HIDE DEF n
    <3> QED
      BY <2>1, <2>2, <3>2 DEF GiBPerWorker
  <2> QED
    BY <2>1, <2>3 DEF FitsMemory
<1> QED
  BY <1>1, Invariance, PTL

-----------------------------------------------------------------------------
(***************************************************************************)
(* The pool ends: every step does one part of what is left to do, of which *)
(* each item and each worker has a number of its own.                      *)
(***************************************************************************)

ExitedItems == {i \in Items : child[i] = "exited"}
AtWork      == {w \in Workers : worker[w] # "done"}

\* An item is taken, exits and is closed; a worker leaves; the script reports.
Remaining ==
    3 * (Len(items) - index) + 2 * Cardinality(RunningItems) + Cardinality(ExitedItems)
        + Cardinality(AtWork) + (IF exit = "none" THEN 1 ELSE 0)

\* A worker can take an item or leave, a child can exit, its close event can be
\* served, or the script can report.
CanGoOn ==
    \/ \E w \in Workers : worker[w] = "ready"
    \/ \E i \in Items : child[i] = "running"
    \/ \E w \in Workers : worker[w] = "waiting" /\ child[holds[w]] = "exited"
    \/ \A w \in Workers : worker[w] = "done"

\* The parts that a step may change, and the machine that it may not.
LEMMA Parts ==
    ASSUME TypeOK
    PROVE  /\ IsFiniteSet(RunningItems) /\ Cardinality(RunningItems) \in Nat
           /\ IsFiniteSet(ExitedItems) /\ Cardinality(ExitedItems) \in Nat
           /\ IsFiniteSet(AtWork) /\ Cardinality(AtWork) \in 0..Cardinality(Workers)
           /\ Len(items) \in Nat /\ index \in 0..Len(items)
<1>1. Len(items) \in Nat /\ Limit \in Nat
  BY LengthIsNat, LimitIsPositive
<1>2. IsFiniteSet(Items) /\ IsFiniteSet(Workers)
  <2>1. Least(Limit, Len(items)) \in Nat
    BY <1>1 DEF Least
  <2> QED
    BY <1>1, <2>1, FS_Interval DEF Items, Workers
<1>3. ASSUME NEW S, IsFiniteSet(S), NEW T \in SUBSET S
      PROVE  IsFiniteSet(T) /\ Cardinality(T) \in 0..Cardinality(S)
  <2>1. IsFiniteSet(T) /\ Cardinality(T) <= Cardinality(S)
    BY <1>3, FS_Subset
  <2>2. Cardinality(T) \in Nat /\ Cardinality(S) \in Nat
    BY <1>3, <2>1, FS_CardinalityType
  <2> QED
    BY <2>1, <2>2
<1>4. /\ RunningItems \in SUBSET Items /\ ExitedItems \in SUBSET Items
      /\ AtWork \in SUBSET Workers
  BY DEF RunningItems, ExitedItems, AtWork
<1>5. index \in 0..Len(items)
  BY DEF TypeOK
<1> QED
  BY <1>1, <1>2, <1>3, <1>4, <1>5

LEMMA TakeIsAPart == ASSUME IInv, NEW w \in Workers, Take(w) PROVE Remaining' = Remaining - 1
<1>1. /\ worker[w] = "ready" /\ index < Len(items) /\ index' = index + 1
      /\ worker' = [worker EXCEPT ![w] = "waiting"]
      /\ child' = [child EXCEPT ![index + 1] = "running"]
      /\ UNCHANGED <<items, exit>> /\ Items' = Items /\ Workers' = Workers
      /\ TypeOK /\ Len(items) \in Nat /\ index \in Nat /\ index + 1 \in Items
  BY LengthIsNat DEF IInv, TypeOK, Take, machine, Items, Workers, Limit
<1>2. child[index + 1] = "none"
  BY <1>1 DEF IInv, TakenUpToIndex
<1>3. RunningItems' = RunningItems \cup {index + 1} /\ index + 1 \notin RunningItems
  BY <1>1, <1>2 DEF RunningItems, TypeOK
<1>4. ExitedItems' = ExitedItems
  BY <1>1, <1>2 DEF ExitedItems, TypeOK
<1>5. AtWork' = AtWork
  BY <1>1 DEF AtWork, TypeOK
<1>6. Cardinality(RunningItems') = Cardinality(RunningItems) + 1
  BY <1>1, <1>3, Parts, FS_AddElement
<1> QED
  BY <1>1, <1>4, <1>5, <1>6, Parts DEF Remaining

LEMMA LeaveIsAPart == ASSUME IInv, NEW w \in Workers, Leave(w) PROVE Remaining' = Remaining - 1
<1>1. /\ worker[w] = "ready" /\ worker' = [worker EXCEPT ![w] = "done"]
      /\ UNCHANGED <<items, index, child, exit>> /\ Items' = Items /\ Workers' = Workers
      /\ TypeOK
  BY DEF IInv, Leave, machine, Items, Workers, Limit
<1>2. AtWork' = AtWork \ {w} /\ w \in AtWork
  BY <1>1 DEF AtWork, TypeOK
<1>3. RunningItems' = RunningItems /\ ExitedItems' = ExitedItems
  BY <1>1 DEF RunningItems, ExitedItems
<1>4. Cardinality(AtWork') = Cardinality(AtWork) - 1
  BY <1>1, <1>2, Parts, FS_RemoveElement
<1> QED
  BY <1>1, <1>3, <1>4, Parts DEF Remaining

LEMMA ExitIsAPart == ASSUME IInv, NEW i \in Items, Exit(i) PROVE Remaining' = Remaining - 1
<1>1. /\ child[i] = "running" /\ child' = [child EXCEPT ![i] = "exited"]
      /\ UNCHANGED <<items, index, worker, exit>> /\ Items' = Items /\ Workers' = Workers
      /\ TypeOK
  BY DEF IInv, Exit, machine, Items, Workers, Limit
<1>2. /\ RunningItems' = RunningItems \ {i} /\ i \in RunningItems
      /\ ExitedItems' = ExitedItems \cup {i} /\ i \notin ExitedItems
  BY <1>1 DEF RunningItems, ExitedItems, TypeOK
<1>3. AtWork' = AtWork
  BY <1>1 DEF AtWork
<1>4. Cardinality(RunningItems') = Cardinality(RunningItems) - 1
  BY <1>1, <1>2, Parts, FS_RemoveElement
<1>5. Cardinality(ExitedItems') = Cardinality(ExitedItems) + 1
  BY <1>1, <1>2, Parts, FS_AddElement
<1>6. Cardinality(RunningItems) \in Nat /\ Cardinality(ExitedItems) \in Nat
      /\ Cardinality(AtWork) \in Nat /\ Len(items) \in Nat /\ index \in Nat
  BY <1>1, Parts
<1> QED
  BY <1>1, <1>3, <1>4, <1>5, <1>6 DEF Remaining

LEMMA CloseIsAPart == ASSUME IInv, NEW w \in Workers, Close(w) PROVE Remaining' = Remaining - 1
<1> DEFINE i == holds[w]
<1>1. /\ worker[w] = "waiting" /\ i \in Items /\ child[i] = "exited"
      /\ child' = [child EXCEPT ![i] = "closed"]
      /\ worker' = [worker EXCEPT ![w] = "ready"]
      /\ UNCHANGED <<items, index, exit>> /\ Items' = Items /\ Workers' = Workers
      /\ TypeOK
  BY DEF IInv, HeldIsOpen, Close, machine, Items, Workers, Limit
<1> HIDE DEF i
<1>2. ExitedItems' = ExitedItems \ {i} /\ i \in ExitedItems
  BY <1>1 DEF ExitedItems, TypeOK
<1>3. RunningItems' = RunningItems
  BY <1>1 DEF RunningItems, TypeOK
<1>4. AtWork' = AtWork
  BY <1>1 DEF AtWork, TypeOK
<1>5. Cardinality(ExitedItems') = Cardinality(ExitedItems) - 1
  BY <1>1, <1>2, Parts, FS_RemoveElement
<1> QED
  BY <1>1, <1>3, <1>4, <1>5, Parts DEF Remaining

LEMMA ReportIsAPart == ASSUME IInv, Report PROVE Remaining' = Remaining - 1
<1>1. /\ exit = "none" /\ exit' # "none" /\ UNCHANGED <<items, index, worker, child>>
      /\ Items' = Items /\ Workers' = Workers /\ TypeOK
  BY DEF IInv, Report, machine, Items, Workers, Limit
<1>2. RunningItems' = RunningItems /\ ExitedItems' = ExitedItems /\ AtWork' = AtWork
  BY <1>1 DEF RunningItems, ExitedItems, AtWork
<1> QED
  BY <1>1, <1>2, Parts DEF Remaining

LEMMA InitialParts == Init => Remaining = 3 * Len(items) + Cardinality(Workers) + 1
<1> SUFFICES ASSUME Init PROVE Remaining = 3 * Len(items) + Cardinality(Workers) + 1
  OBVIOUS
<1>1. index = 0 /\ exit = "none" /\ TypeOK
  BY InitIInv DEF Init, IInv
<1>2. RunningItems = {} /\ ExitedItems = {} /\ AtWork = Workers
  BY DEF Init, RunningItems, ExitedItems, AtWork
<1> QED
  BY <1>1, <1>2, Parts, FS_EmptySet DEF Remaining

(***************************************************************************)
(* The script ends, for any list and any limit: until it has reported some *)
(* worker or child can go on, and it takes three steps for each item, one  *)
(* for each worker and one more, no matter which children fail and in      *)
(* which order they exit (generate-all.js:79-100).                         *)
(***************************************************************************)
THEOREM PoolIsBounded ==
    Spec => /\ Remaining = 3 * Len(items) + Cardinality(Workers) + 1
            /\ [](Remaining \in Nat /\ (exit = "none" => CanGoOn))
            /\ [][Remaining' = Remaining - 1]_vars
<1>1. IInv => Remaining \in Nat
  <2> SUFFICES ASSUME IInv PROVE Remaining \in Nat
    OBVIOUS
  <2>1. TypeOK
    BY DEF IInv
  <2> QED
    BY <2>1, Parts DEF Remaining
<1>2. IInv => CanGoOn
  <2> SUFFICES ASSUME IInv, NEW w \in Workers, worker[w] # "done", worker[w] # "ready"
               PROVE  CanGoOn
    BY DEF CanGoOn
  <2>1. worker[w] = "waiting"
    BY DEF IInv, TypeOK
  <2> QED
    BY <2>1 DEF IInv, HeldIsOpen, CanGoOn
<1>3. IInv /\ [Next]_vars => [Remaining' = Remaining - 1]_vars
  BY TakeIsAPart, LeaveIsAPart, ExitIsAPart, CloseIsAPart, ReportIsAPart DEF Next
<1> QED
  BY <1>1, <1>2, <1>3, InitialParts, Invariance, PTL DEF Spec
=============================================================================
