--------------------------- MODULE Decide_proofs ---------------------------
(***************************************************************************)
(* The loop of withDescendants computes the least set that is closed under *)
(* "extends", which is what the ancestors say of it and what Lineage       *)
(* computes; with it decide selects every job that reads a changed file.   *)
(* All of this for any number of dialects, any lineage and any changes.    *)
(***************************************************************************)
EXTENDS Decide, FiniteSetTheorems, WellFoundedInduction, TLAPS

(***************************************************************************)
(* Induction over the natural numbers, for a set T of them: the least      *)
(* number outside of T would be minimal among finite sets of numbers.      *)
(***************************************************************************)
LEMMA LeastElement ==
    ASSUME NEW T \in SUBSET Nat, T # {}
    PROVE  \E m \in T : \A k \in T : m <= k
<1> DEFINE F == {1..n : n \in T}
<1>1. F \subseteq FiniteSubsetsOf(Nat) /\ F # {}
  <2>1. \A n \in T : IsFiniteSet(1..n) /\ 1..n \subseteq Nat
    BY FS_Interval
  <2> QED
    BY <2>1 DEF FiniteSubsetsOf
<1>2. \E x \in F : \A y \in F : <<y, x>> \notin StrictSubsetOrdering(Nat)
  <2> HIDE DEF F
  <2> QED
    BY <1>1, FS_StrictSubsetOrderingWellFounded, WFMin, ZenonT(30)
<1>3. PICK m \in T : \A y \in F : <<y, 1..m>> \notin StrictSubsetOrdering(Nat)
  BY <1>2
<1>4. ASSUME NEW k \in T, k < m PROVE FALSE
  <2>1. /\ 1..k \in SUBSET Nat /\ 1..m \in SUBSET Nat
        /\ 1..k \subseteq 1..m /\ m \in 1..m /\ m \notin 1..k
    BY <1>4
  <2>2. <<1..k, 1..m>> \in StrictSubsetOrdering(Nat)
    BY <2>1 DEF StrictSubsetOrdering
  <2> QED
    BY <1>3, <2>2
<1>5. \A k \in T : m <= k
  BY <1>4
<1> QED
  BY <1>5

LEMMA Induction ==
    ASSUME NEW T \in SUBSET Nat, 0 \in T, \A n \in T : n + 1 \in T
    PROVE  T = Nat
<1> SUFFICES ASSUME Nat \ T # {} PROVE FALSE
  OBVIOUS
<1>1. PICK m \in Nat \ T : \A k \in Nat \ T : m <= k
  BY LeastElement
<1>2. m - 1 \in Nat /\ m - 1 \in T
  BY <1>1
<1> QED
  BY <1>1, <1>2

(***************************************************************************)
(* What a recursion over 0..N computes: a function step on S, iterated.    *)
(***************************************************************************)
Iterations(a, step, S, N) ==
    {f \in [0..N -> S] : f[0] = a /\ \A n \in 1..N : f[n] = step[f[n-1]]}

LEMMA Iteration ==
    ASSUME NEW S, NEW a \in S, NEW step \in [S -> S], NEW N \in Nat
    PROVE  Iterations(a, step, S, N) # {}
<1> DEFINE Iterates(f, last) == f[0] = a /\ \A n \in 1..last : f[n] = step[f[n-1]]
           T == {m \in Nat : \E f \in [0..m -> S] : Iterates(f, m)}
<1>1. 0 \in T
  <2>1. [i \in 0..0 |-> a] \in [0..0 -> S] /\ Iterates([i \in 0..0 |-> a], 0)
    OBVIOUS
  <2> QED
    BY <2>1
<1>2. ASSUME NEW m \in T PROVE m + 1 \in T
  <2>1. PICK f \in [0..m -> S] : Iterates(f, m)
    BY <1>2
  <2> DEFINE g == [i \in 0..m+1 |-> IF i = m + 1 THEN step[f[m]] ELSE f[i]]
  <2>2. m \in Nat /\ f[m] \in S /\ step[f[m]] \in S
    BY <2>1
  <2>3. g \in [0..m+1 -> S] /\ g[0] = a
    BY <2>1, <2>2
  <2>4. ASSUME NEW n \in 1..m+1 PROVE g[n] = step[g[n-1]]
    <3>1. n - 1 \in 0..m /\ n \in 0..m+1 /\ g[n-1] = f[n-1]
      BY <2>2
    <3>2. CASE n = m + 1
      BY <2>2, <3>1, <3>2
    <3>3. CASE n # m + 1
      BY <2>1, <2>2, <3>1, <3>3
    <3> QED
      BY <3>2, <3>3
  <2> HIDE DEF g
  <2>5. m + 1 \in Nat /\ Iterates(g, m + 1)
    BY <2>2, <2>3, <2>4
  <2> HIDE DEF Iterates
  <2> QED
    BY <2>3, <2>5
<1>3. T = Nat
  <2> HIDE DEF T
  <2>1. T \in SUBSET Nat
    BY DEF T
  <2> QED
    BY <1>1, <1>2, <2>1, Induction
<1>4. \E f \in [0..N -> S] : Iterates(f, N)
  BY <1>3
<1> QED
  BY <1>4 DEF Iterations

-----------------------------------------------------------------------------
(* The lineage. *)

Lineages == [Dialects -> Grammars]
Height   == Cardinality(Dialects)

LEMMA HeightIsNat == Height \in Nat
  BY LineageAssumption, FS_CardinalityType DEF Height

(***************************************************************************)
(* The chain of ancestors obeys the equations that StepsAbove states.      *)
(***************************************************************************)
LEMMA ChainStep ==
    ASSUME NEW p \in Lineages, NEW d \in Grammars
    PROVE  /\ StepsAbove(d, p) \in [0..Height -> Grammars]
           /\ StepsAbove(d, p)[0] = d
           /\ \A n \in 1..Height :
                StepsAbove(d, p)[n] = IF StepsAbove(d, p)[n-1] = Base THEN Base
                                      ELSE p[StepsAbove(d, p)[n-1]]
<1> DEFINE step == [x \in Grammars |-> IF x = Base THEN Base ELSE p[x]]
           Unfolded(u) == [n \in 0..Height |->
                             IF n = 0 THEN d
                             ELSE IF u[n-1] = Base THEN Base ELSE p[u[n-1]]]
           up == StepsAbove(d, p)
<1>0. Height \in Nat /\ DOMAIN p = Dialects
  BY HeightIsNat DEF Lineages
<1>1. step \in [Grammars -> Grammars]
  BY DEF Lineages, Grammars
<1>2. PICK f \in [0..Height -> Grammars] : f[0] = d /\ \A n \in 1..Height : f[n] = step[f[n-1]]
  <2> HIDE DEF step
  <2>1. Iterations(d, step, Grammars, Height) # {}
    BY <1>0, <1>1, Iteration
  <2> QED
    BY <2>1 DEF Iterations
<1>3. f = Unfolded(f)
  <2>1. ASSUME NEW n \in 0..Height PROVE f[n] = Unfolded(f)[n]
    <3>1. CASE n = 0
      BY <1>2, <3>1
    <3>2. CASE n # 0
      <4>1. n \in 1..Height /\ n - 1 \in 0..Height
        BY <1>0, <3>2
      <4> QED
        BY <1>2, <3>2, <4>1
    <3> QED
      BY <3>1, <3>2
  <2> QED
    BY <1>2, <2>1
<1>4. up = Unfolded(up)
  <2>1. up = CHOOSE u : u = Unfolded(u)
    BY <1>0 DEF StepsAbove, Height
  <2> HIDE DEF Unfolded, up
  <2> QED
    BY <1>3, <2>1
<1> HIDE DEF up
<1>5. up[0] = d /\ \A n \in 1..Height : up[n] = IF up[n-1] = Base THEN Base ELSE p[up[n-1]]
  BY <1>0, <1>4
<1>6. up = f
  <2> DEFINE T == {n \in Nat : n \in 0..Height => up[n] = f[n]}
  <2>1. 0 \in T
    BY <1>2, <1>5
  <2>2. ASSUME NEW n \in T, n + 1 \in 0..Height PROVE up[n + 1] = f[n + 1]
    <3>1. n + 1 \in 1..Height /\ n \in 0..Height /\ (n + 1) - 1 = n
      BY <1>0, <2>2
    <3>2. up[n] = f[n] /\ f[n] \in Grammars
      BY <1>2, <3>1
    <3> QED
      BY <1>2, <1>5, <3>1, <3>2
  <2>3. T = Nat
    <3>1. T \in SUBSET Nat /\ \A n \in T : n + 1 \in T
      BY <2>2
    <3> HIDE DEF T
    <3> QED
      BY <2>1, <3>1, Induction
  <2>4. \A n \in 0..Height : up[n] = f[n]
    BY <1>0, <2>3
  <2>5. DOMAIN up = 0..Height
    BY <1>4
  <2> QED
    BY <1>2, <1>4, <2>4, <2>5
<1> QED
  BY <1>2, <1>5, <1>6 DEF up

LEMMA ChainNext ==
    ASSUME NEW p \in Lineages, NEW d \in Grammars, NEW n \in Nat, n + 1 \in 0..Height
    PROVE  /\ StepsAbove(d, p)[n] \in Grammars
           /\ StepsAbove(d, p)[n + 1] = IF StepsAbove(d, p)[n] = Base THEN Base
                                        ELSE p[StepsAbove(d, p)[n]]
<1> DEFINE up == StepsAbove(d, p)
<1>1. /\ up \in [0..Height -> Grammars]
      /\ \A i \in 1..Height : up[i] = IF up[i-1] = Base THEN Base ELSE p[up[i-1]]
  BY ChainStep
<1> HIDE DEF up
<1>2. n \in 0..Height /\ n + 1 \in 1..Height /\ (n + 1) - 1 = n
  BY HeightIsNat
<1>3. up[n] \in Grammars /\ up[n + 1] = IF up[n] = Base THEN Base ELSE p[up[n]]
  BY <1>1, <1>2
<1> QED
  BY <1>3 DEF up

\* The chain of the parent is the chain from the next step on.
LEMMA ChainOfParent ==
    ASSUME NEW p \in Lineages, NEW d \in Dialects, p[d] # Base, NEW n \in 0..Height-1
    PROVE  StepsAbove(d, p)[n + 1] = StepsAbove(p[d], p)[n]
<1> DEFINE T == {k \in Nat : k \in 0..Height-1 =>
                               StepsAbove(d, p)[k + 1] = StepsAbove(p[d], p)[k]}
<1>0. Height \in Nat /\ Base \notin Dialects /\ d \in Grammars /\ p[d] \in Grammars
  BY HeightIsNat, LineageAssumption DEF Lineages, Grammars
<1>1. 0 \in T
  <2>1. ASSUME 0 \in 0..Height-1 PROVE StepsAbove(d, p)[1] = p[d] /\ StepsAbove(p[d], p)[0] = p[d]
    <3>1. 1 \in 1..Height /\ 1 - 1 = 0
      BY <1>0, <2>1
    <3> QED
      BY <1>0, <3>1, ChainStep
  <2> QED
    BY <2>1
<1>2. ASSUME NEW k \in T, k + 1 \in 0..Height-1
      PROVE  StepsAbove(d, p)[(k + 1) + 1] = StepsAbove(p[d], p)[k + 1]
  <2>1. /\ k \in 0..Height-1 /\ k + 1 \in 1..Height /\ (k + 1) + 1 \in 1..Height
        /\ (k + 1) - 1 = k /\ ((k + 1) + 1) - 1 = k + 1
    BY <1>0, <1>2
  <2>2. StepsAbove(d, p)[k + 1] = StepsAbove(p[d], p)[k]
    BY <2>1
  <2> HIDE DEF T
  <2>3. StepsAbove(d, p)[(k + 1) + 1] = IF StepsAbove(d, p)[k + 1] = Base THEN Base
                                        ELSE p[StepsAbove(d, p)[k + 1]]
    BY <1>0, <2>1, ChainNext
  <2>4. StepsAbove(p[d], p)[k + 1] = IF StepsAbove(p[d], p)[k] = Base THEN Base
                                     ELSE p[StepsAbove(p[d], p)[k]]
    BY <1>0, <2>1, ChainNext
  <2> QED
    BY <2>2, <2>3, <2>4
<1>3. T = Nat
  <2>1. T \in SUBSET Nat /\ \A k \in T : k + 1 \in T
    BY <1>2
  <2> HIDE DEF T
  <2> QED
    BY <1>1, <2>1, Induction
<1> QED
  BY <1>0, <1>3

\* The chain of a dialect that extends the ANSI grammar is at its end.
LEMMA ChainEnds ==
    ASSUME NEW p \in Lineages, NEW d \in Dialects, p[d] = Base,
           NEW n \in Nat, n + 1 \in 0..Height
    PROVE  StepsAbove(d, p)[n + 1] = Base
<1> DEFINE T == {k \in Nat : k + 1 \in 0..Height => StepsAbove(d, p)[k + 1] = Base}
<1>0. Height \in Nat /\ d \in Grammars /\ d # Base
  BY HeightIsNat, LineageAssumption DEF Grammars
<1>1. 0 \in T
  <2>1. ASSUME 0 + 1 \in 0..Height PROVE StepsAbove(d, p)[0 + 1] = Base
    <3>1. StepsAbove(d, p)[0] = d
      BY <1>0, ChainStep
    <3> QED
      BY <1>0, <2>1, <3>1, ChainNext
  <2> QED
    BY <2>1
<1>2. ASSUME NEW k \in T, (k + 1) + 1 \in 0..Height
      PROVE  StepsAbove(d, p)[(k + 1) + 1] = Base
  <2>1. k + 1 \in Nat /\ k + 1 \in 0..Height /\ StepsAbove(d, p)[k + 1] = Base
    BY <1>0, <1>2
  <2> HIDE DEF T
  <2> QED
    BY <1>0, <1>2, <2>1, ChainNext
<1>3. T = Nat
  <2>1. T \in SUBSET Nat /\ \A k \in T : k + 1 \in T
    BY <1>2
  <2> HIDE DEF T
  <2> QED
    BY <1>1, <2>1, Induction
<1> QED
  BY <1>3

\* The dialects that a set of grammars brings in, by their ancestors.
Reach(S, p) == S \cup {d \in Dialects : Ancestors(d, p) \cap S # {}}

ClosedIn(C, p) == \A d \in Dialects : p[d] # Base /\ p[d] \in C => d \in C

LEMMA AncestorsOfParent ==
    ASSUME NEW p \in Lineages, IsForest(p), NEW d \in Dialects, p[d] # Base
    PROVE  p[d] \in Ancestors(d, p) /\ Ancestors(p[d], p) \subseteq Ancestors(d, p)
<1>0. /\ Height \in Nat /\ Base \notin Dialects /\ d \in Grammars
      /\ p[d] \in Dialects /\ p[d] \in Grammars /\ DOMAIN p = Dialects
  BY HeightIsNat, LineageAssumption DEF Lineages, Grammars
<1>1. StepsAbove(d, p)[Height] = Base /\ StepsAbove(p[d], p)[Height] = Base
  BY <1>0 DEF IsForest, Height
<1>2. 0 \in 0..Height-1
  BY <1>0, <1>1, ChainStep
<1>3. p[d] \in Ancestors(d, p)
  <2>1. StepsAbove(d, p)[0 + 1] = p[d]
    BY <1>0, <1>2, ChainOfParent, ChainStep
  <2>2. 1 \in 1..Height
    BY <1>0, <1>2
  <2> QED
    BY <1>0, <2>1, <2>2 DEF Ancestors, Height
<1>4. ASSUME NEW a \in Ancestors(p[d], p) PROVE a \in Ancestors(d, p)
  <2>1. PICK n \in 1..Height : StepsAbove(p[d], p)[n] = a
    BY <1>0 DEF Ancestors, Height
  <2>2. a \in Dialects
    BY <1>0 DEF Ancestors
  <2>3. n \in 0..Height-1 /\ n + 1 \in 1..Height
    BY <1>0, <1>1, <2>1, <2>2
  <2>4. StepsAbove(d, p)[n + 1] = a
    BY <1>0, <2>1, <2>3, ChainOfParent
  <2> QED
    BY <1>0, <2>2, <2>3, <2>4 DEF Ancestors, Height
<1> QED
  BY <1>3, <1>4

LEMMA ReachIsClosed ==
    ASSUME NEW p \in Lineages, IsForest(p), NEW S PROVE ClosedIn(Reach(S, p), p)
  BY AncestorsOfParent DEF ClosedIn, Reach

(***************************************************************************)
(* A closed set that holds an ancestor of d holds d.                       *)
(***************************************************************************)
LEMMA ClosedBelow ==
    ASSUME NEW p \in Lineages, NEW C, ClosedIn(C, p), NEW d \in Dialects,
           NEW n \in 0..Height, StepsAbove(d, p)[n] \in C \cap Dialects
    PROVE  d \in C
<1> DEFINE T == {k \in Nat : k \in 0..Height /\ StepsAbove(d, p)[k] \in C \cap Dialects => d \in C}
<1>0. Height \in Nat /\ Base \notin Dialects /\ d \in Grammars /\ DOMAIN p = Dialects
  BY HeightIsNat, LineageAssumption DEF Lineages, Grammars
<1>1. 0 \in T
  BY <1>0, ChainStep
<1>2. ASSUME NEW k \in T, k + 1 \in 0..Height, StepsAbove(d, p)[k + 1] \in C \cap Dialects
      PROVE  d \in C
  <2>1. k \in 0..Height /\ k + 1 \in 1..Height /\ (k + 1) - 1 = k
    BY <1>0, <1>2
  <2>2. /\ StepsAbove(d, p)[k] \in Grammars
        /\ StepsAbove(d, p)[k + 1] = IF StepsAbove(d, p)[k] = Base THEN Base
                                     ELSE p[StepsAbove(d, p)[k]]
    BY <1>0, <2>1, ChainNext
  <2>3. StepsAbove(d, p)[k] \in Dialects /\ p[StepsAbove(d, p)[k]] \in C \cap Dialects
    BY <1>0, <1>2, <2>2 DEF Grammars
  <2>4. StepsAbove(d, p)[k] \in C
    BY <1>0, <2>3 DEF ClosedIn
  <2> QED
    BY <2>1, <2>3, <2>4
<1>3. T = Nat
  <2>1. T \in SUBSET Nat /\ \A k \in T : k + 1 \in T
    BY <1>2
  <2> HIDE DEF T
  <2> QED
    BY <1>1, <2>1, Induction
<1> QED
  BY <1>0, <1>3

LEMMA ReachIsLeast ==
    ASSUME NEW p \in Lineages, NEW S, NEW C, ClosedIn(C, p), S \subseteq C
    PROVE  Reach(S, p) \subseteq C
<1>1. ASSUME NEW d \in Dialects, NEW a \in Ancestors(d, p) \cap S PROVE d \in C
  <2>1. PICK n \in 1..Height : StepsAbove(d, p)[n] = a
    BY DEF Ancestors, Height, Lineages
  <2>2. n \in 0..Height /\ a \in C \cap Dialects
    BY HeightIsNat DEF Ancestors, Lineages
  <2> QED
    BY <2>1, <2>2, ClosedBelow
<1> QED
  BY <1>1 DEF Reach

(***************************************************************************)
(* WithDescendants is a number of rounds of Grown.                         *)
(***************************************************************************)
LEMMA Rounds ==
    ASSUME NEW p \in Lineages, NEW S \in SUBSET Grammars
    PROVE  \E f \in [0..Height -> SUBSET Grammars] :
             /\ f[0] = S /\ \A n \in 1..Height : f[n] = Grown(f[n-1], p)
             /\ WithDescendants(S, p) = f[Height]
<1> DEFINE step == [X \in SUBSET Grammars |-> Grown(X, p)]
           Unfolded(u) == [n \in 0..Height |-> IF n = 0 THEN S ELSE Grown(u[n-1], p)]
           grown == CHOOSE u : u = Unfolded(u)
<1>0. Height \in Nat /\ DOMAIN p = Dialects
  BY HeightIsNat DEF Lineages
<1>1. step \in [SUBSET Grammars -> SUBSET Grammars]
  BY <1>0 DEF Grown, Grammars
<1>2. PICK f \in [0..Height -> SUBSET Grammars] :
        f[0] = S /\ \A n \in 1..Height : f[n] = step[f[n-1]]
  <2> HIDE DEF step
  <2>1. Iterations(S, step, SUBSET Grammars, Height) # {}
    BY <1>0, <1>1, Iteration
  <2> QED
    BY <2>1 DEF Iterations
<1>3. f = Unfolded(f)
  <2>1. ASSUME NEW n \in 0..Height PROVE f[n] = Unfolded(f)[n]
    <3>1. CASE n = 0
      BY <1>2, <3>1
    <3>2. CASE n # 0
      <4>1. n \in 1..Height /\ n - 1 \in 0..Height
        BY <1>0, <3>2
      <4> QED
        BY <1>2, <3>2, <4>1
    <3> QED
      BY <3>1, <3>2
  <2> QED
    BY <1>2, <2>1
<1>4. grown = Unfolded(grown)
  <2> HIDE DEF Unfolded
  <2> QED
    BY <1>3
<1>5. WithDescendants(S, p) = grown[Height]
  BY <1>0 DEF WithDescendants, Height
<1> HIDE DEF grown
<1>6. grown[0] = S /\ \A n \in 1..Height : grown[n] = Grown(grown[n-1], p)
  BY <1>0, <1>4
<1>7. \A n \in 0..Height : grown[n] \in SUBSET Grammars
  <2> DEFINE T == {n \in Nat : n \in 0..Height => grown[n] \in SUBSET Grammars}
  <2>1. 0 \in T
    BY <1>6
  <2>2. ASSUME NEW n \in T, n + 1 \in 0..Height PROVE grown[n + 1] \in SUBSET Grammars
    <3>1. n \in 0..Height /\ n + 1 \in 1..Height /\ (n + 1) - 1 = n
      BY <1>0, <2>2
    <3>2. grown[n] \in SUBSET Grammars /\ grown[n + 1] = Grown(grown[n], p)
      BY <1>6, <3>1
    <3> QED
      BY <1>0, <3>2 DEF Grown, Grammars
  <2>3. T = Nat
    <3>1. T \in SUBSET Nat /\ \A n \in T : n + 1 \in T
      BY <2>2
    <3> HIDE DEF T
    <3> QED
      BY <2>1, <3>1, Induction
  <2> QED
    BY <1>0, <2>3
<1>8. grown \in [0..Height -> SUBSET Grammars]
  BY <1>4, <1>7
<1> QED
  BY <1>5, <1>6, <1>8

(***************************************************************************)
(* What Lineage computes downwards is what it computes upwards.            *)
(***************************************************************************)
LEMMA DownIsUp ==
    ASSUME NEW p \in Lineages, IsForest(p), NEW S \in SUBSET Grammars
    PROVE  WithDescendants(S, p) = Reach(S, p)
<1>0. Height \in Nat /\ Base \notin Dialects /\ DOMAIN p = Dialects
  BY HeightIsNat, LineageAssumption DEF Lineages
<1>1. PICK f \in [0..Height -> SUBSET Grammars] :
        /\ f[0] = S /\ \A n \in 1..Height : f[n] = Grown(f[n-1], p)
        /\ WithDescendants(S, p) = f[Height]
  BY Rounds
<1>2. ASSUME NEW n \in Nat, n + 1 \in 0..Height
      PROVE  n \in 0..Height /\ f[n + 1] = Grown(f[n], p)
  <2>1. n \in 0..Height /\ n + 1 \in 1..Height /\ (n + 1) - 1 = n
    BY <1>0, <1>2
  <2> QED
    BY <1>1, <2>1
<1>3. \A n \in 0..Height : f[n] \subseteq Reach(S, p)
  <2> DEFINE T == {n \in Nat : n \in 0..Height => f[n] \subseteq Reach(S, p)}
  <2>1. 0 \in T
    BY <1>1 DEF Reach
  <2>2. ASSUME NEW n \in T, n + 1 \in 0..Height PROVE f[n + 1] \subseteq Reach(S, p)
    <3>1. f[n + 1] = Grown(f[n], p) /\ f[n] \subseteq Reach(S, p)
      BY <1>2, <2>2
    <3> QED
      BY <1>0, <3>1, ReachIsClosed DEF Grown, ClosedIn
  <2>3. T = Nat
    <3>1. T \in SUBSET Nat /\ \A n \in T : n + 1 \in T
      BY <2>2
    <3> HIDE DEF T
    <3> QED
      BY <2>1, <3>1, Induction
  <2> QED
    BY <1>0, <2>3
<1>4. ASSUME NEW m \in 0..Height PROVE f[m] \subseteq f[Height]
  <2> DEFINE T == {n \in Nat : m + n \in 0..Height => f[m] \subseteq f[m + n]}
  <2>1. 0 \in T
    OBVIOUS
  <2>2. ASSUME NEW n \in T, m + (n + 1) \in 0..Height PROVE f[m] \subseteq f[m + (n + 1)]
    <3>1. m + n \in Nat /\ (m + n) + 1 \in 0..Height /\ (m + n) + 1 = m + (n + 1)
      BY <1>0, <2>2
    <3>2. m + n \in 0..Height /\ f[(m + n) + 1] = Grown(f[m + n], p)
      BY <1>2, <3>1
    <3> QED
      BY <3>1, <3>2 DEF Grown
  <2>3. T = Nat
    <3>1. T \in SUBSET Nat /\ \A n \in T : n + 1 \in T
      BY <2>2
    <3> HIDE DEF T
    <3> QED
      BY <2>1, <3>1, Induction
  <2>4. Height - m \in Nat /\ m + (Height - m) = Height /\ Height \in 0..Height
    BY <1>0
  <2> QED
    BY <2>3, <2>4
<1>5. \A n \in 0..Height : \A d \in Dialects :
        StepsAbove(d, p)[n] \in S \cap Dialects => d \in f[n]
  <2> DEFINE Found(n) == \A d \in Dialects : StepsAbove(d, p)[n] \in S \cap Dialects => d \in f[n]
             T == {n \in Nat : n \in 0..Height => Found(n)}
  <2>1. 0 \in T
    <3>1. Found(0)
      BY <1>1, ChainStep DEF Grammars
    <3> QED
      BY <3>1
  <2>2. ASSUME NEW n \in T, n + 1 \in 0..Height PROVE Found(n + 1)
    <3> SUFFICES ASSUME NEW d \in Dialects, StepsAbove(d, p)[n + 1] \in S \cap Dialects
                 PROVE  d \in f[n + 1]
      OBVIOUS
    <3>1. n \in 0..Height /\ f[n + 1] = Grown(f[n], p) /\ n \in 0..Height-1 /\ Found(n)
      BY <1>0, <1>2, <2>2
    <3> HIDE DEF T
    <3>2. CASE p[d] = Base
      <4>1. n \in Nat /\ n + 1 \in 0..Height
        BY <1>0, <2>2, <3>1
      <4>2. StepsAbove(d, p)[n + 1] = Base
        BY <3>2, <4>1, ChainEnds
      <4> QED
        BY <1>0, <4>2
    <3>3. CASE p[d] # Base
      <4>1. p[d] \in Dialects /\ StepsAbove(p[d], p)[n] = StepsAbove(d, p)[n + 1]
        BY <3>1, <3>3, ChainOfParent DEF Lineages, Grammars
      <4>2. p[d] \in f[n]
        BY <3>1, <4>1
      <4> QED
        BY <1>0, <3>1, <3>3, <4>2 DEF Grown
    <3> QED
      BY <3>2, <3>3
  <2>3. T = Nat
    <3>1. T \in SUBSET Nat /\ \A n \in T : n + 1 \in T
      BY <2>2
    <3> HIDE DEF T
    <3> QED
      BY <2>1, <3>1, Induction
  <2> QED
    BY <1>0, <2>3
<1>6. S \subseteq f[Height]
  BY <1>0, <1>1, <1>4
<1>7. ASSUME NEW d \in Dialects, NEW a \in Ancestors(d, p) \cap S PROVE d \in f[Height]
  <2>1. PICK n \in 1..Height : StepsAbove(d, p)[n] = a
    BY <1>0 DEF Ancestors, Height
  <2>2. n \in 0..Height /\ a \in S \cap Dialects
    BY <1>0 DEF Ancestors
  <2> QED
    BY <1>4, <1>5, <2>1, <2>2
<1>8. f[Height] \subseteq Reach(S, p)
  BY <1>0, <1>3
<1> QED
  BY <1>1, <1>6, <1>7, <1>8 DEF Reach

-----------------------------------------------------------------------------
(* The loop. *)

\* Whatever was looked at in a pass that has added nothing so far needs no
\* further dialect.
LookedAtIsClosed ==
    ~grew => \A d \in Dialects \ left :
                parent[d] # Base /\ parent[d] \in set => d \in set

IInv ==
    /\ TypeOK
    /\ LookedAtIsClosed
    /\ done => ~grew /\ left = {}

\* What lies behind the loop, too: its lineage is one, it keeps its seed, and
\* it finds nothing that the seed does not bring in.
LoopInv ==
    /\ IInv
    /\ IsForest(parent)
    /\ seed \subseteq set
    /\ NothingExtra

LEMMA InitIInv == Init => IInv
  BY DEF Init, IInv, TypeOK, LookedAtIsClosed

LEMMA LookKeeps == ASSUME IInv, NEW d \in Dialects, Look(d) PROVE IInv'
<1>1. TypeOK'
  BY DEF IInv, TypeOK, Look
<1>2. CASE Belongs(d)
  <2>1. grew' = TRUE /\ ~done'
    BY <1>2 DEF Look
  <2> QED
    BY <1>1, <2>1 DEF IInv, LookedAtIsClosed
<1>3. CASE ~Belongs(d)
  <2>1. /\ UNCHANGED <<set, grew, parent, done>> /\ ~done
        /\ left' = left \ {d}
    BY <1>3 DEF Look
  <2>2. parent[d] # Base /\ parent[d] \in set => d \in set
    BY <1>3 DEF Belongs
  <2>3. LookedAtIsClosed'
    BY <2>1, <2>2 DEF IInv, LookedAtIsClosed
  <2> QED
    BY <1>1, <2>1, <2>3 DEF IInv
<1> QED
  BY <1>2, <1>3

LEMMA PassEndKeeps == ASSUME IInv, PassEnd PROVE IInv'
<1>1. TypeOK'
  BY DEF IInv, TypeOK, PassEnd
<1>2. CASE grew
  <2>1. left' = Dialects /\ ~done'
    BY <1>2 DEF PassEnd
  <2> QED
    BY <1>1, <2>1 DEF IInv, LookedAtIsClosed
<1>3. CASE ~grew
  <2>1. UNCHANGED <<parent, set, left, grew>> /\ left = {}
    BY <1>3 DEF PassEnd
  <2> QED
    BY <1>1, <1>3, <2>1 DEF IInv, LookedAtIsClosed
<1> QED
  BY <1>2, <1>3

LEMMA StepKeeps == IInv /\ [Next]_vars => IInv'
<1> SUFFICES ASSUME IInv, [Next]_vars PROVE IInv'
  OBVIOUS
<1>1. CASE PassEnd
  BY <1>1, PassEndKeeps
<1>2. CASE \E d \in Dialects : Look(d)
  BY <1>2, LookKeeps
<1>3. CASE UNCHANGED vars
  BY <1>3 DEF IInv, TypeOK, LookedAtIsClosed, vars
<1> QED
  BY <1>1, <1>2, <1>3 DEF Next

LEMMA ExtraKeeps == NothingExtra /\ [Next]_vars => NothingExtra'
<1> SUFFICES ASSUME NothingExtra, [Next]_vars PROVE NothingExtra'
  OBVIOUS
<1>1. parent' = parent /\ seed' = seed
  BY DEF Next, vars, PassEnd, Look
<1>2. CASE set' = set
  BY <1>1, <1>2 DEF NothingExtra, Closed
<1>3. CASE \E d \in Dialects : Belongs(d) /\ set' = set \cup {d}
  <2>1. PICK d \in Dialects : Belongs(d) /\ set' = set \cup {d}
    BY <1>3
  <2>2. ASSUME NEW S \in SUBSET (Dialects \cup {Base}), seed \subseteq S, Closed(S)
        PROVE  set' \subseteq S
    <3>1. set \subseteq S
      BY <2>2 DEF NothingExtra
    <3>2. d \in S
      BY <2>1, <2>2, <3>1 DEF Belongs, Closed
    <3> QED
      BY <2>1, <3>1, <3>2
  <2> QED
    BY <1>1, <2>2 DEF NothingExtra, Closed
<1> QED
  BY <1>2, <1>3 DEF Next, vars, PassEnd, Look

LEMMA LoopKeeps == LoopInv /\ [Next]_vars => LoopInv'
<1> SUFFICES ASSUME LoopInv, [Next]_vars PROVE LoopInv'
  OBVIOUS
<1>1. IInv' /\ NothingExtra'
  BY StepKeeps, ExtraKeeps DEF LoopInv
<1>2. parent' = parent /\ seed' = seed /\ set \subseteq set'
  BY DEF Next, vars, PassEnd, Look
<1>3. IsForest(parent)'
  BY <1>2 DEF LoopInv
<1> QED
  BY <1>1, <1>2, <1>3 DEF LoopInv

LEMMA InitLoopInv == Init => LoopInv
  BY InitIInv DEF Init, LoopInv, NothingExtra

LEMMA Invariance == Spec => []LoopInv
  BY InitLoopInv, LoopKeeps, PTL DEF Spec

\* What the loop finds is what has an ancestor in the seed.
LEMMA FoundIsReach ==
    ASSUME LoopInv
    PROVE  /\ parent \in Lineages /\ set \subseteq Reach(seed, parent)
           /\ done => set = Reach(seed, parent)
<1>1. parent \in Lineages /\ seed \in SUBSET Grammars
  BY DEF LoopInv, IInv, TypeOK, Lineages, Grammars
<1>2. set \subseteq Reach(seed, parent)
  <2>1. Closed(Reach(seed, parent))
    BY <1>1, ReachIsClosed DEF LoopInv, Closed, ClosedIn
  <2>2. /\ Reach(seed, parent) \in SUBSET (Dialects \cup {Base})
        /\ seed \subseteq Reach(seed, parent)
    BY <1>1 DEF Reach, Grammars
  <2> QED
    BY <2>1, <2>2 DEF LoopInv, NothingExtra
<1>3. ASSUME done PROVE Reach(seed, parent) \subseteq set
  <2>1. ClosedIn(set, parent)
    BY <1>3 DEF LoopInv, IInv, LookedAtIsClosed, ClosedIn
  <2> QED
    BY <1>1, <2>1, ReachIsLeast DEF LoopInv
<1> QED
  BY <1>1, <1>2, <1>3

(***************************************************************************)
(* The result is the least set that is closed under "extends": no dialect  *)
(* that must be rebuilt is missing from it and none is in it without need, *)
(* whatever the lineage and the order of the entries (changed-grammars.js:65). *)
(***************************************************************************)
THEOREM ResultIsLeast == Spec => []LeastClosed
<1>1. LoopInv => LeastClosed
  BY DEF LoopInv, IInv, LookedAtIsClosed, LeastClosed, Closed
<1> QED
  BY <1>1, Invariance, PTL

(***************************************************************************)
(* The walk down of the selection and the walk up of the fingerprints      *)
(* agree on what a dialect depends on (changed-grammars.js:65, :173).      *)
(***************************************************************************)
THEOREM WalksAgree == Spec => []AgreesWithAncestors
<1>1. ASSUME LoopInv PROVE AgreesWithAncestors
  <2>1. parent \in Lineages /\ seed \in SUBSET Grammars /\ IsForest(parent)
    BY <1>1 DEF LoopInv, IInv, TypeOK, Lineages, Grammars
  <2>2. WithDescendants(seed, parent) = Reach(seed, parent)
    BY <2>1, DownIsUp
  <2> QED
    BY <1>1, <2>2, FoundIsReach DEF AgreesWithAncestors, Reach
<1> QED
  BY <1>1, Invariance, PTL

-----------------------------------------------------------------------------
(***************************************************************************)
(* The loop ends: every step of it uses up what is left to do.  A pass     *)
(* looks at each dialect once, and after a pass that added one the next    *)
(* pass has fewer dialects that it could add.                              *)
(***************************************************************************)

Size == Cardinality(Dialects)

\* The passes that may still come, and what is left of this one.
Remaining ==
    (Cardinality(Dialects \ set) + (IF grew THEN 1 ELSE 0)) * (Size + 1)
        + Cardinality(left) + (IF done THEN 0 ELSE 1)

\* A step of the loop can be taken.
CanGoOn == ~done /\ (left = {} \/ \E d \in Dialects : d \in left)

LEMMA Sizes ==
    ASSUME TypeOK
    PROVE  /\ IsFiniteSet(Dialects \ set) /\ Cardinality(Dialects \ set) \in 0..Size
           /\ IsFiniteSet(left) /\ Cardinality(left) \in 0..Size
           /\ Size \in Nat
<1>1. IsFiniteSet(Dialects) /\ Size \in Nat
  BY LineageAssumption, FS_CardinalityType DEF Size
<1>2. ASSUME NEW S \in SUBSET Dialects
      PROVE  IsFiniteSet(S) /\ Cardinality(S) \in 0..Size
  <2>1. IsFiniteSet(S) /\ Cardinality(S) <= Size
    BY <1>1, FS_Subset DEF Size
  <2>2. Cardinality(S) \in Nat
    BY <2>1, FS_CardinalityType
  <2> QED
    BY <1>1, <2>1, <2>2
<1>3. Dialects \ set \in SUBSET Dialects /\ left \in SUBSET Dialects
  BY DEF TypeOK
<1> QED
  BY <1>1, <1>2, <1>3

LEMMA OnePassLess == \A a, b \in Nat : (a + 1) * b = a * b + b /\ a * b \in Nat
  OBVIOUS

LEMMA RemainingIsNat ==
    ASSUME TypeOK PROVE Remaining \in Nat /\ (~done => Remaining > 0)
<1> DEFINE m == Cardinality(Dialects \ set) + (IF grew THEN 1 ELSE 0)
           n == Size + 1
           l == Cardinality(left)
<1>1. m \in Nat /\ n \in Nat /\ l \in Nat
  BY Sizes
<1>2. Remaining = m * n + l + (IF done THEN 0 ELSE 1)
  BY DEF Remaining
<1>3. m * n \in Nat
  BY <1>1, OnePassLess
<1> HIDE DEF m, n, l
<1>4. done \in BOOLEAN
  BY DEF TypeOK
<1> QED
  BY <1>1, <1>2, <1>3, <1>4

LEMMA InitialBound == Init => Remaining <= (Size + 1) * (Size + 1)
<1> SUFFICES ASSUME Init PROVE Remaining <= (Size + 1) * (Size + 1)
  OBVIOUS
<1>1. TypeOK
  BY InitIInv DEF IInv
<1> DEFINE m == Cardinality(Dialects \ set)
           n == Size + 1
<1>2. m \in Nat /\ Size \in Nat /\ m <= Size /\ n \in Nat
  BY <1>1, Sizes
<1>3. Remaining = m * n + Size + 1
  <2>1. ~grew /\ ~done /\ Cardinality(left) = Size
    BY DEF Init, Size
  <2> QED
    BY <1>2, <2>1 DEF Remaining
<1> HIDE DEF m
<1>4. m * n <= Size * n
  <2>1. \A a, b, c \in Nat : a <= b => a * c <= b * c
    OBVIOUS
  <2> HIDE DEF n
  <2> QED
    BY <1>2, <2>1
<1>5. (Size + 1) * n = Size * n + n
  BY <1>2, OnePassLess
<1> QED
  BY <1>2, <1>3, <1>4, <1>5

LEMMA LookUsesUp == ASSUME IInv, NEW d \in Dialects, Look(d) PROVE Remaining' < Remaining
<1> DEFINE m == Cardinality(Dialects \ set)
           n == Size + 1
           l == Cardinality(left)
<1>1. /\ TypeOK /\ m \in Nat /\ n \in Nat /\ l \in Nat /\ n >= 1
      /\ IsFiniteSet(Dialects \ set) /\ IsFiniteSet(left)
  BY Sizes DEF IInv
<1>2. d \in left /\ left' = left \ {d} /\ ~done /\ ~done'
  BY DEF Look
<1>3. Cardinality(left') = l - 1
  BY <1>1, <1>2, FS_RemoveElement
<1>4. Remaining = (m + (IF grew THEN 1 ELSE 0)) * n + l + 1
  BY <1>2 DEF Remaining
<1>5. CASE ~Belongs(d)
  <2>1. set' = set /\ grew' = grew
    BY <1>5 DEF Look
  <2>2. Remaining' = (m + (IF grew THEN 1 ELSE 0)) * n + (l - 1) + 1
    BY <1>2, <1>3, <2>1 DEF Remaining, Size
  <2> DEFINE k == (m + (IF grew THEN 1 ELSE 0)) * n
  <2>3. k \in Nat
    BY <1>1, OnePassLess
  <2> HIDE DEF k, l
  <2> QED
    BY <1>1, <1>4, <2>2, <2>3 DEF k
<1>6. CASE Belongs(d)
  <2>1. grew' = TRUE /\ set' = set \cup {d} /\ d \in Dialects \ set
    BY <1>6 DEF Look, Belongs
  <2>2. Cardinality(Dialects \ set') = m - 1
    <3>1. Dialects \ set' = (Dialects \ set) \ {d}
      BY <2>1
    <3> QED
      BY <1>1, <2>1, <3>1, FS_RemoveElement
  <2>3. Remaining' = m * n + (l - 1) + 1
    <3>1. Remaining' = ((m - 1) + 1) * n + (l - 1) + 1
      BY <1>2, <1>3, <2>1, <2>2 DEF Remaining, Size
    <3>2. (m - 1) + 1 = m
      BY <1>1
    <3> QED
      BY <3>1, <3>2
  <2> HIDE DEF m, n, l
  <2>4. (m + 1) * n = m * n + n /\ m * n \in Nat
    BY <1>1, OnePassLess
  <2>5. Remaining >= m * n + l + 1
    <3>1. CASE grew
      BY <1>1, <1>4, <2>4, <3>1
    <3>2. CASE ~grew
      <4>1. m + 0 = m
        BY <1>1
      <4> QED
        BY <1>1, <1>4, <2>4, <3>2, <4>1
    <3> QED
      BY <3>1, <3>2
  <2> QED
    BY <1>1, <1>4, <2>3, <2>4, <2>5
<1> QED
  BY <1>5, <1>6

LEMMA PassEndUsesUp == ASSUME IInv, PassEnd PROVE Remaining' < Remaining
<1> DEFINE m == Cardinality(Dialects \ set)
           n == Size + 1
<1>1. TypeOK /\ m \in Nat /\ Size \in Nat /\ n \in Nat
  BY Sizes DEF IInv
<1>2. ~done /\ Cardinality(left) = 0 /\ set' = set
  BY FS_EmptySet DEF PassEnd
<1>3. CASE grew
  <2>1. left' = Dialects /\ ~grew' /\ ~done'
    BY <1>3 DEF PassEnd
  <2>2. Remaining = (m + 1) * n + 0 + 1
    BY <1>2, <1>3 DEF Remaining
  <2>3. Remaining' = (m + 0) * n + Size + 1
    BY <1>2, <2>1 DEF Remaining, Size
  <2>4. m + 0 = m /\ (m + 1) * n = m * n + n /\ m * n \in Nat
    BY <1>1, OnePassLess
  <2> HIDE DEF m
  <2> DEFINE k == m * n
  <2>5. Remaining = k + n + 1 /\ Remaining' = k + Size + 1 /\ k \in Nat
    BY <1>1, <2>2, <2>3, <2>4
  <2> HIDE DEF k
  <2> QED
    BY <1>1, <2>5
<1>4. CASE ~grew
  <2>1. UNCHANGED <<left, grew>> /\ done'
    BY <1>4 DEF PassEnd
  <2> DEFINE k == (m + 0) * n
  <2>2. Remaining = k + 0 + 1 /\ Remaining' = k + 0 + 0
    BY <1>2, <1>4, <2>1 DEF Remaining, Size
  <2>3. k \in Nat
    BY <1>1, OnePassLess
  <2> HIDE DEF k
  <2> QED
    BY <2>2, <2>3
<1> QED
  BY <1>3, <1>4

(***************************************************************************)
(* The loop of withDescendants ends, for every lineage and every seed, in  *)
(* whatever order the entries come: until it is done it can go on, and it  *)
(* cannot take more steps than the square of the number of grammars        *)
(* (changed-grammars.js:65).                                               *)
(***************************************************************************)
THEOREM LoopIsBounded ==
    Spec => /\ Remaining <= (Size + 1) * (Size + 1)
            /\ [](Remaining \in Nat /\ (~done => CanGoOn))
            /\ [][Remaining' < Remaining]_vars
<1>1. ASSUME IInv PROVE Remaining \in Nat /\ (~done => CanGoOn)
  <2>1. Remaining \in Nat
    BY <1>1, RemainingIsNat DEF IInv
  <2>2. left = {} \/ \E d \in Dialects : d \in left
    BY <1>1 DEF IInv, TypeOK
  <2> QED
    BY <2>1, <2>2 DEF CanGoOn
<1>2. IInv /\ [Next]_vars => [Remaining' < Remaining]_vars
  BY LookUsesUp, PassEndUsesUp DEF Next
<1>3. LoopInv => IInv
  BY DEF LoopInv
<1> QED
  BY <1>1, <1>2, <1>3, InitialBound, Invariance, PTL DEF Spec

-----------------------------------------------------------------------------
(* The selection. *)

\* The grammars that decide has to come to.
Due(D, p) == IF AsksForAll(D) THEN Grammars ELSE Reach(Seed(D), p)

LEMMA SeedsAreGrammars == ASSUME NEW D PROVE Seed(D) \in SUBSET Grammars
  BY DEF Seed, Named, Grammars

LEMMA ChosenIsDue ==
    ASSUME NEW p \in Lineages, IsForest(p), NEW D
    PROVE  Chosen(D, p) = Due(D, p)
  BY SeedsAreGrammars, DownIsUp DEF Chosen, Due

LEMMA OnlyJobsSelected ==
    ASSUME NEW p \in Lineages, IsForest(p), NEW D PROVE Selected(D, p) \subseteq Jobs
<1>1. Selected(D, p) = JobsFor(Due(D, p), D)
  BY ChosenIsDue DEF Selected
<1> QED
  BY <1>1, SeedsAreGrammars DEF JobsFor, Due, Reach, Jobs, Grammars

\* A file of a dialect, and what it names.
LEMMA DialectsFile ==
    ASSUME NEW f \in {"dialect", "blob", "scanner", "query", "inventory"} \X Dialects
    PROVE  /\ f \in File /\ f[2] \in Dialects /\ f[2] \in Named(f)
           /\ f[1] # "inventory" => Base \in Named(f)
           /\ ~AllGrammars(f)
  BY LineageAssumption DEF File, Named, AllGrammars

\* What is due holds the grammars that a changed file names.
LEMMA NamedAreDue ==
    ASSUME NEW p \in Lineages, NEW D, NEW f \in D PROVE Named(f) \subseteq Due(D, p)
<1>1. Named(f) \subseteq Seed(D) /\ Seed(D) \subseteq Grammars
  BY SeedsAreGrammars DEF Seed
<1> QED
  BY <1>1 DEF Due, Reach

\* And every grammar, where one asks for all.
LEMMA AllAreDue ==
    ASSUME NEW p, NEW D, NEW f \in D, AllGrammars(f) PROVE Due(D, p) = Grammars
  BY DEF Due, AsksForAll

(***************************************************************************)
(* Whoever reads a changed file that the selection follows is selected.    *)
(***************************************************************************)
LEMMA ReaderIsDue ==
    ASSUME NEW p \in Lineages, IsForest(p), NEW D \in SUBSET File, NEW j \in Jobs,
           NEW f \in D, f \in Reads(j, p) \ NotFollowed(j)
    PROVE  j \in JobsFor(Due(D, p), D)
<1>1. CASE AllGrammars(f)
  BY <1>1, AllAreDue DEF JobsFor, Jobs, Grammars
<1>2. CASE ~AllGrammars(f) /\ j \in Dialects
  <2>1. f \in DialectReads(j, p) \ ({"coverage", "workflow"} \X {Base})
    BY <1>2 DEF Reads, NotFollowed
  <2>2. \/ f \in {"dialect"} \X ({j} \cup Ancestors(j, p))
        \/ f \in {"blob", "scanner", "inventory"} \X {j}
    BY <1>2, <2>1 DEF DialectReads, AllGrammars
  <2>3. f \in {"dialect", "blob", "scanner", "query", "inventory"} \X Dialects
    BY <1>2, <2>2 DEF Ancestors, Lineages
  <2>4. f[2] \in Seed(D)
    BY <2>3, DialectsFile DEF Seed
  <2>5. f[2] = j \/ f[2] \in Ancestors(j, p)
    BY <2>2
  <2>6. j \in Reach(Seed(D), p)
    BY <1>2, <2>4, <2>5 DEF Reach
  <2> QED
    BY <1>2, <2>6 DEF Due, JobsFor, Grammars
<1>3. CASE ~AllGrammars(f) /\ j = Base
  <2>1. f \in BaseReads /\ j \notin Dialects
    BY <1>3, LineageAssumption DEF Reads
  <2>2. Base \in Named(f)
    <3>1. CASE f \in {"blob", "query", "dialect"} \X Dialects
      BY <3>1, DialectsFile
    <3>2. CASE f \in {"test", "coverage", "workflow", "blob", "query"} \X {Base}
      BY <3>2 DEF Named
    <3> QED
      BY <1>3, <2>1, <3>1, <3>2 DEF BaseReads, AllGrammars, Grammars
  <2> QED
    BY <1>3, <2>2, NamedAreDue DEF JobsFor
<1>4. CASE ~AllGrammars(f) /\ j = "bindings"
  <2>1. f \in BindingsReads
    BY <1>4, JobsAssumption DEF Reads, Grammars
  <2>2. Bindings(f) \/ Base \in Named(f)
    BY <2>1 DEF BindingsReads, Bindings, Named
  <2>3. Bindings(f) \/ Due(D, p) # {}
    BY <2>2, NamedAreDue
  <2> QED
    BY <1>4, <2>3 DEF JobsFor
<1> QED
  BY <1>1, <1>2, <1>3, <1>4 DEF Jobs, Grammars

(***************************************************************************)
(* The fingerprint of a job covers what it reads, but for NotCovered.      *)
(***************************************************************************)
LEMMA ReadsCovered ==
    ASSUME NEW p \in Lineages, NEW j \in Jobs
    PROVE  Reads(j, p) \ NotCovered(j) \subseteq Fingerprint(j, p)
<1>1. CASE j \in Dialects
  BY <1>1 DEF Reads, NotCovered, Fingerprint, DialectReads, DialectFingerprint
<1>2. CASE j = Base
  <2>1. Reads(j, p) = BaseReads /\ Fingerprint(j, p) = BaseFingerprint
    BY <1>2, LineageAssumption DEF Reads, Fingerprint
  <2> QED
    BY <2>1 DEF NotCovered, BaseReads, BaseFingerprint, File, Grammars
<1>3. CASE j = "bindings"
  <2>1. Reads(j, p) = BindingsReads /\ Fingerprint(j, p) = BindingsFingerprint
    BY <1>3, JobsAssumption DEF Reads, Fingerprint, Grammars
  <2> QED
    BY <1>3, <2>1 DEF NotCovered, BindingsReads, BindingsFingerprint
<1> QED
  BY <1>1, <1>2, <1>3 DEF Jobs, Grammars

(***************************************************************************)
(* A dialect is due for a changed file in its fingerprint, or for one that *)
(* NeedlessCauses names.                                                   *)
(***************************************************************************)
LEMMA DueForCause ==
    ASSUME NEW D \in SUBSET File, NEW d \in Dialects, parent \in Lineages,
           d \in Due(D, parent)
    PROVE  D \cap (Fingerprint(d, parent) \cup NeedlessCauses(d)) # {}
<1>0. Fingerprint(d, parent) = DialectFingerprint(d, parent)
  BY DEF Fingerprint
<1>1. CASE AsksForAll(D)
  <2>1. PICK f \in D : AllGrammars(f)
    BY <1>1 DEF AsksForAll
  <2>2. f \in DialectFingerprint(d, parent) \cup NeedlessCauses(d)
    BY <2>1 DEF AllGrammars, DialectFingerprint, NeedlessCauses
  <2> QED
    BY <1>0, <2>2
<1>2. CASE ~AsksForAll(D)
  <2>1. PICK a \in {d} \cup Ancestors(d, parent) : a \in Seed(D)
    BY <1>2 DEF Due, Reach
  <2>2. PICK f \in D : a \in Named(f)
    BY <2>1 DEF Seed
  <2>3. a \in Dialects /\ a # Base
    BY <2>1, LineageAssumption DEF Ancestors, Lineages
  <2>4. f[2] = a
    BY <2>2, <2>3 DEF Named
  <2>5. f \in {"dialect", "blob", "scanner", "query", "inventory"} \X {a}
    BY <2>3, <2>4 DEF File
  <2>6. f \in DialectFingerprint(d, parent) \cup NeedlessCauses(d)
    BY <2>1, <2>5 DEF DialectFingerprint, NeedlessCauses
  <2> QED
    BY <1>0, <2>6
<1> QED
  BY <1>1, <1>2

(***************************************************************************)
(* Among files F that touch none of the named gaps, the fingerprint of a   *)
(* job covers what it reads, and whoever reads a changed file is selected  *)
(* (changed-grammars.js:143, :180).                                        *)
(***************************************************************************)
THEOREM SelectionCovers ==
    ASSUME NEW p \in Lineages, IsForest(p), NEW F \in SUBSET File,
           \A j \in Jobs : F \cap Reads(j, p) \cap (NotFollowed(j) \cup NotCovered(j)) = {}
    PROVE  \A j \in Jobs :
             /\ F \cap Reads(j, p) \subseteq Fingerprint(j, p)
             /\ \A D \in SUBSET F :
                  /\ Selected(D, p) \subseteq Jobs
                  /\ D \cap Reads(j, p) # {} => j \in Selected(D, p)
<1> SUFFICES ASSUME NEW j \in Jobs
             PROVE  /\ F \cap Reads(j, p) \subseteq Fingerprint(j, p)
                    /\ \A D \in SUBSET F :
                         /\ Selected(D, p) \subseteq Jobs
                         /\ D \cap Reads(j, p) # {} => j \in Selected(D, p)
  OBVIOUS
<1>1. F \cap Reads(j, p) \subseteq Fingerprint(j, p)
  BY ReadsCovered
<1>2. ASSUME NEW D \in SUBSET F PROVE Selected(D, p) = JobsFor(Due(D, p), D)
  BY ChosenIsDue DEF Selected
<1>3. ASSUME NEW D \in SUBSET F PROVE Selected(D, p) \subseteq Jobs
  BY OnlyJobsSelected
<1>4. ASSUME NEW D \in SUBSET F, NEW f \in D, f \in Reads(j, p) PROVE j \in Selected(D, p)
  BY <1>2, <1>4, ReaderIsDue
<1> QED
  BY <1>1, <1>3, <1>4

-----------------------------------------------------------------------------
(* The selection over its loop. *)

DecideInv ==
    /\ LoopInv
    /\ changed \in SUBSET File
    /\ IF AsksForAll(changed) THEN done /\ set = Grammars ELSE seed = Seed(changed)

LEMMA ChangeKeeps == ASSUME DecideInv, NEW f \in File, Change(f) PROVE DecideInv'
<1> DEFINE D == changed \cup {f}
<1>1. /\ changed' = D /\ D \in SUBSET File /\ parent' = parent /\ ~grew'
      /\ seed' = (IF AsksForAll(D) THEN Grammars ELSE Seed(D)) /\ set' = seed'
      /\ done' = AsksForAll(D) /\ left' = (IF AsksForAll(D) THEN {} ELSE Dialects)
  BY DEF Change, DecideInv
<1> HIDE DEF D
<1>2. seed' \in SUBSET (Dialects \cup {Base})
  BY <1>1, SeedsAreGrammars DEF Grammars
<1>3. AsksForAll(D) \in BOOLEAN /\ grew' = FALSE
  BY DEF AsksForAll, Change
<1>4. TypeOK'
  BY <1>1, <1>2, <1>3 DEF DecideInv, LoopInv, IInv, TypeOK
<1>5. LookedAtIsClosed'
  <2>1. CASE AsksForAll(D)
    BY <1>1, <2>1 DEF LookedAtIsClosed, Grammars
  <2>2. CASE ~AsksForAll(D)
    BY <1>1, <2>2 DEF LookedAtIsClosed
  <2> QED
    BY <2>1, <2>2
<1>6. IsForest(parent)'
  BY <1>1 DEF DecideInv, LoopInv
<1>7. NothingExtra'
  BY <1>1 DEF NothingExtra
<1>8. LoopInv'
  BY <1>1, <1>4, <1>5, <1>6, <1>7 DEF LoopInv, IInv
<1> QED
  BY <1>1, <1>8 DEF DecideInv

LEMMA DecideKeeps == DecideInv /\ [DecideNext]_<<vars, changed>> => DecideInv'
<1> SUFFICES ASSUME DecideInv, [DecideNext]_<<vars, changed>> PROVE DecideInv'
  OBVIOUS
<1>1. ASSUME [Next]_vars, changed' = changed PROVE DecideInv'
  <2>1. LoopInv'
    BY <1>1, LoopKeeps DEF DecideInv
  <2>2. seed' = seed /\ (done => UNCHANGED <<set, done>>)
    BY <1>1 DEF Next, PassEnd, Look, vars
  <2> QED
    BY <1>1, <2>1, <2>2 DEF DecideInv
<1>2. ASSUME NEW f \in File, Change(f) PROVE DecideInv'
  BY <1>2, ChangeKeeps
<1> QED
  BY <1>1, <1>2 DEF DecideNext

LEMMA DecideInvariance == DecideSpec => []DecideInv
<1>1. DecideInit => DecideInv
  BY InitLoopInv DEF DecideInit, DecideInv, Seed, AsksForAll
<1> QED
  BY <1>1, DecideKeeps, PTL DEF DecideSpec

LEMMA SetIsDue ==
    ASSUME DecideInv
    PROVE  /\ parent \in Lineages /\ IsForest(parent) /\ changed \in SUBSET File
           /\ set \subseteq Due(changed, parent)
           /\ done => set = Due(changed, parent)
  BY FoundIsReach DEF DecideInv, LoopInv, Due

(***************************************************************************)
(* The loop of decide comes to the jobs that CIRuns takes it to come to in *)
(* one step (changed-grammars.js:143).                                     *)
(***************************************************************************)
THEOREM LoopDecidesSelected == DecideSpec => []DecidesSelected
<1>1. DecideInv => DecidesSelected
  BY SetIsDue, ChosenIsDue DEF DecidesSelected, Selected
<1> QED
  BY <1>1, DecideInvariance, PTL

(***************************************************************************)
(* For any lineage and any changes, every job that reads a changed file is *)
(* selected, but for the files of NotFollowed (changed-grammars.js:143).   *)
(***************************************************************************)
THEOREM EveryReaderIsSelected == DecideSpec => []ReadersAreSelected
<1>1. ASSUME DecideInv, done, NEW j \in Jobs,
             (Reads(j, parent) \ NotFollowed(j)) \cap changed # {}
      PROVE  j \in JobsFor(set, changed)
  BY <1>1, SetIsDue, ReaderIsDue
<1>2. DecideInv => ReadersAreSelected
  BY <1>1 DEF ReadersAreSelected
<1> QED
  BY <1>2, DecideInvariance, PTL

(***************************************************************************)
(* Every marker stands for all that its job reads, but for the files of    *)
(* NotCovered (changed-grammars.js:180).                                   *)
(***************************************************************************)
THEOREM EveryReadIsFingerprinted == DecideSpec => []ReadsAreFingerprinted
<1>1. DecideInv => ReadsAreFingerprinted
  BY SetIsDue, ReadsCovered DEF ReadsAreFingerprinted
<1> QED
  BY <1>1, DecideInvariance, PTL

(***************************************************************************)
(* No dialect is selected without a changed file in its fingerprint, but   *)
(* for those that NeedlessCauses names (changed-grammars.js:63).           *)
(***************************************************************************)
THEOREM NoneWithoutCause == DecideSpec => []SelectedForCause
<1>1. ASSUME DecideInv, NEW d \in Dialects, d \in JobsFor(set, changed)
      PROVE  changed \cap (Fingerprint(d, parent) \cup NeedlessCauses(d)) # {}
  <2>1. d \in set
    BY <1>1, JobsAssumption DEF JobsFor, Grammars
  <2> QED
    BY <1>1, <2>1, SetIsDue, DueForCause
<1>2. DecideInv => SelectedForCause
  BY <1>1 DEF SelectedForCause
<1> QED
  BY <1>2, DecideInvariance, PTL
=============================================================================
