------------------------------ MODULE Lineage ------------------------------
(***************************************************************************)
(* The grammars and which extends which: grammar(parent, overrides).  The  *)
(* ANSI grammar is Base; every other grammar is a dialect, and parent maps *)
(* each dialect to the grammar its grammar.js imports.                     *)
(***************************************************************************)
EXTENDS Naturals, FiniteSets

CONSTANTS Base, Dialects

ASSUME LineageAssumption == Base \notin Dialects /\ IsFiniteSet(Dialects)

\* The grammar n imports above d; Base from where the chain reaches it.
StepsAbove(d, parent) ==
    LET up[n \in 0..Cardinality(DOMAIN parent)] ==
          IF n = 0 THEN d
          ELSE IF up[n-1] = Base THEN Base ELSE parent[up[n-1]]
    IN  up

\* The dialects that d extends, directly or not; Base is none of them.
Ancestors(d, parent) ==
    {a \in DOMAIN parent :
        \E n \in 1..Cardinality(DOMAIN parent) : StepsAbove(d, parent)[n] = a}

\* No import chain runs in a circle.
IsForest(parent) ==
    \A d \in DOMAIN parent :
        StepsAbove(d, parent)[Cardinality(DOMAIN parent)] = Base

\* One look at every dialect: those whose parent is in S join it.  Base is in
\* S when the base job was selected, and brings nothing with it.
Grown(S, parent) ==
    S \cup {d \in DOMAIN parent : parent[d] # Base /\ parent[d] \in S}

\* The dialects of seed and everything that extends one of them.
WithDescendants(seed, parent) ==
    LET grown[n \in 0..Cardinality(DOMAIN parent)] ==
          IF n = 0 THEN seed ELSE Grown(grown[n-1], parent)
    IN  grown[Cardinality(DOMAIN parent)]
=============================================================================
