--------------------- MODULE GrammarComposition_proofs ---------------------
(***************************************************************************)
(* What holds of the composition of grammars for every tree of grammars    *)
(* and all rule files: the table PARENTS covers the rules when it is       *)
(* closed along the tree, but for those in the root's grammar.js, copies   *)
(* that are spread first replace nothing, and the search for live rules    *)
(* finds no more than it must.                                             *)
(***************************************************************************)
EXTENDS GrammarComposition, TLAPS

\* A dialect's hash covers what the hash of the grammar that it extends covers,
\* but for the grammar.js of the root.
HashedAlongTheTree ==
    \A d \in Dialects : HashedFiles(Parent[d]) \subseteq HashedFiles(d) \cup {<<"entry", Root>>}

\* The rules that the root's grammar.js defines itself.
RootEntryKnown ==
    \A i \in DOMAIN Layers[Root] :
        Layers[Root][i].entry => DOMAIN Layers[Root][i].rules \subseteq Unhashed

\* What a grammar spreads before copies are rules that the copies do not have.
CopiesComeFirst ==
    \A d \in Grammars : \A i, j \in DOMAIN Layers[d] :
        ~Layers[d][i].copied /\ Layers[d][j].copied /\ i < j =>
            DOMAIN Layers[d][i].rules \cap DOMAIN Layers[d][j].rules = {}

\* What spreading the next layer does to the owners.
LEMMA SpreadIs ==
    ASSUME SpreadLayer
    PROVE  /\ DOMAIN owner' = DOMAIN owner \cup DOMAIN Layers[g][next].rules
           /\ \A n \in DOMAIN Layers[g][next].rules : owner'[n] = <<g, next>>
           /\ \A n \in DOMAIN owner \ DOMAIN Layers[g][next].rules : owner'[n] = owner[n]
<1> DEFINE Rules == DOMAIN Layers[g][next].rules
<1>1. owner' = [n \in DOMAIN owner \cup Rules |->
                   IF n \in Rules THEN <<g, next>> ELSE owner[n]]
  BY DEF SpreadLayer, Override
<1> QED
  BY <1>1

\* The layer that is spread next is there.
LEMMA NextLayer ==
    ASSUME TypeOK, ~AllSpread
    PROVE  /\ next \in DOMAIN Layers[g] /\ next \in Nat \ {0}
           /\ next + 1 \in 1..(Len(Layers[g]) + 1)
  BY LayersAssumption DEF TypeOK, AllSpread

LEMMA TypeStep == TypeOK /\ [Next]_vars => TypeOK'
<1> SUFFICES ASSUME TypeOK, [Next]_vars PROVE TypeOK'
  OBVIOUS
<1>1. CASE SpreadLayer
  <2>1. /\ g' = g /\ live' = live /\ live = {} /\ next' = next + 1 /\ ~AllSpread
    BY <1>1 DEF SpreadLayer, TypeOK
  <2>2. next \in DOMAIN Layers[g] /\ next' \in 1..(Len(Layers[g]) + 1)
    BY <2>1, NextLayer
  <2>3. ASSUME NEW n \in DOMAIN owner'
        PROVE  /\ owner'[n][1] \in Grammars
               /\ owner'[n][2] \in DOMAIN Layers[owner'[n][1]]
               /\ n \in DOMAIN Layers[owner'[n][1]][owner'[n][2]].rules
    <3>1. CASE n \in DOMAIN Layers[g][next].rules
      <4>1. owner'[n] = <<g, next>>
        BY <1>1, <3>1, SpreadIs
      <4> QED
        BY <2>2, <3>1, <4>1 DEF TypeOK
    <3>2. CASE n \notin DOMAIN Layers[g][next].rules
      <4>1. n \in DOMAIN owner /\ owner'[n] = owner[n]
        BY <1>1, <2>3, <3>2, SpreadIs
      <4> QED
        BY <4>1 DEF TypeOK
    <3> QED
      BY <3>1, <3>2
  <2> QED
    BY <2>1, <2>2, <2>3 DEF TypeOK
<1>2. CASE Reach
  BY <1>2 DEF Reach, TypeOK, AllSpread
<1>3. ASSUME NEW d \in Dialects, Extend(d) PROVE TypeOK'
  BY <1>3, LayersAssumption DEF Extend, TypeOK, Dialects
<1>4. CASE UNCHANGED vars
  BY <1>4 DEF vars, TypeOK, AllSpread
<1> QED
  BY <1>1, <1>2, <1>3, <1>4 DEF Next

(***************************************************************************)
(* Each rule is where its owner says, for any rule files.                  *)
(***************************************************************************)
THEOREM TypeCorrect == Spec => []TypeOK
<1>1. Init => TypeOK
  BY TreeAssumption, LayersAssumption DEF Init, TypeOK, NoOwner
<1> QED
  BY <1>1, TypeStep, PTL DEF Spec

-----------------------------------------------------------------------------
\* The layers of g, among those already spread, that define rule n.
Defining(n) == {i \in 1..(next - 1) : n \in DOMAIN Layers[g][i].rules}

\* The current definition of a rule is that of the last layer that has it, and
\* the parent's where no layer has it.
LastLayerWins ==
    /\ DOMAIN inherited.owner \subseteq DOMAIN owner
    /\ \A i \in 1..(next - 1) : DOMAIN Layers[g][i].rules \subseteq DOMAIN owner
    /\ \A n \in DOMAIN owner :
        \/ /\ Defining(n) = {}
           /\ n \in DOMAIN inherited.owner /\ owner[n] = inherited.owner[n]
        \/ \E i \in Defining(n) : /\ owner[n] = <<g, i>>
                                  /\ \A j \in Defining(n) : j <= i

LEMMA LastLayerStep == TypeOK /\ LastLayerWins /\ [Next]_vars => LastLayerWins'
<1> SUFFICES ASSUME TypeOK, LastLayerWins, [Next]_vars PROVE LastLayerWins'
  OBVIOUS
<1>1. CASE SpreadLayer
  <2>1. /\ g' = g /\ inherited' = inherited /\ next' = next + 1 /\ ~AllSpread
    BY <1>1 DEF SpreadLayer
  <2>2. next \in Nat \ {0} /\ 1..(next' - 1) = 1..(next - 1) \cup {next}
    BY <2>1, NextLayer
  <2>3. \A n : Defining(n)' = Defining(n) \cup
                  (IF n \in DOMAIN Layers[g][next].rules THEN {next} ELSE {})
    BY <2>1, <2>2 DEF Defining
  <2>4. DOMAIN inherited.owner \subseteq DOMAIN owner'
    BY <1>1, SpreadIs DEF LastLayerWins
  <2>5. \A i \in 1..(next' - 1) : DOMAIN Layers[g][i].rules \subseteq DOMAIN owner'
    BY <1>1, <2>2, SpreadIs DEF LastLayerWins
  <2>6. ASSUME NEW n \in DOMAIN owner'
        PROVE  \/ /\ Defining(n)' = {}
                  /\ n \in DOMAIN inherited.owner /\ owner'[n] = inherited.owner[n]
               \/ \E i \in Defining(n)' : /\ owner'[n] = <<g, i>>
                                          /\ \A j \in Defining(n)' : j <= i
    <3>1. CASE n \in DOMAIN Layers[g][next].rules
      <4>1. owner'[n] = <<g, next>> /\ next \in Defining(n)'
        BY <1>1, <2>3, <3>1, SpreadIs
      <4>2. \A j \in Defining(n)' : j <= next
        BY <2>2, <2>3, <3>1 DEF Defining
      <4> QED
        BY <4>1, <4>2
    <3>2. CASE n \notin DOMAIN Layers[g][next].rules
      <4>1. n \in DOMAIN owner /\ owner'[n] = owner[n] /\ Defining(n)' = Defining(n)
        BY <1>1, <2>3, <2>6, <3>2, SpreadIs
      <4> QED
        BY <4>1 DEF LastLayerWins
    <3> QED
      BY <3>1, <3>2
  <2> QED
    BY <2>1, <2>4, <2>5, <2>6 DEF LastLayerWins
<1>2. CASE Reach
  BY <1>2 DEF Reach, LastLayerWins, Defining
<1>3. ASSUME NEW d \in Dialects, Extend(d) PROVE LastLayerWins'
  <2>1. next' = 1 /\ owner' = owner /\ inherited'.owner = owner
    BY <1>3 DEF Extend
  <2>2. 1..(next' - 1) = {}
    BY <2>1
  <2>3. \A n : Defining(n)' = {}
    BY <2>2 DEF Defining
  <2> QED
    BY <2>1, <2>2, <2>3 DEF LastLayerWins
<1>4. CASE UNCHANGED vars
  BY <1>4 DEF vars, LastLayerWins, Defining
<1> QED
  BY <1>1, <1>2, <1>3, <1>4 DEF Next

\* What later spreads leave of a rule, for the proof of CopiesYield.
LEMMA LastLayer == Spec => []LastLayerWins
<1>1. Init => LastLayerWins
  <2> SUFFICES ASSUME Init PROVE LastLayerWins
    OBVIOUS
  <2>1. 1..(next - 1) = {} /\ owner = NoOwner /\ inherited.owner = NoOwner
    BY DEF Init
  <2> QED
    BY <2>1 DEF LastLayerWins, NoOwner
<1> QED
  BY <1>1, LastLayerStep, TypeCorrect, PTL DEF Spec

-----------------------------------------------------------------------------
\* A rule of a grammar's own layer is in a file that the hash covers.
LEMMA SpreadHashed ==
    ASSUME SpreadLayer, NEW n \in DOMAIN Layers[g][next].rules
    PROVE  SourceOf(n)' \in HashedFiles(g)'
<1>1. g' = g /\ owner'[n] = <<g, next>>
  BY SpreadIs DEF SpreadLayer
<1>2. SourceOf(n)' \in {<<"entry", g>>, <<"rules", g>>}
  BY <1>1 DEF SourceOf
<1> QED
  BY <1>1, <1>2 DEF HashedFiles

\* What is written in the root's grammar.js is known.
LEMMA RootEntry ==
    ASSUME RootEntryKnown, TypeOK, NEW n \in DOMAIN owner, SourceOf(n) = <<"entry", Root>>
    PROVE  n \in Unhashed
<1>1. owner[n][1] = Root /\ Layers[Root][owner[n][2]].entry
  BY DEF SourceOf
<1> QED
  BY <1>1 DEF RootEntryKnown, TypeOK

(***************************************************************************)
(* An edit of a rule changes the hash of each grammar that is made from it *)
(* (generate.js:77), provided that the table PARENTS gives each dialect    *)
(* what it gives the dialect it extends, and that dialect.  The rules that *)
(* the root's grammar.js defines (RootEntryKnown) are the only exception:  *)
(* the hash of a dialect leaves that file out.                             *)
(***************************************************************************)
THEOREM SourcesAreHashed ==
    ASSUME HashedAlongTheTree, RootEntryKnown
    PROVE  Spec => []SourcesHashed
<1>1. Init => SourcesHashed
  BY DEF Init, SourcesHashed, NoOwner
<1>2. TypeOK /\ SourcesHashed /\ [Next]_vars => SourcesHashed'
  <2> SUFFICES ASSUME TypeOK, SourcesHashed, [Next]_vars, NEW n \in DOMAIN owner'
               PROVE  \/ SourceOf(n)' \in HashedFiles(g)'
                      \/ (SourceOf(n)' = <<"entry", Root>> /\ n \in Unhashed)
    BY DEF SourcesHashed
  <2>1. CASE SpreadLayer
    <3>1. CASE n \in DOMAIN Layers[g][next].rules
      BY <2>1, <3>1, SpreadHashed
    <3>2. CASE n \notin DOMAIN Layers[g][next].rules
      <4>1. n \in DOMAIN owner /\ owner'[n] = owner[n] /\ g' = g
        BY <2>1, <3>2, SpreadIs DEF SpreadLayer
      <4>2. SourceOf(n)' = SourceOf(n) /\ HashedFiles(g)' = HashedFiles(g)
        BY <4>1 DEF SourceOf, HashedFiles
      <4> QED
        BY <4>1, <4>2 DEF SourcesHashed
    <3> QED
      BY <3>1, <3>2
  <2>2. ASSUME NEW d \in Dialects, Extend(d)
        PROVE  \/ SourceOf(n)' \in HashedFiles(g)'
               \/ (SourceOf(n)' = <<"entry", Root>> /\ n \in Unhashed)
    <3>1. owner' = owner /\ g' = d /\ Parent[d] = g /\ n \in DOMAIN owner
      BY <2>2 DEF Extend
    <3>2. SourceOf(n)' = SourceOf(n) /\ HashedFiles(g)' = HashedFiles(d)
      BY <3>1 DEF SourceOf, HashedFiles
    <3>3. SourceOf(n) \in HashedFiles(d) \cup {<<"entry", Root>>}
      BY <3>1 DEF SourcesHashed, HashedAlongTheTree
    <3> QED
      BY <3>1, <3>2, <3>3, RootEntry
  <2>3. CASE Reach \/ UNCHANGED vars
    BY <2>3 DEF Reach, vars, SourcesHashed, SourceOf, HashedFiles
  <2> QED
    BY <2>1, <2>2, <2>3 DEF Next
<1> QED
  BY <1>1, <1>2, TypeCorrect, PTL DEF Spec

(***************************************************************************)
(* A dialect that spreads its copies of the common statement rules before  *)
(* the rules of its own that replace them never loses a rule to a copy,    *)
(* whatever else the copies define.                                        *)
(***************************************************************************)
THEOREM CopiesYield ==
    ASSUME CopiesComeFirst
    PROVE  Spec => []OwnRulesOverCopies
<1>1. TypeOK /\ LastLayerWins => OwnRulesOverCopies
  <2> SUFFICES ASSUME TypeOK, LastLayerWins, AllSpread, NEW n \in OwnRules
               PROVE  ~Layers[owner[n][1]][owner[n][2]].copied
    BY DEF OwnRulesOverCopies
  <2>1. PICK j \in OwnLayers : n \in DOMAIN Layers[g][j].rules
    BY DEF OwnRules
  <2>2. /\ j \in DOMAIN Layers[g] /\ ~Layers[g][j].copied /\ j \in Nat
        /\ DOMAIN Layers[g] = 1..(next - 1)
    BY LayersAssumption DEF OwnLayers, TypeOK, AllSpread
  <2>3. j \in Defining(n) /\ n \in DOMAIN owner
    BY <2>1, <2>2 DEF Defining, LastLayerWins
  <2>4. PICK i \in Defining(n) : owner[n] = <<g, i>> /\ \A k \in Defining(n) : k <= i
    BY <2>3 DEF LastLayerWins
  <2>5. i \in DOMAIN Layers[g] /\ i \in Nat /\ j <= i
    BY <2>2, <2>3, <2>4 DEF Defining
  <2>6. ~Layers[g][i].copied
    <3>1. i = j \/ j < i
      BY <2>2, <2>5
    <3>2. n \in DOMAIN Layers[g][i].rules /\ n \in DOMAIN Layers[g][j].rules
      BY <2>1, <2>4 DEF Defining
    <3> QED
      BY <2>2, <2>5, <3>1, <3>2 DEF CopiesComeFirst, TypeOK
  <2> QED
    BY <2>4, <2>6
<1> QED
  BY <1>1, TypeCorrect, LastLayer, PTL

(***************************************************************************)
(* The rules found to be live are those that every set must contain which  *)
(* holds the roots and all that its rules refer to: nothing is taken for   *)
(* live that the parser could do without.                                  *)
(***************************************************************************)
THEOREM LiveIsLeast ==
    ASSUME NEW S
    PROVE  Spec => [](AllSpread /\ Roots \cup References(S) \subseteq S => live \subseteq S)
<1> DEFINE Least == AllSpread /\ Roots \cup References(S) \subseteq S => live \subseteq S
<1>1. Init => Least
  BY DEF Init
<1>2. TypeOK /\ TypeOK' /\ Least /\ [Next]_vars => Least'
  <2> SUFFICES ASSUME TypeOK, TypeOK', Least, [Next]_vars PROVE Least'
    OBVIOUS
  <2>1. CASE SpreadLayer
    BY <2>1 DEF SpreadLayer, TypeOK
  <2>2. CASE Reach
    <3> SUFFICES ASSUME (Roots \cup References(S) \subseteq S)' PROVE live' \subseteq S
      OBVIOUS
    <3>1. /\ AllSpread /\ owner' = owner /\ live' = live \cup Roots \cup References(live)
      BY <2>2 DEF Reach
    <3>2. Roots \cup References(S) \subseteq S
      BY <3>1 DEF References
    <3>3. live \subseteq S
      BY <3>1, <3>2
    <3>4. References(live) \subseteq References(S)
      BY <3>3 DEF References
    <3> QED
      BY <3>1, <3>2, <3>3, <3>4
  <2>3. ASSUME NEW d \in Dialects, Extend(d) PROVE Least'
    BY <2>3 DEF Extend
  <2>4. CASE UNCHANGED vars
    BY <2>4 DEF vars, AllSpread, References
  <2> QED
    BY <2>1, <2>2, <2>3, <2>4 DEF Next
<1> QED
  BY <1>1, <1>2, TypeCorrect, PTL DEF Spec
=============================================================================
