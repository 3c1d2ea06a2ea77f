------------------------- MODULE GrammarComposition -------------------------
(***************************************************************************)
(* How a grammar comes out of its rule files.  grammar(parent, overrides)  *)
(* starts from the rules of the parent and spreads the layers of the       *)
(* dialect over them, one after the other; a rule that is defined again    *)
(* replaces the rule of that name entirely, without a word.  What cannot   *)
(* be reached from the start rule afterwards never enters the parser.      *)
(* Conflicts and externals are not rules: each grammar states its own.     *)
(*                                                                         *)
(* A layer is one object spread into the rules, with the words and rules   *)
(* it defines (GrammarHelpers), written in grammar.js (entry) or in a rule *)
(* file; owner says which layer of which grammar the current definition of *)
(* a rule comes from.                                                      *)
(***************************************************************************)
EXTENDS Naturals, Sequences

CONSTANTS Grammars, Root, Parent,   \* the tree of grammars
          Layers,                   \* of each grammar, in the order they are spread
          Conflicts, Externals,     \* of each grammar
          Roots,                    \* start rule, word token and extras
          PARENTS                   \* generate.js's table of a dialect's ancestors

Dialects == Grammars \ {Root}

\* What the dialects are known to do without; the properties below allow
\* nothing else.  Sets of <<grammar, name>>, <<grammar, conflict>> and
\* <<grammar, shorter word, longer word>>; Unhashed are rules of the root.
CONSTANTS Dispatch, Stranded, Withdrawn, Eclipsed, Relinquished,
          Unlexable, Harmless, Unhashed

ASSUME TreeAssumption ==
    /\ Root \in Grammars
    /\ Parent \in [Dialects -> Grammars]

ASSUME LayersAssumption ==
    \A d \in Grammars : /\ Len(Layers[d]) \in Nat
                        /\ DOMAIN Layers[d] = 1..Len(Layers[d])

VARIABLES g,          \* the grammar that is being composed
          owner,      \* rule -> <<grammar, number of the layer>> that defines it
          weight,     \* word -> precedence of its token
          next,       \* the layer to be spread next
          live,       \* the rules reached so far, once all layers are spread
          inherited   \* owner and live of the parent, when g was begun

vars == <<g, owner, weight, next, live, inherited>>

NoOwner == [n \in {} |-> <<Root, 0>>]

\* f overridden by h: what h defines replaces what f has under that name.
Override(f, h) ==
    LET own == DOMAIN h
    IN  [n \in DOMAIN f \cup own |-> IF n \in own THEN h[n] ELSE f[n]]

\* The definition of rule n that o points to.
BodyIn(o, n) == Layers[o[n][1]][o[n][2]].rules[n]

\* What the rules of S refer to.
References(S) == UNION {BodyIn(owner, n) : n \in S \cap DOMAIN owner}

AllSpread == next > Len(Layers[g])
Closed    == Roots \cup References(live) \subseteq live
Composed  == AllSpread /\ Closed

Init == /\ g = Root
        /\ owner = NoOwner
        /\ weight = [w \in {} |-> 0]
        /\ next = 1
        /\ live = {}
        /\ inherited = [owner |-> NoOwner, live |-> {}]

\* ...layer, inside the rules of g.
SpreadLayer ==
    /\ ~AllSpread
    /\ LET layer == Layers[g][next] IN
        /\ owner' = Override(owner, [n \in DOMAIN layer.rules |-> <<g, next>>])
        /\ weight' = Override(weight, layer.words)
    /\ next' = next + 1
    /\ UNCHANGED <<g, live, inherited>>

\* One more round of the search for the rules the parser needs.
Reach ==
    /\ AllSpread
    /\ ~Closed
    /\ live' = live \cup Roots \cup References(live)
    /\ UNCHANGED <<g, owner, weight, next, inherited>>

\* Mutant: the rules of the parent are found in the parser already.
ExtendParser(d) ==
    /\ Composed
    /\ Parent[d] = g
    /\ g' = d
    /\ next' = 1
    /\ inherited' = [owner |-> owner, live |-> live]
    /\ UNCHANGED <<owner, weight, live>>

\* A dialect imports the finished grammar and begins to override its rules.
Extend(d) ==
    /\ Composed
    /\ Parent[d] = g
    /\ g' = d
    /\ next' = 1
    /\ live' = {}
    /\ inherited' = [owner |-> owner, live |-> live]
    /\ UNCHANGED <<owner, weight>>

Next == SpreadLayer \/ Reach \/ \E d \in Dialects : Extend(d)

Spec == Init /\ [][Next]_vars

-----------------------------------------------------------------------------
\* Each definition is where owner says, and the search for live rules begins
\* anew in each grammar.
TypeOK ==
    /\ g \in Grammars
    /\ next \in 1..(Len(Layers[g]) + 1)
    /\ \A n \in DOMAIN owner :
        /\ owner[n][1] \in Grammars
        /\ owner[n][2] \in DOMAIN Layers[owner[n][1]]
        /\ n \in DOMAIN Layers[owner[n][1]][owner[n][2]].rules
    /\ ~AllSpread => live = {}

\* Mutant: the parent, but not its parent.
HashedWithParent(d) ==
    {<<"rules", Root>>, <<"rules", d>>, <<"entry", d>>}
      \cup ({"entry", "rules"} \X {Parent[c] : c \in {d} \cap Dialects})

\* What generate.js hashes for d: grammar.js and the rule files of d and of the
\* dialects above it, but of the root the rule files only.
HashedFiles(d) ==
    {<<"rules", Root>>, <<"rules", d>>, <<"entry", d>>}
      \cup ({"entry", "rules"} \X (IF d \in DOMAIN PARENTS THEN PARENTS[d] ELSE {}))

\* The file, or the directory of files, that the definition of rule n is in.
SourceOf(n) ==
    <<IF Layers[owner[n][1]][owner[n][2]].entry THEN "entry" ELSE "rules", owner[n][1]>>

\* An edit of a rule changes the hash of every grammar that is made from it, as
\* PARENTS agrees with the import lines: but for the few rules that the root's
\* grammar.js defines, which is in the hash of no dialect.
SourcesHashed ==
    \A n \in DOMAIN owner : \/ SourceOf(n) \in HashedFiles(g)
                            \/ (SourceOf(n) = <<"entry", Root>> /\ n \in Unhashed)

OwnLayers   == {i \in DOMAIN Layers[g] : ~Layers[g][i].copied}
OwnRules    == UNION {DOMAIN Layers[g][i].rules : i \in OwnLayers}
Overridden  == {n \in DOMAIN owner \cap DOMAIN inherited.owner : owner[n][1] = g}

\* The copies of the common statement rules never replace what the dialect
\* writes itself: they have to be spread first.
OwnRulesOverCopies ==
    AllSpread => \A n \in OwnRules : ~Layers[owner[n][1]][owner[n][2]].copied

\* The parser has every rule that the dialect itself adds or overrides: no
\* layer leaves a rule behind that another layer forgot to refer to.
OwnRulesReached ==
    Composed /\ g # Root => \A n \in OwnRules \ live : <<g, n>> \in Stranded

\* Overriding a dispatch rule loses no alternative of the parent: what the
\* parent offered there is offered somewhere in the dialect.
AlternativesKept ==
    Composed => \A n \in Dispatch \cap Overridden \cap inherited.live :
                    \A r \in (BodyIn(inherited.owner, n) \cap inherited.live) \ live :
                        <<g, r>> \in Withdrawn

\* Where two layers of a dialect define the same rule the later one wins, and
\* what only the earlier one offered is not lost to the parser.
EclipsedRulesKept ==
    Composed => \A i, j \in OwnLayers : i < j =>
        \A n \in DOMAIN Layers[g][i].rules \cap DOMAIN Layers[g][j].rules :
            \A r \in Layers[g][i].rules[n] \ live : <<g, r>> \in Eclipsed

\* Conflicts do not propagate: a conflict of the parent between rules that the
\* dialect's parser has as well is stated again by the dialect.
ConflictsInSync ==
    Composed /\ g # Root =>
        \A c \in Conflicts[Parent[g]] \ Conflicts[g] : c \subseteq live => <<g, c>> \in Relinquished

Begins(a, b) == Len(a) < Len(b) /\ SubSeq(b, 1, Len(a)) = a

\* The lexer weighs precedence before length: where the word a begins the word
\* b and has the higher precedence, b is never lexed.
Shadows(a, b) == weight[a] > weight[b] /\ Begins(a, b)

LongerWordsLexedBut(known) ==
    Composed => \A a \in {w \in DOMAIN weight : weight[w] > 0}, b \in DOMAIN weight :
                    Shadows(a, b) => <<g, a, b>> \in known

\* No layer gives a word a precedence that hides a longer word of another
\* layer or of the parent, but for the known cases.
LongerWordsLexed == LongerWordsLexedBut(Unlexable \cup Harmless)

\* docs/changelog.md:219: the strong words used to "beat a longer base keyword
\* sharing its prefix ... Audited and fixed across every dialect."
EveryLongerWordLexed == LongerWordsLexedBut(Harmless)
=============================================================================
