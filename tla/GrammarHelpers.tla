--------------------------- MODULE GrammarHelpers ---------------------------
(***************************************************************************)
(* How a rule module writes down one object of rules.  A grammar rule is   *)
(* abstracted to the set of rules it refers to ($.name, under any          *)
(* combinator); the keyword_<word> rules are tokens, abstracted to the     *)
(* precedence token(prec(n, ...)) gives the word, and are not listed among *)
(* the references.  A unit is what one object literal or one rule file     *)
(* defines: its words and its rules, both by name.                         *)
(***************************************************************************)
EXTENDS Naturals, Sequences, TLC

NoWords == [w \in {} |-> 0]
NoRules == [n \in {} |-> {}]

Unit(words, rules) == [words |-> words, rules |-> rules]

\* keyword_w: _ => make_keyword("w")
Words(S) == [w \in S |-> 0]

\* keyword_w: _ => token(prec(1, make_keyword("w")))
StrongWords(S) == [w \in S |-> 1]

\* Rules that refer to no other rule: patterns, and sequences of keywords.
Tokens(S) == [n \in S |-> {}]

\* {...a, ...b, ...}, for the words or for the rules of the units: a name
\* takes the value of the last unit that has it.
Merged(us, part) ==
    LET Has(n)  == {i \in DOMAIN us : n \in DOMAIN us[i][part]}
        Last(n) == CHOOSE i \in Has(n) : \A j \in Has(n) : j <= i
    IN  [n \in UNION {DOMAIN us[i][part] : i \in DOMAIN us} |-> us[Last(n)][part][n]]

\* An object that spreads the units us, in this order.
Spread(us) == Unit(Merged(us, "words"), Merged(us, "rules"))

\* The chain of rules prefix_0, prefix_1, ... for a run of optional items
\* that keeps its order: each link may take its item and go on, or go on.
ordered_optionals(prefix, items) ==
    LET Link(i) == prefix \o "_" \o ToString(i)
        links   == 0..(Len(items) - 1)
    IN  [n \in {Link(i) : i \in links} |->
            LET i == CHOOSE i \in links : n = Link(i)
            IN  items[i + 1] \cup {Link(j) : j \in links \cap {i + 1}}]

\* What a grammar spreads into its rules: the objects its rule files export, the
\* objects written in grammar.js itself, and copies of the rules every dialect of
\* the base keeps a copy of.
Layer(u, copied, entry) ==
    [copied |-> copied, entry |-> entry, words |-> u.words, rules |-> u.rules]
Own(u)    == Layer(u, FALSE, FALSE)
Inline(u) == Layer(u, FALSE, TRUE)
Copy(u)   == Layer(u, TRUE, FALSE)
=============================================================================
