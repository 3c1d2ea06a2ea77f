-------------------------- MODULE PrivateScanners --------------------------
(***************************************************************************)
(* What the scanner promises to a parser with several stack versions: each *)
(* version behaves as if it had a scanner of its own.  A version knows the *)
(* tag it has open, and nothing else; what another version opened, closed  *)
(* or abandoned never shows in it.  There is no payload, no buffer and no  *)
(* memory here: ParserRuntime implements this with one payload shared by   *)
(* all versions.                                                           *)
(*                                                                         *)
(* A tag of LongTags is forgotten as soon as it is opened.                 *)
(***************************************************************************)
EXTENDS Integers, Sequences

CONSTANTS Versions, Tags, LongTags, NoTag, PositionTokens, Texts

VARIABLES text, live, pos, open, tokens

vars == <<text, live, pos, open, tokens>>

StartTag == "DOLLAR_QUOTED_STRING_START_TAG"
EndTag   == "DOLLAR_QUOTED_STRING_END_TAG"
String   == "DOLLAR_QUOTED_STRING"

\* What the proofs need to know of the constants; ParserRuntime_proofs shows
\* it of the tables of the scanner.
PrivateAssumption ==
    /\ LongTags \subseteq Tags
    /\ NoTag \notin Tags
    /\ PositionTokens \cap {StartTag, EndTag, String} = {}

Token(sym, tag, first, last) ==
    [sym |-> sym, tag |-> tag, first |-> first, last |-> last]

TagAt(v, t) == pos[v] \in 1..Len(text) /\ text[pos[v]] = t

Init ==
    /\ text \in Texts
    /\ live = {}
    /\ pos = [v \in Versions |-> 1]
    /\ open = [v \in Versions |-> NoTag]
    /\ tokens = [v \in Versions |-> <<>>]

Start(v) ==
    /\ live = {}
    /\ live' = {v}
    /\ pos' = [pos EXCEPT ![v] = 1]
    /\ open' = [open EXCEPT ![v] = NoTag]
    /\ tokens' = [tokens EXCEPT ![v] = <<>>]
    /\ UNCHANGED text

\* Version v takes the token sym from its position to q.
Take(v, sym, t, q) ==
    /\ v \in live
    /\ tokens' = [tokens EXCEPT ![v] = Append(@, Token(sym, t, pos[v], q))]
    /\ pos' = [pos EXCEPT ![v] = q + 1]
    /\ UNCHANGED <<text, live>>

OpenTag(v, t) ==
    /\ TagAt(v, t) /\ open[v] = NoTag
    /\ open' = [open EXCEPT ![v] = IF t \in LongTags THEN NoTag ELSE t]
    /\ Take(v, StartTag, t, pos[v])

CloseTag(v, t) ==
    /\ TagAt(v, t) /\ open[v] = t
    /\ open' = [open EXCEPT ![v] = NoTag]
    /\ Take(v, EndTag, t, pos[v])

\* A whole string ends at the next occurrence of its tag.
WholeString(v, t, q) ==
    /\ TagAt(v, t) /\ open[v] # t
    /\ q \in pos[v]+1..Len(text) /\ text[q] = t
    /\ \A k \in pos[v]+1..q-1 : text[k] # t
    /\ UNCHANGED open
    /\ Take(v, String, t, q)

PositionCall(v, sym) ==
    /\ TagAt(v, sym) /\ sym \in PositionTokens
    /\ UNCHANGED open
    /\ Take(v, sym, NoTag, pos[v])

Skip(v) ==
    /\ v \in live
    /\ pos[v] <= Len(text) + 1
    /\ pos' = [pos EXCEPT ![v] = @ + 1]
    /\ UNCHANGED <<text, live, open, tokens>>

Split(v, w) ==
    /\ v \in live /\ w \notin live
    /\ live' = live \cup {w}
    /\ pos' = [pos EXCEPT ![w] = pos[v]]
    /\ open' = [open EXCEPT ![w] = open[v]]
    /\ tokens' = [tokens EXCEPT ![w] = tokens[v]]
    /\ UNCHANGED text

Remove(vs) ==
    /\ vs \subseteq live
    /\ live' = live \ vs
    /\ UNCHANGED <<text, pos, open, tokens>>

Next ==
    \/ \E v \in Versions : Start(v) \/ Skip(v)
    \/ \E v \in Versions, t \in Tags : OpenTag(v, t) \/ CloseTag(v, t)
    \/ \E v \in Versions, t \in Tags, q \in 1..Len(text) : WholeString(v, t, q)
    \/ \E v \in Versions, sym \in PositionTokens : PositionCall(v, sym)
    \/ \E v, w \in Versions : Split(v, w)
    \/ \E v \in Versions : Remove({v})
    \/ Remove(live)

Spec == Init /\ [][Next]_vars

-----------------------------------------------------------------------------
\* Properties of one version's tokens, and what is open after them.

\* Token i of s is the last start or end tag before token j.
PreviousTag(s, i, j) ==
    /\ i \in 1..j-1
    /\ s[i].sym \in {StartTag, EndTag}
    /\ \A k \in i+1..j-1 : s[k].sym \notin {StartTag, EndTag}

\* Tag t is open before token j of s.
OpenBefore(s, t, j) ==
    t \notin LongTags /\ \E i \in 1..j-1 :
        PreviousTag(s, i, j) /\ s[i].sym = StartTag /\ s[i].tag = t

(***************************************************************************)
(* Start and end tags of a version pair up: an end tag closes the tag that *)
(* is open, and a start tag comes only while none is open.                 *)
(***************************************************************************)
TagsPairUp(s) ==
    \A j \in 1..Len(s) :
        /\ s[j].sym = EndTag => OpenBefore(s, s[j].tag, j)
        /\ s[j].sym = StartTag => \A t \in Tags : ~OpenBefore(s, t, j)

\* A whole string is never taken with the tag that is open around it.
NoStringOfOpenTag(s) ==
    \A j \in 1..Len(s) :
        s[j].sym = String => ~OpenBefore(s, s[j].tag, j)

\* What a version has open is what its own tokens say.
OpenFollowsTokens ==
    \A v \in live, t \in Tags :
        open[v] = t <=> OpenBefore(tokens[v], t, Len(tokens[v]) + 1)

Balanced ==
    \A v \in live : TagsPairUp(tokens[v]) /\ NoStringOfOpenTag(tokens[v])
=============================================================================
