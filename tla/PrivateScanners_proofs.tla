----------------------- MODULE PrivateScanners_proofs -----------------------
(***************************************************************************)
(* Proofs about PrivateScanners: whatever the number of versions, tags and *)
(* lexemes, the start and end tags of each version pair up.                *)
(***************************************************************************)
EXTENDS PrivateScanners, TLAPS

TokenSet ==
    [sym : {StartTag, EndTag, String} \cup PositionTokens,
     tag : Tags \cup {NoTag}, first : Int, last : Int]

\* The types of the state of the versions.
PrivateTypeOK ==
    /\ text \in Texts
    /\ live \subseteq Versions
    /\ pos \in [Versions -> Int]
    /\ open \in [Versions -> (Tags \ LongTags) \cup {NoTag}]
    /\ tokens \in [Versions -> Seq(TokenSet)]

\* The tag o is what the tokens s leave open.
LeavesOpen(s, o) == \A t \in Tags : o = t <=> OpenBefore(s, t, Len(s) + 1)

\* Everything that is said of one version with tokens s and open tag o.
VersionOK(s, o) == LeavesOpen(s, o) /\ TagsPairUp(s) /\ NoStringOfOpenTag(s)

PrivateInv ==
    /\ PrivateTypeOK
    /\ \A v \in live : VersionOK(tokens[v], open[v])

(***************************************************************************)
(* What was open before a token does not change when tokens are appended.  *)
(***************************************************************************)
LEMMA OpenBeforeAppend ==
    ASSUME NEW S, NEW s \in Seq(S), NEW e \in S, NEW t, NEW j \in 1..Len(s)+1
    PROVE  OpenBefore(Append(s, e), t, j) <=> OpenBefore(s, t, j)
<1> DEFINE r == Append(s, e)
<1>1. /\ r \in Seq(S) /\ Len(r) = Len(s) + 1
      /\ \A i \in 1..Len(s) : r[i] = s[i]
  OBVIOUS
<1>2. \A i \in 1..j-1 : r[i] = s[i]
  BY <1>1
<1>3. \A i \in 1..j-1 : PreviousTag(r, i, j) <=> PreviousTag(s, i, j)
  BY <1>2 DEF PreviousTag
<1> QED
  BY <1>2, <1>3 DEF OpenBefore

(***************************************************************************)
(* After a token, its own tag is open if it is a start tag that fits,      *)
(* nothing is if it is an end tag, and otherwise what was open before.     *)
(***************************************************************************)
LEMMA OpenAfterAppend ==
    ASSUME NEW S, NEW s \in Seq(S), NEW e \in S, NEW t
    PROVE  OpenBefore(Append(s, e), t, Len(Append(s, e)) + 1) <=>
             \/ e.sym = StartTag /\ e.tag = t /\ t \notin LongTags
             \/ e.sym \notin {StartTag, EndTag} /\ OpenBefore(s, t, Len(s) + 1)
<1> DEFINE r == Append(s, e)
           n == Len(s) + 1
<1>1. /\ r \in Seq(S) /\ Len(r) = n /\ n \in Nat /\ n >= 1
      /\ \A i \in 1..n-1 : r[i] = s[i]
      /\ r[n] = e
  OBVIOUS
<1> HIDE DEF r
<1>2. CASE e.sym \in {StartTag, EndTag}
  <2>1. \A i \in 1..n : PreviousTag(r, i, n + 1) <=> i = n
    BY <1>1, <1>2 DEF PreviousTag
  <2> QED
    BY <1>1, <1>2, <2>1 DEF OpenBefore, StartTag, EndTag, r
<1>3. CASE e.sym \notin {StartTag, EndTag}
  <2>1. ~PreviousTag(r, n, n + 1)
    BY <1>1, <1>3 DEF PreviousTag
  <2>2. \A i \in 1..n-1 : PreviousTag(r, i, n + 1) <=> PreviousTag(r, i, n)
    BY <1>1, <1>3 DEF PreviousTag
  <2>3. OpenBefore(r, t, n + 1) <=> OpenBefore(r, t, n)
    BY <1>1, <2>1, <2>2 DEF OpenBefore
  <2>4. OpenBefore(r, t, n) <=> OpenBefore(s, t, n)
    BY <1>1, OpenBeforeAppend DEF r
  <2> QED
    BY <1>1, <1>3, <2>3, <2>4 DEF r, StartTag, EndTag
<1> QED
  BY <1>2, <1>3

(***************************************************************************)
(* A token that respects the open tag keeps all that is said of a version. *)
(***************************************************************************)
LEMMA TokenKeepsVersion ==
    ASSUME PrivateAssumption, NEW s \in Seq(TokenSet), NEW e \in TokenSet,
           NEW o \in (Tags \ LongTags) \cup {NoTag},
           NEW q \in (Tags \ LongTags) \cup {NoTag},
           VersionOK(s, o),
           \/ /\ e.sym = StartTag /\ o = NoTag /\ e.tag \in Tags
              /\ q = IF e.tag \in LongTags THEN NoTag ELSE e.tag
           \/ e.sym = EndTag /\ e.tag \in Tags /\ o = e.tag /\ q = NoTag
           \/ e.sym = String /\ e.tag \in Tags /\ o # e.tag /\ q = o
           \/ e.sym \in PositionTokens /\ q = o
    PROVE  VersionOK(Append(s, e), q)
<1> DEFINE r == Append(s, e)
           n == Len(s) + 1
<1> USE DEF PrivateAssumption
<1>1. /\ r \in Seq(TokenSet) /\ Len(r) = n /\ n \in Nat /\ n >= 1
      /\ \A i \in 1..n-1 : r[i] = s[i]
      /\ r[n] = e
  OBVIOUS
<1>2. \A t : \A j \in 1..n : OpenBefore(r, t, j) <=> OpenBefore(s, t, j)
  BY OpenBeforeAppend
<1>3. \A t : OpenBefore(r, t, n + 1) <=>
             \/ e.sym = StartTag /\ e.tag = t /\ t \notin LongTags
             \/ e.sym \notin {StartTag, EndTag} /\ OpenBefore(s, t, n)
  BY <1>1, OpenAfterAppend
<1>4. \A t \in Tags : o = t <=> OpenBefore(s, t, n)
  BY DEF VersionOK, LeavesOpen
<1> HIDE DEF r
<1>5. LeavesOpen(r, q)
  <2>1. \A t \in Tags : q = t <=> OpenBefore(r, t, n + 1)
    BY <1>3, <1>4 DEF StartTag, EndTag, String
  <2> QED
    BY <1>1, <2>1 DEF LeavesOpen
<1>6. TagsPairUp(r)
  <2>1. ASSUME NEW j \in 1..n
        PROVE  /\ r[j].sym = EndTag => OpenBefore(r, r[j].tag, j)
               /\ r[j].sym = StartTag => \A t \in Tags : ~OpenBefore(r, t, j)
    <3>1. CASE j = n
      BY <1>1, <1>2, <1>4, <3>1 DEF StartTag, EndTag, String
    <3>2. CASE j # n
      <4>1. j \in 1..Len(s) /\ r[j] = s[j]
        BY <1>1, <3>2
      <4> QED
        BY <1>2, <4>1 DEF VersionOK, TagsPairUp
    <3> QED
      BY <3>1, <3>2
  <2> QED
    BY <1>1, <2>1 DEF TagsPairUp
<1>7. NoStringOfOpenTag(r)
  <2>1. ASSUME NEW j \in 1..n, r[j].sym = String
        PROVE  ~OpenBefore(r, r[j].tag, j)
    <3>1. CASE j = n
      BY <1>1, <1>2, <1>4, <2>1, <3>1 DEF StartTag, EndTag, String
    <3>2. CASE j # n
      <4>1. j \in 1..Len(s) /\ r[j] = s[j]
        BY <1>1, <3>2
      <4> QED
        BY <1>2, <2>1, <4>1 DEF VersionOK, NoStringOfOpenTag
    <3> QED
      BY <3>1, <3>2
  <2> QED
    BY <1>1, <2>1 DEF NoStringOfOpenTag
<1> QED
  BY <1>5, <1>6, <1>7 DEF VersionOK, r

(***************************************************************************)
(* When version v alone changes, to tokens s and open tag o of which all   *)
(* is well, all is well with every version.                                *)
(***************************************************************************)
LEMMA OneVersionChanges ==
    ASSUME PrivateInv, NEW v \in Versions,
           NEW s \in Seq(TokenSet), NEW o \in (Tags \ LongTags) \cup {NoTag},
           VersionOK(s, o),
           tokens' = [tokens EXCEPT ![v] = s],
           open' = [open EXCEPT ![v] = o],
           live' \subseteq live \cup {v}
    PROVE  /\ open' \in [Versions -> (Tags \ LongTags) \cup {NoTag}]
           /\ tokens' \in [Versions -> Seq(TokenSet)]
           /\ \A w \in live' : VersionOK(tokens'[w], open'[w])
<1>1. /\ tokens' \in [Versions -> Seq(TokenSet)]
      /\ open' \in [Versions -> (Tags \ LongTags) \cup {NoTag}]
      /\ live \subseteq Versions
  BY DEF PrivateInv, PrivateTypeOK
<1>2. ASSUME NEW w \in live'
      PROVE  VersionOK(tokens'[w], open'[w])
  <2>1. CASE w = v
    <3>1. tokens'[w] = s /\ open'[w] = o
      BY <2>1 DEF PrivateInv, PrivateTypeOK
    <3> QED
      BY <3>1
  <2>2. CASE w # v
    <3>1. /\ w \in live
          /\ tokens'[w] = tokens[w] /\ open'[w] = open[w]
      BY <1>1, <2>2 DEF PrivateInv, PrivateTypeOK
    <3> QED
      BY <3>1 DEF PrivateInv
  <2> QED
    BY <2>1, <2>2
<1> QED
  BY <1>1, <1>2

(***************************************************************************)
(* A version without tokens has nothing open.                              *)
(***************************************************************************)
LEMMA NoTokensOK ==
    ASSUME PrivateAssumption
    PROVE  VersionOK(<<>>, NoTag)
<1>1. \A t : ~OpenBefore(<<>>, t, 1)
  BY DEF OpenBefore
<1> QED
  BY <1>1 DEF PrivateAssumption, VersionOK, LeavesOpen, TagsPairUp, NoStringOfOpenTag

(***************************************************************************)
(* A step in which v takes a token that respects its open tag.             *)
(***************************************************************************)
LEMMA TakeKeepsInv ==
    ASSUME PrivateAssumption, PrivateInv, NEW v \in Versions, NEW sym, NEW t, NEW n \in Int,
           NEW q \in (Tags \ LongTags) \cup {NoTag},
           Take(v, sym, t, n),
           open' = [open EXCEPT ![v] = q],
           t \in Tags \cup {NoTag},
           \/ /\ sym = StartTag /\ open[v] = NoTag /\ t \in Tags
              /\ q = IF t \in LongTags THEN NoTag ELSE t
           \/ sym = EndTag /\ t \in Tags /\ open[v] = t /\ q = NoTag
           \/ sym = String /\ t \in Tags /\ open[v] # t /\ q = open[v]
           \/ sym \in PositionTokens /\ q = open[v]
    PROVE  PrivateInv'
<1> DEFINE e == Token(sym, t, pos[v], n)
           s == Append(tokens[v], e)
<1>1. /\ v \in live /\ pos[v] \in Int
      /\ tokens[v] \in Seq(TokenSet)
      /\ open[v] \in (Tags \ LongTags) \cup {NoTag}
      /\ VersionOK(tokens[v], open[v])
  BY DEF PrivateInv, PrivateTypeOK, Take
<1>2. e \in TokenSet /\ e.sym = sym /\ e.tag = t
  BY <1>1 DEF Token, TokenSet
<1>3. s \in Seq(TokenSet)
  BY <1>1, <1>2
<1> HIDE DEF e
<1>4. VersionOK(s, q)
  <2>1. \/ /\ e.sym = StartTag /\ open[v] = NoTag /\ e.tag \in Tags
           /\ q = IF e.tag \in LongTags THEN NoTag ELSE e.tag
        \/ e.sym = EndTag /\ e.tag \in Tags /\ open[v] = e.tag /\ q = NoTag
        \/ e.sym = String /\ e.tag \in Tags /\ open[v] # e.tag /\ q = open[v]
        \/ e.sym \in PositionTokens /\ q = open[v]
    BY <1>2
  <2> QED
    BY <1>1, <1>2, <2>1, TokenKeepsVersion
<1>5. tokens' = [tokens EXCEPT ![v] = s] /\ live' = live
  BY DEF Take, e
<1> HIDE DEF s
<1>6. /\ open' \in [Versions -> (Tags \ LongTags) \cup {NoTag}]
      /\ tokens' \in [Versions -> Seq(TokenSet)]
      /\ \A w \in live' : VersionOK(tokens'[w], open'[w])
  BY <1>3, <1>4, <1>5, OneVersionChanges
<1>7. text' \in Texts /\ live' \subseteq Versions /\ pos' \in [Versions -> Int]
  BY DEF PrivateInv, PrivateTypeOK, Take
<1> QED
  BY <1>6, <1>7 DEF PrivateInv, PrivateTypeOK

(***************************************************************************)
(* Every step of a version keeps the invariant.                            *)
(***************************************************************************)
LEMMA StepKeepsPrivateInv ==
    ASSUME PrivateAssumption
    PROVE  PrivateInv /\ [Next]_vars => PrivateInv'
<1> SUFFICES ASSUME PrivateInv, [Next]_vars
             PROVE  PrivateInv'
  OBVIOUS
<1> USE DEF PrivateAssumption
<1>1. ASSUME NEW v \in Versions, Start(v) PROVE PrivateInv'
  <2>1. <<>> \in Seq(TokenSet) /\ live' \subseteq live \cup {v}
    BY <1>1 DEF Start
  <2>2. /\ open' \in [Versions -> (Tags \ LongTags) \cup {NoTag}]
        /\ tokens' \in [Versions -> Seq(TokenSet)]
        /\ \A w \in live' : VersionOK(tokens'[w], open'[w])
    BY <1>1, <2>1, NoTokensOK, OneVersionChanges DEF Start
  <2> QED
    BY <1>1, <2>2 DEF Start, PrivateInv, PrivateTypeOK
<1>2. ASSUME NEW v \in Versions, Skip(v) PROVE PrivateInv'
  BY <1>2 DEF Skip, PrivateInv, PrivateTypeOK
<1>3. ASSUME NEW v \in Versions, NEW t \in Tags, OpenTag(v, t) PROVE PrivateInv'
  <2>1. pos[v] \in Int
    BY DEF PrivateInv, PrivateTypeOK
  <2> QED
    BY <1>3, <2>1, TakeKeepsInv DEF OpenTag
<1>4. ASSUME NEW v \in Versions, NEW t \in Tags, CloseTag(v, t) PROVE PrivateInv'
  <2>1. pos[v] \in Int
    BY DEF PrivateInv, PrivateTypeOK
  <2> QED
    BY <1>4, <2>1, TakeKeepsInv DEF CloseTag
<1>5. ASSUME NEW v \in Versions, NEW t \in Tags, NEW q \in 1..Len(text),
             WholeString(v, t, q)
      PROVE PrivateInv'
  <2>1. /\ q \in Int /\ open[v] \in (Tags \ LongTags) \cup {NoTag}
        /\ open' = [open EXCEPT ![v] = open[v]]
    BY <1>5 DEF PrivateInv, PrivateTypeOK, WholeString
  <2> QED
    BY <1>5, <2>1, TakeKeepsInv DEF WholeString
<1>6. ASSUME NEW v \in Versions, NEW sym \in PositionTokens, PositionCall(v, sym)
      PROVE PrivateInv'
  <2>1. /\ pos[v] \in Int /\ open[v] \in (Tags \ LongTags) \cup {NoTag}
        /\ open' = [open EXCEPT ![v] = open[v]]
    BY <1>6 DEF PrivateInv, PrivateTypeOK, PositionCall
  <2> QED
    BY <1>6, <2>1, TakeKeepsInv DEF PositionCall
<1>7. ASSUME NEW v \in Versions, NEW w \in Versions, Split(v, w) PROVE PrivateInv'
  <2>1. /\ tokens[v] \in Seq(TokenSet) /\ open[v] \in (Tags \ LongTags) \cup {NoTag}
        /\ VersionOK(tokens[v], open[v]) /\ live' \subseteq live \cup {w}
    BY <1>7 DEF PrivateInv, PrivateTypeOK, Split
  <2>2. /\ open' \in [Versions -> (Tags \ LongTags) \cup {NoTag}]
        /\ tokens' \in [Versions -> Seq(TokenSet)]
        /\ \A u \in live' : VersionOK(tokens'[u], open'[u])
    BY <1>7, <2>1, OneVersionChanges DEF Split
  <2> QED
    BY <1>7, <2>2 DEF Split, PrivateInv, PrivateTypeOK
<1>8. ASSUME NEW vs, Remove(vs) PROVE PrivateInv'
  BY <1>8 DEF Remove, PrivateInv, PrivateTypeOK
<1>9. CASE UNCHANGED vars
  BY <1>9 DEF vars, PrivateInv, PrivateTypeOK
<1> QED
  BY <1>1, <1>2, <1>3, <1>4, <1>5, <1>6, <1>7, <1>8, <1>9 DEF Next

(***************************************************************************)
(* In every behaviour the start and end tags of each version pair up, no   *)
(* string is taken with the tag that is open around it, and what a version *)
(* has open is what its own tokens say.                                    *)
(***************************************************************************)
THEOREM PrivateSafety ==
    ASSUME PrivateAssumption
    PROVE  Spec => []PrivateInv
<1>1. Init => PrivateInv
  BY DEF PrivateAssumption, Init, PrivateInv, PrivateTypeOK
<1> QED
  BY <1>1, StepKeepsPrivateInv, PTL DEF Spec

THEOREM PrivateBalanced ==
    ASSUME PrivateAssumption
    PROVE  Spec => []Balanced
<1>1. PrivateInv => Balanced
  BY DEF PrivateInv, VersionOK, Balanced
<1> QED
  BY <1>1, PrivateSafety, PTL

THEOREM PrivateOpenFollowsTokens ==
    ASSUME PrivateAssumption
    PROVE  Spec => []OpenFollowsTokens
<1>1. PrivateInv => OpenFollowsTokens
  BY DEF PrivateInv, VersionOK, LeavesOpen, OpenFollowsTokens
<1> QED
  BY <1>1, PrivateSafety, PTL
=============================================================================
