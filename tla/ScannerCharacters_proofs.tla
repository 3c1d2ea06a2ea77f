---------------------- MODULE ScannerCharacters_proofs ----------------------
(***************************************************************************)
(* Proofs about ScannerCharacters, for every set of characters and texts   *)
(* of every length: scan takes linear time, what it calls a dollar string  *)
(* begins and ends with one tag and is found where it is, a call is told   *)
(* an ISO one just where it is, and the scan of characters answers as the  *)
(* one step of ExternalScanner does.                                       *)
(***************************************************************************)
EXTENDS ScannerLexemes, FiniteSetTheorems, SequenceTheorems, WellFoundedInduction, TLAPS

LEMMA TextLength ==
    ASSUME NEW S, NEW max, NEW t \in Texts(S, max), max \in Nat
    PROVE  Len(t) \in Nat /\ t \in [1..Len(t) -> S]
<1>1. PICK n \in 0..max : t \in [1..n -> S]
  BY DEF Texts
<1>2. t \in Seq(S)
  BY <1>1
<1> QED
  BY <1>2

-----------------------------------------------------------------------------
(***************************************************************************)
(* scan takes linear time: each step that leaves the lookahead where it is *)
(* goes on to a part of scan that has less to do there.                    *)
(***************************************************************************)

Places == {"blanks", "tag", "body", "arguments", "quoted", "word", "found", "not found"}

\* The parts of scan that need not advance before they go on to another one.
Reading == {"tag", "word"}

\* How often the character at the lookahead may still be looked at.
Looks(p) == IF p \in Reading THEN 2 ELSE IF p \in Ended THEN 0 ELSE 1

Advances == ~Atend /\ at' = at + 1 /\ pc' \in Places
Settles  == /\ at' = at /\ pc' \in Places
            /\ \/ pc \in Reading /\ pc' \notin Reading
               \/ pc \notin Ended /\ pc' \in Ended

LEMMA AdvancesOrSettles == Step => Advances \/ Settles
<1> USE DEF Places, Reading, Ended, Advances, Settles
<1>1. Lookahead # EOF => ~Atend
  BY DEF Lookahead
<1> USE DEF Found, NotFound, Answer, BeginTag, Advance, EOF, Dollar, Blank, Opens, Closes, Semicolon
<1>2. CASE SkipBlanks
  BY <1>1, <1>2 DEF SkipBlanks
<1>3. CASE FirstTag
  <2>1. CASE Lookahead = Dollar
    BY <1>1, <1>3, <2>1 DEF FirstTag
  <2>2. CASE Lookahead # Dollar
    BY <1>3, <2>2 DEF FirstTag
  <2> QED
    BY <2>1, <2>2
<1>4. CASE TagCharacter
  BY <1>1, <1>4 DEF TagCharacter
<1>5. CASE FirstTagEnds
  BY <1>1, <1>5 DEF FirstTagEnds
<1>6. CASE NextTagEnds
  BY <1>1, <1>6 DEF NextTagEnds
<1>7. CASE TagFails
  BY <1>7 DEF TagFails
<1>8. CASE Body
  <2>1. CASE Lookahead = EOF /\ NotFound
    BY <1>8, <2>1 DEF Body
  <2>2. CASE Lookahead = Dollar /\ BeginTag
    BY <1>1, <1>8, <2>2 DEF Body
  <2>3. CASE Lookahead \notin {EOF, Dollar} /\ Advance /\ UNCHANGED <<pc, from, first, search>>
    BY <1>1, <1>8, <2>3 DEF Body
  <2> QED
    BY <1>8, <2>1, <2>2, <2>3 DEF Body
<1>9. CASE OpenCall
  <2>1. CASE Lookahead = Opens
    BY <1>1, <1>9, <2>1 DEF OpenCall
  <2>2. CASE Lookahead # Opens
    BY <1>9, <2>2 DEF OpenCall
  <2> QED
    BY <2>1, <2>2
<1>10. CASE Argument
  <2>1. pc = "arguments" /\ ~Atend /\ Advance
    BY <1>10 DEF Argument
  <2>2. pc' = IF Lookahead \in Quotes THEN "quoted" ELSE IF IsWordChar(Lookahead) THEN "word" ELSE pc
    BY <1>10 DEF Argument
  <2> QED
    BY <2>1, <2>2
<1>11. CASE GiveUp
  BY <1>11 DEF GiveUp
<1>12. CASE Quoted
  BY <1>12 DEF Quoted
<1>13. CASE WordCharacter
  <2>1. IsWordChar(Lookahead)
    BY <1>13 DEF WordCharacter
  <2>2. Lookahead # EOF
    BY <2>1 DEF IsWordChar
  <2> QED
    BY <1>1, <1>13, <2>2 DEF WordCharacter
<1>14. CASE WordEnds
  BY <1>14 DEF WordEnds
<1> QED
  BY <1>2, <1>3, <1>4, <1>5, <1>6, <1>7, <1>8, <1>9, <1>10, <1>11, <1>12, <1>13, <1>14 DEF Step

\* What is left of the linear time.
LinearInv ==
    /\ Len(text) \in Nat
    /\ at \in 1..Len(text) + 1
    /\ pc \in Places
    /\ steps \in Nat
    /\ steps + 3 * (Len(text) + 1 - at) + Looks(pc) <= 3 * Len(text) + 1

LEMMA LinearInit == Init => LinearInv
<1> SUFFICES ASSUME Init PROVE LinearInv
  OBVIOUS
<1>1. Len(text) \in Nat
  BY TextLength, CharactersAssumption DEF Init
<1> QED
  BY <1>1 DEF Init, LinearInv, Places, Looks, Reading, Ended

LEMMA LinearStep == LinearInv /\ [Next]_vars => LinearInv'
<1> SUFFICES ASSUME LinearInv, [Next]_vars PROVE LinearInv'
  OBVIOUS
<1>1. CASE UNCHANGED vars
  BY <1>1 DEF vars, LinearInv
<1>2. CASE Step /\ steps' = steps + 1 /\ UNCHANGED <<text, branch, open>>
  <2> DEFINE n == Len(text)
  <2>1. n \in Nat /\ n' = n /\ steps \in Nat /\ steps' = steps + 1 /\ at \in 1..n + 1
        /\ steps + 3 * (n + 1 - at) + Looks(pc) <= 3 * n + 1
    BY <1>2 DEF LinearInv
  <2>2. Looks(pc) \in 0..2 /\ Looks(pc') \in 0..2
    BY DEF Looks
  <2>3. CASE Advances
    <3>1. at <= n /\ at' = at + 1 /\ pc' \in Places
      BY <2>1, <2>3 DEF Advances, Atend
    <3> HIDE DEF n
    <3>2. at' \in 1..n' + 1 /\ steps' \in Nat
          /\ steps' + 3 * (n' + 1 - at') + Looks(pc') <= 3 * n' + 1
      BY <2>1, <2>2, <3>1
    <3> QED
      BY <2>1, <3>1, <3>2 DEF LinearInv, n
  <2>4. CASE Settles
    <3>1. at' = at /\ pc' \in Places
      BY <2>4 DEF Settles
    <3>2. Looks(pc') < Looks(pc)
      <4>1. CASE pc \in Reading /\ pc' \notin Reading
        <5>1. Looks(pc) = 2 /\ Looks(pc') # 2
          BY <4>1 DEF Looks
        <5> QED
          BY <2>2, <5>1
      <4>2. CASE pc \notin Ended /\ pc' \in Ended
        <5>1. Looks(pc') = 0
          BY <4>2 DEF Looks, Reading, Ended
        <5>2. Looks(pc) \in {1, 2}
          BY <4>2 DEF Looks
        <5> QED
          BY <5>1, <5>2
      <4> QED
        BY <2>4, <4>1, <4>2 DEF Settles
    <3> HIDE DEF n
    <3>3. at' \in 1..n' + 1 /\ steps' \in Nat
          /\ steps' + 3 * (n' + 1 - at') + Looks(pc') <= 3 * n' + 1
      BY <2>1, <2>2, <3>1, <3>2
    <3> QED
      BY <2>1, <3>1, <3>3 DEF LinearInv, n
  <2> QED
    BY <1>2, <2>3, <2>4, AdvancesOrSettles
<1> QED
  BY <1>1, <1>2 DEF Next

\* No text makes scan loop, and it never goes back: the number of its steps is linear
\* in the text it looks at (scanner.c:62-87, :97-155, :204-239).
THEOREM LinearTime == Spec => []ScanIsLinear
<1>1. LinearInv => ScanIsLinear
  <2> SUFFICES ASSUME LinearInv PROVE ScanIsLinear
    OBVIOUS
  <2>1. Looks(pc) \in 0..2
    BY DEF Looks
  <2> QED
    BY <2>1 DEF LinearInv, ScanIsLinear
<1> QED
  BY <1>1, LinearInit, LinearStep, PTL DEF Spec

-----------------------------------------------------------------------------
(***************************************************************************)
(* A dollar string is quoted: the first tag is kept, every later one       *)
(* begins behind it, and where strcmp finds two tags equal whose           *)
(* characters it tells apart they are equal.                               *)
(***************************************************************************)

LEMMA ByteKept == ASSUME NEW x \in 0..255 PROVE x % 256 = x
  OBVIOUS

\* A tag's buffer and the characters it was filled from.
IsRead(a, b) ==
    /\ Buffer(a, b) \in Seq(Nat) /\ Len(Buffer(a, b)) = b - a + 1
    /\ Raw(a, b) \in Seq(Nat) /\ Len(Raw(a, b)) = b - a + 1
    /\ \A k \in 1..b - a + 1 : /\ a + k - 1 \in 1..Len(text)
                               /\ Raw(a, b)[k] = text[a + k - 1]
                               /\ Buffer(a, b)[k] = text[a + k - 1] % 256

LEMMA BufferIs ==
    ASSUME Len(text) \in Nat, text \in [1..Len(text) -> Nat],
           NEW a \in 1..Len(text), NEW b \in a..Len(text)
    PROVE  IsRead(a, b)
<1> DEFINE n == b - a + 1
<1>1. n \in Nat /\ \A k \in 1..n : a + k - 1 \in 1..Len(text)
  OBVIOUS
<1>2. \A k \in 1..n : text[a + k - 1] \in Nat
  BY <1>1
<1>3. \A k \in 1..n : text[a + k - 1] % 256 \in Nat
  <2>1. \A x \in Nat : x % 256 \in Nat
    OBVIOUS
  <2> HIDE DEF n
  <2> QED
    BY <1>2, <2>1
<1>4. Raw(a, b) = [k \in 1..n |-> text[a + k - 1]]
  BY DEF Raw
<1>5. Buffer(a, b) = [k \in 1..n |-> text[a + k - 1] % 256]
  BY DEF Buffer
<1> HIDE DEF n
<1>6. Raw(a, b) \in [1..n -> Nat] /\ Buffer(a, b) \in [1..n -> Nat]
  BY <1>2, <1>3, <1>4, <1>5
<1>7. Raw(a, b) \in Seq(Nat) /\ Len(Raw(a, b)) = n
  BY <1>1, <1>6
<1>8. Buffer(a, b) \in Seq(Nat) /\ Len(Buffer(a, b)) = n
  BY <1>1, <1>6
<1> QED
  BY <1>1, <1>4, <1>5, <1>7, <1>8 DEF n, IsRead

\* strcmp finds no 0 before the end of the one or of the other.
LEMMA SameWithoutZero ==
    ASSUME NEW s \in Seq(Nat), NEW t \in Seq(Nat),
           \A k \in 1..Len(s) : s[k] # 0, \A k \in 1..Len(t) : t[k] # 0
    PROVE  SameTag(s, t) <=> s = t
<1>1. Terminators(s) = {Len(s) + 1} /\ Terminators(t) = {Len(t) + 1}
  BY DEF Terminators
<1>2. ASSUME SameTag(s, t) PROVE s = t
  <2>1. Len(s) = Len(t) /\ \A j \in 1..Len(s) : s[j] = t[j]
    BY <1>1, <1>2 DEF SameTag
  <2> QED
    BY <2>1, SeqEqual
<1>3. ASSUME s = t PROVE SameTag(s, t)
  BY <1>1, <1>3 DEF SameTag
<1> QED
  BY <1>2, <1>3

LEMMA ReadHasNoZero ==
    ASSUME NEW a, NEW b, IsRead(a, b), \A i \in 1..Len(text) : text[i] % 256 # 0
    PROVE  \A k \in 1..Len(Buffer(a, b)) : Buffer(a, b)[k] # 0
<1> TAKE k \in 1..Len(Buffer(a, b))
<1>1. k \in 1..b - a + 1
  BY DEF IsRead
<1>2. a + k - 1 \in 1..Len(text) /\ Buffer(a, b)[k] = text[a + k - 1] % 256
  BY <1>1 DEF IsRead
<1> QED
  BY <1>2

LEMMA SameTagSameText ==
    ASSUME ToldApart, Len(text) \in Nat, text \in [1..Len(text) -> Nat],
           NEW a \in 1..Len(text), NEW b \in a..Len(text),
           NEW c \in 1..Len(text), NEW d \in c..Len(text),
           SameTag(Buffer(a, b), Buffer(c, d))
    PROVE  Raw(a, b) = Raw(c, d)
<1>1. IsRead(a, b) /\ IsRead(c, d)
  BY BufferIs
<1>2. /\ \A i \in 1..Len(text) : text[i] % 256 # 0
      /\ \A i, j \in 1..Len(text) : text[i] % 256 = text[j] % 256 => text[i] = text[j]
  BY DEF ToldApart
<1>3. /\ \A k \in 1..Len(Buffer(a, b)) : Buffer(a, b)[k] # 0
      /\ \A k \in 1..Len(Buffer(c, d)) : Buffer(c, d)[k] # 0
  BY <1>1, <1>2, ReadHasNoZero
<1>4. Buffer(a, b) = Buffer(c, d)
  BY <1>1, <1>3, SameWithoutZero DEF IsRead
<1>5. Len(Raw(a, b)) = Len(Raw(c, d))
  BY <1>1, <1>4 DEF IsRead
<1>6. ASSUME NEW k \in 1..Len(Raw(a, b)) PROVE Raw(a, b)[k] = Raw(c, d)[k]
  <2>1. k \in 1..b - a + 1 /\ k \in 1..d - c + 1
    BY <1>1, <1>5 DEF IsRead
  <2>2. /\ a + k - 1 \in 1..Len(text) /\ c + k - 1 \in 1..Len(text)
        /\ Raw(a, b)[k] = text[a + k - 1] /\ Raw(c, d)[k] = text[c + k - 1]
        /\ Buffer(a, b)[k] = text[a + k - 1] % 256 /\ Buffer(c, d)[k] = text[c + k - 1] % 256
    BY <1>1, <2>1 DEF IsRead
  <2> QED
    BY <1>2, <1>4, <2>2
<1> QED
  BY <1>1, <1>5, <1>6, SeqEqual DEF IsRead

Inputs ==
    /\ Len(text) \in Nat /\ text \in [1..Len(text) -> Nat]
    /\ open \in Seq(0..255)

\* A tag that the payload holds is found the same as the text it was read from.
LEMMA OpenTagIsSame ==
    ASSUME ToldApart, Inputs, NEW a \in 1..Len(text), NEW b \in a..Len(text), open = Raw(a, b)
    PROVE  open # <<>> /\ SameTag(open, Buffer(a, b))
<1>1. IsRead(a, b)
  BY BufferIs DEF Inputs
<1>2. Buffer(a, b) \in Seq(Nat) /\ open \in Seq(Nat)
      /\ Len(open) = b - a + 1 /\ Len(Buffer(a, b)) = b - a + 1
  BY <1>1 DEF IsRead
<1>3. ASSUME NEW k \in 1..Len(open) PROVE open[k] = Buffer(a, b)[k]
  <2>1. k \in 1..b - a + 1
    BY <1>2
  <2>2. open[k] = text[a + k - 1] /\ Buffer(a, b)[k] = text[a + k - 1] % 256
    BY <1>1, <2>1 DEF IsRead
  <2>3. open[k] \in 0..255
    BY ElementOfSeq DEF Inputs
  <2>4. open[k] % 256 = open[k]
    BY <2>3, ByteKept
  <2> QED
    BY <2>2, <2>4
<1>4. open = Buffer(a, b)
  BY <1>2, <1>3, SeqEqual
<1>5. \A i \in 1..Len(text) : text[i] % 256 # 0
  BY DEF ToldApart
<1>6. \A k \in 1..Len(open) : open[k] # 0
  <2>1. \A k \in 1..Len(Buffer(a, b)) : Buffer(a, b)[k] # 0
    BY <1>1, <1>5, ReadHasNoZero
  <2> QED
    BY <1>4, <2>1
<1>7. SameTag(open, open)
  BY <1>2, <1>6, SameWithoutZero
<1>8. open # <<>>
  BY <1>2
<1> QED
  BY <1>4, <1>7, <1>8

\* The tag that begins a string was read, and is not the one that is open.
FirstTagRead ==
    first # NoFirst =>
        /\ branch = "STRING"
        /\ first[1] \in 1..Len(text) /\ first[2] \in 1..Len(text)
        /\ first[1] < first[2] /\ first[2] < at
        /\ open = <<>> \/ ~SameTag(open, Buffer(first[1], first[2]))

\* A later tag begins behind the first one.
TagsApart ==
    pc = "tag" => /\ from \in 1..Len(text) /\ from < at
                  /\ first # NoFirst => first[2] < from

StringFound ==
    branch = "STRING" /\ pc = "found" =>
        /\ first # NoFirst /\ first[2] < from
        /\ from \in 1..Len(text) /\ from < at - 1
        /\ SameTag(Buffer(from, at - 1), Buffer(first[1], first[2]))

QuotedInv ==
    /\ Inputs
    /\ at \in 1..Len(text) + 1
    /\ pc = "body" => first # NoFirst
    /\ pc \in {"arguments", "quoted", "word"} => branch = "CALL"
    /\ FirstTagRead
    /\ TagsApart
    /\ StringFound

LEMMA QuotedInit == Init => QuotedInv
<1> SUFFICES ASSUME Init PROVE QuotedInv
  OBVIOUS
<1>1. Len(text) \in Nat /\ text \in [1..Len(text) -> Nat]
  BY TextLength, CharactersAssumption DEF Init
<1>2. open \in Seq(0..255)
  <2>1. ASSUME NEW c \in DollarChars PROVE c % 256 \in 0..255
    BY CharactersAssumption
  <2>2. HeldTags \cup {<<>>} \subseteq Seq(0..255)
    <3>1. ASSUME NEW c \in 0..255 PROVE <<Dollar, c, Dollar>> \in Seq(0..255)
      BY DEF Dollar
    <3>2. <<Dollar, Dollar>> \in Seq(0..255) /\ <<>> \in Seq(0..255)
      BY DEF Dollar
    <3>3. ASSUME NEW t \in HeldTags PROVE t \in Seq(0..255)
      <4>1. CASE t = <<Dollar, Dollar>>
        BY <3>2, <4>1
      <4>2. CASE \E c \in DollarChars : t = <<Dollar, c % 256, Dollar>>
        <5>1. PICK c \in DollarChars : t = <<Dollar, c % 256, Dollar>>
          BY <4>2
        <5>2. c % 256 \in 0..255
          BY <2>1
        <5> QED
          BY <3>1, <5>1, <5>2
      <4> QED
        BY <4>1, <4>2 DEF HeldTags
    <3> QED
      BY <3>2, <3>3
  <2> QED
    BY <2>2 DEF Init
<1> QED
  BY <1>1, <1>2 DEF Init, QuotedInv, Inputs, FirstTagRead, TagsApart, StringFound

LEMMA QuotedStep == QuotedInv /\ [Next]_vars => QuotedInv'
<1> SUFFICES ASSUME QuotedInv, [Next]_vars PROVE QuotedInv'
  OBVIOUS
<1> USE DEF QuotedInv, Inputs, FirstTagRead, TagsApart, StringFound
<1>1. CASE UNCHANGED vars
  <2>1. \A a, b : Buffer(a, b)' = Buffer(a, b)
    BY <1>1 DEF Buffer, vars
  <2> QED
    BY <1>1, <2>1 DEF vars
<1>2. CASE Step /\ steps' = steps + 1 /\ UNCHANGED <<text, branch, open>>
  <2>1. \A a, b : Buffer(a, b)' = Buffer(a, b)
    BY <1>2 DEF Buffer
  <2>2. Lookahead # EOF => at \in 1..Len(text)
    BY DEF Lookahead, Atend
  <2>3. Advance => /\ at' \in 1..Len(text) + 1 /\ at <= at'
                   /\ at \in 1..Len(text) => at' = at + 1
    BY DEF Advance, Atend
  <2> USE <1>2, <2>1, <2>2, <2>3
  <2> USE DEF Answer, Found, NotFound, BeginTag, NoFirst, EOF, Dollar, Blank, Opens, Closes
  <2>4. CASE SkipBlanks
    BY <2>4 DEF SkipBlanks
  <2>5. CASE FirstTag
    <3>1. CASE Lookahead = Dollar
      BY <2>5, <3>1 DEF FirstTag
    <3>2. CASE Lookahead # Dollar
      BY <2>5, <3>2 DEF FirstTag
    <3> QED
      BY <3>1, <3>2
  <2>6. CASE TagCharacter
    BY <2>6 DEF TagCharacter
  <2>7. CASE FirstTagEnds
    <3>1. CASE Found /\ branch # "STRING"
      BY <2>7, <3>1 DEF FirstTagEnds
    <3>2. CASE NotFound
      BY <2>7, <3>2 DEF FirstTagEnds
    <3>3. CASE /\ branch = "STRING" /\ ~(open # <<>> /\ SameTag(open, Buffer(from, at)))
               /\ pc' = "body" /\ first' = <<from, at>> /\ Advance /\ UNCHANGED <<from, search>>
      BY <2>7, <3>3 DEF FirstTagEnds
    <3> QED
      BY <2>7, <3>1, <3>2, <3>3 DEF FirstTagEnds
  <2>8. CASE NextTagEnds
    <3>1. CASE SameTag(Buffer(from, at), Buffer(first[1], first[2])) /\ Found
      <4>1. at' - 1 = at /\ from < at
        BY <2>8 DEF NextTagEnds
      <4> QED
        BY <2>8, <3>1, <4>1 DEF NextTagEnds
    <3>2. CASE pc' = "body" /\ Advance /\ UNCHANGED <<from, first, search>>
      BY <2>8, <3>2 DEF NextTagEnds
    <3> QED
      BY <2>8, <3>1, <3>2 DEF NextTagEnds
  <2>9. CASE TagFails
    <3>1. CASE NotFound
      BY <2>9, <3>1 DEF TagFails
    <3>2. CASE first # NoFirst /\ pc' = "body" /\ Advance /\ UNCHANGED <<from, first, search>>
      BY <2>9, <3>2 DEF TagFails
    <3> QED
      BY <2>9, <3>1, <3>2 DEF TagFails
  <2>10. CASE Body
    <3>1. CASE NotFound
      BY <2>10, <3>1 DEF Body
    <3>2. CASE Lookahead = Dollar /\ BeginTag
      BY <2>10, <3>2 DEF Body
    <3>3. CASE Advance /\ UNCHANGED <<pc, from, first, search>>
      BY <2>10, <3>3 DEF Body
    <3> QED
      BY <2>10, <3>1, <3>2, <3>3 DEF Body
  <2>11. CASE OpenCall
    BY <2>11 DEF OpenCall
  <2>12. CASE Argument
    BY <2>12 DEF Argument
  <2>13. CASE GiveUp
    BY <2>13 DEF GiveUp
  <2>14. CASE Quoted
    BY <2>14 DEF Quoted
  <2>15. CASE WordCharacter
    BY <2>15 DEF WordCharacter
  <2>16. CASE WordEnds
    BY <2>16 DEF WordEnds
  <2> QED
    BY <2>4, <2>5, <2>6, <2>7, <2>8, <2>9, <2>10, <2>11, <2>12, <2>13, <2>14, <2>15, <2>16
    DEF Step
<1> QED
  BY <1>1, <1>2 DEF Next

\* A dollar string begins and ends with one tag, which is not the one that is open
\* around it (scanner.c:204-239), whatever the text, if its characters can be told
\* apart in a char (:46, :75).
THEOREM StringsAreQuoted == Spec => []StringIsQuoted
<1>1. QuotedInv => StringIsQuoted
  <2> SUFFICES ASSUME QuotedInv, branch = "STRING", pc = "found", ToldApart
               PROVE  /\ Raw(from, at - 1) = Raw(first[1], first[2])
                      /\ first[1] < first[2] /\ first[2] < from
                      /\ open # Raw(first[1], first[2])
    BY DEF StringIsQuoted
  <2> USE DEF QuotedInv, Inputs, FirstTagRead, StringFound
  <2>1. /\ first[1] \in 1..Len(text) /\ first[2] \in first[1]..Len(text)
        /\ from \in 1..Len(text) /\ at - 1 \in from..Len(text)
    OBVIOUS
  <2>2. Raw(from, at - 1) = Raw(first[1], first[2])
    BY <2>1, SameTagSameText
  <2>3. open # Raw(first[1], first[2])
    BY <2>1, OpenTagIsSame
  <2> QED
    BY <2>2, <2>3
<1> QED
  BY <1>1, QuotedInit, QuotedStep, PTL DEF Spec

-----------------------------------------------------------------------------
(***************************************************************************)
(* A closing tag is found: behind the first tag, wherever the scan has     *)
(* come, the tag stood only where another dollar masks it.                 *)
(***************************************************************************)

\* The dollar at a and what follows it up to b may be the beginning of a tag.
BeginsTag(a, b) == /\ a <= b /\ text[a] = Dollar
                   /\ \A k \in a+1..b : text[k] \notin {Dollar, Blank}

\* Up to here every place is known to be masked, or not to be the tag.
Searched == IF pc \in {"tag", "found"} THEN from - 1 ELSE at - 1

NoneMissedUpTo(n) == \A q \in first[2]+1..n : Recurs(q) => Masked(q)

MissedInv ==
    /\ \A k \in 1..Len(text) : text[k] # EOF
    /\ first # NoFirst => IsTag(first[1], first[2])
    /\ pc = "tag" => BeginsTag(from, at - 1)
    /\ pc = "blanks" => first = NoFirst
    /\ first # NoFirst => NoneMissedUpTo(Searched)
    /\ first # NoFirst /\ pc = "not found" => Atend

LEMMA MissedInit == Init => MissedInv
<1> SUFFICES ASSUME Init PROVE MissedInv
  OBVIOUS
<1>1. Len(text) \in Nat /\ text \in [1..Len(text) -> Nat \ {EOF}]
  <2>1. text \in Texts(CallChars, MaxCallText) \/ text \in Texts(DollarChars, MaxDollarText)
    BY DEF Init
  <2>2. CASE text \in Texts(CallChars, MaxCallText)
    BY <2>2, TextLength, CharactersAssumption
  <2>3. CASE text \in Texts(DollarChars, MaxDollarText)
    BY <2>3, TextLength, CharactersAssumption
  <2> QED
    BY <2>1, <2>2, <2>3
<1> QED
  BY <1>1 DEF Init, MissedInv

\* Nothing begins a tag that ends before the next dollar or blank.
LEMMA TagEndsAtDollar ==
    ASSUME NEW a \in Nat, NEW b \in Nat, NEW c \in Nat,
           IsTag(a, c), BeginsTag(a, b)
    PROVE  /\ b < c
           /\ text[b + 1] = Dollar => c = b + 1
           /\ text[b + 1] # Blank
<1>1. b < c
  <2> SUFFICES ASSUME c <= b PROVE FALSE
    OBVIOUS
  <2>1. c \in a+1..b
    BY DEF IsTag
  <2> QED
    BY <2>1 DEF IsTag, BeginsTag
<1>2. b + 1 # c => b + 1 \in a+1..c-1
  BY <1>1 DEF BeginsTag
<1> QED
  BY <1>1, <1>2 DEF IsTag, Dollar, Blank

\* What stays where text and first do.
LEMMA MissedStays ==
    ASSUME UNCHANGED <<text, first>>
    PROVE  /\ \A a, b : IsTag(a, b)' <=> IsTag(a, b)
           /\ \A a, b : BeginsTag(a, b)' <=> BeginsTag(a, b)
           /\ \A q : Recurs(q)' <=> Recurs(q)
           /\ \A q : Masked(q)' <=> Masked(q)
           /\ \A n : NoneMissedUpTo(n)' <=> NoneMissedUpTo(n)
<1>1. /\ \A a, b : Buffer(a, b)' = Buffer(a, b)
      /\ \A a, b : IsTag(a, b)' <=> IsTag(a, b)
  BY DEF Buffer, IsTag
<1>2. /\ \A q : Recurs(q)' <=> Recurs(q)
      /\ \A q : Masked(q)' <=> Masked(q)
  BY <1>1 DEF Recurs, Masked
<1> QED
  BY <1>1, <1>2 DEF BeginsTag, NoneMissedUpTo

\* The dollar at from begins no tag that is the first one, once the text up to b and
\* the character behind it are known not to complete it.
LEMMA NotHere ==
    ASSUME QuotedInv, MissedInv, first # NoFirst, NEW b \in Nat, b \in from..Len(text),
           from \in 1..Len(text), BeginsTag(from, b),
           \/ b = Len(text)
           \/ b < Len(text) /\ text[b + 1] = Blank
           \/ /\ b < Len(text) /\ text[b + 1] = Dollar
              /\ ~SameTag(Buffer(from, b + 1), Buffer(first[1], first[2]))
    PROVE  ~Recurs(from)
<1> SUFFICES ASSUME Recurs(from) PROVE FALSE
  OBVIOUS
<1>1. PICK e \in from+1..Len(text) :
        IsTag(from, e) /\ SameTag(Buffer(from, e), Buffer(first[1], first[2]))
  BY DEF Recurs
<1>2. Len(text) \in Nat /\ from \in Nat /\ e \in Nat
  <2>1. Len(text) \in Nat
    BY DEF QuotedInv, Inputs
  <2> QED
    BY <2>1
<1>3. /\ b < e
      /\ text[b + 1] = Dollar => e = b + 1
      /\ text[b + 1] # Blank
  BY <1>1, <1>2, TagEndsAtDollar
<1> QED
  BY <1>1, <1>2, <1>3

\* A place without a dollar is not where the first tag stands again.
LEMMA OnlyAtDollar ==
    ASSUME QuotedInv, MissedInv, first # NoFirst, NEW q \in 1..Len(text), text[q] # Dollar
    PROVE  ~Recurs(q)
  BY DEF Recurs, IsTag

\* A tag that begins at from and ends at b masks no place but b.
LEMMA SearchedBehindTag ==
    ASSUME QuotedInv, MissedInv, pc = "tag", first # NoFirst, NEW b \in from..Len(text),
           BeginsTag(from, b), ~Recurs(from)
    PROVE  /\ NoneMissedUpTo(b)
           /\ b < Len(text) /\ text[b + 1] = Dollar => NoneMissedUpTo(b + 1)
           /\ b < Len(text) /\ text[b + 1] # Dollar => NoneMissedUpTo(b + 1)
<1>0. /\ Len(text) \in Nat /\ from \in 1..Len(text) /\ first[2] \in 1..Len(text)
      /\ first[2] < from /\ text[from] = Dollar
  BY DEF QuotedInv, Inputs, TagsApart, FirstTagRead, BeginsTag
<1>1. NoneMissedUpTo(from - 1)
  BY DEF MissedInv, Searched
<1>2. ASSUME NEW q \in first[2]+1..b, Recurs(q) PROVE Masked(q)
  <2>1. CASE q \in first[2]+1..from-1
    BY <1>1, <1>2, <2>1 DEF NoneMissedUpTo
  <2>2. CASE q \in from+1..b
    <3>1. q \in 1..Len(text) /\ text[q] # Dollar
      BY <1>0, <2>2 DEF BeginsTag
    <3> QED
      BY <1>2, <3>1, OnlyAtDollar
  <2> QED
    BY <1>0, <1>2, <2>1, <2>2
<1>3. ASSUME b < Len(text), text[b + 1] = Dollar PROVE Masked(b + 1)
  <2>1. from \in first[2]+1..(b + 1)-1 /\ \A k \in from+1..(b + 1)-1 : k \in from+1..b
    BY <1>0
  <2> QED
    BY <1>0, <1>3, <2>1 DEF Masked, IsTag, BeginsTag
<1>4. ASSUME b < Len(text), text[b + 1] # Dollar PROVE ~Recurs(b + 1)
  <2>1. b + 1 \in 1..Len(text)
    BY <1>0, <1>4
  <2> QED
    BY <1>4, <2>1, OnlyAtDollar
<1>5. \A q \in first[2]+1..b+1 : q \in first[2]+1..b \/ q = b + 1
  BY <1>0
<1> QED
  BY <1>2, <1>3, <1>4, <1>5 DEF NoneMissedUpTo

\* What a step that keeps first has to show.
LEMMA MissedKept ==
    ASSUME MissedInv, UNCHANGED <<text, first>>,
           pc' = "tag" => BeginsTag(from', at' - 1),
           pc' = "blanks" => pc = "blanks",
           first # NoFirst => NoneMissedUpTo(Searched'),
           first # NoFirst /\ pc' = "not found" => Atend /\ at' = at
    PROVE  MissedInv'
<1>1. (pc = "tag" => BeginsTag(from, at - 1))'
  BY MissedStays
<1>2. (first # NoFirst => NoneMissedUpTo(Searched))'
  BY MissedStays DEF NoFirst
<1>3. (first # NoFirst /\ pc = "not found" => Atend)'
  BY DEF Atend, NoFirst
<1>4. (first # NoFirst => IsTag(first[1], first[2]))'
  BY MissedStays DEF MissedInv, NoFirst
<1>5. /\ (\A k \in 1..Len(text) : text[k] # EOF)'
      /\ (pc = "blanks" => first = NoFirst)'
  BY DEF MissedInv, NoFirst
<1> QED
  BY <1>1, <1>2, <1>3, <1>4, <1>5 DEF MissedInv

LEMMA MissedStep == QuotedInv /\ MissedInv /\ [Next]_vars => MissedInv'
<1> SUFFICES ASSUME QuotedInv, MissedInv, [Next]_vars PROVE MissedInv'
  OBVIOUS
<1>0. /\ Len(text) \in Nat /\ at \in 1..Len(text) + 1
      /\ pc = "tag" => from \in 1..Len(text) /\ from < at
      /\ first # NoFirst => /\ first[1] \in 1..Len(text) /\ first[2] \in 1..Len(text)
                            /\ first[1] < first[2] /\ first[2] < at /\ branch = "STRING"
  BY DEF QuotedInv, Inputs, FirstTagRead, TagsApart
<1>1. CASE UNCHANGED vars
  BY <1>1, MissedStays DEF vars, MissedInv, Searched, Atend, NoFirst
<1>2. CASE Step /\ steps' = steps + 1 /\ UNCHANGED <<text, branch, open>>
  <2>1. /\ ~Atend => at \in 1..Len(text) /\ Lookahead = text[at] /\ text[at] # EOF
        /\ Lookahead = EOF <=> Atend
        /\ Atend <=> at = Len(text) + 1
        /\ Advance => at' = IF Atend THEN at ELSE at + 1
        /\ at \in Nat /\ (at + 1) - 1 = at /\ (at - 1) + 1 = at
    <3>1. /\ at \in Nat /\ (at + 1) - 1 = at /\ (at - 1) + 1 = at
          /\ ~Atend => at \in 1..Len(text)
          /\ Atend <=> at = Len(text) + 1
      BY <1>0 DEF Atend
    <3>2. ~Atend => text[at] # EOF
      BY <3>1 DEF MissedInv
    <3> QED
      BY <3>1, <3>2 DEF Lookahead, Advance
  <2>2. BeginsTag(at, at) <=> text[at] = Dollar
    BY <2>1 DEF BeginsTag
  <2> USE <1>2
  <2> USE DEF Answer, Found, NotFound, BeginTag, EOF, Dollar, Blank
  <2>4. CASE SkipBlanks
    BY <2>4, MissedKept DEF SkipBlanks, MissedInv
  <2>5. CASE FirstTag
    <3>1. CASE Lookahead = Dollar
      BY <2>1, <2>2, <2>5, <3>1, MissedKept DEF FirstTag, MissedInv
    <3>2. CASE Lookahead # Dollar
      BY <2>5, <3>2, MissedKept DEF FirstTag, MissedInv
    <3> QED
      BY <3>1, <3>2
  <2>6. CASE TagCharacter
    <3>1. /\ pc' = "tag" /\ pc = "tag" /\ from' = from /\ UNCHANGED first /\ at' - 1 = at
          /\ text[at] \notin {Dollar, Blank} /\ at \in 1..Len(text)
      BY <2>1, <2>6 DEF TagCharacter
    <3>2. BeginsTag(from, at)
      BY <1>0, <3>1 DEF MissedInv, BeginsTag
    <3>3. Searched' = Searched
      BY <3>1 DEF Searched
    <3> QED
      BY <3>1, <3>2, <3>3, MissedKept DEF MissedInv
  <2>7. CASE FirstTagEnds
    <3>1. CASE UNCHANGED first /\ pc' \in {"found", "not found"}
      BY <2>7, <3>1, MissedKept DEF FirstTagEnds
    <3>2. CASE pc' = "body" /\ first' = <<from, at>> /\ at' = at + 1
      <4>1. IsTag(from, at)
        BY <1>0, <2>1, <2>7, <3>2 DEF FirstTagEnds, MissedInv, IsTag, BeginsTag
      <4>2. IsTag(first[1], first[2])'
        BY <3>2, <4>1 DEF IsTag
      <4>3. NoneMissedUpTo(Searched)'
        <5>1. first'[2] = at /\ Searched' = at
          BY <2>1, <3>2 DEF Searched
        <5>2. at+1..at = {}
          BY <2>1
        <5> QED
          BY <5>1, <5>2 DEF NoneMissedUpTo
      <4> QED
        BY <3>2, <4>2, <4>3 DEF MissedInv
    <3>3. Lookahead = Dollar => at' = at + 1 \/ ~Advance
      BY <2>1
    <3> QED
      BY <2>7, <3>1, <3>2, <3>3 DEF FirstTagEnds
  <2>8. CASE NextTagEnds
    <3>1. /\ pc = "tag" /\ first # NoFirst /\ UNCHANGED <<from, first>>
          /\ at \in 1..Len(text) /\ text[at] = Dollar /\ at' = at + 1
      BY <2>1, <2>8 DEF NextTagEnds
    <3>2. CASE SameTag(Buffer(from, at), Buffer(first[1], first[2]))
      <4>1. pc' = "found" /\ Searched' = Searched
        BY <2>8, <3>1, <3>2 DEF NextTagEnds, Searched
      <4> QED
        BY <3>1, <4>1, MissedKept DEF MissedInv
    <3>3. CASE ~SameTag(Buffer(from, at), Buffer(first[1], first[2]))
      <4>1. pc' = "body" /\ Searched' = at
        BY <2>1, <2>8, <3>1, <3>3 DEF NextTagEnds, Searched
      <4>3. at - 1 \in from..Len(text) /\ at - 1 < Len(text) /\ BeginsTag(from, at - 1)
        BY <1>0, <3>1 DEF MissedInv
      <4>4. ~Recurs(from)
        BY <1>0, <2>1, <3>1, <3>3, <4>3, NotHere
      <4>5. NoneMissedUpTo(at)
        BY <2>1, <3>1, <4>3, <4>4, SearchedBehindTag
      <4> QED
        BY <3>1, <4>1, <4>5, MissedKept
    <3> QED
      BY <3>2, <3>3
  <2>9. CASE TagFails
    <3>1. CASE first = NoFirst
      BY <2>9, <3>1, MissedKept DEF TagFails
    <3>2. CASE first # NoFirst
      <4>1. /\ pc = "tag" /\ pc' = "body" /\ UNCHANGED <<from, first>>
            /\ Searched' = IF Atend THEN at - 1 ELSE at
            /\ ~Atend => at \in 1..Len(text) /\ text[at] = Blank
        BY <2>1, <2>9, <3>2 DEF TagFails, Searched
      <4>2. at - 1 \in from..Len(text) /\ BeginsTag(from, at - 1)
        BY <1>0, <4>1 DEF MissedInv
      <4>3. Atend => at - 1 = Len(text)
        BY <1>0, <2>1
      <4>4. ~Atend => at - 1 < Len(text) /\ text[(at - 1) + 1] = Blank
        BY <1>0, <2>1, <4>1
      <4>5. ~Recurs(from)
        BY <1>0, <3>2, <4>1, <4>2, <4>3, <4>4, NotHere
      <4>6. NoneMissedUpTo(at - 1) /\ (~Atend => NoneMissedUpTo(at))
        BY <2>1, <3>2, <4>1, <4>2, <4>4, <4>5, SearchedBehindTag
      <4> QED
        BY <4>1, <4>6, MissedKept
    <3> QED
      BY <3>1, <3>2
  <2>10. CASE Body
    <3>0. pc = "body" /\ first # NoFirst /\ NoneMissedUpTo(at - 1)
      BY <2>10 DEF Body, QuotedInv, MissedInv, Searched
    <3>1. CASE Atend
      <4>1. Lookahead = EOF
        BY <2>1, <3>1
      <4>2. \/ Lookahead = EOF /\ NotFound
            \/ Lookahead = Dollar /\ BeginTag
            \/ Lookahead \notin {EOF, Dollar} /\ Advance /\ UNCHANGED <<pc, from, first, search>>
        BY ONLY <2>10, Zenon DEF Body
      <4>3. NotFound
        <5>1. Lookahead # Dollar /\ Lookahead \in {EOF, Dollar}
          BY ONLY <4>1 DEF EOF, Dollar
        <5> QED
          BY ONLY <4>2, <5>1, Zenon
      <4>4. pc' = "not found" /\ at' = at /\ UNCHANGED first
        BY ONLY <4>3, Zenon DEF NotFound, Answer
      <4> QED
        BY <3>0, <3>1, <4>4, MissedKept DEF Searched
    <3>2. CASE Lookahead = Dollar
      <4>1. pc' = "tag" /\ from' = at /\ at' - 1 = at /\ UNCHANGED first /\ text[at] = Dollar
        BY <2>1, <2>10, <3>2 DEF Body
      <4> QED
        BY <2>2, <3>0, <4>1, MissedKept DEF Searched
    <3>3. CASE Lookahead \notin {EOF, Dollar}
      <4>1. /\ pc' = "body" /\ at' - 1 = at /\ UNCHANGED first
            /\ at \in 1..Len(text) /\ text[at] # Dollar
        BY <2>1, <2>10, <3>0, <3>3 DEF Body
      <4>2. ~Recurs(at)
        BY <3>0, <4>1, OnlyAtDollar
      <4>3. NoneMissedUpTo(at)
        <5>1. \A q \in first[2]+1..at : q \in first[2]+1..at-1 \/ q = at
          BY <1>0, <3>0
        <5> QED
          BY <3>0, <4>2, <5>1 DEF NoneMissedUpTo
      <4> QED
        BY <4>1, <4>3, MissedKept DEF Searched
    <3> QED
      BY <2>1, <3>1, <3>2, <3>3
  <2>11. ASSUME first = NoFirst, UNCHANGED first, pc' \notin {"tag", "blanks"} PROVE MissedInv'
    BY <2>11, MissedKept
  <2>12. branch = "CALL" => first = NoFirst
    BY <1>0
  <2>13. CASE OpenCall
    BY <2>11, <2>12, <2>13 DEF OpenCall
  <2>14. CASE Argument
    BY <2>11, <2>12, <2>14 DEF Argument, QuotedInv
  <2>15. CASE GiveUp
    BY <2>11, <2>12, <2>15 DEF GiveUp, QuotedInv
  <2>16. CASE Quoted
    BY <2>11, <2>12, <2>16 DEF Quoted, QuotedInv
  <2>17. CASE WordCharacter
    BY <2>11, <2>12, <2>17 DEF WordCharacter, QuotedInv
  <2>18. CASE WordEnds
    BY <2>11, <2>12, <2>18 DEF WordEnds, QuotedInv
  <2> QED
    BY <2>4, <2>5, <2>6, <2>7, <2>8, <2>9, <2>10, <2>13, <2>14, <2>15, <2>16, <2>17, <2>18
    DEF Step
<1> QED
  BY <1>1, <1>2 DEF Next

(***************************************************************************)
(* Whatever the text, the scan passes over a closing tag only where another *)
(* dollar masks it (scanner.c:217-239).                                    *)
(***************************************************************************)
THEOREM StringsAreFound == Spec => []StringIsFound
<1>1. ASSUME QuotedInv, MissedInv, first # NoFirst, pc = "not found" PROVE at - 1 = Len(text)
  <2>1. Len(text) \in Nat /\ at \in 1..Len(text) + 1 /\ at > Len(text)
    BY <1>1 DEF QuotedInv, Inputs, MissedInv, Atend
  <2> QED
    BY <2>1
<1>2. QuotedInv /\ MissedInv => StringIsFound
  <2> SUFFICES ASSUME QuotedInv, MissedInv, first # NoFirst, pc \in {"found", "not found"}
               PROVE  NoneMissedUpTo(IF pc = "found" THEN from - 1 ELSE Len(text))
    BY DEF StringIsFound, NoneMissedUpTo
  <2>1. NoneMissedUpTo(Searched)
    BY DEF MissedInv
  <2>2. CASE pc = "found"
    BY <2>1, <2>2 DEF Searched
  <2>3. CASE pc = "not found"
    BY <1>1, <2>1, <2>3 DEF Searched
  <2> QED
    BY <2>2, <2>3
<1> QED
  BY <1>2, QuotedInit, QuotedStep, MissedInit, MissedStep, PTL DEF Spec

\* A dollar string begins and ends with one tag, and is found where it is: the two
\* parts of StringIsExact, for every text.
THEOREM StringsAreExact == Spec => []StringIsExact
<1>1. StringIsQuoted /\ StringIsFound => StringIsExact
  BY DEF StringIsExact
<1> QED
  BY <1>1, StringsAreQuoted, StringsAreFound, PTL

-----------------------------------------------------------------------------
(* The search for the IN of a call. *)

(***************************************************************************)
(* Induction over the natural numbers, for a set T of them: the least      *)
(* number outside of T would be minimal among finite sets of numbers.      *)
(***************************************************************************)
LEMMA Induction ==
    ASSUME NEW T \in SUBSET Nat, 0 \in T, \A n \in T : n + 1 \in T
    PROVE  T = Nat
<1> SUFFICES ASSUME Nat \ T # {} PROVE FALSE
  OBVIOUS
<1> DEFINE F == {1..n : n \in Nat \ T}
<1>1. F \subseteq FiniteSubsetsOf(Nat) /\ F # {}
  <2>1. \A n \in Nat \ T : IsFiniteSet(1..n) /\ 1..n \subseteq Nat
    BY FS_Interval
  <2> QED
    BY <2>1 DEF FiniteSubsetsOf
<1>2. \E x \in F : \A y \in F : <<y, x>> \notin StrictSubsetOrdering(Nat)
  <2> HIDE DEF F
  <2> QED
    BY <1>1, FS_StrictSubsetOrderingWellFounded, WFMin, ZenonT(30)
<1>3. PICK m \in Nat \ T : \A y \in F : <<y, 1..m>> \notin StrictSubsetOrdering(Nat)
  BY <1>2
<1>4. m - 1 \in Nat \ T
  BY <1>3
<1>5. /\ 1..m-1 \in SUBSET Nat /\ 1..m \in SUBSET Nat
      /\ 1..m-1 \subseteq 1..m /\ m \in 1..m /\ m \notin 1..m-1
  BY <1>3, <1>4
<1>6. <<1..m-1, 1..m>> \in StrictSubsetOrdering(Nat)
  BY <1>5 DEF StrictSubsetOrdering
<1> QED
  BY <1>3, <1>4, <1>6

\* What QuoteAt says of index i, with the quotes q in front of it.
QuoteStep(q, i) == IF i <= PastBlanks + 1 THEN 0 ELSE QuoteBehind(q[i-1], text[i-1])

LEMMA QuoteIs ==
    ASSUME Len(text) \in Nat, PastBlanks \in Nat \ {0}
    PROVE  \A i \in 1..Len(text) + 1 : QuoteAt[i] = QuoteStep(QuoteAt, i)
<1> DEFINE T == {n \in Nat : \E q : q = [i \in 1..n |-> QuoteStep(q, i)]}
<1>1. 0 \in T
  <2> DEFINE q == [i \in {} |-> 0]
  <2>1. q = [i \in 1..0 |-> QuoteStep(q, i)]
    OBVIOUS
  <2> QED
    BY <2>1
<1>2. ASSUME NEW n \in T PROVE n + 1 \in T
  <2>1. PICK q : q = [i \in 1..n |-> QuoteStep(q, i)]
    BY <1>2
  <2> DEFINE r == [i \in 1..n+1 |-> QuoteStep(q, i)]
  <2>2. ASSUME NEW i \in 1..n+1 PROVE QuoteStep(q, i) = QuoteStep(r, i)
    <3>1. CASE i <= PastBlanks + 1
      BY <3>1 DEF QuoteStep
    <3>2. CASE ~(i <= PastBlanks + 1)
      <4>1. i - 1 \in 1..n /\ i - 1 \in 1..n+1
        BY <3>2
      <4>2. q[i-1] = r[i-1]
        BY <2>1, <4>1
      <4> HIDE DEF r
      <4> QED
        BY <4>2 DEF QuoteStep
    <3> QED
      BY <3>1, <3>2
  <2>3. r = [i \in 1..n+1 |-> QuoteStep(r, i)]
    BY <2>2
  <2> HIDE DEF r
  <2> QED
    BY <2>3
<1>3. Len(text) + 1 \in T
  <2> HIDE DEF T
  <2>1. T \in SUBSET Nat
    BY DEF T
  <2> QED
    BY <1>1, <1>2, <2>1, Induction
<1>4. PICK q : q = [i \in 1..Len(text) + 1 |-> QuoteStep(q, i)]
  BY <1>3
<1>5. QuoteAt = CHOOSE f : f = [i \in 1..Len(text) + 1 |-> QuoteStep(f, i)]
  BY DEF QuoteAt, QuoteStep
<1>6. QuoteAt = [i \in 1..Len(text) + 1 |-> QuoteStep(QuoteAt, i)]
  BY <1>4, <1>5
<1> QED
  BY <1>6

Bares(c, k) == Bare(QuoteAt, c, k)
Level(k)    == Depth(QuoteAt, k)

LEMMA BaresAt ==
    ASSUME Len(text) \in Nat, PastBlanks \in 1..Len(text), NEW c,
           NEW k \in PastBlanks..Len(text)
    PROVE  /\ Bares(c, PastBlanks - 1) = 0
           /\ Bares(c, k - 1) \in Nat
           /\ Bares(c, k) = Bares(c, k - 1) + IF QuoteAt[k] = 0 /\ text[k] = c THEN 1 ELSE 0
<1> DEFINE B(i) == {j \in PastBlanks..i : QuoteAt[j] = 0 /\ text[j] = c}
<1>1. \A i \in Int : IsFiniteSet(B(i)) /\ Cardinality(B(i)) \in Nat
  <2> TAKE i \in Int
  <2>1. PastBlanks \in Int
    OBVIOUS
  <2>2. IsFiniteSet(PastBlanks..i)
    BY <2>1, FS_Interval
  <2>3. B(i) \in SUBSET (PastBlanks..i)
    OBVIOUS
  <2>4. IsFiniteSet(B(i))
    BY <2>2, <2>3, FS_Subset
  <2> QED
    BY <2>4, FS_CardinalityType
<1>2. \A i : Bares(c, i) = Cardinality(B(i))
  BY DEF Bares, Bare
<1>3. Bares(c, PastBlanks - 1) = 0
  <2>1. B(PastBlanks - 1) = {}
    OBVIOUS
  <2> QED
    BY <1>2, <2>1, FS_EmptySet
<1>4. k - 1 \in Int /\ IsFiniteSet(B(k-1)) /\ Cardinality(B(k-1)) \in Nat
  <2>1. k - 1 \in Int
    OBVIOUS
  <2> QED
    BY <1>1, <2>1
<1>5. Bares(c, k) = Cardinality(B(k)) /\ Bares(c, k - 1) = Cardinality(B(k-1))
  BY <1>2
<1>6. CASE QuoteAt[k] = 0 /\ text[k] = c
  <2>1. B(k) = B(k-1) \cup {k} /\ k \notin B(k-1)
    BY <1>6
  <2> HIDE DEF B
  <2>2. Cardinality(B(k-1) \cup {k}) = Cardinality(B(k-1)) + 1
    BY <1>4, <2>1, FS_AddElement
  <2> QED
    BY <1>3, <1>4, <1>5, <1>6, <2>1, <2>2
<1>7. CASE ~(QuoteAt[k] = 0 /\ text[k] = c)
  <2>1. B(k) = B(k-1)
    BY <1>7
  <2> HIDE DEF B
  <2> QED
    BY <1>3, <1>4, <1>5, <1>7, <2>1
<1> QED
  BY <1>6, <1>7

LEMMA LevelAt ==
    ASSUME Len(text) \in Nat, PastBlanks \in 1..Len(text), NEW k \in PastBlanks..Len(text)
    PROVE  /\ Level(PastBlanks - 1) = 0
           /\ Level(k - 1) \in Int /\ Level(k) \in Int
           /\ Level(k) = Level(k - 1) + IF QuoteAt[k] # 0 THEN 0
                                        ELSE IF text[k] = Opens THEN 1
                                        ELSE IF text[k] = Closes THEN -1 ELSE 0
<1>1. \A i : Level(i) = Bares(Opens, i) - Bares(Closes, i)
  BY DEF Level, Depth, Bares
<1>2. /\ Bares(Opens, PastBlanks - 1) = 0
      /\ Bares(Opens, k - 1) \in Nat
      /\ Bares(Opens, k) = Bares(Opens, k - 1) + IF QuoteAt[k] = 0 /\ text[k] = Opens THEN 1 ELSE 0
  BY BaresAt
<1>3. /\ Bares(Closes, PastBlanks - 1) = 0
      /\ Bares(Closes, k - 1) \in Nat
      /\ Bares(Closes, k) = Bares(Closes, k - 1) + IF QuoteAt[k] = 0 /\ text[k] = Closes THEN 1 ELSE 0
  BY BaresAt
<1>4. /\ Level(PastBlanks - 1) = Bares(Opens, PastBlanks - 1) - Bares(Closes, PastBlanks - 1)
      /\ Level(k - 1) = Bares(Opens, k - 1) - Bares(Closes, k - 1)
      /\ Level(k) = Bares(Opens, k) - Bares(Closes, k)
  BY <1>1
<1>5. Opens # Closes
  BY DEF Opens, Closes
<1> QED
  BY <1>2, <1>3, <1>4, <1>5

Searches == [depth : Int, scanned : Nat, quote : Nat, word : Seq(Nat)]

\* Where the search stands before index k, with the local variables r.
Passed(k, r) ==
    /\ PastBlanks \in 1..Len(text) /\ text[PastBlanks] = Opens
    /\ k \in PastBlanks + 1..Len(text) + 1
    /\ r \in Searches
    /\ \A j \in PastBlanks..k-1 : Level(j) > 0
    /\ Bares(Semicolon, k - 1) = 0
    /\ r.depth = Level(k - 1)
    /\ r.scanned <= k - 1 - PastBlanks

NoneBefore(k) == \A i \in 1..k-1 : ~IsoCallAt(i)

\* Between words and quotes;
Resting(k, r) ==
    /\ Passed(k, r) /\ QuoteAt[k] = 0 /\ NoneBefore(k)
    /\ k <= Len(text) /\ IsWordChar(text[k-1]) => ~IsWordChar(text[k])

\* in quotes;
InQuotes(k, r) ==
    /\ Passed(k, r) /\ NoneBefore(k)
    /\ r.quote \in Quotes /\ QuoteAt[k] = r.quote

\* in a word that begins at index s, whose first three characters are kept.
InWord(s, k, r) ==
    /\ Passed(k, r) /\ QuoteAt[k] = 0 /\ NoneBefore(s)
    /\ s \in PastBlanks + 1..k-1 /\ ~IsWordChar(text[s-1])
    /\ \A j \in s..k-1 : /\ IsWordChar(text[j]) /\ QuoteAt[j] = 0
                         /\ Level(j) = r.depth /\ Bares(Semicolon, j) = 0
    /\ Len(r.word) = IF k - s < 3 THEN k - s ELSE 3
    /\ \A j \in 1..Len(r.word) : r.word[j] = Lower(text[s + j - 1])

IsAnswered  == \E i \in 1..Len(text) : IsoCallAt(i)
NoneInReach == \A i \in 1..Len(text) : IsoCallAt(i) => i - PastBlanks > MaxScanned

CallInv ==
    branch = "CALL" =>
        /\ pc \notin {"tag", "body"}
        /\ pc = "blanks" => search = NoSearch /\ \A k \in 1..at-1 : text[k] = Blank
        /\ pc = "arguments" => Resting(at, search)
        /\ pc = "quoted" => InQuotes(at, search)
        /\ pc = "word" => \E s \in 1..Len(text) : InWord(s, at, search)
        /\ pc = "found" => IsAnswered
        /\ pc = "not found" => NoneInReach

LEMMA CallInit == Init => CallInv
  BY DEF Init, CallInv

LEMMA IsoCallIs ==
    ASSUME NEW i
    PROVE  IsoCallAt(i) <=>
             /\ PastBlanks < i /\ i < Len(text) /\ text[PastBlanks] = Opens
             /\ Lower(text[i]) = 105 /\ Lower(text[i+1]) = 110
             /\ ~IsWordChar(text[i-1])
             /\ i + 2 <= Len(text) => ~IsWordChar(text[i+2])
             /\ QuoteAt[i] = 0 /\ Level(i) = 1
             /\ \A k \in PastBlanks..i : Level(k) > 0
             /\ Bares(Semicolon, i) = 0
  BY DEF IsoCallAt, In, Level, Bares

LEMMA Letters ==
    ASSUME NEW c \in Nat
    PROVE  /\ Lower(c) \in {105, 110} => IsWordChar(c)
           /\ IsWordChar(c) => c \notin Quotes \cup {Opens, Closes, Semicolon, EOF}
           /\ Lower(c) \in Nat
  BY DEF Lower, IsWordChar, Dollar, Quotes, Opens, Closes, Semicolon, EOF

\* The search goes on behind a character.
LEMMA PassOne ==
    ASSUME Len(text) \in Nat, NEW k, NEW r, Passed(k, r), k <= Len(text),
           NEW n \in Searches, n.depth = Level(k), n.scanned <= r.scanned + 1,
           Level(k) > 0, QuoteAt[k] # 0 \/ text[k] # Semicolon
    PROVE  Passed(k + 1, n)
<1>1. /\ PastBlanks \in 1..Len(text) /\ text[PastBlanks] = Opens
      /\ k \in PastBlanks + 1..Len(text) /\ r.scanned \in Nat /\ n.scanned \in Nat
      /\ r.scanned <= k - 1 - PastBlanks
  BY DEF Passed, Searches
<1>2. \A j \in PastBlanks..k : Level(j) > 0
  <2> TAKE j \in PastBlanks..k
  <2>1. CASE j = k
    BY <2>1
  <2>2. CASE j # k
    <3>1. j \in PastBlanks..k-1
      BY <1>1, <2>2
    <3> QED
      BY <3>1 DEF Passed
  <2> QED
    BY <2>1, <2>2
<1>3. Bares(Semicolon, k) = 0
  <2>1. k \in PastBlanks..Len(text) /\ Bares(Semicolon, k - 1) = 0
    BY <1>1 DEF Passed
  <2>2. Bares(Semicolon, k) = Bares(Semicolon, k - 1)
                                + IF QuoteAt[k] = 0 /\ text[k] = Semicolon THEN 1 ELSE 0
    BY <1>1, <2>1, BaresAt
  <2> QED
    BY <2>1, <2>2
<1>4. k + 1 \in PastBlanks + 1..Len(text) + 1 /\ (k + 1) - 1 = k
      /\ n.scanned <= (k + 1) - 1 - PastBlanks
  BY <1>1
<1> QED
  BY <1>1, <1>2, <1>3, <1>4 DEF Passed

LEMMA QuoteNext ==
    ASSUME Len(text) \in Nat, NEW k, NEW r, Passed(k, r), k <= Len(text)
    PROVE  QuoteAt[k+1] = QuoteBehind(QuoteAt[k], text[k])
<1>1. PastBlanks \in Nat \ {0} /\ k + 1 \in 1..Len(text) + 1 /\ ~(k + 1 <= PastBlanks + 1)
      /\ (k + 1) - 1 = k
  BY DEF Passed
<1>2. QuoteAt[k+1] = QuoteStep(QuoteAt, k + 1)
  BY <1>1, QuoteIs
<1> QED
  BY <1>1, <1>2, Zenon DEF QuoteStep

LEMMA LevelNext ==
    ASSUME Len(text) \in Nat, NEW k, NEW r, Passed(k, r), k <= Len(text)
    PROVE  /\ r.depth \in Int /\ r.depth > 0
           /\ Level(k) = r.depth + IF QuoteAt[k] # 0 THEN 0
                                   ELSE IF text[k] = Opens THEN 1
                                   ELSE IF text[k] = Closes THEN -1 ELSE 0
<1>1. PastBlanks \in 1..Len(text) /\ k \in PastBlanks..Len(text)
      /\ k - 1 \in PastBlanks..k-1 /\ r.depth = Level(k - 1)
  BY DEF Passed
<1>2. r.depth \in Int /\ r.depth > 0
  BY <1>1 DEF Passed, Searches
<1> QED
  BY <1>1, <1>2, LevelAt

LEMMA NoneHere ==
    ASSUME NEW k \in Int, NoneBefore(k), ~IsoCallAt(k) PROVE NoneBefore(k + 1)
<1> SUFFICES ASSUME NEW i \in 1..k PROVE ~IsoCallAt(i)
  BY DEF NoneBefore
<1>1. i = k \/ i \in 1..k-1
  OBVIOUS
<1> QED
  BY <1>1 DEF NoneBefore

\* What the loop over the arguments makes of a character.
AfterArgument(r, c) ==
    [StepAt(c) EXCEPT !.quote = IF c \in Quotes THEN c ELSE @,
                      !.word = IF IsWordChar(c) THEN <<Lower(c)>> ELSE @]

LEMMA ArgumentGoesOn ==
    ASSUME Inputs, NEW k, Resting(k, search), k <= Len(text),
           text[k] # Semicolon, ~(text[k] = Closes /\ search.depth = 1),
           NEW n, n = AfterArgument(search, text[k])
    PROVE  /\ text[k] \in Quotes => InQuotes(k + 1, n)
           /\ text[k] \notin Quotes /\ IsWordChar(text[k]) => InWord(k, k + 1, n)
           /\ text[k] \notin Quotes /\ ~IsWordChar(text[k]) => Resting(k + 1, n)
<1> DEFINE c == text[k]
<1>1. /\ Len(text) \in Nat /\ Passed(k, search) /\ QuoteAt[k] = 0 /\ NoneBefore(k)
      /\ k \in PastBlanks + 1..Len(text) /\ PastBlanks \in 1..Len(text) /\ search \in Searches
  BY DEF Resting, Inputs, Passed
<1>2. c \in Nat
  BY <1>1 DEF Inputs
<1>3. Lower(c) \in Nat /\ (Lower(c) \in {105, 110} => IsWordChar(c))
      /\ (IsWordChar(c) => c \notin Quotes \cup {Opens, Closes, Semicolon, EOF})
  BY <1>2, Letters
<1>4. /\ n \in Searches /\ n.scanned = search.scanned + 1
      /\ n.depth = IF c = Opens THEN search.depth + 1
                   ELSE IF c = Closes THEN search.depth - 1 ELSE search.depth
      /\ c \in Quotes => n.quote = c
      /\ IsWordChar(c) => n.word = <<Lower(c)>>
  <2> DEFINE m == StepAt(c)
             q == IF c \in Quotes THEN c ELSE m.quote
             w == IF IsWordChar(c) THEN <<Lower(c)>> ELSE m.word
             d == IF c = Opens THEN search.depth + 1
                  ELSE IF c = Closes THEN search.depth - 1 ELSE search.depth
  <2>0. d \in Int /\ search.scanned + 1 \in Nat /\ search \in Searches
    BY <1>1 DEF Searches
  <2>1. m \in Searches /\ m.scanned = search.scanned + 1 /\ m.depth = d
    <3>1. m = [search EXCEPT !.scanned = search.scanned + 1, !.depth = d]
      BY DEF StepAt
    <3> HIDE DEF d, m
    <3> QED
      BY <2>0, <3>1 DEF Searches
  <2>2. n = [m EXCEPT !.quote = q, !.word = w]
    BY DEF AfterArgument
  <2>3. q \in Nat /\ w \in Seq(Nat)
    BY <1>2, <1>3, <2>1 DEF Searches
  <2>4. (c \in Quotes => q = c) /\ (IsWordChar(c) => w = <<Lower(c)>>)
    OBVIOUS
  <2> HIDE DEF m, q, w
  <2>5. n \in Searches
    BY <2>1, <2>2, <2>3 DEF Searches
  <2>6. n.scanned = m.scanned /\ n.depth = m.depth /\ n.quote = q /\ n.word = w
    BY <2>1, <2>2 DEF Searches
  <2> QED
    BY <2>1, <2>4, <2>5, <2>6
<1>5. search.depth \in Int /\ search.depth > 0 /\ n.depth = Level(k) /\ Level(k) > 0
  BY <1>1, <1>4, LevelNext DEF Opens, Closes
<1>6. Passed(k + 1, n)
  <2>1. n.scanned <= search.scanned + 1
    BY <1>1, <1>4 DEF Searches
  <2> HIDE DEF c
  <2> QED
    BY <1>1, <1>4, <1>5, <2>1, PassOne
<1>7. QuoteAt[k+1] = QuoteBehind(0, c)
  BY <1>1, QuoteNext
<1>8. (k + 1) - 1 = k /\ k \in Int
  BY <1>1
<1>9. CASE c \in Quotes
  <2>1. ~IsWordChar(c)
    BY <1>3, <1>9
  <2>2. NoneBefore(k + 1)
    BY <1>1, <1>3, <1>8, <2>1, NoneHere, IsoCallIs
  <2> QED
    BY <1>4, <1>6, <1>7, <1>9, <2>1, <2>2 DEF InQuotes, QuoteBehind
<1>10. CASE c \notin Quotes /\ IsWordChar(c)
  <2>1. ~IsWordChar(text[k-1])
    BY <1>1, <1>10 DEF Resting
  <2>2. Bares(Semicolon, k) = 0
    BY <1>6, <1>8 DEF Passed
  <2>3. \A j \in k..(k+1)-1 : IsWordChar(text[j]) /\ QuoteAt[j] = 0
                            /\ Level(j) = n.depth /\ Bares(Semicolon, j) = 0
    BY <1>1, <1>5, <1>8, <1>10, <2>2
  <2>4. Len(n.word) = 1 /\ n.word[1] = Lower(c) /\ (k + 1) - k = 1 /\ (k + 1) - 1 = k
    <3>1. n.word = <<Lower(c)>>
      BY <1>4, <1>10
    <3>2. \A x : Len(<<x>>) = 1 /\ <<x>>[1] = x
      OBVIOUS
    <3>3. (k + 1) - k = 1
      BY <1>8
    <3> QED
      BY <1>8, <3>1, <3>2, <3>3
  <2>5. Len(n.word) = IF (k + 1) - k < 3 THEN (k + 1) - k ELSE 3
    BY <2>4
  <2>6. \A j \in 1..Len(n.word) : n.word[j] = Lower(text[k + j - 1])
    <3> TAKE j \in 1..Len(n.word)
    <3>1. j = 1 /\ k + j - 1 = k
      BY <1>8, <2>4
    <3> QED
      BY <2>4, <3>1
  <2>7. k \in PastBlanks + 1..(k+1)-1
    BY <1>1, <1>8
  <2> QED
    BY <1>1, <1>6, <1>7, <1>10, <2>1, <2>3, <2>5, <2>6, <2>7 DEF InWord, QuoteBehind
<1>11. CASE c \notin Quotes /\ ~IsWordChar(c)
  <2>1. NoneBefore(k + 1)
    BY <1>1, <1>3, <1>8, <1>11, NoneHere, IsoCallIs
  <2> QED
    BY <1>6, <1>7, <1>8, <1>11, <2>1 DEF Resting, QuoteBehind
<1> QED
  BY <1>9, <1>10, <1>11

LEMMA QuotedGoesOn ==
    ASSUME Inputs, NEW k, NEW r, InQuotes(k, r), k <= Len(text)
    PROVE  IF text[k] = r.quote THEN Resting(k + 1, r) ELSE InQuotes(k + 1, r)
<1>1. /\ Len(text) \in Nat /\ Passed(k, r) /\ NoneBefore(k) /\ k \in 1..Len(text)
      /\ r \in Searches /\ r.quote \in Quotes /\ QuoteAt[k] = r.quote
  BY DEF InQuotes, Inputs, Passed
<1>2. QuoteAt[k] # 0 /\ r.scanned <= r.scanned + 1
  BY <1>1 DEF Quotes, Searches
<1>3. Level(k) = r.depth /\ Level(k) > 0
  BY <1>1, <1>2, LevelNext
<1>4. Passed(k + 1, r)
  BY <1>1, <1>2, <1>3, PassOne
<1>5. QuoteAt[k+1] = IF text[k] = r.quote THEN 0 ELSE r.quote
  BY <1>1, <1>2, QuoteNext DEF QuoteBehind
<1>6. NoneBefore(k + 1)
  BY <1>1, <1>2, NoneHere, IsoCallIs
<1>7. CASE text[k] = r.quote
  <2>1. text[k] \in Nat /\ (k + 1) - 1 = k
    BY <1>1 DEF Inputs
  <2>2. ~IsWordChar(text[(k + 1) - 1])
    BY <1>1, <1>7, <2>1, Letters
  <2> QED
    BY <1>4, <1>5, <1>6, <1>7, <2>2 DEF Resting
<1>8. CASE text[k] # r.quote
  BY <1>1, <1>4, <1>5, <1>6, <1>8 DEF InQuotes
<1> QED
  BY <1>7, <1>8

LEMMA WordGoesOn ==
    ASSUME Inputs, NEW s, NEW k, NEW r, InWord(s, k, r), k <= Len(text), IsWordChar(text[k]),
           NEW n, n = [r EXCEPT !.word = IF Len(@) < 3 THEN Append(@, Lower(text[k])) ELSE @]
    PROVE  InWord(s, k + 1, n)
<1>1. /\ Len(text) \in Nat /\ Passed(k, r) /\ k \in 1..Len(text) /\ PastBlanks \in 1..Len(text)
      /\ r \in Searches /\ QuoteAt[k] = 0 /\ NoneBefore(s)
      /\ s \in PastBlanks + 1..k-1 /\ ~IsWordChar(text[s-1])
  BY DEF InWord, Inputs, Passed
<1>2. text[k] \in Nat /\ Lower(text[k]) \in Nat
      /\ text[k] \notin Quotes \cup {Opens, Closes, Semicolon, EOF}
  <2>1. text[k] \in Nat
    BY <1>1 DEF Inputs
  <2> QED
    BY <2>1, Letters
<1>3. /\ n \in Searches /\ n.depth = r.depth /\ n.scanned = r.scanned
      /\ n.word = IF Len(r.word) < 3 THEN Append(r.word, Lower(text[k])) ELSE r.word
  <2> DEFINE w == IF Len(r.word) < 3 THEN Append(r.word, Lower(text[k])) ELSE r.word
  <2>1. w \in Seq(Nat)
    <3>1. r.word \in Seq(Nat)
      BY <1>1 DEF Searches
    <3> QED
      BY <1>2, <3>1
  <2>2. n = [r EXCEPT !.word = w]
    OBVIOUS
  <2> HIDE DEF w
  <2>3. n \in Searches /\ n.depth = r.depth /\ n.scanned = r.scanned /\ n.word = w
    BY <1>1, <2>1, <2>2 DEF Searches
  <2> QED
    BY <2>3 DEF w
<1>4. Level(k) = r.depth /\ Level(k) > 0
  BY <1>1, <1>2, LevelNext
<1>5. Passed(k + 1, n)
  <2>1. n.scanned <= r.scanned + 1
    BY <1>1, <1>3 DEF Searches
  <2> QED
    BY <1>1, <1>2, <1>3, <1>4, <2>1, PassOne
<1>6. QuoteAt[k+1] = 0
  <2>1. QuoteAt[k+1] = QuoteBehind(0, text[k])
    BY <1>1, QuoteNext
  <2> QED
    BY <1>2, <2>1 DEF QuoteBehind
<1>7. (k + 1) - 1 = k
  BY <1>1
<1>8. \A j \in s..(k + 1) - 1 : /\ IsWordChar(text[j]) /\ QuoteAt[j] = 0
                               /\ Level(j) = n.depth /\ Bares(Semicolon, j) = 0
  <2> TAKE j \in s..(k + 1) - 1
  <2>1. CASE j = k
    <3>1. Bares(Semicolon, k) = 0
      BY <1>5, <1>7 DEF Passed
    <3> QED
      BY <1>1, <1>3, <1>4, <2>1, <3>1
  <2>2. CASE j # k
    <3>1. j \in s..k-1
      BY <1>1, <1>7, <2>2
    <3> QED
      BY <1>3, <3>1 DEF InWord
  <2> QED
    BY <2>1, <2>2
<1>9. /\ r.word \in Seq(Nat)
      /\ Len(r.word) = IF k - s < 3 THEN k - s ELSE 3
      /\ \A j \in 1..Len(r.word) : r.word[j] = Lower(text[s + j - 1])
  BY <1>1 DEF InWord, Searches
<1>10. /\ Len(n.word) = IF (k + 1) - s < 3 THEN (k + 1) - s ELSE 3
       /\ \A j \in 1..Len(n.word) : n.word[j] = Lower(text[s + j - 1])
  <2>1. CASE Len(r.word) < 3
    <3>1. Len(r.word) = k - s /\ k - s < 3 /\ k - s \in Nat
      BY <1>1, <1>9, <2>1
    <3>2. n.word = Append(r.word, Lower(text[k]))
      BY <1>3, <2>1
    <3>3. /\ Len(n.word) = (k - s) + 1
          /\ n.word[(k - s) + 1] = Lower(text[k])
          /\ \A j \in 1..k - s : n.word[j] = r.word[j]
      BY <1>2, <1>9, <3>1, <3>2
    <3>4. Len(n.word) = (k + 1) - s
      BY <1>1, <3>3
    <3>5. ASSUME NEW j \in 1..Len(n.word) PROVE n.word[j] = Lower(text[s + j - 1])
      <4>1. CASE j = (k - s) + 1
        <5>1. s + j - 1 = k
          BY <1>1, <4>1
        <5> QED
          BY <3>3, <4>1, <5>1
      <4>2. CASE j # (k - s) + 1
        <5>1. j \in Int /\ 1 <= j /\ j <= (k - s) + 1
          BY <3>1, <3>3
        <5>2. j \in 1..k - s
          BY <3>1, <4>2, <5>1
        <5> QED
          <6>1. n.word[j] = r.word[j]
            BY <3>3, <5>2
          <6>2. j \in 1..Len(r.word)
            BY <3>1, <5>2
          <6> QED
            BY <1>9, <6>1, <6>2
      <4> QED
        BY <4>1, <4>2
    <3>6. Len(n.word) = IF (k + 1) - s < 3 THEN (k + 1) - s ELSE 3
      <4>1. (k + 1) - s \in Int /\ (k + 1) - s <= 3
        BY <1>1, <3>1
      <4> QED
        BY <3>4, <4>1
    <3> QED
      BY <3>5, <3>6, Zenon
  <2>2. CASE ~(Len(r.word) < 3)
    <3>1. Len(r.word) = 3 /\ ~((k + 1) - s < 3) /\ n.word = r.word
      BY <1>1, <1>3, <1>9, <2>2
    <3> QED
      BY <1>9, <3>1
  <2> QED
    BY <2>1, <2>2
<1>11. s \in PastBlanks + 1..(k + 1) - 1
  BY <1>1
<1> QED
  BY <1>1, <1>5, <1>6, <1>8, <1>10, <1>11 DEF InWord

LEMMA WordIsOver ==
    ASSUME Inputs, NEW s, NEW k, NEW r, InWord(s, k, r),
           k <= Len(text) => ~IsWordChar(text[k])
    PROVE  IF r.depth = 1 /\ r.word = In THEN IsoCallAt(s) ELSE Resting(k, r)
<1>1. /\ Len(text) \in Nat /\ Passed(k, r) /\ QuoteAt[k] = 0 /\ NoneBefore(s)
      /\ PastBlanks \in 1..Len(text) /\ text[PastBlanks] = Opens
      /\ k \in PastBlanks + 1..Len(text) + 1 /\ r \in Searches
      /\ s \in PastBlanks + 1..k-1 /\ ~IsWordChar(text[s-1])
      /\ \A j \in PastBlanks..k-1 : Level(j) > 0
  BY DEF InWord, Inputs, Passed
<1>2. \A j \in s..k-1 : /\ IsWordChar(text[j]) /\ QuoteAt[j] = 0
                       /\ Level(j) = r.depth /\ Bares(Semicolon, j) = 0
  BY DEF InWord
<1>3. /\ Len(r.word) = IF k - s < 3 THEN k - s ELSE 3
      /\ \A j \in 1..Len(r.word) : r.word[j] = Lower(text[s + j - 1])
      /\ r.word \in Seq(Nat)
  BY <1>1 DEF InWord, Searches
<1>4. Len(In) = 2 /\ In[1] = 105 /\ In[2] = 110
  BY DEF In
<1>5. s \in s..k-1 /\ k \in Int /\ s \in Int /\ k - s \in Nat
  BY <1>1
<1>6. CASE r.depth = 1 /\ r.word = In
  <2>1. k = s + 2
    <3>1. (IF k - s < 3 THEN k - s ELSE 3) = 2
      BY <1>3, <1>4, <1>6
    <3> QED
      BY <1>5, <3>1
  <2>2. Lower(text[s]) = 105 /\ Lower(text[s+1]) = 110
    <3>1. 1 \in 1..Len(r.word) /\ 2 \in 1..Len(r.word)
      BY <1>4, <1>6
    <3>2. r.word[1] = Lower(text[s + 1 - 1]) /\ r.word[2] = Lower(text[s + 2 - 1])
      BY <1>3, <3>1
    <3>3. s + 1 - 1 = s /\ s + 2 - 1 = s + 1
      BY <1>1
    <3> QED
      BY <1>4, <1>6, <3>2, <3>3
  <2>3. PastBlanks < s /\ s < Len(text) /\ (s + 2 <= Len(text) => ~IsWordChar(text[s+2]))
    BY <1>1, <2>1
  <2>4. \A j \in PastBlanks..s : Level(j) > 0
    BY <1>1
  <2> QED
    BY <1>1, <1>2, <1>5, <1>6, <2>2, <2>3, <2>4, IsoCallIs
<1>7. CASE ~(r.depth = 1 /\ r.word = In)
  <2>1. ~IsoCallAt(s)
    <3> SUFFICES ASSUME IsoCallAt(s) PROVE FALSE
      OBVIOUS
    <3>1. /\ s < Len(text) /\ Lower(text[s]) = 105 /\ Lower(text[s+1]) = 110
          /\ s + 2 <= Len(text) => ~IsWordChar(text[s+2])
          /\ Level(s) = 1
      BY IsoCallIs
    <3>2. r.depth = 1
      BY <1>2, <1>5, <3>1
    <3>3. text[s+1] \in Nat /\ IsWordChar(text[s+1])
      <4>1. text[s+1] \in Nat
        BY <1>1, <3>1 DEF Inputs
      <4> QED
        BY <3>1, <4>1, Letters
    <3>4. k # s + 1
      BY <1>1, <3>1, <3>3
    <3>5. ~(k > s + 2)
      <4> SUFFICES ASSUME k > s + 2 PROVE FALSE
        OBVIOUS
      <4>1. s + 2 \in s..k-1 /\ s + 2 <= Len(text)
        BY <1>1
      <4> QED
        BY <1>2, <3>1, <4>1
    <3>6. k = s + 2
      BY <1>1, <3>4, <3>5
    <3>7. Len(r.word) = 2
      BY <1>1, <1>3, <3>6
    <3>8. r.word[1] = Lower(text[s + 1 - 1]) /\ r.word[2] = Lower(text[s + 2 - 1])
      BY <1>3, <3>7
    <3>9. s + 1 - 1 = s /\ s + 2 - 1 = s + 1
      BY <1>1
    <3>10. In \in Seq(Nat)
      BY DEF In
    <3>11. \A j \in 1..Len(r.word) : r.word[j] = In[j]
      <4> TAKE j \in 1..Len(r.word)
      <4>1. j = 1 \/ j = 2
        BY <3>7
      <4> QED
        BY <1>4, <3>1, <3>8, <3>9, <4>1
    <3>12. Len(r.word) = Len(In)
      BY <1>4, <3>7
    <3>13. r.word = In
      BY <1>3, <3>10, <3>11, <3>12, SeqEqual, Zenon
    <3> QED
      BY <1>7, <3>2, <3>13
  <2>2. NoneBefore(k)
    <3> SUFFICES ASSUME NEW i \in 1..k-1, IsoCallAt(i) PROVE FALSE
      BY DEF NoneBefore
    <3>1. CASE i < s
      <4>1. i \in 1..s-1
        BY <1>1, <3>1
      <4> QED
        BY <1>1, <4>1 DEF NoneBefore
    <3>2. CASE i = s
      BY <2>1, <3>2
    <3>3. CASE i > s
      <4>1. i - 1 \in s..k-1
        BY <1>1, <3>3
      <4> QED
        BY <1>2, <4>1, IsoCallIs
    <3> QED
      BY <1>1, <3>1, <3>2, <3>3
  <2> QED
    BY <1>1, <1>7, <2>2 DEF Resting
<1> QED
  BY <1>6, <1>7

LEMMA GivesUpRightly ==
    ASSUME Inputs, NEW k, NEW r, Resting(k, r),
           \/ k > Len(text)
           \/ r.scanned >= MaxScanned
           \/ k <= Len(text) /\ text[k] = Semicolon
           \/ k <= Len(text) /\ text[k] = Closes /\ r.depth = 1
    PROVE  NoneInReach
<1>1. /\ Len(text) \in Nat /\ Passed(k, r) /\ QuoteAt[k] = 0 /\ NoneBefore(k)
      /\ PastBlanks \in 1..Len(text) /\ k \in PastBlanks + 1..Len(text) + 1
      /\ r.scanned \in Nat /\ r.scanned <= k - 1 - PastBlanks
  BY DEF Resting, Inputs, Passed, Searches
<1>2. MaxScanned \in Nat
  BY CharactersAssumption
<1> SUFFICES ASSUME NEW i \in 1..Len(text), IsoCallAt(i), ~(i - PastBlanks > MaxScanned)
             PROVE  FALSE
  BY DEF NoneInReach
<1>3. i >= k
  <2> SUFFICES ASSUME i < k PROVE FALSE
    BY <1>1
  <2>1. i \in 1..k-1
    BY <1>1
  <2> QED
    BY <1>1, <2>1 DEF NoneBefore
<1>4. k <= Len(text) /\ k \in PastBlanks..i /\ k \in PastBlanks..Len(text)
      /\ ~(r.scanned >= MaxScanned)
  BY <1>1, <1>2, <1>3
<1>5. /\ Lower(text[i]) = 105 /\ \A j \in PastBlanks..i : Level(j) > 0
      /\ Bares(Semicolon, i) = 0
  BY IsoCallIs
<1>6. CASE text[k] = Semicolon
  <2> DEFINE S == {j \in PastBlanks..i : QuoteAt[j] = 0 /\ text[j] = Semicolon}
  <2>1. k \in S
    BY <1>1, <1>4, <1>6
  <2>2. PastBlanks \in Int /\ i \in Int
    BY <1>1
  <2>3. IsFiniteSet(PastBlanks..i)
    BY <2>2, FS_Interval
  <2>4. S \in SUBSET (PastBlanks..i)
    OBVIOUS
  <2>5. IsFiniteSet(S)
    BY <2>3, <2>4, FS_Subset
  <2>6. Cardinality(S) = 0
    BY <1>5 DEF Bares, Bare
  <2> HIDE DEF S
  <2> QED
    BY <2>1, <2>5, <2>6, FS_EmptySet
<1>7. CASE text[k] = Closes /\ r.depth = 1
  <2>1. Level(k) = 0
    BY <1>1, <1>4, <1>7, LevelNext DEF Opens, Closes
  <2>2. Level(k) > 0
    BY <1>4, <1>5
  <2> QED
    BY <2>1, <2>2
<1> QED
  BY <1>1, <1>4, <1>6, <1>7

LEMMA QuotesClosedAtEnd ==
    ASSUME Inputs, NEW k, NEW r, InQuotes(k, r), k > Len(text)
    PROVE  NoneInReach
<1>1. Len(text) \in Nat /\ NoneBefore(k) /\ k \in 1..Len(text) + 1
  BY DEF InQuotes, Passed, Inputs
<1>2. k - 1 = Len(text)
  BY <1>1
<1> QED
  BY <1>1, <1>2 DEF NoneBefore, NoneInReach

LEMMA PastBlanksIs ==
    ASSUME Len(text) \in Nat, NEW p \in 1..Len(text) + 1,
           \A k \in 1..p-1 : text[k] = Blank,
           p <= Len(text) => text[p] # Blank
    PROVE  PastBlanks = p
<1> DEFINE IsIt(x) == /\ x \in 1..Len(text) + 1
                      /\ \A k \in 1..x-1 : text[k] = Blank
                      /\ x <= Len(text) => text[x] # Blank
<1>1. IsIt(p)
  OBVIOUS
<1>2. PastBlanks = CHOOSE x \in 1..Len(text) + 1 : IsIt(x)
  BY DEF PastBlanks
<1>3. IsIt(PastBlanks)
  <2> HIDE DEF IsIt
  <2> QED
    BY <1>1, <1>2
<1>4. ~(PastBlanks < p) /\ ~(p < PastBlanks)
  <2>1. ASSUME PastBlanks < p PROVE FALSE
    <3>1. PastBlanks \in 1..p-1 /\ PastBlanks <= Len(text)
      BY <1>3, <2>1
    <3> QED
      BY <1>3, <3>1
  <2>2. ASSUME p < PastBlanks PROVE FALSE
    <3>1. p \in 1..PastBlanks-1 /\ p <= Len(text)
      BY <1>3, <2>2
    <3> QED
      BY <1>3, <3>1
  <2> QED
    BY <2>1, <2>2
<1> QED
  BY <1>3, <1>4

LEMMA CallBegins ==
    ASSUME Inputs, NEW k \in 1..Len(text) + 1,
           \A j \in 1..k-1 : text[j] = Blank,
           k <= Len(text) => text[k] # Blank
    PROVE  /\ k <= Len(text) /\ text[k] = Opens
                => Resting(k + 1, [NoSearch EXCEPT !.depth = 1])
           /\ ~(k <= Len(text) /\ text[k] = Opens) => NoneInReach
<1>1. Len(text) \in Nat /\ PastBlanks = k
  BY PastBlanksIs DEF Inputs
<1>2. ASSUME k <= Len(text), text[k] = Opens
      PROVE  Resting(k + 1, [NoSearch EXCEPT !.depth = 1])
  <2> DEFINE n == [NoSearch EXCEPT !.depth = 1]
  <2>1. n \in Searches /\ n.depth = 1 /\ n.scanned = 0
    <3>1. <<>> \in Seq(Nat)
      OBVIOUS
    <3>2. n = [depth |-> 1, scanned |-> 0, quote |-> 0, word |-> <<>>]
      BY DEF NoSearch
    <3> HIDE DEF n
    <3> QED
      BY <3>1, <3>2 DEF Searches
  <2>2. PastBlanks \in 1..Len(text) /\ k \in PastBlanks..Len(text) /\ (k + 1) - 1 = k
        /\ k \in 1..Len(text) + 1 /\ k + 1 \in 1..Len(text) + 1
    BY <1>1, <1>2
  <2>3. QuoteAt[k] = 0 /\ QuoteAt[k+1] = 0
    <3>1. QuoteAt[k] = QuoteStep(QuoteAt, k) /\ QuoteAt[k+1] = QuoteStep(QuoteAt, k + 1)
      BY <1>1, <2>2, QuoteIs
    <3>2. k <= PastBlanks + 1 /\ k + 1 <= PastBlanks + 1
      BY <1>1, <2>2
    <3> QED
      BY <3>1, <3>2 DEF QuoteStep
  <2>4. Level(k) = 1
    BY <1>1, <1>2, <2>2, <2>3, LevelAt
  <2>5. Bares(Semicolon, k) = 0
    <3>1. text[k] # Semicolon
      BY <1>2 DEF Opens, Semicolon
    <3> QED
      BY <1>1, <2>2, <3>1, BaresAt
  <2>6. Passed(k + 1, n)
    <3>1. \A j \in PastBlanks..(k + 1) - 1 : Level(j) > 0
      BY <1>1, <2>2, <2>4
    <3>2. k + 1 \in PastBlanks + 1..Len(text) + 1 /\ n.scanned <= (k + 1) - 1 - PastBlanks
      BY <1>1, <2>1, <2>2
    <3> HIDE DEF n
    <3> QED
      BY <1>1, <1>2, <2>1, <2>2, <2>4, <2>5, <3>1, <3>2 DEF Passed
  <2>7. NoneBefore(k + 1)
    BY <1>1, IsoCallIs DEF NoneBefore
  <2>8. ~IsWordChar(text[(k + 1) - 1])
    <3>1. text[(k + 1) - 1] = Opens
      BY <1>2, <2>2, Zenon
    <3>2. ~IsWordChar(Opens)
      BY DEF IsWordChar, Opens, Dollar
    <3> QED
      BY <3>1, <3>2, Zenon
  <2> HIDE DEF n
  <2>9. Resting(k + 1, n)
    BY <2>3, <2>6, <2>7, <2>8 DEF Resting
  <2> QED
    BY <2>9 DEF n
<1>3. ASSUME ~(k <= Len(text) /\ text[k] = Opens) PROVE NoneInReach
  <2> SUFFICES ASSUME NEW i \in 1..Len(text), IsoCallAt(i) PROVE FALSE
    BY DEF NoneInReach
  <2> QED
    BY <1>1, <1>3, IsoCallIs
<1> QED
  BY <1>2, <1>3

-----------------------------------------------------------------------------
(* The text stays as it is. *)

LEMMA TextStays == ASSUME UNCHANGED text PROVE PastBlanks' = PastBlanks /\ QuoteAt' = QuoteAt
<1>1. PastBlanks' = PastBlanks
  BY DEF PastBlanks
<1> QED
  BY <1>1 DEF QuoteAt

LEMMA CountsStay ==
    ASSUME UNCHANGED text, NEW k
    PROVE  /\ \A c : Bares(c, k)' = Bares(c, k)
           /\ Level(k)' = Level(k)
<1>1. PastBlanks' = PastBlanks /\ QuoteAt' = QuoteAt
  BY TextStays
<1>2. \A c : Bares(c, k)' = Bares(c, k)
  BY <1>1 DEF Bares, Bare
<1> QED
  BY <1>1, <1>2 DEF Level, Depth, Bares

LEMMA IsoCallStays == ASSUME UNCHANGED text, NEW i PROVE IsoCallAt(i)' <=> IsoCallAt(i)
  BY TextStays DEF IsoCallAt, Depth, Bare

LEMMA PassedStays ==
    ASSUME UNCHANGED text, Passed(at', search') PROVE Passed(at, search)'
  BY TextStays, CountsStay DEF Passed

LEMMA SearchStays ==
    ASSUME UNCHANGED text
    PROVE  /\ Resting(at', search') => Resting(at, search)'
           /\ InQuotes(at', search') => InQuotes(at, search)'
           /\ \A s : InWord(s, at', search') => InWord(s, at, search)'
           /\ IsAnswered => IsAnswered'
           /\ NoneInReach => NoneInReach'
  BY TextStays, CountsStay, IsoCallStays, PassedStays
  DEF Resting, InQuotes, InWord, IsAnswered, NoneInReach, NoneBefore

LEMMA CallStays ==
    ASSUME CallInv, UNCHANGED <<text, branch, pc, at, search>> PROVE CallInv'
  BY SearchStays DEF CallInv

LEMMA CallKept ==
    ASSUME UNCHANGED <<text, branch>>, pc' \notin {"tag", "body"},
           pc' = "blanks" => search' = NoSearch /\ \A k \in 1..at'-1 : text[k] = Blank,
           pc' = "arguments" => Resting(at', search'),
           pc' = "quoted" => InQuotes(at', search'),
           pc' = "word" => \E s \in 1..Len(text) : InWord(s, at', search'),
           pc' = "found" => IsAnswered,
           pc' = "not found" => NoneInReach
    PROVE  CallInv'
  BY SearchStays DEF CallInv, NoSearch, Blank

LEMMA CallStep == QuotedInv /\ MissedInv /\ CallInv /\ [Next]_vars => CallInv'
<1> SUFFICES ASSUME QuotedInv, MissedInv, CallInv, [Next]_vars PROVE CallInv'
  OBVIOUS
<1>1. CASE UNCHANGED vars
  BY <1>1, CallStays DEF vars
<1>2. CASE Step /\ steps' = steps + 1 /\ UNCHANGED <<text, branch, open>>
  <2>1. CASE branch # "CALL"
    BY <1>2, <2>1 DEF CallInv
  <2>2. CASE branch = "CALL"
    <3>1. /\ Inputs /\ Len(text) \in Nat /\ at \in 1..Len(text) + 1
          /\ \A k \in 1..Len(text) : text[k] \in Nat /\ text[k] # EOF
      BY DEF QuotedInv, Inputs, MissedInv
    <3>2. /\ pc \notin {"tag", "body"}
          /\ pc = "blanks" => search = NoSearch /\ \A k \in 1..at-1 : text[k] = Blank
          /\ pc = "arguments" => Resting(at, search)
          /\ pc = "quoted" => InQuotes(at, search)
          /\ pc = "word" => \E s \in 1..Len(text) : InWord(s, at, search)
      BY <2>2 DEF CallInv
    <3>3. ~Atend => at <= Len(text) /\ Lookahead = text[at] /\ (Advance => at' = at + 1)
      BY <3>1 DEF Atend, Lookahead, Advance
    <3>4. Atend => at > Len(text) /\ Lookahead = EOF
      BY <3>1 DEF Atend, Lookahead
    <3>5. UNCHANGED <<text, branch>>
      BY <1>2
    <3>6. CASE SkipBlanks
      <4>1. pc = "blanks" /\ pc' = "blanks" /\ search' = search /\ Lookahead = Blank /\ Advance
        BY <3>6 DEF SkipBlanks
      <4>2. ~Atend
        BY <3>4, <4>1 DEF EOF, Blank
      <4>3. \A k \in 1..at'-1 : text[k] = Blank
        <5>1. at' - 1 = at
          BY <3>1, <3>3, <4>1, <4>2
        <5>2. \A k \in 1..at : k = at \/ k \in 1..at-1
          BY <3>1
        <5> QED
          BY <3>2, <3>3, <4>1, <4>2, <5>1, <5>2
      <4> QED
        BY <3>2, <3>5, <4>1, <4>3, CallKept
    <3>7. CASE OpenCall
      <4>1. pc = "blanks" /\ Lookahead # Blank
        BY <3>7 DEF OpenCall
      <4>2. at <= Len(text) => text[at] # Blank
        BY <3>1, <3>3, <4>1 DEF Atend
      <4>3. CASE Lookahead = Opens
        <5>1. ~Atend /\ text[at] = Opens
          BY <3>3, <3>4, <4>3 DEF EOF, Opens
        <5>2. pc' = "arguments" /\ search' = [NoSearch EXCEPT !.depth = 1] /\ at' = at + 1
          BY <3>2, <3>3, <3>7, <4>1, <4>3, <5>1 DEF OpenCall
        <5>3. Resting(at', search')
          BY <3>1, <3>2, <3>3, <4>1, <4>2, <5>1, <5>2, CallBegins
        <5> QED
          BY <3>5, <5>2, <5>3, CallKept
      <4>4. CASE Lookahead # Opens
        <5>1. ~(at <= Len(text) /\ text[at] = Opens)
          BY <3>1, <3>3, <4>4 DEF Atend
        <5>2. NoneInReach
          BY <3>1, <3>2, <4>1, <4>2, <5>1, CallBegins
        <5>3. pc' = "not found"
          BY <3>7, <4>4 DEF OpenCall, NotFound, Answer
        <5> QED
          BY <3>5, <5>2, <5>3, CallKept
      <4> QED
        BY <4>3, <4>4
    <3>8. CASE Argument
      <4>1. /\ pc = "arguments" /\ ~Atend /\ Lookahead # Semicolon
            /\ ~(Lookahead = Closes /\ search.depth = 1)
            /\ pc' = IF Lookahead \in Quotes THEN "quoted"
                     ELSE IF IsWordChar(Lookahead) THEN "word" ELSE "arguments"
            /\ search' = AfterArgument(search, Lookahead)
            /\ Advance
        BY <3>8 DEF Argument, AfterArgument
      <4>2. at <= Len(text) /\ Lookahead = text[at] /\ at' = at + 1
        BY <3>3, <4>1
      <4>3. /\ Lookahead \in Quotes => InQuotes(at', search')
            /\ Lookahead \notin Quotes /\ IsWordChar(Lookahead) => InWord(at, at', search')
            /\ Lookahead \notin Quotes /\ ~IsWordChar(Lookahead) => Resting(at', search')
        BY <3>1, <3>2, <4>1, <4>2, ArgumentGoesOn
      <4>4. at \in 1..Len(text)
        BY <3>1, <4>2
      <4> QED
        BY <3>5, <4>1, <4>3, <4>4, CallKept
    <3>9. CASE GiveUp
      <4>1. /\ pc = "arguments" /\ pc' = "not found"
            /\ \/ Atend \/ search.scanned >= MaxScanned \/ Lookahead = Semicolon
               \/ Lookahead = Closes /\ search.depth = 1
        BY <3>9 DEF GiveUp, NotFound, Answer
      <4>2. \/ at > Len(text) \/ search.scanned >= MaxScanned
            \/ at <= Len(text) /\ text[at] = Semicolon
            \/ at <= Len(text) /\ text[at] = Closes /\ search.depth = 1
        BY <3>3, <3>4, <4>1
      <4>3. NoneInReach
        BY <3>1, <3>2, <4>1, <4>2, GivesUpRightly
      <4> QED
        BY <3>5, <4>1, <4>3, CallKept
    <3>10. CASE Quoted
      <4>1. CASE Atend
        <5>1. pc = "quoted" /\ pc' = "not found"
          BY <3>10, <4>1 DEF Quoted, NotFound, Answer
        <5>2. NoneInReach
          BY <3>1, <3>2, <3>4, <4>1, <5>1, QuotesClosedAtEnd
        <5> QED
          BY <3>5, <5>1, <5>2, CallKept
      <4>2. CASE ~Atend
        <5>1. /\ pc = "quoted" /\ search' = search /\ at' = at + 1
              /\ pc' = IF text[at] = search.quote THEN "arguments" ELSE "quoted"
          BY <3>3, <3>10, <4>2 DEF Quoted
        <5>2. IF text[at] = search.quote THEN Resting(at', search') ELSE InQuotes(at', search')
          BY <3>1, <3>2, <3>3, <4>2, <5>1, QuotedGoesOn
        <5> QED
          BY <3>5, <5>1, <5>2, CallKept
      <4> QED
        BY <4>1, <4>2
    <3>11. CASE WordCharacter
      <4>1. /\ pc = "word" /\ pc' = "word" /\ IsWordChar(Lookahead) /\ Advance
            /\ search' = [search EXCEPT !.word = IF Len(@) < 3 THEN Append(@, Lower(Lookahead))
                                                 ELSE @]
        BY <3>11 DEF WordCharacter
      <4>2. ~Atend
        <5>1. ~IsWordChar(EOF)
          BY DEF IsWordChar, EOF, Dollar
        <5> QED
          BY <3>4, <4>1, <5>1, Zenon
      <4>3. PICK s \in 1..Len(text) : InWord(s, at, search)
        BY <3>2, <4>1
      <4>4. InWord(s, at', search')
        <5>1. at <= Len(text) /\ IsWordChar(text[at]) /\ at' = at + 1
          BY <3>3, <4>1, <4>2
        <5>2. search' = [search EXCEPT !.word = IF Len(@) < 3 THEN Append(@, Lower(text[at]))
                                                ELSE @]
          BY <3>3, <4>1, <4>2
        <5>3. InWord(s, at + 1, search')
          BY <3>1, <4>3, <5>1, <5>2, WordGoesOn
        <5> QED
          BY <5>1, <5>3
      <4> QED
        BY <3>5, <4>1, <4>4, CallKept
    <3>12. CASE WordEnds
      <4>1. /\ pc = "word" /\ ~IsWordChar(Lookahead) /\ at' = at /\ search' = search
            /\ pc' = IF search.depth = 1 /\ search.word = In THEN "found" ELSE "arguments"
        BY <3>12 DEF WordEnds
      <4>2. PICK s \in 1..Len(text) : InWord(s, at, search)
        BY <3>2, <4>1
      <4>3. at <= Len(text) => ~IsWordChar(text[at])
        BY <3>1, <3>3, <4>1 DEF Atend
      <4>4. IF search.depth = 1 /\ search.word = In THEN IsoCallAt(s) ELSE Resting(at', search')
        BY <3>1, <4>1, <4>2, <4>3, WordIsOver
      <4>5. IsoCallAt(s) => IsAnswered
        BY DEF IsAnswered
      <4> QED
        BY <3>5, <4>1, <4>4, <4>5, CallKept
    <3>13. ~FirstTag
      BY <2>2 DEF FirstTag
    <3>14. ~(TagCharacter \/ FirstTagEnds \/ NextTagEnds \/ TagFails \/ Body)
      BY <3>2 DEF TagCharacter, FirstTagEnds, NextTagEnds, TagFails, Body
    <3> QED
      BY <1>2, <3>6, <3>7, <3>8, <3>9, <3>10, <3>11, <3>12, <3>13, <3>14 DEF Step
  <2> QED
    BY <2>1, <2>2
<1> QED
  BY <1>1, <1>2 DEF Next

(***************************************************************************)
(* The answer at a call is yes only where the call has an IN between its   *)
(* own parentheses, and it is yes wherever one begins within the bound,    *)
(* whatever parentheses, quotes and words are in front of it               *)
(* (scanner.c:97-155).                                                     *)
(***************************************************************************)
THEOREM CallsAreAnswered == Spec => []CallAnswered
<1>1. CallInv => CallAnswered
  BY DEF CallInv, CallAnswered, IsAnswered, NoneInReach
<1> QED
  BY <1>1, QuotedInit, QuotedStep, MissedInit, MissedStep, CallInit, CallStep, PTL DEF Spec
-----------------------------------------------------------------------------
(***************************************************************************)
(* The lexemes of ExternalScanner.  A C string is compared up to its first *)
(* 0, so that it stands for all that strcmp finds equal to it.             *)
(***************************************************************************)

LEMMA LeastNumber ==
    ASSUME NEW S \in SUBSET Nat, S # {}
    PROVE  \E k \in S : \A j \in S : k <= j
<1> SUFFICES ASSUME \A k \in S : \E j \in S : ~(k <= j) PROVE FALSE
  OBVIOUS
<1> DEFINE T == {n \in Nat : \A j \in S : n <= j}
<1>1. 0 \in T
  OBVIOUS
<1>2. ASSUME NEW n \in T PROVE n + 1 \in T
  <2>1. n \notin S
    BY <1>2
  <2>2. \A j \in S : n <= j /\ n # j /\ j \in Nat
    BY <1>2, <2>1
  <2> QED
    BY <2>2
<1>3. T = Nat
  <2>1. T \in SUBSET Nat
    OBVIOUS
  <2> HIDE DEF T
  <2> QED
    BY <1>1, <1>2, <2>1, Induction
<1>4. PICK m \in S : m \in Nat
  OBVIOUS
<1>5. m + 1 \in T
  BY <1>3
<1> QED
  BY <1>4, <1>5

\* The index at which the C string in s ends.
End(s) == CHOOSE k \in Terminators(s) : \A j \in Terminators(s) : k <= j

LEMMA EndIs ==
    ASSUME NEW s \in Seq(Nat)
    PROVE  /\ End(s) \in Terminators(s) /\ \A j \in Terminators(s) : End(s) <= j
           /\ End(s) \in 1..Len(s) + 1
           /\ \A j \in 1..End(s)-1 : j \in 1..Len(s) /\ s[j] # 0
           /\ CString(s) = SubSeq(s, 1, End(s) - 1)
           /\ CString(s) \in Seq(Nat) /\ Len(CString(s)) = End(s) - 1
           /\ \A j \in 1..End(s)-1 : CString(s)[j] = s[j]
<1>1. Len(s) \in Nat /\ Terminators(s) \in SUBSET Nat /\ Len(s) + 1 \in Terminators(s)
      /\ Terminators(s) \subseteq 1..Len(s) + 1
  BY DEF Terminators
<1>2. \E k \in Terminators(s) : \A j \in Terminators(s) : k <= j
  BY <1>1, LeastNumber
<1>3. End(s) \in Terminators(s) /\ \A j \in Terminators(s) : End(s) <= j
  BY <1>2 DEF End
<1>4. End(s) \in 1..Len(s) + 1
  BY <1>1, <1>3
<1>5. ASSUME NEW j \in 1..End(s)-1 PROVE j \in 1..Len(s) /\ s[j] # 0
  <2>1. j \in 1..Len(s) /\ ~(End(s) <= j)
    BY <1>1, <1>4
  <2>2. j \notin Terminators(s)
    BY <1>3, <2>1
  <2> QED
    BY <1>1, <2>1, <2>2 DEF Terminators
<1>6. CString(s) = SubSeq(s, 1, End(s) - 1)
  BY DEF CString, End
<1>7. CString(s) \in Seq(Nat) /\ Len(CString(s)) = End(s) - 1
      /\ \A j \in 1..End(s)-1 : CString(s)[j] = s[j]
  BY <1>1, <1>4, <1>6
<1> QED
  BY <1>3, <1>4, <1>5, <1>6, <1>7

\* Two buffers are the same tag to strcmp if they hold the same C string.
LEMMA SameTagSameString ==
    ASSUME NEW s \in Seq(Nat), NEW t \in Seq(Nat)
    PROVE  SameTag(s, t) <=> CString(s) = CString(t)
<1> DEFINE a == End(s)
           b == End(t)
<1>1. /\ a \in Terminators(s) /\ \A j \in Terminators(s) : a <= j
      /\ b \in Terminators(t) /\ \A j \in Terminators(t) : b <= j
      /\ a \in 1..Len(s) + 1 /\ b \in 1..Len(t) + 1
  BY EndIs, Zenon
<1>0. Len(s) \in Nat /\ Len(t) \in Nat
  OBVIOUS
<1>2. /\ CString(s) \in Seq(Nat) /\ Len(CString(s)) = a - 1
      /\ CString(t) \in Seq(Nat) /\ Len(CString(t)) = b - 1
      /\ \A j \in 1..a-1 : CString(s)[j] = s[j]
      /\ \A j \in 1..b-1 : CString(t)[j] = t[j]
  BY EndIs
<1> HIDE DEF a, b
<1>3. ASSUME SameTag(s, t) PROVE CString(s) = CString(t)
  <2>1. PICK k \in Terminators(s) \cap Terminators(t) : \A j \in 1..k-1 : s[j] = t[j]
    BY <1>3 DEF SameTag
  <2>2. k \in Nat /\ a <= k /\ b <= k /\ k <= Len(s) + 1 /\ k <= Len(t) + 1
    BY <1>0, <1>1, <2>1 DEF Terminators
  <2>3. a <= b
    <3> SUFFICES ASSUME b < a PROVE FALSE
      BY <1>0, <1>1
    <3>1. b \in 1..k-1 /\ b \in 1..Len(s) /\ b \in 1..Len(t)
      BY <1>0, <1>1, <2>2
    <3>2. t[b] = 0
      BY <1>0, <1>1, <3>1 DEF Terminators
    <3>3. b \in Terminators(s)
      BY <1>0, <1>1, <2>1, <3>1, <3>2 DEF Terminators
    <3> QED
      BY <1>0, <1>1, <3>3
  <2>4. b <= a
    <3> SUFFICES ASSUME a < b PROVE FALSE
      BY <1>0, <1>1
    <3>1. a \in 1..k-1 /\ a \in 1..Len(s) /\ a \in 1..Len(t)
      BY <1>0, <1>1, <2>2
    <3>2. s[a] = 0
      BY <1>0, <1>1, <3>1 DEF Terminators
    <3>3. a \in Terminators(t)
      BY <1>0, <1>1, <2>1, <3>1, <3>2 DEF Terminators
    <3> QED
      BY <1>0, <1>1, <3>3
  <2>5. a = b /\ \A j \in 1..a-1 : j \in 1..k-1
    BY <1>0, <1>1, <2>2, <2>3, <2>4
  <2>6. \A j \in 1..Len(CString(s)) : CString(s)[j] = CString(t)[j]
    BY <1>2, <2>1, <2>5
  <2> QED
    BY <1>2, <2>5, <2>6, SeqEqual
<1>4. ASSUME CString(s) = CString(t) PROVE SameTag(s, t)
  <2>1. a = b
    BY <1>0, <1>1, <1>2, <1>4
  <2>2. \A j \in 1..a-1 : s[j] = t[j]
    BY <1>2, <1>4, <2>1
  <2> QED
    BY <1>0, <1>1, <2>1, <2>2 DEF SameTag
<1> QED
  BY <1>3, <1>4

\* A tag ends at one place.
LEMMA OneEnd ==
    ASSUME NEW a \in Nat, NEW b \in Nat, NEW c \in Nat, IsTag(a, b), IsTag(a, c)
    PROVE  b = c
<1>1. ~(b < c)
  <2> SUFFICES ASSUME b < c PROVE FALSE
    OBVIOUS
  <2>1. b \in a+1..c-1
    BY DEF IsTag
  <2> QED
    BY <2>1 DEF IsTag
<1>2. ~(c < b)
  <2> SUFFICES ASSUME c < b PROVE FALSE
    OBVIOUS
  <2>1. c \in a+1..b-1
    BY DEF IsTag
  <2> QED
    BY <2>1 DEF IsTag
<1> QED
  BY <1>1, <1>2

LEMMA SeqWithin ==
    ASSUME NEW S, NEW T, NEW s \in Seq(T), \A k \in 1..Len(s) : s[k] \in S
    PROVE  s \in Seq(S)
<1>1. Len(s) \in Nat /\ s \in [1..Len(s) -> T]
  OBVIOUS
<1>2. s \in [1..Len(s) -> S]
  BY <1>1
<1> QED
  BY <1>1, <1>2, SeqDef

Strings == Seq(0..255) \ {NoLexeme}

\* A C string that is not empty at once.
LEMMA StringIs ==
    ASSUME NEW s \in Seq(0..255), Len(s) > 0, s[1] = Dollar
    PROVE  s \in Seq(Nat) /\ CString(s) \in Strings
<1>1. s \in Seq(Nat)
  <2>1. \A k \in 1..Len(s) : s[k] \in Nat
    <3> TAKE k \in 1..Len(s)
    <3>1. s[k] \in 0..255
      BY ElementOfSeq
    <3>2. 0..255 \subseteq Nat
      OBVIOUS
    <3> QED
      BY <3>1, <3>2, Zenon
  <2> QED
    BY <2>1, SeqWithin
<1>2. 1 \notin Terminators(s)
  BY DEF Terminators, Dollar
<1>3. End(s) \in 2..Len(s) + 1 /\ CString(s) = SubSeq(s, 1, End(s) - 1)
  <2>1. End(s) \in Terminators(s) /\ End(s) \in 1..Len(s) + 1
    BY <1>1, EndIs
  <2>2. CString(s) = SubSeq(s, 1, End(s) - 1)
    BY <1>1, EndIs
  <2> QED
    BY <1>1, <1>2, <2>1, <2>2
<1>4. CString(s) \in Seq(0..255) /\ Len(CString(s)) # 0
  <2>1. Len(s) \in Nat /\ End(s) - 1 \in 1..Len(s) /\ End(s) - 1 \in Nat
    BY <1>3
  <2>2. CString(s) \in Seq(Nat) /\ Len(CString(s)) = End(s) - 1
        /\ \A k \in 1..End(s)-1 : CString(s)[k] = s[k]
    BY <1>1, EndIs
  <2>3. \A k \in 1..Len(CString(s)) : CString(s)[k] \in 0..255
    <3> TAKE k \in 1..Len(CString(s))
    <3>1. k \in 1..Len(s) /\ CString(s)[k] = s[k]
      BY <2>1, <2>2
    <3> QED
      BY <3>1, ElementOfSeq
  <2> QED
    BY <2>1, <2>2, <2>3, SeqWithin
<1> QED
  BY <1>1, <1>4 DEF Strings, NoLexeme

\* What a tag of the text is to ExternalScanner.
LEMMA TagIs ==
    ASSUME Inputs, NEW a \in 1..Len(text), NEW b \in a+1..Len(text), IsTag(a, b)
    PROVE  Buffer(a, b) \in Seq(Nat) /\ TagTo(a, b) \in Strings
<1>1. IsRead(a, b)
  BY BufferIs DEF Inputs
<1>2. /\ Buffer(a, b) \in Seq(Nat) /\ Len(Buffer(a, b)) = b - a + 1
      /\ \A k \in 1..b - a + 1 : /\ a + k - 1 \in 1..Len(text)
                                 /\ Buffer(a, b)[k] = text[a + k - 1] % 256
  BY <1>1 DEF IsRead
<1>3. \A k \in 1..Len(Buffer(a, b)) : Buffer(a, b)[k] \in 0..255
  <2> TAKE k \in 1..Len(Buffer(a, b))
  <2>1. a + k - 1 \in 1..Len(text) /\ Buffer(a, b)[k] = text[a + k - 1] % 256
    BY <1>2
  <2>2. text[a + k - 1] \in Nat
    BY <2>1 DEF Inputs
  <2>3. \A x \in Nat : x % 256 \in 0..255
    OBVIOUS
  <2> QED
    BY <2>1, <2>2, <2>3
<1>4. Buffer(a, b) \in Seq(0..255)
  BY <1>2, <1>3, SeqWithin
<1>5. Len(Buffer(a, b)) > 0 /\ Buffer(a, b)[1] = Dollar
  <2>1. b - a + 1 > 0 /\ 1 \in 1..b - a + 1 /\ a + 1 - 1 = a
    BY DEF Inputs
  <2> QED
    BY <1>2, <2>1 DEF IsTag, Dollar
<1> QED
  BY <1>2, <1>4, <1>5, StringIs DEF TagTo

LEMMA LexemeIs ==
    ASSUME Inputs, NEW i \in 1..Len(text)
    PROVE  /\ \A e \in i+1..Len(text) : IsTag(i, e) => Lexemes[i] = TagTo(i, e)
           /\ (\A e \in i+1..Len(text) : ~IsTag(i, e)) => Lexemes[i] = NoLexeme
<1> DEFINE ends == {e \in i+1..Len(text) : IsTag(i, e)}
<1>1. Lexemes[i] = IF ends = {} THEN NoLexeme ELSE TagTo(i, CHOOSE e \in ends : TRUE)
  BY DEF Lexemes
<1>2. ASSUME NEW e \in i+1..Len(text), IsTag(i, e) PROVE Lexemes[i] = TagTo(i, e)
  <2>1. e \in ends /\ (CHOOSE x \in ends : TRUE) \in ends
    BY <1>2
  <2>2. (CHOOSE x \in ends : TRUE) = e
    <3> DEFINE c == CHOOSE x \in ends : TRUE
    <3>1. c \in i+1..Len(text) /\ IsTag(i, c)
      BY <2>1
    <3> HIDE DEF c
    <3>2. i \in Nat /\ e \in Nat /\ c \in Nat
      BY <3>1 DEF Inputs
    <3>3. c = e
      BY <1>2, <3>1, <3>2, OneEnd
    <3> QED
      BY <3>3 DEF c
  <2> HIDE DEF ends
  <2> QED
    BY <1>1, <2>1, <2>2
<1>3. (\A e \in i+1..Len(text) : ~IsTag(i, e)) => Lexemes[i] = NoLexeme
  BY <1>1
<1> QED
  BY <1>2, <1>3

LEMMA LexemesLength == Inputs => Len(Lexemes) = Len(text)
<1> SUFFICES ASSUME Inputs PROVE Len(Lexemes) = Len(text)
  OBVIOUS
<1> DEFINE S == {Lexemes[i] : i \in 1..Len(text)}
<1>1. Len(text) \in Nat /\ Lexemes \in [1..Len(text) -> S]
  BY DEF Inputs, Lexemes
<1> QED
  BY <1>1

\* ExternalScanner sees a tag where one begins.
LEMMA TagAtIs ==
    ASSUME Inputs, NEW p \in 1..Len(text) + 1
    PROVE  Lexed!IsTagAt(Lexemes, p) <=> \E e \in p+1..Len(text) : IsTag(p, e)
<1>1. Len(text) \in Nat /\ Len(Lexemes) = Len(text)
  BY LexemesLength DEF Inputs
<1>2. ASSUME NEW e \in p+1..Len(text), IsTag(p, e) PROVE Lexed!IsTagAt(Lexemes, p)
  <2>1. p \in 1..Len(text)
    BY <1>1
  <2>2. Lexemes[p] = TagTo(p, e) /\ TagTo(p, e) \in Strings
    BY <1>2, <2>1, LexemeIs, TagIs
  <2> QED
    BY <1>1, <2>1, <2>2 DEF Lexed!IsTagAt, Strings
<1>3. ASSUME Lexed!IsTagAt(Lexemes, p) PROVE \E e \in p+1..Len(text) : IsTag(p, e)
  <2>1. p \in 1..Len(text) /\ Lexemes[p] # NoLexeme
    BY <1>1, <1>3 DEF Lexed!IsTagAt
  <2> QED
    BY <2>1, LexemeIs
<1> QED
  BY <1>2, <1>3

-----------------------------------------------------------------------------
(***************************************************************************)
(* A call of scan begins behind the blanks, with a tag that fits the       *)
(* branch: what it needs of its past to answer as ExternalScanner.         *)
(***************************************************************************)

\* The branch was chosen by the tag of the payload, which begins with a dollar.
OpenFits ==
    /\ branch \in DOMAIN TokenOf \cup {"CALL"}
    /\ branch = "START" => open = <<>>
    /\ branch = "END" => open # <<>>
    /\ open # <<>> => open[1] = Dollar

LexedInv ==
    /\ OpenFits
    /\ pc = "blanks" => \A k \in 1..at-1 : text[k] = Blank
    /\ pc = "tag" /\ first = NoFirst => from = PastBlanks
    /\ first # NoFirst => first[1] = PastBlanks

LEMMA OpenFitsInit == Init => OpenFits
<1> SUFFICES ASSUME Init PROVE OpenFits
  OBVIOUS
<1>1. ASSUME NEW t \in HeldTags PROVE t # <<>> /\ t[1] = Dollar
  BY <1>1 DEF HeldTags
<1> QED
  BY <1>1 DEF Init, OpenFits, TokenOf

LEMMA LexedInit == Init => LexedInv
<1> SUFFICES ASSUME Init PROVE LexedInv
  OBVIOUS
<1>1. pc = "blanks" /\ at = 1 /\ first = NoFirst
  BY DEF Init
<1>2. OpenFits
  BY OpenFitsInit
<1> QED
  BY <1>1, <1>2 DEF LexedInv

\* Behind the blanks stands what the first tag may begin with.
LEMMA BehindBlanks ==
    ASSUME Inputs, at \in 1..Len(text) + 1, LexedInv, pc = "blanks", Lookahead # Blank
    PROVE  at = PastBlanks
<1>1. at <= Len(text) => text[at] # Blank
  BY DEF Lookahead, Atend, Inputs
<1> QED
  BY <1>1, PastBlanksIs DEF LexedInv, Inputs

LEMMA LexedKept ==
    ASSUME LexedInv, UNCHANGED <<text, branch, open, first>>,
           pc' = "blanks" => \A k \in 1..at'-1 : text[k] = Blank,
           pc' = "tag" /\ first = NoFirst => from' = PastBlanks
    PROVE  LexedInv'
<1>1. PastBlanks' = PastBlanks
  BY DEF PastBlanks
<1>2. OpenFits'
  BY DEF LexedInv, OpenFits
<1>3. (pc = "tag" /\ first = NoFirst => from = PastBlanks)'
  BY <1>1 DEF NoFirst
<1>4. (first # NoFirst => first[1] = PastBlanks)'
  BY <1>1 DEF LexedInv, NoFirst
<1> QED
  BY <1>2, <1>3, <1>4 DEF LexedInv

LEMMA LexedStep == QuotedInv /\ LexedInv /\ [Next]_vars => LexedInv'
<1> SUFFICES ASSUME QuotedInv, LexedInv, [Next]_vars PROVE LexedInv'
  OBVIOUS
<1>0. /\ Inputs /\ at \in 1..Len(text) + 1
      /\ pc = "body" => first # NoFirst
  BY DEF QuotedInv
<1>1. CASE UNCHANGED vars
  BY <1>1, LexedKept DEF vars, LexedInv
<1>2. CASE Step /\ steps' = steps + 1 /\ UNCHANGED <<text, branch, open>>
  <2> USE <1>2
  <2>1. ASSUME UNCHANGED first, pc' \notin {"blanks", "tag"} PROVE LexedInv'
    BY <2>1, LexedKept
  <2>2. ASSUME UNCHANGED <<first, from>>, pc = "tag" \/ first # NoFirst, pc' # "blanks"
        PROVE LexedInv'
    BY <2>2, LexedKept DEF LexedInv
  <2>3. CASE SkipBlanks
    <3>1. /\ pc = "blanks" /\ pc' = "blanks" /\ UNCHANGED first
          /\ at \in 1..Len(text) /\ text[at] = Blank /\ at' = at + 1
      BY <1>0, <2>3 DEF SkipBlanks, Lookahead, Atend, Advance, EOF, Blank, Inputs
    <3>2. \A k \in 1..at'-1 : text[k] = Blank
      <4>1. \A k \in 1..at'-1 : k = at \/ k \in 1..at-1
        BY <1>0, <3>1 DEF Inputs
      <4> QED
        BY <3>1, <4>1 DEF LexedInv
    <3> QED
      BY <3>1, <3>2, LexedKept
  <2>4. CASE FirstTag
    <3>1. pc = "blanks" /\ at = PastBlanks
      BY <1>0, <2>4, BehindBlanks DEF FirstTag
    <3>2. CASE Lookahead = Dollar
      <4>1. pc' = "tag" /\ from' = PastBlanks /\ UNCHANGED first
        BY <2>4, <3>1, <3>2 DEF FirstTag, BeginTag
      <4> QED
        BY <4>1, LexedKept
    <3>3. CASE Lookahead # Dollar
      BY <2>1, <2>4, <3>3 DEF FirstTag, NotFound, Answer
    <3> QED
      BY <3>2, <3>3
  <2>5. CASE TagCharacter
    BY <2>2, <2>5 DEF TagCharacter
  <2>6. CASE FirstTagEnds
    <3>1. CASE UNCHANGED first /\ pc' \in {"found", "not found"}
      BY <2>1, <3>1
    <3>2. CASE pc' = "body" /\ first' = <<from, at>>
      <4>1. from = PastBlanks
        BY <2>6 DEF FirstTagEnds, LexedInv
      <4>2. PastBlanks' = PastBlanks
        BY DEF PastBlanks
      <4>3. OpenFits'
        BY DEF LexedInv, OpenFits
      <4>4. first'[1] = PastBlanks'
        BY <3>2, <4>1, <4>2
      <4> QED
        BY <3>2, <4>3, <4>4 DEF LexedInv
    <3> QED
      BY <2>6, <3>1, <3>2 DEF FirstTagEnds, Found, NotFound, Answer
  <2>7. CASE NextTagEnds
    BY <2>1, <2>7 DEF NextTagEnds, Found, Answer
  <2>8. CASE TagFails
    BY <2>1, <2>8 DEF TagFails, NotFound, Answer
  <2>9. CASE Body
    <3>0. first # NoFirst
      BY <1>0, <2>9 DEF Body
    <3>1. CASE NotFound
      BY <2>1, <3>1 DEF NotFound, Answer
    <3>2. CASE BeginTag
      BY <3>0, <3>2, LexedKept DEF BeginTag
    <3>3. CASE UNCHANGED <<pc, from, first, search>>
      BY <2>2, <2>9, <3>0, <3>3 DEF Body
    <3> QED
      BY <2>9, <3>1, <3>2, <3>3 DEF Body
  <2>10. CASE OpenCall
    BY <2>1, <2>10 DEF OpenCall, NotFound, Answer
  <2>11. CASE Argument
    BY <2>1, <2>11 DEF Argument
  <2>12. CASE GiveUp
    BY <2>1, <2>12 DEF GiveUp, NotFound, Answer
  <2>13. CASE Quoted
    BY <2>1, <2>13 DEF Quoted, NotFound, Answer
  <2>14. CASE WordCharacter
    BY <2>1, <2>14 DEF WordCharacter
  <2>15. CASE WordEnds
    BY <2>1, <2>15 DEF WordEnds
  <2> QED
    BY <2>3, <2>4, <2>5, <2>6, <2>7, <2>8, <2>9, <2>10, <2>11, <2>12, <2>13, <2>14, <2>15 DEF Step
<1> QED
  BY <1>1, <1>2 DEF Next

-----------------------------------------------------------------------------
(***************************************************************************)
(* Each answer of scan is that of ExternalScanner.                         *)
(***************************************************************************)

Unanswered == Lexed!Token("NONE", NoLexeme, 0, 0)

LEMMA OpenString ==
    ASSUME Inputs, OpenFits
    PROVE  /\ CString(open) = NoLexeme <=> open = <<>>
           /\ open \in Seq(Nat)
<1>1. open \in Seq(0..255)
  BY DEF Inputs
<1>2. CASE open = <<>>
  <2>1. <<>> \in Seq(Nat) /\ Len(<<>>) = 0
    OBVIOUS
  <2>2. CString(<<>>) \in Seq(Nat) /\ Len(CString(<<>>)) = End(<<>>) - 1 /\ End(<<>>) \in 1..Len(<<>>)+1
    BY <2>1, EndIs
  <2>3. Len(CString(<<>>)) = 0
    BY <2>1, <2>2
  <2>4. CString(<<>>) = <<>>
    BY <2>2, <2>3, EmptySeq
  <2> QED
    BY <1>2, <2>1, <2>4 DEF NoLexeme
<1>3. CASE open # <<>>
  <2>1. Len(open) > 0 /\ open[1] = Dollar
    <3>1. Len(open) \in Nat /\ Len(open) # 0
      BY <1>1, <1>3, EmptySeq
    <3> QED
      BY <1>3, <3>1 DEF OpenFits
  <2>2. open \in Seq(Nat) /\ CString(open) \in Strings
    BY <1>1, <2>1, StringIs
  <2> QED
    BY <1>3, <2>2 DEF Strings
<1> QED
  BY <1>2, <1>3

\* The payload before scan answers.
LEMMA BeforeAnswer ==
    ASSUME Inputs, OpenFits, pc \notin Ended
    PROVE  /\ StartTag = CString(open) /\ (StartTag = NoLexeme <=> open = <<>>)
           /\ ~Refused /\ Answered = Unanswered
<1>1. pc # "found" /\ pc # "not found"
  BY DEF Ended
<1>2. StartTag = CString(open) /\ ~Refused /\ Answered = Unanswered
  BY <1>1 DEF StartTag, Refused, Answered, Unanswered, Lexed!Token
<1> QED
  BY <1>2, OpenString

\* The payload behind an answer.
LEMMA AfterAnswer ==
    ASSUME UNCHANGED <<text, open, branch>>, pc' \in Ended
    PROVE  /\ pc' = "not found" =>
                /\ StartTag' = CString(open) /\ Answered' = Unanswered
                /\ Refused' <=> branch = "STRING" /\ first' = NoFirst /\ Lookahead' = Dollar
           /\ pc' = "found" =>
                /\ ~Refused'
                /\ branch = "START" => StartTag' = TagTo(from', at' - 1)
                /\ branch = "END" => StartTag' = NoLexeme
                /\ branch = "STRING" => StartTag' = CString(open)
                /\ Answered' = Lexed!Token(TokenOf[branch], TagTo(from', at' - 1),
                                           IF branch = "STRING" THEN first'[1] ELSE from', from')
<1>1. pc' = "found" \/ pc' = "not found"
  BY DEF Ended
<1>2. \A a, b : TagTo(a, b)' = TagTo(a, b)
  BY DEF TagTo, Buffer
<1>3. TagTo(from, at - 1)' = TagTo(from', at' - 1)
  BY <1>2
<1>4. CASE pc' = "not found"
  <2>1. StartTag' = CString(open)' /\ Answered' = Unanswered
    BY <1>4 DEF StartTag, Answered, Unanswered, Lexed!Token, NoLexeme
  <2>2. Refused' <=> branch = "STRING" /\ first' = NoFirst /\ Lookahead' = Dollar
    BY <1>4 DEF Refused, NoFirst, Dollar
  <2> QED
    BY <1>4, <2>1, <2>2
<1>5. CASE pc' = "found"
  <2>1. /\ branch = "START" => StartTag' = TagTo(from', at' - 1)
        /\ branch = "END" => StartTag' = NoLexeme
        /\ branch = "STRING" => StartTag' = CString(open)'
    BY <1>3, <1>5 DEF StartTag, NoLexeme
  <2>2. ~Refused'
    BY <1>5 DEF Refused
  <2>3. Answered' = Lexed!Token(TokenOf[branch], TagTo(from', at' - 1),
                                IF branch = "STRING" THEN first'[1] ELSE from', from')
    BY <1>3, <1>5 DEF Answered, TokenOf, Lexed!Token
  <2> QED
    BY <1>5, <2>1, <2>2, <2>3
<1> QED
  BY <1>1, <1>4, <1>5

\* The branch of ExternalScanner is the one of scan.
LEMMA SameBranch ==
    ASSUME Inputs, OpenFits, pc \notin Ended, NEW valid \in SUBSET DollarTokens,
           TakesBranch(valid), NEW p
    PROVE  /\ ~Lexed!PositionBranch(valid, Lexemes, p)
           /\ branch = "START" => Lexed!StartBranch(valid)
           /\ branch = "END" => ~Lexed!StartBranch(valid) /\ Lexed!EndBranch(valid)
           /\ branch = "STRING" => /\ ~Lexed!StartBranch(valid) /\ ~Lexed!EndBranch(valid)
                                   /\ "DOLLAR_QUOTED_STRING" \in valid
<1>1. StartTag = NoLexeme <=> open = <<>>
  BY BeforeAnswer
<1>2. /\ TokenOf["START"] = "DOLLAR_QUOTED_STRING_START_TAG"
      /\ TokenOf["END"] = "DOLLAR_QUOTED_STRING_END_TAG"
      /\ TokenOf["STRING"] = "DOLLAR_QUOTED_STRING"
  BY DEF TokenOf
<1>3. valid \cap Lexed!PositionTokens = {}
  <2>1. DollarTokens \cap Lexed!PositionTokens = {}
    BY DEF DollarTokens, TokenOf, Lexed!PositionTokens
  <2> QED
    BY <2>1
<1>4. ~Lexed!PositionBranch(valid, Lexemes, p)
  BY <1>3 DEF Lexed!PositionBranch
<1>5. /\ branch = "START" => Lexed!StartBranch(valid)
      /\ branch = "END" => ~Lexed!StartBranch(valid) /\ Lexed!EndBranch(valid)
      /\ branch = "STRING" => /\ ~Lexed!StartBranch(valid) /\ ~Lexed!EndBranch(valid)
                              /\ "DOLLAR_QUOTED_STRING" \in valid
  BY <1>1, <1>2 DEF TakesBranch, Lexed!StartBranch, Lexed!EndBranch
<1> QED
  BY <1>4, <1>5

\* There is no tag: no branch finds one.
LEMMA NoTagAnswered ==
    ASSUME Inputs, OpenFits, pc \notin Ended, pc' = "not found", first = NoFirst,
           UNCHANGED <<text, branch, open>>, Lookahead' # Dollar, branch # "CALL",
           ~Lexed!IsTagAt(Lexemes, PastBlanks),
           NEW valid \in SUBSET DollarTokens, TakesBranch(valid)
    PROVE  LexedScan(valid)
<1>1. /\ StartTag' = StartTag /\ ~Refused /\ ~Refused' /\ Answered' = Lexed!NotFound
  BY BeforeAnswer, AfterAnswer DEF Ended, Unanswered, Lexed!NotFound
<1>2. branch \in {"START", "END", "STRING"}
  BY DEF OpenFits, TokenOf
<1>3. CASE branch = "START"
  BY <1>1, <1>3, SameBranch DEF LexedScan, Lexed!ScanStartTag
<1>4. CASE branch = "END"
  BY <1>1, <1>4, SameBranch DEF LexedScan, Lexed!ScanEndTag
<1>5. CASE branch = "STRING"
  BY <1>1, <1>5, SameBranch DEF LexedScan, Lexed!ScanDollarQuotedString
<1> QED
  BY <1>2, <1>3, <1>4, <1>5

\* The first tag is complete at the lookahead: what the three branches make of it.
LEMMA FirstTagAnswered ==
    ASSUME Inputs, LexedInv, at \in 1..Len(text), PastBlanks \in 1..Len(text), PastBlanks < at,
           IsTag(PastBlanks, at), from = PastBlanks, first = NoFirst, Lookahead = Dollar,
           FirstTagEnds, UNCHANGED <<text, branch, open>>, pc' \in Ended, branch # "CALL",
           NEW valid \in SUBSET DollarTokens, TakesBranch(valid)
    PROVE  LexedScan(valid)
<1> DEFINE p == PastBlanks
           tag == TagTo(p, at)
<1>1. /\ OpenFits /\ pc \notin Ended /\ p \in 1..Len(text) + 1
      /\ Len(text) \in Nat /\ at \in p+1..Len(text)
  <2>1. OpenFits
    BY DEF LexedInv
  <2>2. pc \notin Ended
    BY DEF FirstTagEnds, Ended
  <2>3. Len(text) \in Nat
    BY DEF Inputs
  <2> HIDE DEF p
  <2>4. p \in 1..Len(text) /\ p < at
    BY DEF p
  <2>5. p \in 1..Len(text) + 1 /\ at \in p+1..Len(text)
    BY <2>3, <2>4
  <2> QED
    BY <2>1, <2>2, <2>3, <2>5
<1>2. /\ Lexed!IsTagAt(Lexemes, p) /\ Lexemes[p] = tag /\ tag \in Strings
      /\ Buffer(p, at) \in Seq(Nat)
  BY <1>1, TagAtIs, LexemeIs, TagIs
<1>3. SameTag(Buffer(p, at), open) <=> tag = CString(open)
  BY <1>1, <1>2, OpenString, SameTagSameString DEF TagTo
<1>4. SameTag(open, Buffer(p, at)) <=> tag = CString(open)
  BY <1>1, <1>2, OpenString, SameTagSameString DEF TagTo
<1>5. /\ StartTag = CString(open) /\ (StartTag = NoLexeme <=> open = <<>>)
      /\ ~Refused /\ Answered = Unanswered
  BY <1>1, BeforeAnswer
<1>6. tag # NoLexeme
  BY <1>2 DEF Strings
<1>7. Found => pc' = "found" /\ at' - 1 = at /\ from' = from
  BY <1>1 DEF Found, Answer, Advance, Atend
<1>8. NotFound => pc' = "not found" /\ first' = NoFirst /\ Lookahead' = Dollar
  BY DEF NotFound, Answer, Lookahead, Atend
<1>9. CASE branch = "START"
  <2>1. pc' = "found" /\ at' - 1 = at /\ from' = p
    BY <1>7, <1>9 DEF FirstTagEnds
  <2>2. ~Refused' /\ StartTag' = tag
        /\ Answered' = Lexed!Token("DOLLAR_QUOTED_STRING_START_TAG", tag, p, p)
    BY <1>9, <2>1, AfterAnswer DEF TokenOf
  <2> HIDE DEF p, tag
  <2>3. Lexed!ScanStartTag(valid, Lexemes, p)
    BY <1>1, <1>2, <1>5, <1>6, <1>9, <2>2, SameBranch DEF Lexed!ScanStartTag
  <2> QED
    BY <2>3 DEF LexedScan, p
<1>10. CASE branch = "END"
  <2>1. CASE SameTag(Buffer(p, at), open)
    <3>1. pc' = "found" /\ at' - 1 = at /\ from' = p
      BY <1>7, <1>10, <2>1 DEF FirstTagEnds
    <3>2. ~Refused' /\ StartTag' = NoLexeme
          /\ Answered' = Lexed!Token("DOLLAR_QUOTED_STRING_END_TAG", tag, p, p)
      BY <1>10, <3>1, AfterAnswer DEF TokenOf
    <3>3. Lexemes[p] = StartTag
      BY <1>2, <1>3, <1>5, <2>1
    <3> HIDE DEF p, tag
    <3>4. Lexed!ScanEndTag(valid, Lexemes, p)
      BY <1>1, <1>2, <1>5, <1>10, <3>2, <3>3, SameBranch DEF Lexed!ScanEndTag
    <3> QED
      BY <3>4 DEF LexedScan, p
  <2>2. CASE ~SameTag(Buffer(p, at), open)
    <3>1. pc' = "not found"
      BY <1>8, <1>10, <2>2 DEF FirstTagEnds
    <3>2. ~Refused' /\ StartTag' = StartTag /\ Answered' = Lexed!NotFound
      BY <1>5, <1>10, <3>1, AfterAnswer DEF Unanswered, Lexed!NotFound
    <3>3. Lexemes[p] # StartTag
      BY <1>2, <1>3, <1>5, <2>2
    <3> HIDE DEF p, tag
    <3>4. Lexed!ScanEndTag(valid, Lexemes, p)
      BY <1>1, <1>2, <1>5, <1>10, <3>2, <3>3, SameBranch DEF Lexed!ScanEndTag
    <3> QED
      BY <3>4 DEF LexedScan, p
  <2> QED
    BY <2>1, <2>2
<1>11. CASE branch = "STRING"
  <2>1. open # <<>> /\ SameTag(open, Buffer(p, at)) /\ NotFound
    BY <1>11 DEF FirstTagEnds, Ended
  <2>2. pc' = "not found" /\ first' = NoFirst /\ Lookahead' = Dollar
    BY <1>8, <2>1
  <2>3. Refused' /\ StartTag' = StartTag /\ Answered' = Lexed!NotFound
    BY <1>5, <1>11, <2>2, AfterAnswer DEF Unanswered, Lexed!NotFound
  <2>4. Lexemes[p] = StartTag
    BY <1>2, <1>4, <1>5, <2>1
  <2>5. Lexed!Leak
    BY <1>5, <2>3 DEF Lexed!Leak
  <2> HIDE DEF p, tag
  <2>6. Lexed!ScanDollarQuotedString(valid, Lexemes, p)
    BY <1>1, <1>2, <1>11, <2>3, <2>4, <2>5, SameBranch DEF Lexed!ScanDollarQuotedString
  <2> QED
    BY <2>6 DEF LexedScan, p
<1> QED
  BY <1>1, <1>9, <1>10, <1>11 DEF OpenFits, TokenOf

\* What is known of the first tag of a string.
LEMMA FirstTagIs ==
    ASSUME QuotedInv, MissedInv, LexedInv, first # NoFirst
    PROVE  /\ Inputs /\ Len(text) \in Nat /\ OpenFits /\ branch = "STRING"
           /\ PastBlanks = first[1] /\ PastBlanks \in 1..Len(text)
           /\ first[2] \in PastBlanks+1..Len(text) /\ first[2] < at
           /\ IsTag(PastBlanks, first[2])
           /\ open = <<>> \/ ~SameTag(open, Buffer(PastBlanks, first[2]))
<1>1. Inputs /\ Len(text) \in Nat
  BY DEF QuotedInv, Inputs
<1>2. FirstTagRead
  BY DEF QuotedInv
<1>3. OpenFits /\ first[1] = PastBlanks
  BY DEF LexedInv
<1>4. IsTag(first[1], first[2])
  BY DEF MissedInv
<1> DEFINE p == PastBlanks
           b == first[2]
<1> HIDE DEF p, b
<1>5. /\ branch = "STRING" /\ p \in 1..Len(text) /\ b \in 1..Len(text) /\ p < b /\ b < at
      /\ open = <<>> \/ ~SameTag(open, Buffer(p, b))
  BY <1>2, <1>3 DEF FirstTagRead, p, b
<1>6. b \in p+1..Len(text)
  BY <1>1, <1>5
<1> QED
  BY <1>1, <1>3, <1>4, <1>5, <1>6 DEF p, b

\* The first tag of a string, and the tag that is set apart where it comes again.
LEMMA ClosersRecur ==
    ASSUME QuotedInv, MissedInv, LexedInv, first # NoFirst, SetApart,
           NEW q \in Lexed!Closers(Lexemes, PastBlanks)
    PROVE  q \in first[2]+1..Len(text) /\ Recurs(q) /\ ~Masked(q)
<1> DEFINE p == PastBlanks
           b == first[2]
<1>1. /\ Inputs /\ Len(text) \in Nat /\ p = first[1] /\ p \in 1..Len(text)
      /\ b \in p+1..Len(text) /\ IsTag(p, b)
  BY FirstTagIs
<1>2. q \in p+1..Len(text) /\ Lexemes[q] = Lexemes[p]
  BY <1>1, LexemesLength DEF Lexed!Closers
<1>3. Lexemes[p] = TagTo(p, b) /\ TagTo(p, b) \in Strings /\ Buffer(p, b) \in Seq(Nat)
  BY <1>1, LexemeIs, TagIs
<1>4. q \in 1..Len(text) /\ Lexemes[q] # NoLexeme
  BY <1>1, <1>2, <1>3 DEF Strings
<1>5. PICK e \in q+1..Len(text) : IsTag(q, e)
  BY <1>1, <1>4, LexemeIs
<1>6. Lexemes[q] = TagTo(q, e) /\ Buffer(q, e) \in Seq(Nat)
  BY <1>1, <1>4, <1>5, LexemeIs, TagIs
<1>7. SameTag(Buffer(q, e), Buffer(p, b))
  BY <1>2, <1>3, <1>6, SameTagSameString DEF TagTo
<1>8. Recurs(q)
  BY <1>1, <1>5, <1>7 DEF Recurs
<1>9. q # b /\ \A a \in b+1..q-1 : ~IsTag(a, q)
  BY <1>1, <1>2 DEF SetApart
<1>10. ~(q < b)
  <2> SUFFICES ASSUME q < b PROVE FALSE
    OBVIOUS
  <2>1. q \in p+1..b-1
    BY <1>1, <1>2
  <2> QED
    BY <1>1, <1>5, <2>1 DEF IsTag
<1>11. q \in b+1..Len(text)
  BY <1>1, <1>2, <1>9, <1>10
<1> QED
  BY <1>8, <1>9, <1>11 DEF Masked

\* A string ends at the first place where its tag comes again.
LEMMA StringAnswered ==
    ASSUME QuotedInv, MissedInv, LexedInv, first # NoFirst, SetApart, pc \notin Ended,
           at \in 1..Len(text), pc = "tag", IsTag(from, at),
           SameTag(Buffer(from, at), Buffer(first[1], first[2])),
           pc' = "found", at' = at + 1, UNCHANGED <<text, branch, open, first, from>>,
           NEW valid \in SUBSET DollarTokens, TakesBranch(valid)
    PROVE  LexedScan(valid)
<1> DEFINE p == PastBlanks
           b == first[2]
<1>1. /\ Inputs /\ Len(text) \in Nat /\ p = first[1] /\ p \in 1..Len(text)
      /\ b \in p+1..Len(text) /\ IsTag(p, b) /\ branch = "STRING" /\ OpenFits
      /\ from \in b+1..Len(text) /\ at \in from+1..Len(text) /\ at' - 1 = at
      /\ open = <<>> \/ ~SameTag(open, Buffer(p, b))
  <2>1. TagsApart
    BY DEF QuotedInv
  <2>2. from \in 1..Len(text) /\ from < at /\ b < from
    BY <2>1 DEF TagsApart
  <2>3. /\ Inputs /\ Len(text) \in Nat /\ p = first[1] /\ p \in 1..Len(text)
        /\ b \in p+1..Len(text) /\ IsTag(p, b) /\ branch = "STRING" /\ OpenFits
        /\ open = <<>> \/ ~SameTag(open, Buffer(p, b))
    BY FirstTagIs
  <2> HIDE DEF p, b
  <2>4. from \in b+1..Len(text) /\ at \in from+1..Len(text) /\ at' - 1 = at
    BY <2>2, <2>3
  <2> QED
    BY <2>3, <2>4
<1>2. NoneMissedUpTo(from - 1)
  BY DEF MissedInv, Searched
<1>3. /\ Lexed!IsTagAt(Lexemes, p) /\ Lexemes[p] = TagTo(p, b) /\ TagTo(p, b) \in Strings
      /\ Buffer(p, b) \in Seq(Nat)
  <2> HIDE DEF p, b
  <2>1. p \in 1..Len(text) + 1
    BY <1>1
  <2> QED
    BY <1>1, <2>1, TagAtIs, LexemeIs, TagIs DEF p
<1>4. from \in 1..Len(text) /\ Lexemes[from] = TagTo(from, at) /\ Buffer(from, at) \in Seq(Nat)
  BY <1>1, LexemeIs, TagIs
<1>5. TagTo(from, at) = TagTo(p, b)
  BY <1>1, <1>3, <1>4, SameTagSameString DEF TagTo
<1>6. from \in Lexed!Closers(Lexemes, p)
  BY <1>1, <1>3, <1>4, <1>5, LexemesLength DEF Lexed!Closers
<1>7. \A k \in Lexed!Closers(Lexemes, p) : from <= k
  <2> TAKE k \in Lexed!Closers(Lexemes, p)
  <2>1. k \in b+1..Len(text) /\ Recurs(k) /\ ~Masked(k)
    BY ClosersRecur
  <2>2. ~(k \in b+1..from-1)
    BY <1>2, <2>1 DEF NoneMissedUpTo
  <2> QED
    BY <1>1, <2>1, <2>2
<1>8. Lexed!IsCloser(Lexemes, p, from)
  BY <1>6, <1>7 DEF Lexed!IsCloser
<1>9. /\ StartTag = CString(open) /\ (StartTag = NoLexeme <=> open = <<>>) /\ ~Refused
  BY <1>1, BeforeAnswer
<1>10. Lexemes[p] # StartTag
  <2>1. CASE open = <<>>
    BY <1>3, <1>9, <2>1 DEF Strings
  <2>2. CASE ~SameTag(open, Buffer(p, b))
    BY <1>1, <1>3, <1>9, <2>2, OpenString, SameTagSameString DEF TagTo
  <2> QED
    BY <1>1, <2>1, <2>2
<1>11. /\ ~Refused' /\ StartTag' = StartTag
       /\ Answered' = Lexed!Token("DOLLAR_QUOTED_STRING", Lexemes[p], p, from)
  BY <1>1, <1>3, <1>5, <1>9, AfterAnswer DEF TokenOf, Ended
<1> HIDE DEF p, b
<1>12. Lexed!TakeString(Lexemes, p, from)
  BY <1>9, <1>11 DEF Lexed!TakeString
<1>13. Lexed!ScanDollarQuotedString(valid, Lexemes, p)
  BY <1>1, <1>3, <1>6, <1>8, <1>10, <1>11, <1>12, SameBranch DEF Lexed!ScanDollarQuotedString
<1> QED
  BY <1>13 DEF LexedScan, p

\* A string whose tag does not come again is none.
LEMMA OpenStringAnswered ==
    ASSUME QuotedInv, MissedInv, LexedInv, first # NoFirst, SetApart, pc = "body",
           at = Len(text) + 1, pc' \in Ended, pc' # "found",
           UNCHANGED <<text, branch, open, first>>,
           NEW valid \in SUBSET DollarTokens, TakesBranch(valid)
    PROVE  LexedScan(valid)
<1> DEFINE p == PastBlanks
           b == first[2]
<1>1. /\ Inputs /\ Len(text) \in Nat /\ p = first[1] /\ p \in 1..Len(text)
      /\ b \in p+1..Len(text) /\ IsTag(p, b) /\ branch = "STRING" /\ OpenFits
      /\ open = <<>> \/ ~SameTag(open, Buffer(p, b))
      /\ pc \notin Ended
  BY FirstTagIs DEF Ended
<1>2. NoneMissedUpTo(Len(text))
  <2>1. Searched = Len(text)
    <3> HIDE DEF p, b
    <3> QED
      BY <1>1 DEF Searched
  <2> QED
    BY <2>1 DEF MissedInv
<1>3. /\ Lexed!IsTagAt(Lexemes, p) /\ Lexemes[p] = TagTo(p, b) /\ TagTo(p, b) \in Strings
      /\ Buffer(p, b) \in Seq(Nat)
  <2> HIDE DEF p, b
  <2>1. p \in 1..Len(text) + 1
    BY <1>1
  <2> QED
    BY <1>1, <2>1, TagAtIs, LexemeIs, TagIs DEF p
<1>4. Lexed!Closers(Lexemes, p) = {}
  <2> SUFFICES ASSUME NEW k \in Lexed!Closers(Lexemes, p) PROVE FALSE
    OBVIOUS
  <2>1. k \in b+1..Len(text) /\ Recurs(k) /\ ~Masked(k)
    BY ClosersRecur
  <2> QED
    BY <1>2, <2>1 DEF NoneMissedUpTo
<1>5. /\ StartTag = CString(open) /\ (StartTag = NoLexeme <=> open = <<>>) /\ ~Refused
  BY <1>1, BeforeAnswer
<1>6. Lexemes[p] # StartTag
  <2>1. CASE open = <<>>
    BY <1>3, <1>5, <2>1 DEF Strings
  <2>2. CASE ~SameTag(open, Buffer(p, b))
    BY <1>1, <1>3, <1>5, <2>2, OpenString, SameTagSameString DEF TagTo
  <2> QED
    BY <1>1, <2>1, <2>2
<1>7. ~Refused' /\ StartTag' = StartTag /\ Answered' = Lexed!NotFound
  BY <1>1, <1>5, AfterAnswer DEF Ended, Unanswered, Lexed!NotFound
<1> HIDE DEF p, b
<1>8. Lexed!ScanDollarQuotedString(valid, Lexemes, p)
  BY <1>1, <1>3, <1>4, <1>5, <1>6, <1>7, SameBranch DEF Lexed!ScanDollarQuotedString
<1> QED
  BY <1>8 DEF LexedScan, p

\* Where the first tag fails, none begins.
LEMMA NoTagBegins ==
    ASSUME QuotedInv, MissedInv, LexedInv, first = NoFirst,
           \/ FirstTag /\ Lookahead # Dollar
           \/ TagFails
    PROVE  ~Lexed!IsTagAt(Lexemes, PastBlanks)
<1> DEFINE p == PastBlanks
<1>1. Inputs /\ Len(text) \in Nat /\ at \in 1..Len(text) + 1
  BY DEF QuotedInv, Inputs
<1>2. CASE FirstTag /\ Lookahead # Dollar
  <2>1. at = p
    BY <1>1, <1>2, BehindBlanks DEF FirstTag
  <2>2. ASSUME NEW e \in p+1..Len(text) PROVE ~IsTag(p, e)
    <3> HIDE DEF p
    <3>1. ~Atend
      BY <1>1, <2>1 DEF Atend
    <3>2. text[p] # Dollar
      BY <1>2, <2>1, <3>1 DEF Lookahead
    <3> QED
      BY <3>2 DEF IsTag
  <2> QED
    BY <1>1, <2>1, <2>2, TagAtIs
<1>3. CASE TagFails
  <2>1. p = from /\ pc = "tag" /\ (Lookahead = EOF \/ Lookahead = Blank)
    BY <1>3 DEF TagFails, LexedInv
  <2>2. p \in 1..Len(text) /\ p < at /\ BeginsTag(p, at - 1)
    BY <2>1 DEF QuotedInv, TagsApart, MissedInv
  <2>3. ASSUME NEW e \in p+1..Len(text), IsTag(p, e) PROVE FALSE
    <3> HIDE DEF p
    <3>1. p \in Nat /\ e \in Nat /\ at - 1 \in Nat /\ (at - 1) + 1 = at
      BY <1>1, <2>2
    <3>2. at - 1 < e /\ text[at] # Blank
      BY <2>2, <2>3, <3>1, TagEndsAtDollar
    <3>3. at \in 1..Len(text) /\ ~Atend
      BY <1>1, <3>1, <3>2 DEF Atend
    <3>4. text[at] # EOF
      BY <3>3 DEF MissedInv
    <3> QED
      BY <2>1, <3>2, <3>3, <3>4 DEF Lookahead
  <2>4. p \in 1..Len(text) + 1
    <3> HIDE DEF p
    <3> QED
      BY <1>1, <2>2
  <2> QED
    BY <1>1, <2>3, <2>4, TagAtIs
<1> QED
  BY <1>2, <1>3

\* Before it answers, scan does nothing to the payload.
LEMMA NothingYet ==
    ASSUME Inputs, OpenFits, UNCHANGED <<text, open, branch>>, pc \notin Ended, pc' \notin Ended
    PROVE  UNCHANGED <<StartTag, Refused, Answered>>
<1>1. StartTag = CString(open) /\ ~Refused /\ Answered = Unanswered
  BY BeforeAnswer
<1>2. pc' # "found" /\ pc' # "not found"
  BY DEF Ended
<1>3. StartTag' = CString(open)' /\ ~Refused' /\ Answered' = Unanswered
  BY <1>2 DEF StartTag, Refused, Answered, Unanswered, Lexed!Token, NoLexeme
<1>4. CString(open)' = CString(open) /\ Refused' = Refused
  <2>1. Refused \in BOOLEAN /\ Refused' \in BOOLEAN
    BY DEF Refused
  <2> QED
    BY <1>1, <1>3, <2>1
<1> QED
  BY <1>1, <1>3, <1>4

\* What scan does in one step, as AnswersAsLexed has it.
AnswerStep ==
    branch # "CALL" =>
        IF Answers
          THEN (branch = "STRING" => SetApart) =>
                  \A valid \in SUBSET DollarTokens : TakesBranch(valid) => LexedScan(valid)
          ELSE UNCHANGED <<StartTag, Refused, Answered>>

LEMMA AnswersStep == QuotedInv /\ MissedInv /\ LexedInv /\ [Next]_vars => AnswerStep
<1> SUFFICES ASSUME QuotedInv, MissedInv, LexedInv, [Next]_vars, branch # "CALL"
             PROVE  IF Answers
                      THEN (branch = "STRING" => SetApart) =>
                              \A valid \in SUBSET DollarTokens :
                                TakesBranch(valid) => LexedScan(valid)
                      ELSE UNCHANGED <<StartTag, Refused, Answered>>
  BY DEF AnswerStep
<1>0. /\ Inputs /\ OpenFits /\ Len(text) \in Nat /\ at \in 1..Len(text) + 1
      /\ pc = "body" => first # NoFirst
      /\ pc \in {"arguments", "quoted", "word"} => branch = "CALL"
  BY DEF QuotedInv, LexedInv, Inputs
<1>1. CASE UNCHANGED vars
  <2>1. UNCHANGED <<text, branch, open, pc, at, from, first>>
    BY <1>1 DEF vars
  <2>2. ~Answers
    BY <2>1 DEF Answers
  <2>3. UNCHANGED <<StartTag, Refused, Answered>>
    BY <2>1 DEF StartTag, Refused, Answered, TagTo, Buffer, Lookahead, Atend, EOF, Dollar,
                NoLexeme, NoFirst, TokenOf
  <2> QED
    BY <2>2, <2>3
<1>2. CASE Step /\ UNCHANGED <<text, branch, open>>
  <2>1. pc \notin Ended
    BY <1>2 DEF Ended, Step, SkipBlanks, FirstTag, TagCharacter, FirstTagEnds, NextTagEnds,
                TagFails, Body, OpenCall, Argument, GiveUp, Quoted, WordCharacter, WordEnds
  <2>2. CASE pc' \notin Ended
    BY <1>0, <1>2, <2>1, <2>2, NothingYet DEF Answers
  <2>3. CASE pc' \in Ended
    <3> SUFFICES ASSUME branch = "STRING" => SetApart,
                        NEW valid \in SUBSET DollarTokens, TakesBranch(valid)
                 PROVE  LexedScan(valid)
      BY <2>1, <2>3 DEF Answers
    <3>1. CASE FirstTag \/ TagFails
      <4>1. /\ first = NoFirst /\ NotFound /\ Lookahead # Dollar
            /\ (FirstTag /\ Lookahead # Dollar) \/ TagFails
        <5>1. CASE FirstTag
          <6>1. first = NoFirst
            BY <5>1 DEF FirstTag, MissedInv
          <6>2. Lookahead # Dollar /\ NotFound
            BY <2>3, <5>1, Zenon DEF FirstTag, BeginTag, Ended
          <6> QED
            BY <5>1, <6>1, <6>2
        <5>2. CASE TagFails
          <6>1. first = NoFirst /\ NotFound
            BY <2>3, <5>2, Zenon DEF TagFails, Ended
          <6>2. Lookahead # Dollar
            BY <5>2 DEF TagFails, EOF, Blank, Dollar
          <6> QED
            BY <5>2, <6>1, <6>2
        <5> QED
          BY <3>1, <5>1, <5>2
      <4>2. ~Lexed!IsTagAt(Lexemes, PastBlanks)
        BY <4>1, NoTagBegins
      <4>3. pc' = "not found" /\ Lookahead' # Dollar
        BY <1>2, <4>1 DEF NotFound, Answer, Lookahead, Atend, EOF, Dollar
      <4> QED
        BY <1>0, <1>2, <2>1, <4>1, <4>2, <4>3, NoTagAnswered
    <3>2. CASE FirstTagEnds
      <4>1. from = PastBlanks /\ first = NoFirst /\ Lookahead = Dollar /\ pc = "tag"
        BY <3>2 DEF FirstTagEnds, LexedInv
      <4>2. from \in 1..Len(text) /\ from < at /\ BeginsTag(from, at - 1)
        BY <4>1 DEF QuotedInv, TagsApart, MissedInv
      <4>3. at \in 1..Len(text) /\ text[at] = Dollar
        BY <1>0, <4>1 DEF Lookahead, Atend, EOF, Dollar
      <4>4. IsTag(from, at)
        BY <1>0, <4>2, <4>3 DEF BeginsTag, IsTag
      <4>5. PastBlanks \in 1..Len(text) /\ PastBlanks < at /\ IsTag(PastBlanks, at)
        BY <4>1, <4>2, <4>4
      <4> QED
        BY <1>0, <1>2, <2>3, <3>2, <4>1, <4>3, <4>5, FirstTagAnswered
    <3>3. CASE NextTagEnds
      <4>1. /\ pc = "tag" /\ first # NoFirst /\ Lookahead = Dollar /\ Found
            /\ SameTag(Buffer(from, at), Buffer(first[1], first[2]))
        BY <2>3, <3>3 DEF NextTagEnds, Ended
      <4>2. from \in 1..Len(text) /\ from < at /\ BeginsTag(from, at - 1)
        BY <4>1 DEF QuotedInv, TagsApart, MissedInv
      <4>3. at \in 1..Len(text) /\ text[at] = Dollar /\ ~Atend
        BY <1>0, <4>1 DEF Lookahead, Atend, EOF, Dollar
      <4>4. IsTag(from, at)
        BY <1>0, <4>2, <4>3 DEF BeginsTag, IsTag
      <4>5. pc' = "found" /\ at' = at + 1 /\ UNCHANGED <<first, from>>
        BY <4>1, <4>3 DEF Found, Answer, Advance
      <4>6. branch = "STRING"
        BY <4>1 DEF QuotedInv, FirstTagRead
      <4> QED
        BY <1>2, <2>1, <4>1, <4>3, <4>4, <4>5, <4>6, StringAnswered
    <3>4. CASE Body
      <4>1. pc = "body" /\ first # NoFirst /\ Lookahead = EOF /\ NotFound
        BY <1>0, <2>3, <3>4 DEF Body, BeginTag, Ended
      <4>2. at = Len(text) + 1
        <5>1. ~Atend => at \in 1..Len(text) /\ Lookahead = text[at]
          BY <1>0 DEF Atend, Lookahead
        <5>2. Atend
          BY <4>1, <5>1 DEF MissedInv
        <5> QED
          BY <1>0, <5>2 DEF Atend
      <4>3. pc' # "found" /\ UNCHANGED first
        BY <4>1 DEF NotFound, Answer
      <4>4. branch = "STRING"
        BY <4>1 DEF QuotedInv, FirstTagRead
      <4> QED
        BY <1>2, <2>3, <4>1, <4>2, <4>3, <4>4, OpenStringAnswered
    <3>5. CASE SkipBlanks \/ TagCharacter
      BY <2>1, <2>3, <3>5 DEF SkipBlanks, TagCharacter
    <3>6. CASE OpenCall \/ Argument \/ GiveUp \/ Quoted \/ WordCharacter \/ WordEnds
      <4>1. pc \in {"arguments", "quoted", "word"} \/ branch = "CALL"
        BY <3>6 DEF OpenCall, Argument, GiveUp, Quoted, WordCharacter, WordEnds
      <4> QED
        BY <1>0, <4>1
    <3> QED
      BY <1>2, <3>1, <3>2, <3>3, <3>4, <3>5, <3>6 DEF Step
  <2> QED
    BY <2>2, <2>3
<1> QED
  BY <1>1, <1>2 DEF Next

(***************************************************************************)
(* Whatever the text, and whichever dollar tokens are valid, the           *)
(* character-wise scan answers a dollar tag and a dollar string as         *)
(* ExternalScanner does in one step, and changes the payload in no other   *)
(* step (scanner.c:169-239).                                               *)
(***************************************************************************)
THEOREM ScanAnswersAsLexed == Spec => AnswersAsLexed
<1>1. QuotedInv /\ MissedInv /\ LexedInv /\ [Next]_vars => [AnswerStep]_vars
  BY AnswersStep
<1>2. [][AnswerStep]_vars => AnswersAsLexed
  BY PTL DEF AnswerStep, AnswersAsLexed
<1> QED
  BY <1>1, <1>2, QuotedInit, QuotedStep, MissedInit, MissedStep, LexedInit, LexedStep, PTL
  DEF Spec

=============================================================================
