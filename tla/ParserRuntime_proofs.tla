------------------------ MODULE ParserRuntime_proofs ------------------------
(***************************************************************************)
(* Proofs about ParserRuntime: for every set of versions, tags and texts,  *)
(* and every table of externals, the one shared payload is owned safely,   *)
(* each version behaves as if it had a scanner of its own, and none is     *)
(* lexed for ever.                                                         *)
(***************************************************************************)
EXTENDS ParserRuntime, FiniteSetTheorems, WellFoundedInduction, TLAPS

(***************************************************************************)
(* What holds between a scan that found a token and the serialization: the *)
(* token res, found at p, is one that a scanner of its own would take with *)
(* the tag saved open, and held is what that scanner would be left with.   *)
(***************************************************************************)
Found(res, held, p, saved) ==
    \/ /\ res.sym = "DOLLAR_QUOTED_STRING_START_TAG"
       /\ IsTagAt(text, p) /\ res.tag = text[p] /\ res.last = p
       /\ saved = NoTag /\ held = text[p]
    \/ /\ res.sym = "DOLLAR_QUOTED_STRING_END_TAG"
       /\ IsTagAt(text, p) /\ res.tag = text[p] /\ res.last = p
       /\ saved = text[p] /\ held = NoTag
    \/ /\ res.sym = "DOLLAR_QUOTED_STRING"
       /\ IsTagAt(text, p) /\ res.tag = text[p]
       /\ saved # text[p] /\ held = saved
       /\ IsCloser(text, p, res.last)
    \/ /\ res.sym \in PositionTokens
       /\ p \in 1..Len(text) /\ text[p] = res.sym
       /\ res.tag = NoTag /\ res.last = p /\ held = saved

FoundIsSound ==
    phase = "lexed" =>
        /\ result \in TokenRecord /\ result.first = pos[cur]
        /\ Found(result, start_tag, pos[cur], last[cur])

LexingALiveVersion ==
    phase \in {"scan", "lexed", "internal"} =>
        cur \in live /\ pos[cur] <= Len(text) + 1

NoVersionOutsideAParse == phase = "none" => live = {}

\* The inductive invariant.
IInv ==
    /\ TypeOK
    /\ Ownership
    /\ PayloadIsCurrent
    /\ FoundIsSound
    /\ LexingALiveVersion
    /\ NoVersionOutsideAParse

LEMMA TokenTypesAre ==
    TokenType = {"POSITION_CALL", "POSITION_REGEX_CALL", "SUBSTRING_REGEX_CALL",
                 "DOLLAR_QUOTED_STRING_START_TAG", "DOLLAR_QUOTED_STRING_END_TAG",
                 "DOLLAR_QUOTED_STRING"}
<1>1. 1..6 = {1, 2, 3, 4, 5, 6}
  OBVIOUS
<1>2. /\ TokenTypes[1] = "POSITION_CALL" /\ TokenTypes[2] = "POSITION_REGEX_CALL"
      /\ TokenTypes[3] = "SUBSTRING_REGEX_CALL"
      /\ TokenTypes[4] = "DOLLAR_QUOTED_STRING_START_TAG"
      /\ TokenTypes[5] = "DOLLAR_QUOTED_STRING_END_TAG"
      /\ TokenTypes[6] = "DOLLAR_QUOTED_STRING"
  BY DEF TokenTypes
<1> QED
  BY <1>1, <1>2 DEF TokenType

LEMMA TextLength == TypeOK => Len(text) \in Nat
  BY RuntimeAssumption DEF TypeOK

\* Counting a leak keeps the counter in its range.
LEMMA LeakType == leaked \in 0..MaxLeaked /\ Leak => leaked' \in 0..MaxLeaked
  BY MaxLeakedAssumption DEF Leak

(***************************************************************************)
(* deserialize leaves a payload of the right type that is owned, whatever  *)
(* was in it before.                                                       *)
(***************************************************************************)
LEMMA DeserializeOK ==
    ASSUME leaked \in 0..MaxLeaked,
           NEW saved \in Tags \cup {NoTag}, Deserialize(saved)
    PROVE  /\ start_tag' = saved /\ Ownership'
           /\ owned' \in BOOLEAN /\ leaked' \in 0..MaxLeaked
  BY LeakType DEF Deserialize, Ownership

(***************************************************************************)
(* scan, whichever branch answers, keeps the payload owned and returns a   *)
(* token that a scanner of the version's own would have returned.          *)
(***************************************************************************)
LEMMA ScanOK ==
    ASSUME IInv, Scan
    PROVE  /\ start_tag' \in Tags \cup {NoTag} /\ owned' \in BOOLEAN
           /\ leaked' \in 0..MaxLeaked /\ Ownership'
           /\ \/ result' = NotFound
              \/ /\ result' \in TokenRecord /\ result'.first = pos[cur]
                 /\ Found(result', start_tag', pos[cur], last[cur])
<1> DEFINE p == pos[cur]
<1>1. /\ start_tag = last[cur] /\ start_tag \in Tags \cup {NoTag}
      /\ owned \in BOOLEAN /\ leaked \in 0..MaxLeaked /\ Ownership
      /\ p \in Nat /\ Len(text) \in Nat
  BY TextLength DEF IInv, TypeOK, PayloadIsCurrent, Scan
<1> USE TablesAssumption, TokenTypesAre
<1> HIDE DEF p
<1>2. CASE ScanPositionCall(Valid, text, p)
  BY <1>1, <1>2 DEF ScanPositionCall, PositionBranch, payload, Ownership, NotFound,
     Token, TokenRecord, Found, PositionTokens, p
<1>3. CASE ScanStartTag(Valid, text, p)
  <2>1. CASE IsTagAt(text, p)
    <3>1. /\ start_tag' = text[p] /\ owned' = TRUE /\ leaked' = leaked
          /\ result' = Token("DOLLAR_QUOTED_STRING_START_TAG", text[p], p, p)
          /\ start_tag = NoTag
      BY <1>3, <2>1 DEF ScanStartTag, StartBranch
    <3>2. text[p] \in Tags /\ text[p] # NoTag
      BY <2>1 DEF IsTagAt
    <3>3. Ownership'
      BY <3>1, <3>2 DEF Ownership
    <3>4. /\ result' \in TokenRecord /\ result'.tag = text[p]
          /\ result'.sym = "DOLLAR_QUOTED_STRING_START_TAG"
          /\ result'.first = p /\ result'.last = p
      <4>1. text[p] \in Tags \cup {NoTag}
        BY <3>2
      <4>2. "DOLLAR_QUOTED_STRING_START_TAG" \in TokenType
        BY ONLY TokenTypesAre
      <4>3. p \in Nat
        BY ONLY <1>1
      <4>4. Token("DOLLAR_QUOTED_STRING_START_TAG", text[p], p, p) \in TokenRecord
        BY ONLY <4>1, <4>2, <4>3 DEF Token, TokenRecord
      <4> QED
        BY ONLY <3>1, <4>4 DEF Token
    <3>5. Found(result', start_tag', p, last[cur])
      BY ONLY <1>1, <2>1, <3>1, <3>2, <3>4 DEF Found
    <3> QED
      BY ONLY <1>1, <3>1, <3>2, <3>3, <3>4, <3>5 DEF p
  <2>2. CASE ~IsTagAt(text, p)
    BY <1>1, <1>3, <2>2 DEF ScanStartTag, Ownership
  <2> QED
    BY <2>1, <2>2
<1>4. CASE ScanEndTag(Valid, text, p)
  <2>1. CASE IsTagAt(text, p) /\ text[p] = start_tag
    <3>1. /\ start_tag' = NoTag /\ owned' = FALSE /\ leaked' = leaked
          /\ result' = Token("DOLLAR_QUOTED_STRING_END_TAG", text[p], p, p)
      BY <1>4, <2>1 DEF ScanEndTag
    <3>2. Ownership'
      BY <3>1 DEF Ownership
    <3>3. text[p] \in Tags
      BY <2>1 DEF IsTagAt
    <3>4. /\ result' \in TokenRecord /\ result'.tag = text[p]
          /\ result'.sym = "DOLLAR_QUOTED_STRING_END_TAG"
          /\ result'.first = p /\ result'.last = p
      <4>1. text[p] \in Tags \cup {NoTag}
        BY <3>3
      <4>2. "DOLLAR_QUOTED_STRING_END_TAG" \in TokenType
        BY ONLY TokenTypesAre
      <4>3. p \in Nat
        BY ONLY <1>1
      <4>4. Token("DOLLAR_QUOTED_STRING_END_TAG", text[p], p, p) \in TokenRecord
        BY ONLY <4>1, <4>2, <4>3 DEF Token, TokenRecord
      <4> QED
        BY ONLY <3>1, <4>4 DEF Token
    <3>5. Found(result', start_tag', p, last[cur])
      BY ONLY <1>1, <2>1, <3>1, <3>4 DEF Found
    <3> QED
      BY ONLY <1>1, <3>1, <3>2, <3>4, <3>5 DEF p
  <2>2. CASE ~(IsTagAt(text, p) /\ text[p] = start_tag)
    <3>1. UNCHANGED <<start_tag, owned, leaked>> /\ result' = NotFound
      BY <1>4, <2>2 DEF ScanEndTag
    <3> QED
      BY <1>1, <3>1 DEF Ownership
  <2> QED
    BY <2>1, <2>2
<1>5. CASE ScanDollarQuotedString(Valid, text, p)
  <2>1. UNCHANGED <<start_tag, owned>> /\ leaked' \in 0..MaxLeaked
    BY <1>1, <1>5, LeakType DEF ScanDollarQuotedString, TakeString
  <2>2. \/ result' = NotFound
        \/ \E q \in Closers(text, p) :
             /\ IsTagAt(text, p) /\ text[p] # start_tag
             /\ IsCloser(text, p, q)
             /\ result' = Token("DOLLAR_QUOTED_STRING", text[p], p, q)
    BY <1>5 DEF ScanDollarQuotedString, TakeString
  <2>3. \A q \in Closers(text, p) : q \in Nat
    BY <1>1 DEF Closers
  <2> QED
    BY <1>1, <2>1, <2>2, <2>3 DEF IsTagAt, Ownership, Token, TokenRecord, Found, p
<1>6. CASE ScanNothing(Valid, text, p)
  BY <1>1, <1>6 DEF ScanNothing, payload, Ownership
<1> QED
  BY <1>2, <1>3, <1>4, <1>5, <1>6 DEF Scan, p

(***************************************************************************)
(* What is serialized for a found token is never a tag too long, and after *)
(* serialize the payload is still owned.                                   *)
(***************************************************************************)
LEMMA SerializeOK ==
    ASSUME start_tag \in Tags \cup {NoTag}, owned \in BOOLEAN, Ownership,
           leaked \in 0..MaxLeaked, Serialize
    PROVE  /\ Serialized \in (Tags \ LongTags) \cup {NoTag}
           /\ start_tag' \in Tags \cup {NoTag} /\ owned' \in BOOLEAN
           /\ leaked' \in 0..MaxLeaked /\ Ownership'
<1>1. Serialized \in (Tags \ LongTags) \cup {NoTag}
  BY DEF Serialized
<1>2. CASE Serialized = NoTag
  <2>1. UNCHANGED <<start_tag, owned, leaked>>
    BY <1>2 DEF Serialize
  <2> QED
    BY <1>1, <2>1 DEF Ownership
<1>3. CASE Serialized # NoTag
  <2>1. start_tag' = NoTag /\ owned' = FALSE /\ leaked' = leaked
    BY <1>3 DEF Serialize
  <2> QED
    BY <1>1, <2>1 DEF Ownership
<1> QED
  BY <1>2, <1>3

LEMMA InitIInv == Init => IInv
<1> SUFFICES ASSUME Init PROVE IInv
  OBVIOUS
<1>1. TypeOK
  <2>1. 1 \in 1..Len(table.rows) /\ 0 \in 0..MaxLeaked
    <3>1. table \in Tables
      BY DEF Init
    <3>2. table.rows \in Seq(SUBSET Declared(table)) /\ Len(table.rows) > 0
      BY <3>1, TablesAssumption
    <3> DEFINE n == Len(table.rows)
    <3>3. n \in Nat /\ n > 0
      BY <3>2
    <3> HIDE DEF n
    <3>4. 1 \in 1..n
      BY <3>3
    <3> QED
      BY <3>4, MaxLeakedAssumption DEF n
  <2>2. tokens \in [Versions -> Seq(TokenRecord)]
    <3>1. <<>> \in Seq(TokenRecord)
      OBVIOUS
    <3> QED
      BY <3>1 DEF Init
  <2>3. pos \in [Versions -> Nat \ {0}] /\ last \in [Versions -> (Tags \ LongTags) \cup {NoTag}]
    BY DEF Init
  <2> QED
    BY <2>1, <2>2, <2>3 DEF Init, TypeOK, Phases, Recovery
<1>2. Ownership
  BY DEF Init, Ownership
<1> QED
  BY <1>1, <1>2 DEF Init, IInv, PayloadIsCurrent, FoundIsSound,
     LexingALiveVersion, NoVersionOutsideAParse

LEMMA StepIInv == IInv /\ [Next]_vars => IInv'
<1> SUFFICES ASSUME IInv, [Next]_vars PROVE IInv'
  OBVIOUS
<1> USE DEF IInv
<1>0. Len(text) \in Nat
  BY TextLength
<1>1. CASE StartParse
  <2>1. TypeOK'
    <3>1. PICK v \in Versions :
             /\ live' = {v}
             /\ pos' = [pos EXCEPT ![v] = 1]
             /\ last' = [last EXCEPT ![v] = NoTag]
             /\ tokens' = [tokens EXCEPT ![v] = <<>>]
      BY <1>1 DEF StartParse
    <3>2. <<>> \in Seq(TokenRecord)
      OBVIOUS
    <3>3. /\ pos' \in [Versions -> Nat \ {0}]
          /\ last' \in [Versions -> (Tags \ LongTags) \cup {NoTag}]
          /\ tokens' \in [Versions -> Seq(TokenRecord)]
      BY <3>1, <3>2 DEF TypeOK
    <3> QED
      BY <1>1, <3>1, <3>3 DEF StartParse, Create, TypeOK, Phases
  <2>2. Ownership'
    BY <1>1 DEF StartParse, Create, Ownership
  <2> QED
    BY <1>1, <2>1, <2>2 DEF StartParse, PayloadIsCurrent, FoundIsSound,
       LexingALiveVersion, NoVersionOutsideAParse
<1>2. ASSUME NEW v \in Versions, NEW r \in 1..Len(table.rows), StartLex(v, r) PROVE IInv'
  <2>1. /\ start_tag' = last[v] /\ Ownership'
        /\ owned' \in BOOLEAN /\ leaked' \in 0..MaxLeaked
    BY <1>2, DeserializeOK DEF StartLex, TypeOK
  <2>2. TypeOK'
    BY <1>2, <2>1 DEF StartLex, TypeOK, stack, Phases
  <2> QED
    BY <1>2, <2>1, <2>2 DEF StartLex, stack, PayloadIsCurrent, FoundIsSound,
       LexingALiveVersion, NoVersionOutsideAParse
<1>3. CASE Scan
  <2>1. /\ start_tag' \in Tags \cup {NoTag} /\ owned' \in BOOLEAN
        /\ leaked' \in 0..MaxLeaked /\ Ownership'
        /\ \/ result' = NotFound
           \/ /\ result' \in TokenRecord /\ result'.first = pos[cur]
              /\ Found(result', start_tag', pos[cur], last[cur])
    BY <1>3, ScanOK
  <2>2. /\ UNCHANGED <<text, table, beyond, cur, row, live, pos, last, tokens>>
        /\ phase = "scan"
        /\ phase' = IF result' = NotFound THEN "internal" ELSE "lexed"
    BY <1>3 DEF Scan, stack
  <2>3. TypeOK'
    BY <2>1, <2>2 DEF TypeOK, Phases
  <2>4. FoundIsSound'
    BY <2>1, <2>2 DEF FoundIsSound, Found, IsTagAt, IsCloser, Closers
  <2> QED
    BY <2>1, <2>2, <2>3, <2>4 DEF PayloadIsCurrent,
       LexingALiveVersion, NoVersionOutsideAParse
<1>4. CASE AcceptToken
  <2>1. /\ Serialized \in (Tags \ LongTags) \cup {NoTag}
        /\ start_tag' \in Tags \cup {NoTag} /\ owned' \in BOOLEAN
        /\ leaked' \in 0..MaxLeaked /\ Ownership'
    BY <1>4, SerializeOK DEF AcceptToken, TypeOK
  <2>2. result \in TokenRecord /\ result.last \in Nat
    BY <1>4 DEF AcceptToken, FoundIsSound, TokenRecord
  <2>3. TypeOK'
    BY <1>4, <2>1, <2>2 DEF AcceptToken, TypeOK, Phases
  <2> QED
    BY <1>4, <2>1, <2>3 DEF AcceptToken, PayloadIsCurrent, FoundIsSound,
       LexingALiveVersion, NoVersionOutsideAParse
<1>5. CASE InternalLex
  <2>1. TypeOK'
    BY <1>5 DEF InternalLex, TypeOK, payload, Phases
  <2>2. Ownership'
    BY <1>5 DEF InternalLex, Ownership, payload
  <2> QED
    BY <1>5, <2>1, <2>2 DEF InternalLex, PayloadIsCurrent, FoundIsSound,
       LexingALiveVersion, NoVersionOutsideAParse
<1>6. CASE Relex
  <2>1. last[cur] \in Tags \cup {NoTag}
    BY DEF TypeOK
  <2>2. /\ start_tag' = last[cur] /\ Ownership'
        /\ owned' \in BOOLEAN /\ leaked' \in 0..MaxLeaked
    BY <1>6, <2>1, DeserializeOK DEF Relex, TypeOK
  <2>3. TypeOK'
    BY <1>6, <2>1, <2>2, TablesAssumption DEF Relex, TypeOK, stack, Phases, Recovery
  <2> QED
    BY <1>6, <2>2, <2>3 DEF Relex, stack, PayloadIsCurrent, FoundIsSound,
       LexingALiveVersion, NoVersionOutsideAParse
<1>7. ASSUME NEW v \in Versions, NEW w \in Versions, Fork(v, w) PROVE IInv'
  <2>1. TypeOK'
    BY <1>7 DEF Fork, TypeOK, payload
  <2>2. Ownership'
    BY <1>7 DEF Fork, Ownership, payload
  <2> QED
    BY <1>7, <2>1, <2>2 DEF Fork, PayloadIsCurrent, FoundIsSound,
       LexingALiveVersion, NoVersionOutsideAParse
<1>8. ASSUME NEW v \in Versions, Drop(v) PROVE IInv'
  <2>1. TypeOK'
    BY <1>8 DEF Drop, TypeOK, payload
  <2>2. Ownership'
    BY <1>8 DEF Drop, Ownership, payload
  <2> QED
    BY <1>8, <2>1, <2>2 DEF Drop, PayloadIsCurrent, FoundIsSound,
       LexingALiveVersion, NoVersionOutsideAParse
<1>9. CASE EndParse
  <2>1. TypeOK'
    BY <1>9 DEF EndParse, Destroy, TypeOK, Phases
  <2>2. Ownership'
    BY <1>9 DEF EndParse, Destroy, Ownership
  <2> QED
    BY <1>9, <2>1, <2>2 DEF EndParse, PayloadIsCurrent, FoundIsSound,
       LexingALiveVersion, NoVersionOutsideAParse
<1>10. CASE UNCHANGED vars
  <2>1. UNCHANGED <<start_tag, owned, leaked, result, text, table, beyond, phase, cur, row,
                    live, pos, last, tokens>>
    BY <1>10 DEF vars, payload, stack
  <2>2. TypeOK'
    BY <2>1 DEF TypeOK
  <2>3. Ownership'
    BY <2>1 DEF Ownership
  <2>4. FoundIsSound'
    BY <2>1 DEF FoundIsSound, Found, IsTagAt, IsCloser, Closers
  <2> QED
    BY <2>1, <2>2, <2>3, <2>4 DEF PayloadIsCurrent,
       LexingALiveVersion, NoVersionOutsideAParse
<1> QED
  BY <1>1, <1>2, <1>3, <1>4, <1>5, <1>6, <1>7, <1>8, <1>9, <1>10 DEF Next

LEMMA Invariance == Spec => []IInv
  BY InitIInv, StepIInv, PTL DEF Spec

(***************************************************************************)
(* The variables keep their types, for any versions, tags, texts and table *)
(* of externals.                                                           *)
(***************************************************************************)
THEOREM TypeCorrect == Spec => []TypeOK
<1>1. IInv => TypeOK
  BY DEF IInv
<1> QED
  BY <1>1, Invariance, PTL

(***************************************************************************)
(* start_tag is NULL or points to an allocated string at every moment:     *)
(* nothing is freed twice, and nothing freed is read.                      *)
(***************************************************************************)
THEOREM OwnershipSafe == Spec => []Ownership
<1>1. IInv => Ownership
  BY DEF IInv
<1> QED
  BY <1>1, Invariance, PTL

(***************************************************************************)
(* scan always runs on the state of the version being lexed.               *)
(***************************************************************************)
THEOREM PayloadCurrent == Spec => []PayloadIsCurrent
<1>1. IInv => PayloadIsCurrent
  BY DEF IInv
<1> QED
  BY <1>1, Invariance, PTL

-----------------------------------------------------------------------------
\* The refinement: the abstract step that each step of the runtime takes.

LEMMA ScanIsHidden == Scan => UNCHANGED Private!vars
  BY DEF Scan, stack, Private!vars

LEMMA AcceptRefines == IInv /\ AcceptToken => Private!Next
<1> SUFFICES ASSUME IInv, AcceptToken PROVE Private!Next
  OBVIOUS
<1> DEFINE p == pos[cur]
           t == text[p]
<1>1. /\ cur \in Versions /\ cur \in live /\ p \in Nat
      /\ result \in TokenRecord /\ result.first = p
      /\ Found(result, start_tag, p, last[cur])
      /\ last \in [Versions -> (Tags \ LongTags) \cup {NoTag}]
      /\ Len(text) \in Nat
  BY TextLength DEF IInv, AcceptToken, TypeOK, FoundIsSound, LexingALiveVersion
<1>2. /\ UNCHANGED <<text, live>>
      /\ last' = [last EXCEPT ![cur] = Serialized]
      /\ tokens' = [tokens EXCEPT ![cur] = Append(@, result)]
      /\ pos' = [pos EXCEPT ![cur] = result.last + 1]
  BY DEF AcceptToken
<1>3. result = Private!Token(result.sym, result.tag, p, result.last)
  BY <1>1 DEF Private!Token, TokenRecord
<1>4. Private!Take(cur, result.sym, result.tag, result.last)
  BY <1>1, <1>2, <1>3 DEF Private!Take
<1> USE TablesAssumption
<1>5. ASSUME Serialized = last[cur] PROVE last' = last
  BY <1>1, <1>2, <1>5
<1>6. CASE /\ result.sym = "DOLLAR_QUOTED_STRING_START_TAG"
           /\ IsTagAt(text, p) /\ result.tag = t /\ result.last = p
           /\ last[cur] = NoTag /\ start_tag = t
  <2>1. t \in Tags /\ Private!TagAt(cur, t)
    BY <1>6 DEF IsTagAt, Private!TagAt
  <2>2. Private!OpenTag(cur, t)
    BY <1>2, <1>4, <1>6, <2>1 DEF Private!OpenTag, Private!StartTag, Serialized
  <2> QED
    BY <1>1, <2>1, <2>2 DEF Private!Next
<1>7. CASE /\ result.sym = "DOLLAR_QUOTED_STRING_END_TAG"
           /\ IsTagAt(text, p) /\ result.tag = t /\ result.last = p
           /\ last[cur] = t /\ start_tag = NoTag
  <2>1. t \in Tags /\ Private!TagAt(cur, t)
    BY <1>7 DEF IsTagAt, Private!TagAt
  <2>2. Private!CloseTag(cur, t)
    BY <1>2, <1>4, <1>7, <2>1 DEF Private!CloseTag, Private!EndTag, Serialized
  <2> QED
    BY <1>1, <2>1, <2>2 DEF Private!Next
<1>8. CASE /\ result.sym = "DOLLAR_QUOTED_STRING"
           /\ IsTagAt(text, p) /\ result.tag = t
           /\ last[cur] # t /\ start_tag = last[cur]
           /\ IsCloser(text, p, result.last)
  <2>1. t \in Tags /\ Private!TagAt(cur, t)
    BY <1>8 DEF IsTagAt, Private!TagAt
  <2>2. last' = last
    BY <1>1, <1>5, <1>8 DEF Serialized
  <2>3. /\ result.last \in p+1..Len(text) /\ text[result.last] = t
        /\ \A k \in p+1..result.last-1 : text[k] # t
        /\ result.last \in 1..Len(text)
    BY <1>1, <1>8 DEF IsCloser, Closers
  <2>4. Private!WholeString(cur, t, result.last)
    BY <1>4, <1>8, <2>1, <2>2, <2>3 DEF Private!WholeString, Private!String
  <2> QED
    BY <1>1, <2>1, <2>3, <2>4 DEF Private!Next
<1>9. CASE /\ result.sym \in PositionTokens
           /\ p \in 1..Len(text) /\ text[p] = result.sym
           /\ result.tag = NoTag /\ result.last = p /\ start_tag = last[cur]
  <2>1. last' = last
    BY <1>1, <1>5, <1>9 DEF Serialized
  <2>2. Private!PositionCall(cur, result.sym)
    BY <1>4, <1>9, <2>1 DEF Private!PositionCall, Private!TagAt
  <2> QED
    BY <1>1, <1>9, <2>2 DEF Private!Next
<1> QED
  BY <1>1, <1>6, <1>7, <1>8, <1>9 DEF Found

LEMMA StepRefines == IInv /\ [Next]_vars => [Private!Next]_Private!vars
<1> SUFFICES ASSUME IInv, [Next]_vars PROVE [Private!Next]_Private!vars
  OBVIOUS
<1>1. CASE StartParse
  <2>1. PICK v \in Versions : Private!Start(v)
    BY <1>1 DEF StartParse, IInv, NoVersionOutsideAParse, Private!Start
  <2> QED
    BY <2>1 DEF Private!Next
<1>2. ASSUME NEW v \in Versions, NEW r \in 1..Len(table.rows), StartLex(v, r)
      PROVE  UNCHANGED Private!vars
  BY <1>2 DEF StartLex, stack, Private!vars
<1>3. CASE Scan
  BY <1>3, ScanIsHidden
<1>4. CASE AcceptToken
  BY <1>4, AcceptRefines
<1>5. CASE InternalLex
  <2>1. cur \in Versions /\ Private!Skip(cur)
    BY <1>5 DEF InternalLex, IInv, TypeOK, LexingALiveVersion, Private!Skip
  <2> QED
    BY <2>1 DEF Private!Next
<1>6. CASE Relex
  BY <1>6 DEF Relex, stack, Private!vars
<1>7. ASSUME NEW v \in Versions, NEW w \in Versions, Fork(v, w) PROVE Private!Next
  <2>1. Private!Split(v, w)
    BY <1>7 DEF Fork, Private!Split
  <2> QED
    BY <2>1 DEF Private!Next
<1>8. ASSUME NEW v \in Versions, Drop(v) PROVE Private!Next
  <2>1. Private!Remove({v})
    BY <1>8 DEF Drop, Private!Remove
  <2> QED
    BY <2>1 DEF Private!Next
<1>9. CASE EndParse
  <2>1. Private!Remove(live)
    BY <1>9 DEF EndParse, Private!Remove
  <2> QED
    BY <2>1 DEF Private!Next
<1>10. CASE UNCHANGED vars
  BY <1>10 DEF vars, stack, Private!vars
<1> QED
  BY <1>1, <1>2, <1>3, <1>4, <1>5, <1>6, <1>7, <1>8, <1>9, <1>10 DEF Next

(***************************************************************************)
(* The shared payload with its serialize and deserialize calls implements  *)
(* a scanner of its own for every version.                                 *)
(***************************************************************************)
THEOREM Refinement == Spec => PrivatePerVersion
<1>1. Init => Private!Init
  BY DEF Init, Private!Init
<1> QED
  BY <1>1, Invariance, StepRefines, PTL DEF Spec, PrivatePerVersion, Private!Spec

-----------------------------------------------------------------------------
\* What is proved of PrivateScanners, carried over along the refinement.

Proved == INSTANCE PrivateScanners_proofs WITH
    open <- last, Texts <- UNION {Texts[t] : t \in Tables}

LEMMA ProvedAssumption == Proved!PrivateAssumption
  BY TablesAssumption
     DEF Proved!PrivateAssumption, PositionTokens,
         Proved!StartTag, Proved!EndTag, Proved!String

LEMMA SameSpec == Private!Spec => Proved!Spec
<1>1. Private!Init => Proved!Init
  BY DEF Private!Init, Proved!Init
<1>2. [Private!Next]_Private!vars => [Proved!Next]_Proved!vars
  BY DEF Private!Next, Proved!Next, Private!vars, Proved!vars,
     Private!Start, Proved!Start, Private!Skip, Proved!Skip,
     Private!OpenTag, Proved!OpenTag, Private!CloseTag, Proved!CloseTag,
     Private!WholeString, Proved!WholeString,
     Private!PositionCall, Proved!PositionCall,
     Private!Split, Proved!Split, Private!Remove, Proved!Remove,
     Private!Take, Proved!Take, Private!Token, Proved!Token,
     Private!TagAt, Proved!TagAt, Private!StartTag, Proved!StartTag,
     Private!EndTag, Proved!EndTag, Private!String, Proved!String
<1> QED
  BY <1>1, <1>2, PTL DEF Private!Spec, Proved!Spec

LEMMA SameBalanced == Proved!Balanced <=> VersionsBalanced
  BY DEF Proved!Balanced, VersionsBalanced, Private!Balanced,
     Private!TagsPairUp, Proved!TagsPairUp,
     Private!NoStringOfOpenTag, Proved!NoStringOfOpenTag,
     Private!OpenBefore, Proved!OpenBefore,
     Private!PreviousTag, Proved!PreviousTag,
     Private!StartTag, Proved!StartTag, Private!EndTag, Proved!EndTag,
     Private!String, Proved!String

LEMMA SameOpenFollows == Proved!OpenFollowsTokens <=> SavedFollowsTokens
  BY DEF Proved!OpenFollowsTokens, SavedFollowsTokens, Private!OpenFollowsTokens,
     Private!OpenBefore, Proved!OpenBefore,
     Private!PreviousTag, Proved!PreviousTag,
     Private!StartTag, Proved!StartTag, Private!EndTag, Proved!EndTag

(***************************************************************************)
(* In every stack version the start and end tags pair up and no string is  *)
(* taken with the tag that is open around it, however the runtime switches *)
(* between versions.                                                       *)
(***************************************************************************)
THEOREM BalancedInEveryVersion == Spec => []VersionsBalanced
  BY Refinement, SameSpec, SameBalanced, ProvedAssumption, Proved!PrivateBalanced, PTL
     DEF PrivatePerVersion

(***************************************************************************)
(* The state saved for a version is what its own tokens left open.         *)
(***************************************************************************)
THEOREM SavedIsOwn == Spec => []SavedFollowsTokens
  BY Refinement, SameSpec, SameOpenFollows, ProvedAssumption,
     Proved!PrivateOpenFollowsTokens, PTL DEF PrivatePerVersion

-----------------------------------------------------------------------------
(***************************************************************************)
(* Where no row offers the start tag no tag is ever held, neither in the   *)
(* payload nor in a saved state, and nothing was leaked.                   *)
(***************************************************************************)
HoldingNeedsStartTag ==
    leaked > 0 \/ start_tag # NoTag \/ (\E v \in Versions : last[v] # NoTag)
        => StartTagOffered

LEMMA StepHolding ==
    IInv /\ HoldingNeedsStartTag /\ [Next]_vars => HoldingNeedsStartTag'
<1> SUFFICES ASSUME IInv, HoldingNeedsStartTag, [Next]_vars
             PROVE  HoldingNeedsStartTag'
  OBVIOUS
<1>a. UNCHANGED <<table, beyond>>
  <2>1. ASSUME NEW v \in Versions, NEW r \in 1..Len(table.rows), StartLex(v, r)
        PROVE  UNCHANGED <<table, beyond>>
    BY <2>1 DEF StartLex
  <2>2. ASSUME NEW v \in Versions, Drop(v) \/ \E w \in Versions : Fork(v, w)
        PROVE  UNCHANGED <<table, beyond>>
    BY <2>2 DEF Drop, Fork
  <2>3. StartParse \/ Scan \/ AcceptToken \/ InternalLex \/ Relex \/ EndParse
          => UNCHANGED <<table, beyond>>
    BY DEF StartParse, Scan, AcceptToken, InternalLex, Relex, EndParse
  <2>4. UNCHANGED vars => UNCHANGED <<table, beyond>>
    BY DEF vars
  <2> QED
    BY <2>1, <2>2, <2>3, <2>4 DEF Next
<1>b. StartTagOffered' <=> StartTagOffered
  BY <1>a DEF StartTagOffered, ValidSymbols, ReadsTrue
<1> SUFFICES ASSUME ~StartTagOffered
             PROVE  /\ ~(leaked' > 0) /\ start_tag' = NoTag
                    /\ \A v \in Versions : last'[v] = NoTag
  BY <1>b DEF HoldingNeedsStartTag
<1>0. /\ ~(leaked > 0) /\ start_tag = NoTag /\ ~owned
      /\ \A v \in Versions : last[v] = NoTag
      /\ last \in [Versions -> (Tags \ LongTags) \cup {NoTag}]
      /\ cur \in Versions /\ row \in 1..Len(table.rows)
  BY DEF HoldingNeedsStartTag, IInv, TypeOK, Ownership
<1>1. CASE StartParse
  BY <1>0, <1>1 DEF StartParse, Create
<1>2. ASSUME NEW v \in Versions, NEW r \in 1..Len(table.rows), StartLex(v, r)
      PROVE  UNCHANGED <<leaked, last>> /\ start_tag' = NoTag
  BY <1>0, <1>2 DEF StartLex, Deserialize, stack
<1>3. CASE Scan
  <2>1. "DOLLAR_QUOTED_STRING_START_TAG" \notin Valid
    BY <1>0 DEF StartTagOffered, Valid
  <2>2. UNCHANGED <<start_tag, leaked, last>>
    <3>1. last' = last
      BY <1>3 DEF Scan, stack
    <3>2. IsTagAt(text, pos[cur]) => text[pos[cur]] # start_tag
      BY <1>0, TablesAssumption DEF IsTagAt
    <3> QED
      BY <1>0, <1>3, <2>1, <3>1, <3>2 DEF Scan, ScanPositionCall, ScanStartTag,
         ScanEndTag, ScanDollarQuotedString, TakeString, ScanNothing,
         StartBranch, EndBranch, payload
  <2> QED
    BY <1>0, <2>2
<1>4. CASE AcceptToken
  BY <1>0, <1>4, TablesAssumption DEF AcceptToken, Serialize, Serialized
<1>5. CASE InternalLex
  BY <1>0, <1>5 DEF InternalLex, payload
<1>6. CASE Relex
  BY <1>0, <1>6 DEF Relex, Deserialize, stack
<1>7. ASSUME NEW v \in Versions, NEW w \in Versions, Fork(v, w)
      PROVE  /\ UNCHANGED <<leaked, start_tag>>
             /\ \A u \in Versions : last'[u] = NoTag
  BY <1>0, <1>7 DEF Fork, payload
<1>8. ASSUME NEW v \in Versions, Drop(v)
      PROVE  UNCHANGED <<leaked, start_tag, last>>
  BY <1>8 DEF Drop, payload
<1>9. CASE EndParse
  BY <1>0, <1>9 DEF EndParse, Destroy
<1>10. CASE UNCHANGED vars
  BY <1>0, <1>10 DEF vars, payload, stack
<1> QED
  BY <1>0, <1>1, <1>2, <1>3, <1>4, <1>5, <1>6, <1>7, <1>8, <1>9, <1>10 DEF Next

(***************************************************************************)
(* A table of externals that never offers the start tag makes the scanner  *)
(* free of leaks.                                                          *)
(***************************************************************************)
THEOREM NoLeakWithoutStartTag == Spec => []LeakNeedsStartTag
<1>1. Init => HoldingNeedsStartTag
  BY DEF Init, HoldingNeedsStartTag
<1>2. HoldingNeedsStartTag => LeakNeedsStartTag
  BY DEF HoldingNeedsStartTag, LeakNeedsStartTag
<1> QED
  BY <1>1, <1>2, Invariance, StepHolding, PTL DEF Spec

-----------------------------------------------------------------------------
(***************************************************************************)
(* The tokens s lie one after the other in front of p.  TokensInOrder says *)
(* it of each live version and where it has come to, and is inductive with *)
(* IInv: a found token begins at that place and spans it.                  *)
(***************************************************************************)
InOrder(s, p) ==
    \A i \in 1..Len(s) : /\ s[i].first <= s[i].last
                         /\ s[i].last < p
                         /\ \A j \in 1..i-1 : s[j].last < s[i].first

LEMMA TokensAreInOrder == TokensInOrder <=> \A v \in live : InOrder(tokens[v], pos[v])
  BY DEF TokensInOrder, InOrder

LEMMA TokenSpan ==
    ASSUME NEW s \in Seq(TokenRecord), NEW i \in 1..Len(s)
    PROVE  s[i].first \in Nat /\ s[i].last \in Nat
<1>1. s[i] \in TokenRecord
  OBVIOUS
<1> QED
  BY <1>1 DEF TokenRecord

LEMMA InOrderLater ==
    ASSUME NEW s \in Seq(TokenRecord), NEW p \in Nat, InOrder(s, p)
    PROVE  InOrder(s, p + 1)
<1>1. \A i \in 1..Len(s) : s[i].last \in Nat
  BY TokenSpan
<1> QED
  BY <1>1 DEF InOrder

LEMMA InOrderAppend ==
    ASSUME NEW s \in Seq(TokenRecord), NEW p \in Nat, InOrder(s, p),
           NEW tok \in TokenRecord, tok.first = p, p <= tok.last
    PROVE  InOrder(Append(s, tok), tok.last + 1)
<1> DEFINE t == Append(s, tok)
           n == Len(s)
<1>1. /\ n \in Nat /\ Len(t) = n + 1 /\ t[n + 1] = tok
      /\ \A i \in 1..n : t[i] = s[i] /\ s[i].last \in Nat
      /\ tok.last \in Nat /\ tok.first \in Nat
  <2>1. tok.last \in Nat /\ tok.first \in Nat
    BY DEF TokenRecord
  <2>2. \A i \in 1..n : s[i].last \in Nat
    BY TokenSpan
  <2> QED
    BY <2>1, <2>2
<1> HIDE DEF t
<1>2. ASSUME NEW i \in 1..n
      PROVE  /\ t[i].first <= t[i].last /\ t[i].last < tok.last + 1
             /\ \A j \in 1..i-1 : t[j].last < t[i].first
  <2>1. /\ s[i].first <= s[i].last /\ s[i].last < p
        /\ \A j \in 1..i-1 : s[j].last < s[i].first
    BY DEF InOrder
  <2>2. \A j \in 1..i-1 : t[j] = s[j]
    BY <1>1
  <2>3. t[i] = s[i] /\ s[i].last \in Nat
    BY <1>1
  <2>4. t[i].last < tok.last + 1
    BY <1>1, <2>1, <2>3
  <2> QED
    BY <2>1, <2>2, <2>3, <2>4
<1>3. ASSUME NEW j \in 1..n PROVE t[j].last < tok.first
  BY <1>1 DEF InOrder
<1>4. ASSUME NEW i \in 1..Len(t)
      PROVE  /\ t[i].first <= t[i].last /\ t[i].last < tok.last + 1
             /\ \A j \in 1..i-1 : t[j].last < t[i].first
  <2>1. CASE i = n + 1
    <3>1. t[i].first <= t[i].last /\ t[i].last < tok.last + 1
      BY <1>1, <2>1
    <3>2. ASSUME NEW j \in 1..i-1 PROVE t[j].last < t[i].first
      BY <1>1, <1>3, <2>1
    <3> QED
      BY <3>1, <3>2
  <2>2. CASE i # n + 1
    <3>1. i \in 1..n
      BY <1>1, <2>2
    <3> QED
      BY <1>2, <3>1
  <2> QED
    BY <2>1, <2>2
<1> QED
  BY <1>4 DEF InOrder, t

\* A found token begins where the version is, and does not end before.
LEMMA FoundSpans ==
    ASSUME IInv, phase = "lexed"
    PROVE  /\ result \in TokenRecord /\ result.first = pos[cur]
           /\ pos[cur] <= result.last
<1>1. /\ result \in TokenRecord /\ result.first = pos[cur]
      /\ Found(result, start_tag, pos[cur], last[cur])
      /\ pos[cur] \in Nat
  BY DEF IInv, FoundIsSound, TypeOK
<1>2. IsCloser(text, pos[cur], result.last) => pos[cur] <= result.last
  BY <1>1 DEF IsCloser, Closers
<1> QED
  BY <1>1, <1>2 DEF Found

LEMMA StepInOrder == IInv /\ TokensInOrder /\ [Next]_vars => TokensInOrder'
<1> SUFFICES ASSUME IInv, \A v \in live : InOrder(tokens[v], pos[v]), [Next]_vars
             PROVE  \A v \in live' : InOrder(tokens'[v], pos'[v])
  BY TokensAreInOrder DEF TokensInOrder, InOrder
<1>0. /\ tokens \in [Versions -> Seq(TokenRecord)] /\ pos \in [Versions -> Nat \ {0}]
      /\ live \subseteq Versions /\ cur \in Versions
  BY DEF IInv, TypeOK
<1>1. CASE StartParse
  <2>1. PICK v \in Versions : /\ live' = {v}
                              /\ tokens' = [tokens EXCEPT ![v] = <<>>]
    BY <1>1 DEF StartParse
  <2>2. tokens'[v] = <<>>
    BY <1>0, <2>1
  <2> QED
    BY <2>1, <2>2 DEF InOrder
<1>2. ASSUME NEW v \in Versions, NEW r \in 1..Len(table.rows), StartLex(v, r)
      PROVE  UNCHANGED <<live, pos, tokens>>
  BY <1>2 DEF StartLex, stack
<1>3. CASE Scan
  BY <1>3 DEF Scan, stack
<1>4. CASE AcceptToken
  <2>1. /\ result \in TokenRecord /\ result.first = pos[cur] /\ pos[cur] <= result.last
        /\ cur \in live
    BY <1>4, FoundSpans DEF AcceptToken, IInv, LexingALiveVersion
  <2>2. /\ live' = live
        /\ tokens' = [tokens EXCEPT ![cur] = Append(tokens[cur], result)]
        /\ pos' = [pos EXCEPT ![cur] = result.last + 1]
    BY <1>4 DEF AcceptToken
  <2>3. InOrder(tokens'[cur], pos'[cur])
    BY <1>0, <2>1, <2>2, InOrderAppend
  <2>4. \A v \in live \ {cur} : tokens'[v] = tokens[v] /\ pos'[v] = pos[v]
    BY <1>0, <2>2
  <2> QED
    BY <2>2, <2>3, <2>4
<1>5. CASE InternalLex
  <2>1. /\ live' = live /\ tokens' = tokens /\ cur \in live
        /\ pos' = [pos EXCEPT ![cur] = pos[cur] + 1]
    BY <1>5 DEF InternalLex, IInv, LexingALiveVersion
  <2>2. InOrder(tokens'[cur], pos'[cur])
    BY <1>0, <2>1, InOrderLater
  <2>3. \A v \in live \ {cur} : pos'[v] = pos[v]
    BY <1>0, <2>1
  <2> QED
    BY <2>1, <2>2, <2>3
<1>6. CASE Relex
  BY <1>6 DEF Relex, stack
<1>7. ASSUME NEW v \in Versions, NEW w \in Versions, Fork(v, w)
      PROVE  \A u \in live' : InOrder(tokens'[u], pos'[u])
  <2>1. /\ v \in live /\ live' = live \cup {w} /\ w \notin live
        /\ pos' = [pos EXCEPT ![w] = pos[v]]
        /\ tokens' = [tokens EXCEPT ![w] = tokens[v]]
    BY <1>7 DEF Fork
  <2>2. tokens'[w] = tokens[v] /\ pos'[w] = pos[v]
    BY <1>0, <2>1
  <2>3. \A u \in live : tokens'[u] = tokens[u] /\ pos'[u] = pos[u]
    BY <1>0, <2>1
  <2> QED
    BY <2>1, <2>2, <2>3
<1>8. ASSUME NEW v \in Versions, Drop(v)
      PROVE  live' \subseteq live /\ UNCHANGED <<pos, tokens>>
  BY <1>8 DEF Drop
<1>9. CASE EndParse
  BY <1>9 DEF EndParse
<1>10. CASE UNCHANGED vars
  BY <1>10 DEF vars, stack
<1> QED
  BY <1>1, <1>2, <1>3, <1>4, <1>5, <1>6, <1>7, <1>8, <1>9, <1>10 DEF Next

(***************************************************************************)
(* In every version the tokens lie one after the other in the text, and    *)
(* none is empty, whatever the table of externals (scanner.c:169-239).     *)
(***************************************************************************)
THEOREM TokensStayInOrder == Spec => []TokensInOrder
<1>1. Init => TokensInOrder
  BY DEF Init, TokensInOrder
<1> QED
  BY <1>1, Invariance, StepInOrder, PTL DEF Spec

-----------------------------------------------------------------------------
(***************************************************************************)
(* No version is lexed at one place for ever: the steps that it can take   *)
(* are counted, five for each lexeme and for the end of the text.          *)
(***************************************************************************)

\* The steps of a lexeme that version v has taken: deserialize, scan, and both
\* again in error recovery; what follows is to take the token.
Taken(v) ==
    IF v # cur \/ phase \in {"none", "ready"} THEN 0
    ELSE IF phase = "lexed" THEN 4
    ELSE (IF phase = "internal" THEN 2 ELSE 1) + (IF row = Recovery THEN 2 ELSE 0)

\* The places that are left to lex, the end of the text among them.
Ahead(v) == IF pos[v] > Len(text) + 1 THEN 0 ELSE Len(text) + 2 - pos[v]

StepsLeft(v) == 5 * Ahead(v) - Taken(v)

AllSteps == 5 * (Len(text) + 1)

\* One of the branches of scan has an answer.
ScanAnswers ==
    \/ PositionBranch(Valid, text, pos[cur]) \/ StartBranch(Valid) \/ EndBranch(Valid)
    \/ "DOLLAR_QUOTED_STRING" \notin Valid
    \/ ~IsTagAt(text, pos[cur]) \/ text[pos[cur]] = start_tag
    \/ Closers(text, pos[cur]) = {}
    \/ \E q \in Closers(text, pos[cur]) : IsCloser(text, pos[cur], q)

\* The runtime waits for nothing: it can go on with the version that it lexes, lex
\* another one or end the parse.
CanGoOn ==
    /\ phase = "scan" => ScanAnswers
    /\ phase = "ready" => AtEnd \/ \E v \in live : pos[v] <= Len(text) + 1

\* The steps that lex for a version: StartLex, Scan, Relex, AcceptToken, InternalLex.
Lexes == phase \in {"scan", "lexed", "internal"} \/ phase' = "scan"

\* Each of them uses up one of the version; no step gives any version more, and a
\* new one has what the version has that it was split from.
Spends ==
    /\ \A v \in live : v \in live' => StepsLeft(v)' <= StepsLeft(v)
    /\ \A w \in live' \ live : live = {} \/ \E v \in live : StepsLeft(w)' = StepsLeft(v)
    /\ Lexes => \E v \in live \cap live' : v = cur' /\ StepsLeft(v)' < StepsLeft(v)

LEMMA LeastElement ==
    ASSUME NEW S \in SUBSET Nat, S # {}
    PROVE  \E m \in S : \A k \in S : m <= k
<1> DEFINE F == {1..n : n \in S}
<1>1. F \subseteq FiniteSubsetsOf(Nat) /\ F # {}
  <2>1. \A n \in S : IsFiniteSet(1..n) /\ 1..n \subseteq Nat
    BY FS_Interval
  <2> QED
    BY <2>1 DEF FiniteSubsetsOf
<1>2. \E x \in F : \A y \in F : <<y, x>> \notin StrictSubsetOrdering(Nat)
  <2> HIDE DEF F
  <2> QED
    BY <1>1, FS_StrictSubsetOrderingWellFounded, WFMin, ZenonT(30)
<1>3. PICK m \in S : \A y \in F : <<y, 1..m>> \notin StrictSubsetOrdering(Nat)
  BY <1>2
<1>4. ASSUME NEW k \in S, ~(m <= k) PROVE FALSE
  <2>1. /\ 1..k \in SUBSET Nat /\ 1..m \in SUBSET Nat
        /\ 1..k \subseteq 1..m /\ m \in 1..m /\ m \notin 1..k
    BY <1>3, <1>4
  <2>2. <<1..k, 1..m>> \in StrictSubsetOrdering(Nat)
    BY <2>1 DEF StrictSubsetOrdering
  <2> QED
    BY <1>3, <2>2
<1> QED
  BY <1>3, <1>4

\* A tag that comes again comes again somewhere first.
LEMMA FirstCloser ==
    ASSUME NEW t \in Seq(Lexeme), NEW p \in Nat, Closers(t, p) # {}
    PROVE  \E q \in Closers(t, p) : IsCloser(t, p, q)
<1>1. Closers(t, p) \in SUBSET Nat
  BY DEF Closers
<1> QED
  BY <1>1, LeastElement DEF IsCloser

LEMMA GoesOn == IInv => CanGoOn
<1> SUFFICES ASSUME IInv PROVE CanGoOn
  OBVIOUS
<1>1. text \in Seq(Lexeme) /\ Len(text) \in Nat
  BY RuntimeAssumption DEF IInv, TypeOK
<1>2. pos \in [Versions -> Nat \ {0}] /\ cur \in Versions /\ live \subseteq Versions
  BY DEF IInv, TypeOK
<1>3. ScanAnswers
  BY <1>1, <1>2, FirstCloser DEF ScanAnswers
<1>4. AtEnd \/ \E v \in live : pos[v] <= Len(text) + 1
  BY <1>1, <1>2 DEF AtEnd
<1> QED
  BY <1>3, <1>4 DEF CanGoOn

LEMMA Counts ==
    ASSUME IInv, NEW v \in Versions
    PROVE  /\ pos[v] \in Nat \ {0} /\ Len(text) \in Nat
           /\ Taken(v) \in 0..4 /\ (phase \in {"none", "ready"} => Taken(v) = 0)
           /\ Ahead(v) \in 0..Len(text)+1 /\ (Taken(v) # 0 => Ahead(v) > 0)
           /\ pos[v] <= Len(text) + 1 => Ahead(v) = Len(text) + 2 - pos[v] /\ Ahead(v) > 0
<1>1. pos[v] \in Nat \ {0} /\ Len(text) \in Nat /\ phase \in Phases
  BY TextLength DEF IInv, TypeOK
<1>2. Taken(v) \in 0..4 /\ (phase \in {"none", "ready"} => Taken(v) = 0)
  BY DEF Taken
<1>3. Ahead(v) \in 0..Len(text)+1
  BY <1>1 DEF Ahead
<1>4. pos[v] <= Len(text) + 1 => Ahead(v) = Len(text) + 2 - pos[v] /\ Ahead(v) > 0
  BY <1>1 DEF Ahead
<1>5. Taken(v) # 0 => pos[v] <= Len(text) + 1
  BY <1>1 DEF Taken, IInv, LexingALiveVersion, Phases
<1> QED
  BY <1>1, <1>2, <1>3, <1>4, <1>5

LEMMA StepsAre ==
    ASSUME IInv, NEW v \in Versions
    PROVE  StepsLeft(v) \in 0..AllSteps
<1> DEFINE a == Ahead(v)
           t == Taken(v)
           n == Len(text)
<1>1. n \in Nat /\ t \in 0..4 /\ a \in 0..n+1 /\ (t # 0 => a > 0)
  BY Counts
<1> HIDE DEF a, t, n
<1>2. 5 * a - t \in 0..5 * (n + 1)
  BY <1>1
<1> QED
  BY <1>2 DEF StepsLeft, AllSteps, a, t, n

\* A version whose place in the text stays has as many steps left as before, but
\* for those it has taken.
LEMMA SamePlace ==
    ASSUME IInv, IInv', UNCHANGED <<text, pos>>, NEW v \in Versions,
           Taken(v) <= Taken(v)'
    PROVE  /\ StepsLeft(v)' <= StepsLeft(v)
           /\ Taken(v) < Taken(v)' => StepsLeft(v)' < StepsLeft(v)
<1>1. Ahead(v)' = Ahead(v)
  BY DEF Ahead
<1>2. Ahead(v) \in Nat /\ Taken(v) \in 0..4
  BY Counts, TextLength DEF IInv
<1>3. Taken(v)' \in Nat
  BY DEF Taken
<1> QED
  BY <1>1, <1>2, <1>3 DEF StepsLeft

\* The place of a version is lexed, and the version goes on behind it.
LEMMA PlaceLexed ==
    ASSUME IInv, phase \in {"lexed", "internal"}, phase' = "ready", UNCHANGED <<text, live, cur>>,
           NEW p \in Nat, p > pos[cur], pos' = [pos EXCEPT ![cur] = p]
    PROVE  Spends
<1>1. /\ cur \in Versions /\ cur \in live /\ live \subseteq Versions /\ pos[cur] <= Len(text) + 1
      /\ pos \in [Versions -> Nat \ {0}]
  BY DEF IInv, TypeOK, LexingALiveVersion
<1>2. \A v \in Versions : Taken(v)' = 0
  BY DEF Taken
<1>3. StepsLeft(cur)' < StepsLeft(cur)
  <2> DEFINE a == Ahead(cur)
             b == Ahead(cur)'
             t == Taken(cur)
  <2>1. /\ a = Len(text) + 2 - pos[cur] /\ a > 0 /\ a \in Nat /\ t \in 0..4 /\ Len(text) \in Nat
        /\ pos[cur] \in Nat
    BY <1>1, Counts
  <2>2. pos'[cur] = p
    BY <1>1
  <2>3. b \in Nat /\ b < a
    BY <2>1, <2>2 DEF Ahead
  <2>4. StepsLeft(cur)' = 5 * b - 0 /\ StepsLeft(cur) = 5 * a - t
    BY <1>1, <1>2 DEF StepsLeft
  <2>5. 5 * b - 0 < 5 * a - t
    <3>1. \A i, j \in Nat, k \in 0..4 : j < i => 5 * j - 0 < 5 * i - k
      OBVIOUS
    <3> HIDE DEF a, b, t
    <3> QED
      BY ONLY <2>1, <2>3, <3>1
  <2> QED
    BY <2>4, <2>5
<1>4. \A v \in Versions \ {cur} : StepsLeft(v)' <= StepsLeft(v)
  <2> SUFFICES ASSUME NEW v \in Versions, v # cur PROVE StepsLeft(v)' <= StepsLeft(v)
    OBVIOUS
  <2>1. pos'[v] = pos[v]
    BY <1>1
  <2>2. Taken(v) = 0 /\ Taken(v)' = 0
    BY <1>2 DEF Taken
  <2>3. Ahead(v)' = Ahead(v) /\ Ahead(v) \in Nat
    BY <2>1, Counts DEF Ahead
  <2> QED
    BY <2>2, <2>3 DEF StepsLeft
<1>5. \A v \in Versions : StepsLeft(v)' <= StepsLeft(v)
  <2>1. StepsLeft(cur)' <= StepsLeft(cur)
    <3>1. StepsLeft(cur) \in Int
      BY <1>1, StepsAre DEF AllSteps
    <3>2. StepsLeft(cur)' \in Int
      <4>1. pos'[cur] \in Nat /\ Len(text) \in Nat
        BY <1>1, TextLength DEF IInv
      <4> QED
        BY <1>2, <1>1, <4>1 DEF StepsLeft, Ahead
    <3> QED
      BY <1>3, <3>1, <3>2
  <2> QED
    BY <1>4, <2>1
<1> QED
  BY <1>1, <1>3, <1>5 DEF Spends

LEMMA StepSpends == IInv /\ [Next]_vars => [Spends]_vars
<1> SUFFICES ASSUME IInv, [Next]_vars, ~UNCHANGED vars PROVE Spends
  OBVIOUS
<1>0. /\ IInv' /\ live \subseteq Versions /\ cur \in Versions
      /\ pos \in [Versions -> Nat \ {0}] /\ phase \in Phases
  BY StepIInv DEF IInv, TypeOK
<1>1. CASE StartParse
  <2>1. live = {} /\ phase = "none" /\ phase' = "ready"
    BY <1>1 DEF StartParse, IInv, NoVersionOutsideAParse
  <2> QED
    BY <2>1 DEF Spends, Lexes
<1>2. ASSUME NEW v \in Versions, NEW r \in 1..Len(table.rows), StartLex(v, r) PROVE Spends
  <2>1. /\ phase = "ready" /\ phase' = "scan" /\ cur' = v /\ v \in live
        /\ UNCHANGED <<text, live, pos>>
    BY <1>2 DEF StartLex, stack
  <2>2. /\ \A u \in Versions : Taken(u) = 0 /\ Taken(u)' \in 0..3
        /\ Taken(v)' > 0
    BY <2>1 DEF Taken
  <2>3. /\ \A u \in Versions : StepsLeft(u)' <= StepsLeft(u)
        /\ StepsLeft(v)' < StepsLeft(v)
    BY <1>0, <2>1, <2>2, SamePlace
  <2> QED
    BY <1>0, <2>1, <2>3 DEF Spends
<1>3. CASE Scan \/ Relex
  <2>1. /\ \/ phase = "scan" /\ phase' \in {"internal", "lexed"} /\ row' = row
           \/ phase = "internal" /\ phase' = "scan" /\ row # Recovery /\ row' = Recovery
        /\ UNCHANGED <<text, cur, live, pos>>
    BY <1>3 DEF Scan, Relex, stack
  <2>2. /\ Taken(cur) < Taken(cur)'
        /\ \A u \in Versions : Taken(u) <= Taken(u)'
    BY <2>1 DEF Taken
  <2>3. cur \in live
    BY <2>1 DEF IInv, LexingALiveVersion
  <2>4. /\ \A u \in Versions : StepsLeft(u)' <= StepsLeft(u)
        /\ StepsLeft(cur)' < StepsLeft(cur)
    BY <1>0, <2>1, <2>2, SamePlace
  <2> QED
    BY <1>0, <2>1, <2>3, <2>4 DEF Spends
<1>4. CASE AcceptToken
  <2>1. /\ phase = "lexed" /\ phase' = "ready" /\ UNCHANGED <<text, live, cur>>
        /\ pos' = [pos EXCEPT ![cur] = result.last + 1]
    BY <1>4 DEF AcceptToken
  <2>2. result.last + 1 \in Nat /\ result.last + 1 > pos[cur]
    <3>1. result \in TokenRecord /\ pos[cur] <= result.last /\ pos[cur] \in Nat
      BY <1>0, <2>1, FoundSpans
    <3> QED
      BY <3>1 DEF TokenRecord
  <2> QED
    BY <2>1, <2>2, PlaceLexed
<1>5. CASE InternalLex
  <2>1. /\ phase = "internal" /\ phase' = "ready" /\ UNCHANGED <<text, live, cur>>
        /\ pos' = [pos EXCEPT ![cur] = pos[cur] + 1]
    BY <1>5 DEF InternalLex
  <2>2. pos[cur] + 1 \in Nat /\ pos[cur] + 1 > pos[cur]
    BY <1>0
  <2> QED
    BY <2>1, <2>2, PlaceLexed
<1>6. ASSUME NEW v \in Versions, NEW w \in Versions, Fork(v, w) PROVE Spends
  <2>1. /\ phase = "ready" /\ phase' = "ready" /\ v \in live /\ w \notin live
        /\ live' = live \cup {w} /\ pos' = [pos EXCEPT ![w] = pos[v]] /\ text' = text
    BY <1>6 DEF Fork
  <2>2. \A u \in Versions : Taken(u) = 0 /\ Taken(u)' = 0
    BY <2>1 DEF Taken
  <2>3. pos'[w] = pos[v] /\ \A u \in live : pos'[u] = pos[u]
    BY <1>0, <2>1
  <2>4. Ahead(w)' = Ahead(v) /\ \A u \in live : Ahead(u)' = Ahead(u)
    BY <2>1, <2>3 DEF Ahead
  <2>5. StepsLeft(w)' = StepsLeft(v) /\ \A u \in live : StepsLeft(u)' = StepsLeft(u)
    BY <1>0, <2>2, <2>4 DEF StepsLeft
  <2>6. \A u \in live : StepsLeft(u) \in Int
    BY <1>0, StepsAre DEF AllSteps
  <2> QED
    BY <2>1, <2>5, <2>6 DEF Spends, Lexes
<1>7. ASSUME NEW v \in Versions, Drop(v) PROVE Spends
  <2>1. phase = "ready" /\ UNCHANGED <<phase, text, pos, cur, row>> /\ live' \subseteq live
    BY <1>7 DEF Drop
  <2>2. \A u \in Versions : Taken(u)' = Taken(u) /\ Taken(u) \in Nat
    BY <2>1 DEF Taken
  <2>3. \A u \in Versions : StepsLeft(u)' <= StepsLeft(u)
    BY <1>0, <2>1, <2>2, SamePlace
  <2> QED
    BY <1>0, <2>1, <2>3 DEF Spends, Lexes
<1>8. CASE EndParse
  <2>1. phase = "ready" /\ phase' = "none" /\ live' = {}
    BY <1>8 DEF EndParse
  <2> QED
    BY <2>1 DEF Spends, Lexes
<1> QED
  BY <1>1, <1>2, <1>3, <1>4, <1>5, <1>6, <1>7, <1>8 DEF Next

(***************************************************************************)
(* No version is lexed for ever, whatever the scanner answers, the table   *)
(* of externals and the text: scan always has an answer, every token that  *)
(* it finds leads on, error recovery lexes a place only once more, and no  *)
(* version takes more than five steps for each lexeme and for the end of   *)
(* the text, those of the versions it was split from among them            *)
(* (scanner.c:151-242).                                                    *)
(***************************************************************************)
THEOREM LexingIsBounded ==
    Spec => /\ [](CanGoOn /\ \A v \in live : StepsLeft(v) \in 0..AllSteps)
            /\ [][Spends]_vars
<1>1. IInv => CanGoOn /\ \A v \in live : StepsLeft(v) \in 0..AllSteps
  <2> SUFFICES ASSUME IInv PROVE CanGoOn /\ \A v \in live : StepsLeft(v) \in 0..AllSteps
    OBVIOUS
  <2>1. live \subseteq Versions
    BY DEF IInv, TypeOK
  <2> QED
    BY <2>1, GoesOn, StepsAre
<1> QED
  BY <1>1, Invariance, StepSpends, PTL DEF Spec
=============================================================================
