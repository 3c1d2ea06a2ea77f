------------------------- MODULE ScannerCharacters -------------------------
(***************************************************************************)
(* scan of src/scanner.c character by character: the dollar tags and the   *)
(* whole dollar string, and the search for IN that makes a call of         *)
(* POSITION an ISO one.  ExternalScanner takes each of them in one step,   *)
(* over texts whose lexemes are set apart; here characters may follow each *)
(* other as they like.                                                     *)
(*                                                                         *)
(* A character is its code point.  Tags are compared as C strings of       *)
(* chars, into which add_char puts the lookahead: a tag keeps the last     *)
(* eight bits of each character, and ends at one whose last bits are 0.    *)
(***************************************************************************)
EXTENDS Integers, Sequences, FiniteSets

CONSTANTS DollarChars,   \* the characters of texts with dollar tags
          MaxDollarText, \* how long these texts may be
          CallChars,     \* the characters that follow a word such as POSITION
          MaxCallText,
          MaxScanned     \* the steps the search for IN may take, 4096 in the code

Dollar == 36
Blank  == 32             \* any character of which iswspace is true
Quotes == {34, 39}
Opens  == 40
Closes == 41
Semicolon == 59

EOF == 0                 \* the lookahead at the end of the text

ASSUME CharactersAssumption ==
    /\ DollarChars \subseteq Nat \ {EOF} /\ CallChars \subseteq Nat \ {EOF}
    /\ MaxDollarText \in Nat /\ MaxCallText \in Nat /\ MaxScanned \in Nat

VARIABLES text,     \* what scan looks at; for "CALL", from behind the word
          branch,   \* the branch of scan that looks at it
          open,     \* start_tag of the payload, <<>> for NULL
          pc,       \* where scan is
          at,       \* the index of the lookahead
          from,     \* where the tag that is being read begins
          first,    \* the first and last index of the first tag, or NoFirst
          search,   \* the local variables of scan_position_call
          steps     \* how many steps scan has taken

vars == <<text, branch, open, pc, at, from, first, search, steps>>

NoFirst == <<0, 0>>

Texts(chars, max) == UNION {[1..n -> chars] : n \in 0..max}

\* Tags of up to one character that the payload may hold.
HeldTags == {<<Dollar, Dollar>>} \cup
            {<<Dollar, c % 256, Dollar>> : c \in DollarChars \ {Dollar, Blank}}

Atend     == at > Len(text)
Lookahead == IF Atend THEN EOF ELSE text[at]
Advance   == at' = IF Atend THEN at ELSE at + 1

IsWordChar(c) == c \in (48..57) \cup (65..90) \cup (97..122) \cup {95, Dollar}
Lower(c)      == IF c \in 65..90 THEN c + 32 ELSE c

-----------------------------------------------------------------------------
\* What the buffer of a tag from index a to b holds.
Buffer(a, b) == [k \in 1..(b - a + 1) |-> text[a + k - 1] % 256]

\* Where the string in the buffer s ends: at a 0, at the latest behind it.
Terminators(s) == {k \in 1..Len(s) + 1 : k = Len(s) + 1 \/ s[k] = 0}

\* Mutant: the second tag is compared without its last character.
SamePrefix(s, t) == \E k \in Terminators(t) : \A j \in 1..k-2 : j <= Len(s) /\ s[j] = t[j]

\* strcmp(s, t) == 0
SameTag(s, t) == \E k \in Terminators(s) \cap Terminators(t) : \A j \in 1..k-1 : s[j] = t[j]

Answer(a) == pc' = a /\ UNCHANGED <<from, first, search>>

Found    == Answer("found") /\ Advance
NotFound == Answer("not found") /\ UNCHANGED at

\* White space before a tag, and between the word and its parenthesis.
SkipBlanks ==
    /\ pc = "blanks" /\ Lookahead = Blank
    /\ Advance
    /\ UNCHANGED <<pc, from, first, search>>

\* scan_dollar_string_tag at a dollar.
BeginTag ==
    /\ pc' = "tag" /\ from' = at
    /\ Advance
    /\ UNCHANGED <<first, search>>

FirstTag ==
    /\ pc = "blanks" /\ branch # "CALL" /\ Lookahead # Blank
    /\ IF Lookahead = Dollar THEN BeginTag ELSE NotFound

TagCharacter ==
    /\ pc = "tag" /\ Lookahead \notin {EOF, Dollar, Blank}
    /\ Advance
    /\ UNCHANGED <<pc, from, first, search>>

\* The first tag is complete: it is the answer, or the search begins for the
\* tag that closes the string.
FirstTagEnds ==
    /\ pc = "tag" /\ first = NoFirst /\ Lookahead = Dollar
    /\ \/ branch = "START" /\ Found
       \/ /\ branch = "END"
          /\ IF SameTag(Buffer(from, at), open) THEN Found ELSE NotFound
       \/ /\ branch = "STRING"
          /\ IF open # <<>> /\ SameTag(open, Buffer(from, at))
               THEN NotFound
               ELSE /\ pc' = "body" /\ first' = <<from, at>>
                    /\ Advance
                    /\ UNCHANGED <<from, search>>

\* Mutant: the tag is compared with the one of the payload.
NextTagEndsOpen ==
    /\ pc = "tag" /\ first # NoFirst /\ Lookahead = Dollar
    /\ IF SameTag(Buffer(from, at), open)
         THEN Found
         ELSE /\ pc' = "body"
              /\ Advance
              /\ UNCHANGED <<from, first, search>>

\* A tag in the string ends: it closes the string, or the scan goes on behind it.
NextTagEnds ==
    /\ pc = "tag" /\ first # NoFirst /\ Lookahead = Dollar
    /\ IF SameTag(Buffer(from, at), Buffer(first[1], first[2]))
         THEN Found
         ELSE /\ pc' = "body"
              /\ Advance
              /\ UNCHANGED <<from, first, search>>

\* There is no tag here; in a string the character that ended it is skipped.
TagFails ==
    /\ pc = "tag" /\ Lookahead \in {EOF, Blank}
    /\ IF first = NoFirst
         THEN NotFound
         ELSE /\ pc' = "body"
              /\ Advance
              /\ UNCHANGED <<from, first, search>>

\* Mutant: at the end of the text the scan of the body goes on.
BodyForever ==
    /\ pc = "body"
    /\ IF Lookahead = Dollar THEN BeginTag ELSE Advance /\ UNCHANGED <<pc, from, first, search>>

\* The body of a string, at a place where no tag is being read.
Body ==
    /\ pc = "body"
    /\ \/ Lookahead = EOF /\ NotFound
       \/ Lookahead = Dollar /\ BeginTag
       \/ Lookahead \notin {EOF, Dollar} /\ Advance /\ UNCHANGED <<pc, from, first, search>>

-----------------------------------------------------------------------------
\* The search for a top-level IN behind the parenthesis of a call.

NoSearch == [depth |-> 0, scanned |-> 0, quote |-> 0, word |-> <<>>]

OpenCall ==
    /\ pc = "blanks" /\ branch = "CALL" /\ Lookahead # Blank
    /\ IF Lookahead = Opens
         THEN /\ pc' = "arguments" /\ search' = [search EXCEPT !.depth = 1]
              /\ Advance
              /\ UNCHANGED <<from, first>>
         ELSE NotFound

\* Mutant: a parenthesis that opens within the call is not counted.
StepAtUncounted(c) == [search EXCEPT !.scanned = @ + 1, !.depth = IF c = Closes THEN @ - 1 ELSE @]

\* One more step, and what a parenthesis does to the depth.
StepAt(c) ==
    [search EXCEPT !.scanned = @ + 1,
                   !.depth = IF c = Opens THEN @ + 1 ELSE IF c = Closes THEN @ - 1 ELSE @]

\* One step of the loop over the arguments.
Argument ==
    /\ pc = "arguments" /\ ~Atend /\ search.scanned < MaxScanned
    /\ Lookahead # Semicolon /\ ~(Lookahead = Closes /\ search.depth = 1)
    /\ LET c == Lookahead IN
        /\ pc' = IF c \in Quotes THEN "quoted" ELSE IF IsWordChar(c) THEN "word" ELSE pc
        /\ search' = [StepAt(c) EXCEPT !.quote = IF c \in Quotes THEN c ELSE @,
                                       !.word = IF IsWordChar(c) THEN <<Lower(c)>> ELSE @]
    /\ Advance
    /\ UNCHANGED <<from, first>>

\* The arguments end, the statement ends, or the search has taken too long.
GiveUp ==
    /\ pc = "arguments"
    /\ \/ Atend \/ search.scanned >= MaxScanned \/ Lookahead = Semicolon
       \/ Lookahead = Closes /\ search.depth = 1
    /\ NotFound

Quoted ==
    /\ pc = "quoted"
    /\ IF Atend
         THEN NotFound
         ELSE /\ pc' = IF Lookahead = search.quote THEN "arguments" ELSE pc
              /\ Advance
              /\ UNCHANGED <<from, first, search>>

WordCharacter ==
    /\ pc = "word" /\ IsWordChar(Lookahead)
    /\ search' = [search EXCEPT !.word = IF Len(@) < 3 THEN Append(@, Lower(Lookahead)) ELSE @]
    /\ Advance
    /\ UNCHANGED <<pc, from, first>>

\* "in", in lower case.
In == <<105, 110>>

WordEnds ==
    /\ pc = "word" /\ ~IsWordChar(Lookahead)
    /\ pc' = IF search.depth = 1 /\ search.word = In THEN "found" ELSE "arguments"
    /\ UNCHANGED <<at, from, first, search>>

-----------------------------------------------------------------------------
Init ==
    /\ \/ branch = "CALL" /\ text \in Texts(CallChars, MaxCallText) /\ open = <<>>
       \/ branch = "START" /\ text \in Texts(DollarChars, MaxDollarText) /\ open = <<>>
       \/ branch = "END" /\ text \in Texts(DollarChars, MaxDollarText) /\ open \in HeldTags
       \/ branch = "STRING" /\ text \in Texts(DollarChars, MaxDollarText)
                            /\ open \in HeldTags \cup {<<>>}
    /\ pc = "blanks" /\ at = 1 /\ from = 0
    /\ first = NoFirst
    /\ search = NoSearch /\ steps = 0

Done == pc \in {"found", "not found"}

Step ==
    \/ SkipBlanks
    \/ FirstTag \/ TagCharacter \/ FirstTagEnds \/ NextTagEnds \/ TagFails \/ Body
    \/ OpenCall \/ Argument \/ GiveUp \/ Quoted \/ WordCharacter \/ WordEnds

Next ==
    \/ Step /\ steps' = steps + 1 /\ UNCHANGED <<text, branch, open>>
    \/ Done /\ UNCHANGED vars

Spec == Init /\ [][Next]_vars

-----------------------------------------------------------------------------
\* The bytes that tags are compared by tell the characters of the text apart.
ToldApart ==
    \A c, d \in {text[i] : i \in 1..Len(text)} : c % 256 # 0 /\ (c % 256 = d % 256 => c = d)

\* The characters of text from index a to b.
Raw(a, b) == [k \in 1..(b - a + 1) |-> text[a + k - 1]]

\* A dollar string (scanner.c:204-239) begins and ends with one and the same tag,
\* the tags do not overlap, and it is not the tag that is open outside of it: unless
\* two of its characters fall together when add_char narrows them to a char (:46, :75).
StringIsQuoted ==
    branch = "STRING" /\ pc = "found" /\ ToldApart =>
        /\ Raw(from, at - 1) = Raw(first[1], first[2])
        /\ first[1] < first[2] /\ first[2] < from
        /\ open # Raw(first[1], first[2])

\* From index a to b the text is a tag.
IsTag(a, b) ==
    /\ a < b /\ text[a] = Dollar /\ text[b] = Dollar
    /\ \A k \in a+1..b-1 : text[k] \notin {Dollar, Blank}

\* At index q stands a tag that is, to strcmp, the first one.
Recurs(q) == \E e \in q+1..Len(text) :
                IsTag(q, e) /\ SameTag(Buffer(q, e), Buffer(first[1], first[2]))

\* The dollar at q may have ended a tag that begins before it in the body.
Masked(q) == \E p \in first[2]+1..q-1 : IsTag(p, q)

\* The scan takes the body tag by tag (scanner.c:217-239) and passes over a closing
\* tag only where its first dollar could have ended another tag, as in $$ $5$$.
StringIsFound ==
    branch = "STRING" /\ first # NoFirst /\ pc \in {"found", "not found"} =>
        \A q \in first[2]+1..(IF pc = "found" THEN from - 1 ELSE Len(text)) :
            Recurs(q) => Masked(q)

\* A dollar string is one, and is found where it is.
StringIsExact == StringIsQuoted /\ StringIsFound

\* Where the first character stands that is not a blank: the parenthesis of a
\* call, or the first dollar of a tag.
PastBlanks == CHOOSE p \in 1..Len(text) + 1 :
                  /\ \A k \in 1..p-1 : text[k] = Blank
                  /\ p <= Len(text) => text[p] # Blank

\* The quote that is open behind a character c, where q is open in front of it.
QuoteBehind(q, c) ==
    IF q # 0 THEN IF c = q THEN 0 ELSE q
    ELSE IF c \in Quotes THEN c ELSE 0

\* Which quote is open in front of each character, 0 for none.
QuoteAt ==
    LET q[i \in 1..Len(text) + 1] ==
          IF i <= PastBlanks + 1 THEN 0 ELSE QuoteBehind(q[i-1], text[i-1])
    IN q

\* How often the character c stands outside of quotes, up to index k, and how
\* many parentheses are open behind index k.
Bare(quote, c, k) ==
    Cardinality({j \in PastBlanks..k : quote[j] = 0 /\ text[j] = c})
Depth(quote, k) == Bare(quote, Opens, k) - Bare(quote, Closes, k)

\* An ISO call has an IN between its own parentheses, at index i.
IsoCallAt(i) ==
    LET quote == QuoteAt
    IN /\ PastBlanks < i /\ i < Len(text) /\ text[PastBlanks] = Opens
       /\ <<Lower(text[i]), Lower(text[i+1])>> = In
       /\ ~IsWordChar(text[i-1]) /\ (i + 2 <= Len(text) => ~IsWordChar(text[i+2]))
       /\ quote[i] = 0 /\ Depth(quote, i) = 1
       /\ \A k \in PastBlanks..i : Depth(quote, k) > 0
       /\ Bare(quote, Semicolon, i) = 0

\* scan_position_call (scanner.c:97-155) answers yes only to an ISO call, and to every
\* one whose IN begins within as many characters as it may take steps.
CallAnswered ==
    branch = "CALL" =>
        /\ pc = "found" => \E i \in 1..Len(text) : IsoCallAt(i)
        /\ pc = "not found" =>
             \A i \in 1..Len(text) : IsoCallAt(i) => i - PastBlanks > MaxScanned

\* scan takes a number of steps that is linear in the text it looks at, also at the
\* end of the text, where advance stays where it is (scanner.c:62-87, :217-226): no
\* input makes it loop, or go back over a part of a dollar string or a call again.
ScanIsLinear == steps <= 3 * Len(text) + 1
=============================================================================
