---------------------------- MODULE ScannerLexemes ----------------------------
(***************************************************************************)
(* The two levels at which src/scanner.c is modelled, related to each      *)
(* other: ScannerCharacters reads a dollar tag and a dollar string         *)
(* character by character, ExternalScanner takes them in one step of a     *)
(* text whose lexemes are whole tags.  Here the lexemes are those of the   *)
(* characters, and the answer of the character-wise scan is the answer of  *)
(* the step.                                                               *)
(***************************************************************************)
EXTENDS ScannerCharacters

\* What a C string of chars is to strcmp: what stands before its first 0.
CString(s) ==
    LET end == CHOOSE k \in Terminators(s) : \A j \in Terminators(s) : k <= j
    IN  SubSeq(s, 1, end - 1)

NoLexeme == <<>>

TagTo(a, b) == CString(Buffer(a, b))

\* The lexeme that begins with each character: a tag, by what strcmp knows of
\* it, or nothing that the scanner looks for.
Lexemes ==
    [i \in 1..Len(text) |->
        LET ends == {e \in i+1..Len(text) : IsTag(i, e)}
        IN  IF ends = {} THEN NoLexeme ELSE TagTo(i, CHOOSE e \in ends : TRUE)]

\* The first tag comes again only where it is not masked: no dollar of its own and
\* none of the body could have begun a tag that ends where it comes again.
SetApart ==
    \A e, q \in PastBlanks+1..Len(text) :
        IsTag(PastBlanks, e) /\ Lexemes[q] = Lexemes[PastBlanks] =>
            q # e /\ \A a \in e+1..q-1 : ~IsTag(a, q)

-----------------------------------------------------------------------------
(* The variables of ExternalScanner. *)

Ended == {"found", "not found"}

\* start_tag is set by a start tag, freed by an end tag and kept by a string.
StartTag ==
    IF pc = "found" /\ branch = "START" THEN TagTo(from, at - 1)
    ELSE IF pc = "found" /\ branch = "END" THEN NoLexeme
    ELSE CString(open)

\* The first tag of a string is complete and was refused.
Refused == branch = "STRING" /\ pc = "not found" /\ first = NoFirst /\ Lookahead = Dollar

TokenOf == [START |-> "DOLLAR_QUOTED_STRING_START_TAG", END |-> "DOLLAR_QUOTED_STRING_END_TAG",
            STRING |-> "DOLLAR_QUOTED_STRING"]

\* The answer, with the lexemes at which the token begins and ends.
Answered ==
    IF pc = "found"
      THEN [sym |-> TokenOf[branch], tag |-> TagTo(from, at - 1),
            first |-> IF branch = "STRING" THEN first[1] ELSE from, last |-> from]
      ELSE [sym |-> "NONE", tag |-> NoLexeme, first |-> 0, last |-> 0]

Lexed == INSTANCE ExternalScanner WITH
    Tags      <- Seq(0..255) \ {NoLexeme},
    LongTags  <- {},
    NoTag     <- NoLexeme,
    Word      <- NoLexeme,
    Tables    <- {},
    MaxLeaked <- 1,
    start_tag <- StartTag,
    owned     <- StartTag # NoLexeme,
    leaked    <- IF Refused THEN 1 ELSE 0,
    result    <- Answered

-----------------------------------------------------------------------------
DollarTokens == {TokenOf[b] : b \in DOMAIN TokenOf}

\* The valid tokens with which scan comes to the branch.
TakesBranch(valid) ==
    \/ branch = "START"  /\ TokenOf["START"] \in valid /\ open = <<>>
    \/ branch = "END"    /\ TokenOf["END"] \in valid /\ open # <<>>
    \/ /\ branch = "STRING" /\ TokenOf["STRING"] \in valid
       /\ ~(TokenOf["START"] \in valid /\ open = <<>>)
       /\ ~(TokenOf["END"] \in valid /\ open # <<>>)

\* The whole call, as ExternalScanner takes it at the first lexeme.
LexedScan(valid) ==
    \/ Lexed!ScanStartTag(valid, Lexemes, PastBlanks)
    \/ Lexed!ScanEndTag(valid, Lexemes, PastBlanks)
    \/ Lexed!ScanDollarQuotedString(valid, Lexemes, PastBlanks)

Answers == pc \notin Ended /\ pc' \in Ended

(***************************************************************************)
(* A call of scan does what ExternalScanner says of it in one step,        *)
(* whichever dollar tokens are valid: it finds the tag that is open, takes *)
(* a string up to the first place where its tag comes again, and loses the *)
(* copy of a tag that it refuses; before it answers it does nothing to the *)
(* payload (scanner.c:169-239).  Where a string may end is only clear if   *)
(* its tag is set apart where it comes again.                              *)
(***************************************************************************)
AnswersAsLexed ==
    [][ branch # "CALL" =>
          IF Answers
            THEN (branch = "STRING" => SetApart) =>
                    \A valid \in SUBSET DollarTokens :
                        TakesBranch(valid) => LexedScan(valid)
            ELSE UNCHANGED <<StartTag, Refused, Answered>> ]_vars
=============================================================================
