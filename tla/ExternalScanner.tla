-------------------------- MODULE ExternalScanner --------------------------
(***************************************************************************)
(* The payload of the external scanner of src/scanner.c and its five entry *)
(* points.  The payload is one heap string, start_tag: the dollar tag that *)
(* was opened and not yet closed, or NULL.                                 *)
(*                                                                         *)
(* Each entry point is an action on the payload.  scan is split into its   *)
(* branches, which are tried in the order of the source; the runtime that  *)
(* calls the entry points is ParserRuntime.                                *)
(***************************************************************************)
EXTENDS ScannerTables

CONSTANT MaxLeaked   \* the leak counter stops counting here

VARIABLES start_tag, \* LexerState.start_tag: a tag, or NoTag for NULL
          owned,     \* is the string start_tag points to still allocated?
          leaked,    \* strings that are allocated and unreachable, saturating
          result     \* what scan returned: a token, or NotFound

payload == <<start_tag, owned, leaked>>

ASSUME MaxLeakedAssumption == MaxLeaked \in Nat \ {0}

Token(sym, tag, first, last) ==
    [sym |-> sym, tag |-> tag, first |-> first, last |-> last]

NotFound == Token("NONE", NoTag, 0, 0)

Leak == leaked' = IF leaked < MaxLeaked THEN leaked + 1 ELSE leaked

Create ==
    /\ start_tag' = NoTag
    /\ owned' = FALSE
    /\ UNCHANGED leaked

\* destroy frees start_tag when it is not NULL.
Destroy ==
    /\ start_tag' = NoTag
    /\ owned' = FALSE
    /\ UNCHANGED leaked

\* Mutant: no comparison with TREE_SITTER_SERIALIZATION_BUFFER_SIZE.
SerializedUnbounded == start_tag

\* What serialize writes: nothing for NULL and for a tag that does not fit.
Serialized == IF start_tag \in LongTags THEN NoTag ELSE start_tag

\* Mutant: the string is freed and the pointer is kept.
SerializeKeepsPointer ==
    /\ owned' = (owned /\ Serialized = NoTag)
    /\ UNCHANGED <<start_tag, leaked>>

\* serialize hands the string over: once copied, it is freed.
Serialize ==
    /\ IF Serialized = NoTag
         THEN UNCHANGED <<start_tag, owned>>
         ELSE start_tag' = NoTag /\ owned' = FALSE
    /\ UNCHANGED leaked

\* Mutant: an empty buffer leaves the payload as it is.
DeserializeKeepsTag(saved) ==
    IF saved = NoTag
      THEN UNCHANGED payload
      ELSE start_tag' = saved /\ owned' = TRUE /\ UNCHANGED leaked

\* deserialize overwrites the pointer without freeing what it pointed to.
Deserialize(saved) ==
    /\ start_tag' = saved
    /\ owned' = (saved # NoTag)
    /\ IF owned THEN Leak ELSE UNCHANGED leaked

-----------------------------------------------------------------------------
\* The branches of scan at position p of a text, with the valid tokens.

IsTagAt(text, p) == p \in 1..Len(text) /\ text[p] \in Tags

\* A lexeme that starts one of the three words, where a position token is valid.
PositionBranch(valid, text, p) ==
    /\ valid \cap PositionTokens # {}
    /\ p \in 1..Len(text)
    /\ text[p] \in PositionTokens

\* Mutant: a start tag is looked for although one is open.
StartBranchAlways(valid) == "DOLLAR_QUOTED_STRING_START_TAG" \in valid

StartBranch(valid) ==
    "DOLLAR_QUOTED_STRING_START_TAG" \in valid /\ start_tag = NoTag

EndBranch(valid) ==
    "DOLLAR_QUOTED_STRING_END_TAG" \in valid /\ start_tag # NoTag

\* The first branch: its answer is final, found or not.
ScanPositionCall(valid, text, p) ==
    /\ PositionBranch(valid, text, p)
    /\ result' = IF text[p] \in valid THEN Token(text[p], NoTag, p, p)
                                      ELSE NotFound
    /\ UNCHANGED payload

ScanStartTag(valid, text, p) ==
    /\ ~PositionBranch(valid, text, p)
    /\ StartBranch(valid)
    /\ IF IsTagAt(text, p)
         THEN /\ start_tag' = text[p]
              /\ owned' = TRUE
              /\ result' = Token("DOLLAR_QUOTED_STRING_START_TAG", text[p], p, p)
         ELSE result' = NotFound /\ UNCHANGED <<start_tag, owned>>
    /\ UNCHANGED leaked

\* Mutant: any tag closes the open one.
ScanEndTagAny(valid, text, p) ==
    /\ ~PositionBranch(valid, text, p)
    /\ ~StartBranch(valid)
    /\ EndBranch(valid)
    /\ IF IsTagAt(text, p)
         THEN /\ start_tag' = NoTag
              /\ owned' = FALSE
              /\ result' = Token("DOLLAR_QUOTED_STRING_END_TAG", text[p], p, p)
         ELSE result' = NotFound /\ UNCHANGED <<start_tag, owned>>
    /\ UNCHANGED leaked

ScanEndTag(valid, text, p) ==
    /\ ~PositionBranch(valid, text, p)
    /\ ~StartBranch(valid)
    /\ EndBranch(valid)
    /\ IF IsTagAt(text, p) /\ text[p] = start_tag
         THEN /\ start_tag' = NoTag
              /\ owned' = FALSE
              /\ result' = Token("DOLLAR_QUOTED_STRING_END_TAG", text[p], p, p)
         ELSE result' = NotFound /\ UNCHANGED <<start_tag, owned>>
    /\ UNCHANGED leaked

\* Where the tag at p comes again.
Closers(text, p) == {q \in p+1..Len(text) : text[q] = text[p]}

\* The first place where the tag at p comes again.
IsCloser(text, p, q) ==
    /\ q \in Closers(text, p)
    /\ \A k \in Closers(text, p) : q <= k

\* Mutant: the token is not marked again behind the closing tag.
TakeStringUnmarked(text, p, q) ==
    /\ result' = Token("DOLLAR_QUOTED_STRING", text[p], p, p - 1)
    /\ UNCHANGED leaked

\* Mutant: the closing tag is not freed.
TakeStringLeaking(text, p, q) ==
    /\ result' = Token("DOLLAR_QUOTED_STRING", text[p], p, q)
    /\ Leak

\* The string from p to q is taken; the copies of its two tags are freed.
TakeString(text, p, q) ==
    /\ result' = Token("DOLLAR_QUOTED_STRING", text[p], p, q)
    /\ UNCHANGED leaked

\* A string whose tag is the open one is refused, and its tag is not freed.
ScanDollarQuotedString(valid, text, p) ==
    /\ ~PositionBranch(valid, text, p)
    /\ ~StartBranch(valid) /\ ~EndBranch(valid)
    /\ "DOLLAR_QUOTED_STRING" \in valid
    /\ UNCHANGED <<start_tag, owned>>
    /\ \/ ~IsTagAt(text, p) /\ result' = NotFound /\ UNCHANGED leaked
       \/ IsTagAt(text, p) /\ text[p] = start_tag /\ result' = NotFound /\ Leak
       \/ /\ IsTagAt(text, p) /\ text[p] # start_tag
          /\ \/ Closers(text, p) = {} /\ result' = NotFound /\ UNCHANGED leaked
             \/ \E q \in Closers(text, p) :
                  IsCloser(text, p, q) /\ TakeString(text, p, q)

ScanNothing(valid, text, p) ==
    /\ ~PositionBranch(valid, text, p)
    /\ ~StartBranch(valid) /\ ~EndBranch(valid)
    /\ "DOLLAR_QUOTED_STRING" \notin valid
    /\ result' = NotFound
    /\ UNCHANGED payload
=============================================================================
