--------------------------- MODULE ScannerTables ---------------------------
(***************************************************************************)
(* What the external scanner is told and what it reads: the token          *)
(* enumeration of src/scanner.c, the table of valid external tokens that   *)
(* the generator derives from a grammar's `externals`, and the text as     *)
(* the scanner sees it.                                                    *)
(*                                                                         *)
(* A text is a sequence of lexemes.  A lexeme is a dollar tag such as      *)
(* $body$ (a member of Tags), the word of one of the three position        *)
(* functions in its ISO call shape (a member of PositionTokens), or        *)
(* anything else (Word).  Lexemes are set apart from each other, so that a *)
(* tag is found where it stands.                                           *)
(***************************************************************************)
EXTENDS Integers, Sequences

CONSTANTS Tags,      \* the dollar tags that can occur in a text
          LongTags,  \* those too long for the serialization buffer
          NoTag,     \* start_tag == NULL, and an empty serialization buffer
          Word,      \* a lexeme that is neither a tag nor a position call
          Tables     \* the external-token tables of the generated parsers: how
                     \* many externals the grammar declares, and a set of names
                     \* for each row

\* enum TokenType, in declaration order: the position is the C value plus one.
TokenTypes == << "POSITION_CALL", "POSITION_REGEX_CALL",
                 "SUBSTRING_REGEX_CALL", "DOLLAR_QUOTED_STRING_START_TAG",
                 "DOLLAR_QUOTED_STRING_END_TAG", "DOLLAR_QUOTED_STRING" >>

TokenType == {TokenTypes[i] : i \in 1..6}

PositionTokens == {"POSITION_CALL", "POSITION_REGEX_CALL",
                   "SUBSTRING_REGEX_CALL"}

\* The externals of a grammar with the table t.
Declared(t) == {TokenTypes[i] : i \in 1..t.externals}

Lexeme == Tags \cup PositionTokens \cup {Word}

ASSUME TablesAssumption ==
    /\ LongTags \subseteq Tags
    /\ NoTag \notin Tags
    /\ Word \notin Tags
    /\ Tags \cap PositionTokens = {}
    /\ \A t \in Tables : /\ t.externals \in {3, 6}
                          /\ t.rows \in Seq(SUBSET Declared(t))
                          /\ Len(t.rows) > 0

\* The row the runtime uses in error recovery: every external is valid there.
Recovery == 1

\* The cells just past the end of the table that a read of the last row can
\* reach.  What they hold is fixed when the parser is built.
CellsBeyond(t) == 0..(5 - t.externals)

(***************************************************************************)
(* valid_symbols as the scanner reads it.  The scanner indexes a row with  *)
(* all six of its token types, whatever the number of externals the        *)
(* grammar declares: with three externals, index i >= 3 of row r is a cell *)
(* of row r + 1, or a cell beyond the table.                               *)
(***************************************************************************)
ReadsTrue(t, r, i, beyond) ==
    LET cell == (r - 1) * t.externals + i
        size == Len(t.rows) * t.externals
    IN  IF cell < size
          THEN TokenTypes[(cell % t.externals) + 1] \in t.rows[(cell \div t.externals) + 1]
          ELSE (cell - size) \in beyond

ValidSymbols(t, r, beyond) ==
    {TokenTypes[i + 1] : i \in {k \in 0..5 : ReadsTrue(t, r, k, beyond)}}
=============================================================================
