--------------------------- MODULE ParserRuntime ---------------------------
(***************************************************************************)
(* The external scanner driven by the tree-sitter runtime.                 *)
(*                                                                         *)
(* The runtime is not part of the repository; it is modelled from the      *)
(* calls it makes on src/scanner.c.  It parses with several stack versions *)
(* at once (the grammars declare conflicts), and all of them share the one *)
(* payload: before each scan it deserializes the state kept with the last  *)
(* external token of the version it lexes for, and after a token is found  *)
(* it serializes the payload into that token.  Which version is lexed      *)
(* next, which row of valid tokens its parse state has, when a version is  *)
(* split or dropped and when error recovery begins or ends depend on the   *)
(* grammar, and are left open.                                             *)
(***************************************************************************)
EXTENDS ExternalScanner

CONSTANTS Versions,  \* the slots for stack versions
          Texts      \* the texts that may be parsed, for each of the Tables

VARIABLES text,      \* the text being parsed
          table,     \* the external-token table of the parser
          beyond,    \* the cells beyond the table that read as true
          phase,     \* where the runtime is between two entry points
          cur,       \* the version being lexed
          row,       \* the row of valid tokens it is lexed with
          live,      \* the stack versions in use
          pos,       \* the lexeme each version has come to
          last,      \* the state saved with each version's last external token
          tokens     \* the external tokens of each version

ASSUME RuntimeAssumption ==
    /\ Texts \in [Tables -> SUBSET Seq(Lexeme)]
    /\ Versions # {}

stack == <<live, pos, last, tokens>>
vars  == <<payload, result, text, table, beyond, phase, cur, row, stack>>

Valid == ValidSymbols(table, row, beyond)

Init ==
    /\ table \in Tables
    /\ text \in Texts[table]
    /\ beyond \in SUBSET CellsBeyond(table)
    /\ start_tag = NoTag /\ owned = FALSE /\ leaked = 0
    /\ result = NotFound
    /\ phase = "none"
    /\ cur \in Versions /\ row = Recovery
    /\ live = {}
    /\ pos = [v \in Versions |-> 1]
    /\ last = [v \in Versions |-> NoTag]
    /\ tokens = [v \in Versions |-> <<>>]

-----------------------------------------------------------------------------
\* A parse creates the payload and starts with one version.
StartParse ==
    /\ phase = "none"
    /\ phase' = "ready"
    /\ Create
    /\ \E v \in Versions :
         /\ live' = {v}
         /\ pos' = [pos EXCEPT ![v] = 1]
         /\ last' = [last EXCEPT ![v] = NoTag]
         /\ tokens' = [tokens EXCEPT ![v] = <<>>]
    /\ UNCHANGED <<result, text, table, beyond, cur, row>>

\* Begin to lex for version v, with the row r of its parse state.
StartLex(v, r) ==
    /\ phase = "ready"
    /\ v \in live
    /\ pos[v] <= Len(text) + 1
    /\ phase' = "scan"
    /\ cur' = v /\ row' = r
    /\ Deserialize(last[v])
    /\ UNCHANGED <<result, text, table, beyond, stack>>

\* scan: one branch of the external scanner answers.
Scan ==
    /\ phase = "scan"
    /\ \/ ScanPositionCall(Valid, text, pos[cur])
       \/ ScanStartTag(Valid, text, pos[cur])
       \/ ScanEndTag(Valid, text, pos[cur])
       \/ ScanDollarQuotedString(Valid, text, pos[cur])
       \/ ScanNothing(Valid, text, pos[cur])
    /\ phase' = IF result' = NotFound THEN "internal" ELSE "lexed"
    /\ UNCHANGED <<text, table, beyond, cur, row, stack>>

\* A token was found: it keeps the serialized payload.
AcceptToken ==
    /\ phase = "lexed"
    /\ phase' = "ready"
    /\ last' = [last EXCEPT ![cur] = Serialized]
    /\ tokens' = [tokens EXCEPT ![cur] = Append(@, result)]
    /\ pos' = [pos EXCEPT ![cur] = result.last + 1]
    /\ Serialize
    /\ UNCHANGED <<result, text, table, beyond, cur, row, live>>

\* No external token: the generated lexer takes the lexeme, or skips it.
InternalLex ==
    /\ phase = "internal"
    /\ phase' = "ready"
    /\ pos' = [pos EXCEPT ![cur] = @ + 1]
    /\ UNCHANGED <<payload, result, text, table, beyond, cur, row, live, last, tokens>>

\* The generated lexer has no token here either: lex again in error recovery.
Relex ==
    /\ phase = "internal"
    /\ row # Recovery
    /\ IsTagAt(text, pos[cur])
    /\ phase' = "scan"
    /\ row' = Recovery
    /\ Deserialize(last[cur])
    /\ UNCHANGED <<result, text, table, beyond, cur, stack>>

\* A conflict or a recovery splits version v; w continues on its own.
Fork(v, w) ==
    /\ phase = "ready"
    /\ v \in live /\ w \notin live
    /\ live' = live \cup {w}
    /\ pos' = [pos EXCEPT ![w] = pos[v]]
    /\ last' = [last EXCEPT ![w] = last[v]]
    /\ tokens' = [tokens EXCEPT ![w] = tokens[v]]
    /\ UNCHANGED <<payload, result, text, table, beyond, phase, cur, row>>

\* A version is merged into, or dropped for, one that has come as far.
Drop(v) ==
    /\ phase = "ready"
    /\ v \in live
    /\ \E w \in live \ {v} : pos[w] >= pos[v]
    /\ live' = live \ {v}
    /\ UNCHANGED <<payload, result, text, table, beyond, phase, cur, row,
                   pos, last, tokens>>

AtEnd == \A v \in live : pos[v] > Len(text) + 1

\* The parse is over or is abandoned; the payload is destroyed.
EndParse ==
    /\ phase = "ready"
    /\ phase' = "none"
    /\ live' = {}
    /\ Destroy
    /\ UNCHANGED <<result, text, table, beyond, cur, row, pos, last, tokens>>

Next ==
    \/ StartParse
    \/ \E v \in Versions, r \in 1..Len(table.rows) : StartLex(v, r)
    \/ Scan
    \/ AcceptToken
    \/ InternalLex
    \/ Relex
    \/ \E v, w \in Versions : Fork(v, w)
    \/ \E v \in Versions : Drop(v)
    \/ EndParse

(***************************************************************************)
(* The runtime's loop finishes what it began for a version, comes round to *)
(* every live version, and ends the parse when all are at the end of the   *)
(* text.                                                                   *)
(***************************************************************************)
Fairness ==
    /\ WF_vars(Scan)
    /\ WF_vars(AcceptToken)
    /\ WF_vars(InternalLex \/ Relex)
    /\ \A v \in Versions : SF_vars(\E r \in 1..Len(table.rows) : StartLex(v, r))
    /\ SF_vars(AtEnd /\ EndParse)

Spec == Init /\ [][Next]_vars
FairSpec == Spec /\ Fairness

-----------------------------------------------------------------------------
Phases == {"none", "ready", "scan", "lexed", "internal"}

TokenRecord ==
    [sym : TokenType, tag : Tags \cup {NoTag}, first : Nat, last : Nat]

\* The variables have the types of the payload and of the runtime's stack.
TypeOK ==
    /\ start_tag \in Tags \cup {NoTag}
    /\ owned \in BOOLEAN
    /\ leaked \in 0..MaxLeaked
    /\ result \in TokenRecord \cup {NotFound}
    /\ table \in Tables
    /\ text \in Texts[table]
    /\ beyond \subseteq CellsBeyond(table)
    /\ phase \in Phases
    /\ cur \in Versions
    /\ row \in 1..Len(table.rows)
    /\ live \subseteq Versions
    /\ pos \in [Versions -> Nat \ {0}]
    /\ last \in [Versions -> (Tags \ LongTags) \cup {NoTag}]
    /\ tokens \in [Versions -> Seq(TokenRecord)]

(***************************************************************************)
(* start_tag is NULL or points to a string that is still allocated, and an *)
(* allocated string is not forgotten while the pointer says NULL.  What    *)
(* destroy, serialize and an end tag free is therefore live, and nothing   *)
(* is freed twice (scanner.c:29, :190, :258).                              *)
(***************************************************************************)
Ownership == owned <=> start_tag # NoTag

(***************************************************************************)
(* The one payload holds the state of the version being lexed while scan   *)
(* runs on it, whatever version was lexed before and however that ended    *)
(* (scanner.c:264).                                                        *)
(***************************************************************************)
PayloadIsCurrent == phase = "scan" => start_tag = last[cur]

(***************************************************************************)
(* Each version behaves as if it had a scanner of its own, with the saved  *)
(* state in the place of the open tag: scan, serialize and deserialize on  *)
(* the shared payload never carry a tag from one version to another.       *)
(***************************************************************************)
Private == INSTANCE PrivateScanners WITH open <- last, Texts <- UNION {Texts[t] : t \in Tables}
PrivatePerVersion == Private!Spec

\* In each version the start and end tags pair up, and no string is taken
\* with the tag that is open around it (scanner.c:169, :185, :211).
VersionsBalanced == Private!Balanced

\* The state saved for a version is what its own tokens left open, whatever
\* the scanner did for other versions in between (scanner.c:245-272).
SavedFollowsTokens == Private!OpenFollowsTokens

(***************************************************************************)
(* The scanner leaks only where a tag can be opened: with a table in which *)
(* no row offers the start tag, every string that scan allocates is freed  *)
(* again, on every path through scan (scanner.c:218, :230, :237).          *)
(***************************************************************************)
StartTagOffered ==
    \E r \in 1..Len(table.rows) :
        "DOLLAR_QUOTED_STRING_START_TAG" \in ValidSymbols(table, r, beyond)

LeakNeedsStartTag == leaked > 0 => StartTagOffered

(***************************************************************************)
(* The tokens of a version lie one after the other in the text, and each   *)
(* spans at least one lexeme: no scan returns an empty token or one that   *)
(* reaches back.                                                           *)
(***************************************************************************)
TokensInOrder ==
    \A v \in live : \A i \in 1..Len(tokens[v]) :
        /\ tokens[v][i].first <= tokens[v][i].last
        /\ tokens[v][i].last < pos[v]
        /\ \A j \in 1..i-1 : tokens[v][j].last < tokens[v][i].first

(***************************************************************************)
(* Where the scanner answers at a dollar tag, it answers with a whole      *)
(* string, and the grammar knows that token.                               *)
(***************************************************************************)
DollarStringsHandled ==
    \A v \in live : \A i \in 1..Len(tokens[v]) :
        tokens[v][i].tag # NoTag =>
            /\ tokens[v][i].sym = "DOLLAR_QUOTED_STRING"
            /\ tokens[v][i].sym \in Declared(table)

(***************************************************************************)
(* Every parse comes to an end, whatever the scanner answers: no version   *)
(* is lexed at the same place for ever.                                    *)
(***************************************************************************)
EveryParseEnds == phase # "none" ~> phase = "none"
=============================================================================
