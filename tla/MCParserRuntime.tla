-------------------------- MODULE MCParserRuntime --------------------------
(***************************************************************************)
(* ParserRuntime on small texts, with the external-token tables that the   *)
(* generator writes for three groups of dialects.                          *)
(***************************************************************************)
EXTENDS ParserRuntime

CONSTANTS a, b, long, v1, v2

\* postgres, cockroachdb and snowflake: six externals, and the two tag tokens
\* valid in recovery only.
SixExternals ==
    [externals |-> 6,
     rows |-> << TokenType,
                 {"POSITION_CALL", "DOLLAR_QUOTED_STRING"},
                 {"DOLLAR_QUOTED_STRING"} >>]

\* databricks, spark and mysql: three externals, two rows.
ThreeExternalsTwoRows ==
    [externals |-> 3, rows |-> << PositionTokens, {"POSITION_CALL"} >>]

\* base, hive, clickhouse and bigquery: three externals, one row.
ThreeExternalsOneRow == [externals |-> 3, rows |-> << PositionTokens >>]

SixAndThree == {SixExternals, ThreeExternalsOneRow}
Databricks  == {ThreeExternalsTwoRows}

\* Two strings, one nested in the other, an odd tag, and a tag too long.
DollarTexts ==
    { <<a, Word, a, a>>,
      <<a, b, a, b>>,
      <<long, Word, long>>,
      <<"POSITION_CALL", a, b, b>> }

\* One string, alone and after a position call.
StringTexts == { <<a, Word, a>>, <<"POSITION_CALL", a, a>> }

MCTexts == [t \in Tables |-> DollarTexts \cup (IF t.externals = 3 THEN StringTexts ELSE {})]
=============================================================================
