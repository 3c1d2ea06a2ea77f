------------------------ MODULE MCGrammarComposition ------------------------
(***************************************************************************)
(* The 23 grammars of the repository, composed from their rule files, and  *)
(* what they are known to do without.                                      *)
(***************************************************************************)
EXTENDS GrammarComposition

Base        == INSTANCE BaseRules
BigQuery    == INSTANCE BigQueryRules
ClickHouse  == INSTANCE ClickHouseRules
Db2         == INSTANCE Db2Rules
DuckDB      == INSTANCE DuckDBRules
Flink       == INSTANCE FlinkRules
Hana        == INSTANCE HanaRules
Hive        == INSTANCE HiveRules
MySQL       == INSTANCE MySQLRules
Oracle      == INSTANCE OracleRules
Postgres    == INSTANCE PostgresRules
Redshift    == INSTANCE RedshiftRules
Snowflake   == INSTANCE SnowflakeRules
Spark       == INSTANCE SparkRules
SQLite      == INSTANCE SQLiteRules
Teradata    == INSTANCE TeradataRules
Trino       == INSTANCE TrinoRules
TSQL        == INSTANCE TSQLRules

MCGrammars == {"base", "athena", "bigquery", "clickhouse", "cockroachdb", "databricks", "db2", "duckdb",
    "flink", "hana", "hive", "mariadb", "mysql", "oracle", "postgres", "redshift", "snowflake", "spanner",
    "spark", "sqlite", "teradata", "trino", "tsql"}

\* The grammar that <dialect>/grammar.js imports and hands to grammar().
MCParent == [ athena |-> "trino", bigquery |-> "base", clickhouse |-> "base", cockroachdb |-> "postgres",
    databricks |-> "spark", db2 |-> "base", duckdb |-> "base", flink |-> "base", hana |-> "base",
    hive |-> "base", mariadb |-> "mysql", mysql |-> "base", oracle |-> "base", postgres |-> "base",
    redshift |-> "base", snowflake |-> "base", spanner |-> "bigquery", spark |-> "hive", sqlite |-> "base",
    teradata |-> "base", trino |-> "base", tsql |-> "base" ]

MCLayers == [ base |-> Base!layers, athena |-> Trino!athena_layers, bigquery |-> BigQuery!layers,
    clickhouse |-> ClickHouse!layers, cockroachdb |-> Postgres!crdb_layers,
    databricks |-> Spark!databricks_layers, db2 |-> Db2!layers, duckdb |-> DuckDB!layers,
    flink |-> Flink!layers, hana |-> Hana!layers, hive |-> Hive!layers, mariadb |-> MySQL!mariadb_layers,
    mysql |-> MySQL!layers, oracle |-> Oracle!layers, postgres |-> Postgres!layers,
    redshift |-> Redshift!layers, snowflake |-> Snowflake!layers, spanner |-> BigQuery!spanner_layers,
    spark |-> Spark!layers, sqlite |-> SQLite!layers, teradata |-> Teradata!layers, trino |-> Trino!layers, tsql |-> TSQL!layers ]

MCConflicts == [ base |-> Base!conflicts, athena |-> Trino!athena_conflicts, bigquery |-> BigQuery!conflicts,
    clickhouse |-> ClickHouse!conflicts, cockroachdb |-> Postgres!crdb_conflicts,
    databricks |-> Spark!databricks_conflicts, db2 |-> Db2!conflicts, duckdb |-> DuckDB!conflicts,
    flink |-> Flink!conflicts, hana |-> Hana!conflicts, hive |-> Hive!conflicts,
    mariadb |-> MySQL!mariadb_conflicts, mysql |-> MySQL!conflicts, oracle |-> Oracle!conflicts,
    postgres |-> Postgres!conflicts, redshift |-> Redshift!conflicts, snowflake |-> Snowflake!conflicts,
    spanner |-> BigQuery!spanner_conflicts, spark |-> Spark!conflicts, sqlite |-> SQLite!conflicts,
    teradata |-> Teradata!conflicts, trino |-> Trino!conflicts, tsql |-> TSQL!conflicts ]

MCExternals == [ base |-> Base!externals, athena |-> Base!externals, bigquery |-> Base!externals,
    clickhouse |-> Base!externals, cockroachdb |-> Postgres!externals, databricks |-> Base!externals,
    db2 |-> Base!externals, duckdb |-> Base!externals, flink |-> Base!externals, hana |-> Base!externals,
    hive |-> Base!externals, mariadb |-> Base!externals, mysql |-> Base!externals,
    oracle |-> Base!externals, postgres |-> Postgres!externals, redshift |-> Base!externals,
    snowflake |-> Snowflake!externals, spanner |-> Base!externals, spark |-> Base!externals,
    sqlite |-> Base!externals, teradata |-> Base!externals, trino |-> Base!externals,
    tsql |-> Base!externals ]

MCRoots == Base!roots

MCPARENTS == [ spark |-> {"hive"}, databricks |-> {"spark", "hive"}, mariadb |-> {"mysql"},
    athena |-> {"trino"}, cockroachdb |-> {"postgres"}, spanner |-> {"bigquery"} ]

\* The rules that list the alternatives of a statement or clause, as
\* CONTRIBUTING.md names them.
MCDispatch == {"statement", "_ddl_statement", "_create_statement", "_alter_statement", "_drop_statement",
    "_dml_write", "_transaction_statement", "_column_constraint", "from", "relation"}

\* What the root's grammar.js defines itself, outside grammar/.
MCUnhashed == {"program", "comment", "marginalia"}

\* Rules of the dialects that nothing refers to.
MCStranded == {
    <<"oracle", "_mv_log_value_list">>, <<"oracle", "_oracle_storage_option">>,
    <<"oracle", "assignment_list">>, <<"oracle", "cursor_for_loop">>,
    <<"oracle", "package_exception_declaration">>, <<"oracle", "package_pragma">>,
    <<"oracle", "package_subprogram_body">>, <<"oracle", "package_subprogram_declaration">>,
    <<"postgres", "use_statement">>, <<"snowflake", "alter_warehouse_statement">>,
    <<"snowflake", "drop_stage">>}

\* Alternatives the dialects leave out, most of them because the dialect has
\* no such statement or clause.
MCWithdrawn == {
    <<"athena", "alter_branch_statement">>, <<"athena", "call_statement">>,
    <<"athena", "create_branch_statement">>, <<"athena", "create_catalog">>, <<"athena", "deny_statement">>,
    <<"athena", "drop_branch_statement">>, <<"athena", "drop_catalog">>, <<"athena", "set_path_statement">>,
    <<"athena", "set_role_statement">>, <<"athena", "set_session_authorization_statement">>,
    <<"athena", "set_time_zone_statement">>, <<"bigquery", "_from_clauses_0">>,
    <<"bigquery", "declare_cursor_statement">>, <<"clickhouse", "_from_clauses_0">>,
    <<"clickhouse", "_transaction_statement">>, <<"clickhouse", "call_statement">>,
    <<"clickhouse", "declare_cursor_statement">>, <<"cockroachdb", "tablesample">>,
    <<"databricks", "declare_variable_statement">>, <<"databricks", "describe_statement">>,
    <<"databricks", "grant_role">>, <<"databricks", "load_data">>, <<"databricks", "revoke_role">>,
    <<"databricks", "set_path_statement">>, <<"databricks", "set_role_statement">>,
    <<"databricks", "set_variable_statement">>, <<"databricks", "show_collations_statement">>,
    <<"databricks", "show_statement">>, <<"db2", "_from_clauses_0">>, <<"duckdb", "_from_clauses_0">>,
    <<"duckdb", "declare_cursor_statement">>, <<"duckdb", "values">>, <<"flink", "_from_clauses_0">>,
    <<"flink", "declare_cursor_statement">>, <<"flink", "grant_statement">>,
    <<"flink", "revoke_statement">>, <<"hana", "_from_clauses_0">>, <<"hive", "_from_clauses_0">>,
    <<"hive", "call_statement">>, <<"hive", "declare_cursor_statement">>, <<"mysql", "_from_clauses_0">>,
    <<"oracle", "declare_cursor_statement">>, <<"postgres", "_from_clauses_0">>,
    <<"redshift", "_from_clauses_0">>, <<"snowflake", "_check_constraint">>,
    <<"snowflake", "_column_comment">>, <<"snowflake", "_default_expression">>,
    <<"snowflake", "_from_clauses_0">>, <<"snowflake", "_primary_key">>, <<"snowflake", "create_trigger">>,
    <<"snowflake", "declare_cursor_statement">>, <<"snowflake", "drop_function">>,
    <<"snowflake", "drop_procedure">>, <<"snowflake", "drop_role">>, <<"snowflake", "drop_schema">>,
    <<"snowflake", "release_savepoint_statement">>, <<"snowflake", "rollback_to_savepoint_statement">>,
    <<"snowflake", "savepoint_statement">>, <<"spanner", "_merge_statement">>,
    <<"spanner", "alter_admin_object">>, <<"spanner", "alter_schema_replica">>,
    <<"spanner", "alter_search_index">>, <<"spanner", "create_admin_object">>,
    <<"spanner", "create_external_schema">>, <<"spanner", "create_row_access_policy">>,
    <<"spanner", "create_snapshot_table">>, <<"spanner", "create_table_from_source">>,
    <<"spanner", "drop_admin_object">>, <<"spanner", "drop_all_row_access_policies">>,
    <<"spanner", "drop_qualified_table">>, <<"spanner", "drop_row_access_policy">>,
    <<"spanner", "for_system_time_as_of">>, <<"spanner", "undrop_schema">>,
    <<"spark", "abort_transactions_statement">>, <<"spark", "alter_connector">>,
    <<"spark", "create_connector">>, <<"spark", "create_temporary_macro">>, <<"spark", "drop_connector">>,
    <<"spark", "export_statement">>, <<"spark", "import_statement">>, <<"sqlite", "_from_clauses_0">>,
    <<"sqlite", "_truncate_statement">>, <<"sqlite", "call_statement">>,
    <<"sqlite", "declare_cursor_statement">>, <<"sqlite", "grant_statement">>,
    <<"sqlite", "revoke_statement">>, <<"teradata", "_from_clauses_0">>, <<"teradata", "tablesample">>,
    <<"trino", "_from_clauses_0">>, <<"trino", "_transaction_statement">>,
    <<"trino", "declare_cursor_statement">>, <<"tsql", "_from_clauses_0">>,
    <<"tsql", "_transaction_statement">>, <<"tsql", "call_statement">>}

\* DuckDB: the relation of grammar.js offers (VALUES ...), the one of
\* grammar/select.js, spread after it, does not.
MCEclipsed == {
    <<"duckdb", "values">>}

\* Conflicts of the parent that the dialect does not state.
MCRelinquished == {
    <<"databricks", {"qualify"}>>, <<"hive", {"_qualified_field", "field"}>>,
    <<"oracle", {"create_function"}>>, <<"postgres", {"_qualified_field", "field"}>>}

\* Words that the committed parsers never lex: each parser accepts both words
\* somewhere, and reads the longer one as an identifier.
MCUnlexable == {
    <<"clickhouse", "part", "parts">>, <<"cockroachdb", "at", "atomic">>, <<"databricks", "at", "atomic">>,
    <<"databricks", "at", "attribute">>, <<"flink", "define", "definer">>, <<"hive", "conf", "conflict">>,
    <<"mariadb", "match", "matched">>, <<"mariadb", "share", "shared">>, <<"mysql", "match", "matched">>,
    <<"mysql", "share", "shared">>, <<"oracle", "concurrent", "concurrently">>,
    <<"oracle", "repeat", "repeatable">>, <<"snowflake", "other", "others">>,
    <<"spanner", "max", "maxvalue">>, <<"spark", "conf", "conflict">>, <<"sqlite", "match", "matched">>,
    <<"trino", "call", "called">>}

\* Pairs of which the parser needs one word only, and three that tree-sitter
\* tells apart because it lexes the shorter word as a keyword of identifier.
MCHarmless == {
    <<"athena", "call", "called">>, <<"databricks", "conf", "conflict">>, <<"db2", "call", "caller">>,
    <<"oracle", "id", "identity">>, <<"snowflake", "connect", "connection">>,
    <<"sqlite", "glob", "global">>, <<"tsql", "save", "savepoint">>}
=============================================================================
