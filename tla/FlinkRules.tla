---------------------------- MODULE FlinkRules -----------------------------
(***************************************************************************)
(* flink/grammar.js and the rule files it spreads: what the grammar adds   *)
(* to the rules of base and what it overrides, one unit per object of      *)
(* rules, and the layers in the order they are spread.                     *)
(***************************************************************************)
EXTENDS GrammarHelpers

Base == INSTANCE BaseRules
Copied == INSTANCE CopiedRules

dialect_transaction_rules == Copied!dialect_transaction_rules
dialect_alter_rules == Copied!dialect_alter_rules
misc_rules == Copied!misc_rules
legacy_words == Copied!legacy_words
create_rules_own_1 == Copied!create_rules_own_1
create_rules_own_2 == Copied!create_rules_own_2

create_rules == Spread(<<create_rules_own_1, Base!create_function_rules, Base!create_procedure_rules,
    create_rules_own_2>>)

drop_rules == Copied!drop_rules
rename_rules == Copied!rename_rules
refresh_rules == Copied!refresh_rules
truncate_rules == Copied!truncate_rules
insert_rules == Copied!insert_rules
update_rules == Copied!update_rules
delete_rules == Copied!delete_rules
merge_rules == Copied!merge_rules
legacy_dispatch == Copied!legacy_dispatch

dialect_legacy_rules == Spread(<<misc_rules, legacy_words, create_rules, drop_rules, rename_rules,
    refresh_rules, truncate_rules, insert_rules, update_rules, delete_rules, merge_rules, legacy_dispatch>>)

rules_1 == Unit(
  StrongWords({"virtual", "metadata", "watermark", "watermarks", "descriptor", "distributed", "buckets",
    "distribution", "partitioned", "partitions", "ilike", "load", "unload", "module", "modules", "jar",
    "jars", "remove", "upsert", "overwrite", "plan", "compile", "compute", "statistics", "stop",
    "savepoint", "drain", "bytes", "timestamp_ltz", "multiset", "map", "raw", "tumble", "hop", "cumulate",
    "freshness", "continuous", "suspend", "resume", "model", "models", "overwriting", "including",
    "excluding", "artifact", "java", "scala", "python", "system", "job", "jobs", "show", "catalogs",
    "databases", "views", "columns", "functions", "procedures", "connections", "output", "enforced", "call",
    "sql", "options", "desc", "describe", "extended", "tinyint", "refresh_mode", "system_time",
    "match_recognize", "measures", "pattern", "define", "per", "skip", "past", "one", "match", "matched",
    "percent", "ml_predict", "ml_evaluate", "vector_search"}),
  [ from |-> {"_from_clauses_limit_0", "cross_join", "join", "lateral_cross_join", "lateral_join",
      "relation"},
    _ddl_statement |-> {"_alter_statement", "_create_statement", "_drop_statement", "_merge_statement",
      "_refresh_statement", "_rename_statement", "add_jar", "analyze_table", "comment_statement",
      "compile_plan", "describe_statement", "execute_plan", "load_module", "remove_jar", "reset_statement",
      "set_statement", "show_statement", "stop_job", "unload_module", "use_catalog_statement",
      "use_database_statement", "use_modules_statement"},
    _create_statement |-> {"_create_statement", "create_catalog", "create_connection", "create_database",
      "create_function", "create_index", "create_materialized_table", "create_materialized_view",
      "create_model", "create_procedure", "create_role", "create_schema", "create_sequence", "create_table",
      "create_trigger", "create_type", "create_view"},
    _alter_statement |-> {"alter_catalog", "alter_connection", "alter_database", "alter_function",
      "alter_index", "alter_materialized_table", "alter_materialized_view", "alter_model", "alter_role",
      "alter_schema", "alter_sequence", "alter_table", "alter_type", "alter_view"},
    _drop_statement |-> {"drop_catalog", "drop_connection", "drop_database", "drop_function", "drop_index",
      "drop_materialized_table", "drop_materialized_view", "drop_model", "drop_procedure", "drop_role",
      "drop_schema", "drop_sequence", "drop_table", "drop_type", "drop_view"},
    _dml_write |-> {"_cte", "_delete_statement", "_insert_statement", "_truncate_statement",
      "_update_statement", "begin_statement_set", "compile_and_execute_plan", "execute_statement_set"},
    statement |-> {"_ddl_statement", "_dml_read", "_dml_write", "_transaction_statement", "call_statement",
      "execute_statement"},
    _expression |-> {"_qualified_field", "array", "between_expression", "binary_expression", "case", "cast",
      "exists", "interval", "invocation", "like_expression", "list", "literal", "ml_evaluate_tvf",
      "ml_predict_tvf", "parameter", "parenthesized_expression", "position_expression", "subquery",
      "subscript", "typed_temporal_literal", "unary_expression", "vector_search_tvf", "window_function"} ])

flink_create_rules == Unit(
  NoWords,
  [ with_properties |-> {"_literal_string"},
    _flink_comment |-> {"_literal_string"},
    distribution_spec |-> {"_natural_number", "identifier"},
    watermark_definition |-> {"_expression", "identifier"},
    metadata_column |-> {"_flink_comment", "_literal_string", "_type", "identifier"},
    computed_column |-> {"_expression", "_flink_comment", "identifier"},
    constraint |-> {"identifier"},
    column_definitions |-> {"column_definition", "computed_column", "constraint", "metadata_column",
      "watermark_definition"},
    like_clause |-> {"object_reference"},
    create_table |-> {"_flink_comment", "_if_not_exists", "_or_replace", "_temporary", "column_definitions",
      "create_query", "distribution_spec", "identifier", "like_clause", "object_reference",
      "with_properties"},
    create_catalog |-> {"_flink_comment", "_if_not_exists", "identifier", "with_properties"},
    create_database |-> {"_flink_comment", "_if_not_exists", "object_reference", "with_properties"},
    create_function |-> {"_if_not_exists", "_literal_string", "_or_replace", "_temporary",
      "object_reference", "with_properties"},
    create_view |-> {"_flink_comment", "_if_not_exists", "_or_replace", "_temporary", "create_query",
      "identifier", "object_reference"},
    create_model |-> {"_flink_comment", "_if_not_exists", "_temporary", "column_definition", "create_query",
      "object_reference", "with_properties"},
    create_materialized_table |-> {"_flink_comment", "_if_not_exists", "column_definitions", "create_query",
      "distribution_spec", "identifier", "interval", "object_reference", "with_properties"},
    create_connection |-> {"_flink_comment", "_if_not_exists", "_or_replace", "_temporary",
      "object_reference", "with_properties"} ])

alter_rules == Unit(
  NoWords,
  [ alter_table |-> {"_if_exists", "_if_not_exists", "_literal_string", "column_definition",
      "column_position", "distribution_spec", "identifier", "literal", "metadata_column",
      "object_reference", "watermark_definition", "with_properties"},
    alter_catalog |-> {"_literal_string", "identifier", "with_properties"},
    alter_database |-> {"object_reference", "with_properties"},
    alter_view |-> {"_dml_read", "object_reference"},
    alter_function |-> {"_if_exists", "_literal_string", "_temporary", "object_reference"},
    alter_model |-> {"_if_exists", "_literal_string", "object_reference", "with_properties"},
    alter_materialized_table |-> {"_literal_string", "create_query", "identifier", "interval", "literal",
      "object_reference", "with_properties"},
    alter_connection |-> {"_if_exists", "_literal_string", "_temporary", "object_reference",
      "with_properties"} ])

flink_drop_rules == Unit(
  NoWords,
  [ drop_function |-> {"_if_exists", "_temporary", "object_reference"},
    drop_table |-> {"_if_exists", "_temporary", "object_reference"},
    drop_view |-> {"_if_exists", "_temporary", "object_reference"},
    drop_database |-> {"_drop_behavior", "_if_exists", "object_reference"},
    drop_catalog |-> {"_if_exists", "identifier"},
    drop_model |-> {"_if_exists", "_temporary", "object_reference"},
    drop_materialized_table |-> {"_if_exists", "_temporary", "object_reference"},
    drop_connection |-> {"_if_exists", "_temporary", "object_reference"} ])

show_rules == Unit(
  NoWords,
  Tokens({"show_current_catalog", "show_current_database", "show_modules", "show_jars", "show_jobs"}) @@
  [ show_statement |-> {"show_catalogs", "show_columns", "show_connections", "show_create",
      "show_current_catalog", "show_current_database", "show_databases", "show_functions", "show_jars",
      "show_jobs", "show_materialized_tables", "show_models", "show_modules", "show_partitions",
      "show_procedures", "show_tables", "show_views"},
    show_catalogs |-> {"_literal_string"},
    show_databases |-> {"_literal_string", "object_reference"},
    show_tables |-> {"_literal_string", "object_reference"},
    show_views |-> {"_literal_string", "object_reference"},
    show_materialized_tables |-> {"_literal_string", "object_reference"},
    show_columns |-> {"_literal_string", "object_reference"},
    show_functions |-> {"_literal_string", "object_reference"},
    show_procedures |-> {"_literal_string", "object_reference"},
    show_partitions |-> {"identifier", "literal", "object_reference"},
    show_models |-> {"_literal_string", "object_reference"},
    show_connections |-> {"_literal_string", "object_reference"},
    show_create |-> {"object_reference"},
    describe_statement |-> {"_literal_string", "identifier", "object_reference"} ])

dml_rules == Unit(
  NoWords,
  [ insert |-> {"_insert_values", "identifier", "literal", "object_reference"},
    execute_statement_set |-> {"insert"},
    begin_statement_set |-> {"insert"},
    compile_plan |-> {"_if_not_exists", "_literal_string", "execute_statement_set", "insert"},
    compile_and_execute_plan |-> {"_literal_string", "execute_statement_set", "insert"},
    execute_plan |-> {"_literal_string"},
    execute_statement |-> {"_dml_read"} ])

utility_rules == Unit(
  NoWords,
  [ load_module |-> {"identifier", "with_properties"},
    unload_module |-> {"identifier"},
    use_modules_statement |-> {"identifier"},
    use_catalog_statement |-> {"identifier"},
    use_database_statement |-> {"object_reference"},
    add_jar |-> {"_literal_string"},
    remove_jar |-> {"_literal_string"},
    analyze_table |-> {"identifier", "literal", "object_reference"},
    stop_job |-> {"_literal_string"},
    call_statement |-> {"_expression", "identifier", "object_reference"},
    set_statement |-> {"_literal_string"},
    reset_statement |-> {"_literal_string"} ])

type_rules == Unit(
  NoWords,
  [ _type |-> {"array_size_definition", "array_type", "bigint", "binary", "bit", "char", "decimal",
      "double", "enum", "float", "int", "map_type", "multiset_type", "nchar", "numeric", "nvarchar",
      "object_reference", "raw_type", "row_type", "smallint", "time", "timestamp", "timestamp_ltz",
      "varbinary", "varchar"},
    timestamp_ltz |-> {"_natural_number"},
    row_type |-> {"_literal_string", "_type", "identifier"},
    array_type |-> {"_type"},
    map_type |-> {"_type"},
    multiset_type |-> {"_type"},
    raw_type |-> {"_literal_string"} ])

select_rules == Unit(
  NoWords,
  [ descriptor_call |-> {"identifier"},
    tumble_tvf |-> {"descriptor_call", "interval", "object_reference"},
    hop_tvf |-> {"descriptor_call", "interval", "object_reference"},
    cumulate_tvf |-> {"descriptor_call", "interval", "object_reference"},
    session_tvf |-> {"descriptor_call", "interval", "object_reference"},
    window_tvf |-> {"cumulate_tvf", "hop_tvf", "session_tvf", "tumble_tvf"},
    for_system_time_as_of |-> {"_expression"},
    relation |-> {"_alias", "_column_list", "for_system_time_as_of", "invocation", "match_recognize_clause",
      "ml_evaluate_tvf", "ml_predict_tvf", "object_reference", "subquery", "tablesample", "values",
      "vector_search_tvf", "window_tvf"} ])

ml_rules == Unit(
  NoWords,
  [ ml_predict_tvf |-> {"_expression", "descriptor_call", "identifier", "object_reference"},
    ml_evaluate_tvf |-> {"_expression", "descriptor_call", "identifier", "object_reference"},
    vector_search_tvf |-> {"_expression", "descriptor_call", "identifier", "object_reference"} ])

match_recognize_rules == Unit(
  NoWords,
  Tokens({"rows_per_match"}) @@
  [ match_recognize_clause |-> {"after_match_skip", "define_clause", "measures_clause", "order_by",
      "partition_by", "pattern_clause", "rows_per_match"},
    measures_clause |-> {"measure_item"},
    measure_item |-> {"_expression", "identifier"},
    after_match_skip |-> {"identifier"},
    pattern_clause |-> {"pattern_term"},
    pattern_term |-> {"identifier", "pattern_term"},
    define_clause |-> {"define_item"},
    define_item |-> {"_expression", "identifier"} ])

rules_2 == Unit(
  StrongWords({"called"}),
  NoRules)

layers == <<Copy(dialect_transaction_rules), Copy(dialect_alter_rules), Copy(dialect_legacy_rules),
    Inline(rules_1), Own(flink_create_rules), Own(alter_rules), Own(flink_drop_rules), Own(show_rules),
    Own(dml_rules), Own(utility_rules), Own(type_rules), Own(select_rules), Own(ml_rules),
    Own(match_recognize_rules), Inline(rules_2)>>

conflicts == {{"object_reference", "_qualified_field"}, {"field", "_qualified_field"},
  {"_column", "_qualified_field"}, {"object_reference"},
  {"between_expression", "binary_expression", "like_expression"},
  {"transaction", "start_transaction_statement"}, {"transaction", "commit_statement"},
  {"transaction", "rollback_statement"}, {"_commit", "commit_statement"},
  {"_rollback", "rollback_statement"}, {"create_function"}, {"list", "grouping_set"},
  {"list", "rollup_element"}, {"list", "cube_element"}, {"metadata_column", "column_definition"},
  {"_column", "metadata_column"}, {"computed_column", "column_definition"}, {"row_type"},
  {"object_reference", "function_argument"}, {"use_catalog_statement", "use_database_statement"},
  {"execute_statement", "execute_plan"}, {"alter_table", "alter_materialized_table"},
  {"create_table", "create_materialized_table"}}
==============================================================================
