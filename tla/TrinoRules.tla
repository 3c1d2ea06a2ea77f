---------------------------- MODULE TrinoRules -----------------------------
(***************************************************************************)
(* trino/grammar.js, athena/grammar.js and the rule files they spread:     *)
(* what the grammars add to the rules of base, and the second to those of  *)
(* the first, and what they override, one unit per object of rules, and    *)
(* the layers in the order they are spread.                                *)
(***************************************************************************)
EXTENDS GrammarHelpers

Base == INSTANCE BaseRules
Copied == INSTANCE CopiedRules

dialect_transaction_rules == Copied!dialect_transaction_rules
dialect_alter_rules == Copied!dialect_alter_rules
misc_rules == Copied!misc_rules
legacy_words == Copied!legacy_words
create_rules_own_1 == Copied!create_rules_own_1
create_rules_own_2 == Copied!create_rules_own_2

create_rules == Spread(<<create_rules_own_1, Base!create_function_rules, Base!create_procedure_rules,
    create_rules_own_2>>)

drop_rules == Copied!drop_rules
rename_rules == Copied!rename_rules
refresh_rules == Copied!refresh_rules
truncate_rules == Copied!truncate_rules
insert_rules == Copied!insert_rules
update_rules == Copied!update_rules
delete_rules == Copied!delete_rules
merge_rules == Copied!merge_rules
legacy_dispatch == Copied!legacy_dispatch

dialect_legacy_rules == Spread(<<misc_rules, legacy_words, create_rules, drop_rules, rename_rules,
    refresh_rules, truncate_rules, insert_rules, update_rules, delete_rules, merge_rules, legacy_dispatch>>)

rules_1 == Unit(
  Words({"path", "branch", "branches"}) @@
  StrongWords({"deny", "properties", "prepare", "deallocate", "stats", "match_recognize", "measures",
    "pattern", "define", "running", "final", "skip", "past", "map", "qualify", "one", "per", "logical",
    "distributed", "validate", "io", "graphviz", "format", "bernoulli", "system", "tinyint", "ipaddress",
    "uuid", "row", "next", "show", "catalogs", "catalog", "schemas", "columns", "functions", "grants",
    "roles", "describe", "extended", "call", "output", "fast", "forward", "comment", "match", "text"}),
  Tokens({"op_other"}) @@
  [ _create_statement |-> {"_create_statement", "create_catalog", "create_database", "create_function",
      "create_materialized_view", "create_procedure", "create_role", "create_schema", "create_sequence",
      "create_table", "create_trigger", "create_type", "create_view"},
    _drop_statement |-> {"drop_catalog", "drop_database", "drop_function", "drop_index",
      "drop_materialized_view", "drop_procedure", "drop_role", "drop_schema", "drop_sequence", "drop_table",
      "drop_type", "drop_view"},
    create_catalog |-> {"_if_not_exists", "_literal_string", "identifier", "with_properties"},
    drop_catalog |-> {"_if_exists", "identifier"},
    _ddl_statement |-> {"_alter_statement", "_create_statement", "_drop_statement", "_merge_statement",
      "_refresh_statement", "_rename_statement", "grant_statement", "revoke_statement", "set_statement"},
    statement |-> {"_ddl_statement", "_dml_read", "_dml_write", "alter_branch_statement",
      "analyze_statement", "call_statement", "comment_on_statement", "create_branch_statement",
      "deallocate_statement", "deny_statement", "describe_statement", "drop_branch_statement",
      "execute_statement", "explain_options", "prepare_statement", "reset_session_statement",
      "set_path_statement", "set_role_statement", "set_session_authorization_statement",
      "set_session_statement", "set_time_zone_statement", "show_statement", "show_stats_statement"},
    deny_statement |-> {"_grant_object", "_grantee_list", "_privilege_list"},
    set_role_statement |-> {"identifier"},
    set_time_zone_statement |-> {"_expression"},
    set_path_statement |-> {"object_reference"},
    set_session_authorization_statement |-> {"_literal_string", "identifier"},
    _alter_specifications |-> {"_expression", "add_column", "add_constraint", "alter_column",
      "change_column", "change_ownership", "drop_column", "drop_constraint", "identifier", "modify_column",
      "rename_column", "rename_object", "set_schema", "trino_property", "where"},
    _expression |-> {"_qualified_field", "array", "between_expression", "binary_expression", "case", "cast",
      "exists", "interval", "invocation", "lambda_expression", "like_expression", "list", "literal",
      "parameter", "parenthesized_expression", "position_expression", "subquery", "subscript",
      "trim_expression", "typed_temporal_literal", "unary_expression", "window_function"} ])

trino_statement_rules == Unit(
  NoWords,
  [ prepare_statement |-> {"_dml_read", "identifier"},
    execute_statement |-> {"_expression", "identifier"},
    deallocate_statement |-> {"identifier"},
    show_stats_statement |-> {"object_reference"},
    set_session_statement |-> {"_expression", "object_reference"},
    reset_session_statement |-> {"object_reference"},
    show_statement |-> {"_literal_string", "object_reference"},
    describe_statement |-> {"_dml_read", "identifier", "object_reference"},
    call_statement |-> {"_expression", "identifier", "object_reference"},
    create_branch_statement |-> {"_expression", "_if_not_exists", "_or_replace", "identifier",
      "object_reference"},
    drop_branch_statement |-> {"_if_exists", "identifier", "object_reference"},
    alter_branch_statement |-> {"identifier", "object_reference"},
    analyze_statement |-> {"analyze_property", "object_reference"},
    analyze_property |-> {"_expression", "identifier"},
    comment_on_statement |-> {"_literal_string", "object_reference"} ])

trino_type_rules == Unit(
  NoWords,
  [ array_type |-> {"_type"},
    map_type |-> {"_type"},
    row_type |-> {"row_type_field"},
    row_type_field |-> {"_type", "identifier"},
    _type |-> {"array_type", "bigint", "binary", "bit", "char", "decimal", "double", "enum", "float", "int",
      "map_type", "nchar", "numeric", "nvarchar", "object_reference", "row_type", "smallint", "time",
      "timestamp", "varbinary", "varchar"} ])

trino_expression_rules == Unit(
  NoWords,
  [ lambda_expression |-> {"_expression", "identifier"} ])

trino_select_rules == Unit(
  NoWords,
  Tokens({"rows_per_match", "locking_clause"}) @@
  [ tablesample |-> {"_expression"},
    from |-> {"cross_join", "group_by", "having", "join", "lateral_cross_join", "lateral_join", "limit",
      "offset_fetch_clause", "order_by", "relation", "where", "window_clause"},
    relation |-> {"_alias", "_column_list", "invocation", "match_recognize_clause", "object_reference",
      "subquery", "tablesample", "values"},
    match_recognize_clause |-> {"after_match_skip", "define_clause", "measures_clause", "order_by",
      "partition_by", "pattern_clause", "rows_per_match"},
    measures_clause |-> {"measure_item"},
    measure_item |-> {"_expression", "identifier"},
    after_match_skip |-> {"identifier"},
    pattern_clause |-> {"pattern_term"},
    pattern_term |-> {"identifier", "pattern_term"},
    define_clause |-> {"define_item"},
    define_item |-> {"_expression", "identifier"},
    _select_statement |-> {"from", "locking_clause", "select", "select_expression"} ])

trino_ddl_rules == Unit(
  NoWords,
  Tokens({"explain_options"}) @@
  [ with_properties |-> {"_expression", "identifier"},
    create_table |-> {"_if_not_exists", "_temporary", "column_definitions", "create_query",
      "object_reference", "with_properties"},
    create_schema |-> {"_if_not_exists", "identifier", "object_reference", "with_properties"} ])

trino_clause_rules == Unit(
  NoWords,
  [ _set_authorization |-> {"identifier"},
    _set_properties |-> {"trino_property"},
    trino_property |-> {"_expression", "identifier"},
    alter_schema |-> {"_set_authorization", "identifier"},
    alter_view |-> {"_dml_read", "_if_exists", "_set_authorization", "change_ownership", "object_reference",
      "rename_column", "rename_object", "set_schema"},
    alter_materialized_view |-> {"_if_exists", "_set_authorization", "_set_properties", "change_ownership",
      "object_reference", "rename_object", "set_schema"} ])

rules_2 == Unit(
  StrongWords({"definer", "matched", "percent", "rows"}),
  [ create_view |-> {"_if_not_exists", "_literal_string", "_or_replace", "create_query", "identifier",
      "object_reference"} ])

layers == <<Copy(dialect_transaction_rules), Copy(dialect_alter_rules), Copy(dialect_legacy_rules),
    Inline(rules_1), Own(trino_statement_rules), Own(trino_type_rules), Own(trino_expression_rules),
    Own(trino_select_rules), Own(trino_ddl_rules), Own(trino_clause_rules), Inline(rules_2)>>

conflicts == {{"object_reference", "_qualified_field"}, {"field", "_qualified_field"}, {"object_reference"},
  {"between_expression", "binary_expression", "like_expression"},
  {"transaction", "start_transaction_statement"}, {"transaction", "commit_statement"},
  {"transaction", "rollback_statement"}, {"_commit", "commit_statement"},
  {"_rollback", "rollback_statement"}, {"create_function"}, {"list", "grouping_set"},
  {"list", "rollup_element"}, {"list", "cube_element"}, {"values"}}

-----------------------------------------------------------------------------
\* athena/grammar.js, which extends trino/grammar.js.
athena_rules == Unit(
  StrongWords({"optimize", "rewrite", "bin_pack", "vacuum", "views", "databases", "dbproperties", "dialect",
    "unload", "msck", "repair", "sync", "partitions", "partitioned", "location", "serde", "serdeproperties",
    "stored", "tblproperties", "textfile", "parquet", "orc", "avro", "rcfile", "sequencefile",
    "inputformat", "delimited", "terminated", "fields", "lines"}),
  [ _create_statement |-> {"_create_statement", "create_database", "create_function",
      "create_materialized_view", "create_procedure", "create_role", "create_schema", "create_sequence",
      "create_table", "create_trigger", "create_type", "create_view"},
    _drop_statement |-> {"drop_database", "drop_function", "drop_index", "drop_materialized_view",
      "drop_procedure", "drop_role", "drop_schema", "drop_sequence", "drop_table", "drop_type", "drop_view"},
    statement |-> {"_ddl_statement", "_dml_read", "_dml_write", "alter_database_properties",
      "alter_view_dialect", "analyze_statement", "athena_show_statement", "comment_on_statement",
      "create_external_table", "deallocate_statement", "describe_statement", "describe_view_statement",
      "execute_statement", "explain_options", "msck_repair_statement", "optimize_statement",
      "prepare_statement", "reset_session_statement", "set_session_statement", "show_create_statement",
      "show_partitions_statement", "show_statement", "show_stats_statement", "unload_statement",
      "vacuum_statement"},
    vacuum_statement |-> {"object_reference"},
    optimize_statement |-> {"object_reference", "where"},
    _alter_specifications |-> {"_expression", "_if_exists", "_if_not_exists", "_literal_string",
      "add_column", "add_constraint", "alter_column", "change_column", "change_ownership",
      "column_definitions", "drop_column", "drop_constraint", "identifier", "modify_column",
      "property_pair", "rename_column", "rename_object", "set_schema"} ])

athena_statement_rules == Unit(
  NoWords,
  [ unload_statement |-> {"_dml_read", "_literal_string", "with_properties"},
    msck_repair_statement |-> {"object_reference"},
    show_partitions_statement |-> {"object_reference"},
    show_create_statement |-> {"object_reference"} ])

athena_admin_rules == Unit(
  NoWords,
  [ athena_show_statement |-> {"_literal_string", "object_reference"},
    create_database |-> {"_if_not_exists", "_literal_string", "identifier", "property_pair"},
    alter_database_properties |-> {"identifier", "property_pair"},
    property_pair |-> {"_literal_string"},
    alter_view_dialect |-> {"create_query", "identifier", "object_reference"},
    describe_view_statement |-> {"object_reference"} ])

athena_create_rules == Unit(
  NoWords,
  Tokens({"stored_as"}) @@
  [ create_external_table |-> {"_if_not_exists", "_literal_string", "column_definitions",
      "object_reference", "row_format", "stored_as"},
    create_table |-> {"_if_not_exists", "_literal_string", "_temporary", "column_definitions",
      "create_query", "object_reference", "partition_transform", "with_properties"},
    partition_transform |-> {"_integer", "identifier"},
    row_format |-> {"_literal_string"} ])

athena_layers == <<Inline(athena_rules), Own(athena_statement_rules), Own(athena_admin_rules), Own(athena_create_rules)>>

athena_conflicts == {{"object_reference", "_qualified_field"}, {"field", "_qualified_field"}, {"object_reference"},
  {"between_expression", "binary_expression", "like_expression"},
  {"transaction", "start_transaction_statement"}, {"transaction", "commit_statement"},
  {"transaction", "rollback_statement"}, {"_commit", "commit_statement"},
  {"_rollback", "rollback_statement"}, {"create_function"}, {"list", "grouping_set"},
  {"list", "rollup_element"}, {"list", "cube_element"}, {"values"}}
==============================================================================
