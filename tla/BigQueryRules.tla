--------------------------- MODULE BigQueryRules ---------------------------
(***************************************************************************)
(* bigquery/grammar.js, spanner/grammar.js and the rule files they spread: *)
(* what the grammars add to the rules of base, and the second to those of  *)
(* the first, and what they override, one unit per object of rules, and    *)
(* the layers in the order they are spread.                                *)
(***************************************************************************)
EXTENDS GrammarHelpers

Base == INSTANCE BaseRules
Copied == INSTANCE CopiedRules

dialect_transaction_rules == Copied!dialect_transaction_rules
dialect_alter_rules == Copied!dialect_alter_rules
misc_rules == Copied!misc_rules
legacy_words == Copied!legacy_words
create_rules_own_1 == Copied!create_rules_own_1
create_rules_own_2 == Copied!create_rules_own_2

create_rules == Spread(<<create_rules_own_1, Base!create_function_rules, Base!create_procedure_rules,
    create_rules_own_2>>)

drop_rules == Copied!drop_rules
rename_rules == Copied!rename_rules
refresh_rules == Copied!refresh_rules
truncate_rules == Copied!truncate_rules
insert_rules == Copied!insert_rules
update_rules == Copied!update_rules
delete_rules == Copied!delete_rules
merge_rules == Copied!merge_rules
legacy_dispatch == Copied!legacy_dispatch

dialect_legacy_rules == Spread(<<misc_rules, legacy_words, create_rules, drop_rules, rename_rules,
    refresh_rules, truncate_rules, insert_rules, update_rules, delete_rules, merge_rules, legacy_dispatch>>)

rules_1 == Unit(
  StrongWords({"load", "files", "overwrite", "clone", "pivot", "unpivot", "system_time", "struct", "export",
    "model", "ml", "predict", "evaluate", "assert", "continue", "error", "exception", "qualify", "string",
    "while", "loop", "leave", "iterate", "call", "raise", "message", "return", "returning", "elseif",
    "source", "options", "copy", "access", "policy", "capacity", "bi_capacity", "reservation", "assignment",
    "data_policy", "organization", "project", "undrop", "replica", "rebuild", "enforced", "policies",
    "aggregate", "search", "vector", "columns", "int64", "float64", "bytes", "bignumeric", "geography",
    "datetime", "unnest", "declare", "cluster"}),
  Tokens({"_bq_backtick_quoted_string"}) @@
  [ program |-> {"compound_statement", "statement", "transaction"},
    statement |-> {"_ddl_statement", "_dml_read", "_dml_write", "_transaction_statement", "call_statement",
      "continue_statement", "declare_statement", "for_statement", "if_statement", "leave_statement",
      "loop_statement", "raise_statement", "return_statement", "set_variable_statement", "while_statement"},
    _insert_statement |-> {"insert", "then_return_clause"},
    _update_statement |-> {"then_return_clause", "update"},
    _delete_statement |-> {"_delete_from", "delete", "then_return_clause"},
    then_return_clause |-> {"identifier", "select_expression"},
    _ddl_statement |-> {"_alter_statement", "_create_statement", "_drop_statement", "_merge_statement",
      "_refresh_statement", "_rename_statement", "alter_admin_object", "alter_schema_replica",
      "alter_search_index", "assert_statement", "comment_statement", "create_admin_object",
      "create_external_schema", "create_row_access_policy", "create_table_from_source", "drop_admin_object",
      "drop_all_row_access_policies", "drop_qualified_table", "drop_row_access_policy", "drop_search_index",
      "export_data", "grant_statement", "load_data_statement", "revoke_statement", "set_statement",
      "undrop_schema"},
    load_data_statement |-> {"_expression", "column_definitions", "identifier", "object_reference",
      "options_clause"},
    _create_statement |-> {"_create_statement", "create_database", "create_function", "create_index",
      "create_materialized_view", "create_model", "create_procedure", "create_role", "create_schema",
      "create_sequence", "create_snapshot_table", "create_table", "create_trigger", "create_type",
      "create_view"},
    create_snapshot_table |-> {"_if_not_exists", "for_system_time_as_of", "object_reference",
      "options_clause"},
    term |-> {"_alias", "_expression", "all_fields", "all_fields_except", "all_fields_replace"},
    _expression |-> {"_qualified_field", "array", "between_expression", "binary_expression", "case", "cast",
      "exists", "interval", "invocation", "like_expression", "list", "literal", "ml_function", "parameter",
      "parenthesized_expression", "struct", "subquery", "subscript", "triple_double_quoted_string",
      "triple_single_quoted_string", "typed_literal", "unary_expression", "window_function"},
    from |-> {"cross_join", "group_by", "having", "join", "lateral_cross_join", "lateral_join", "limit",
      "order_by", "qualify", "relation", "where", "window_clause"},
    tablesample |-> {"_natural_number"},
    relation |-> {"_alias", "_column_list", "for_system_time_as_of", "invocation", "object_reference",
      "pivot_clause", "subquery", "tablesample", "unnest", "unpivot_clause", "values"},
    for_system_time_as_of |-> {"_expression"},
    identifier |-> {"_bq_backtick_quoted_string", "_double_quote_string", "_identifier"} ])

select_rules == Unit(
  NoWords,
  [ qualify |-> {"_expression"},
    pivot_clause |-> {"_alias", "_integer", "_literal_string", "identifier", "invocation"},
    unpivot_clause |-> {"identifier"},
    group_by |-> {"_expression", "cube_clause", "grouping_sets_clause", "rollup_clause"},
    unnest |-> {"_expression"},
    all_fields_except |-> {"identifier", "object_reference"},
    all_fields_replace |-> {"_expression", "identifier", "object_reference"} ])

expr_rules == Unit(
  NoWords,
  [ struct |-> {"_expression", "identifier"},
    typed_literal |-> {"_literal_string", "_type"} ])

string_rules == Unit(
  NoWords,
  Tokens({"triple_double_quoted_string", "triple_single_quoted_string"}))

scripting_rules == Unit(
  NoWords,
  Tokens({"leave_statement", "continue_statement", "return_statement"}) @@
  [ declare_statement |-> {"_expression", "_type", "identifier"},
    set_variable_statement |-> {"_expression", "identifier"},
    compound_statement |-> {"exception_clause", "statement"},
    exception_clause |-> {"statement"},
    for_statement |-> {"identifier", "statement", "subquery"},
    while_statement |-> {"_expression", "statement"},
    loop_statement |-> {"statement"},
    if_statement |-> {"_expression", "else_clause", "elseif_clause", "statement"},
    elseif_clause |-> {"_expression", "statement"},
    else_clause |-> {"statement"},
    call_statement |-> {"_expression", "object_reference"},
    raise_statement |-> {"_expression"} ])

ddl_rules == Unit(
  NoWords,
  [ create_function |-> {"_if_not_exists", "_or_replace", "_temporary", "_type", "column_definitions",
      "function_arguments", "function_body", "function_language", "object_reference", "options_clause"},
    function_body |-> {"_dml_read", "_expression", "_function_body_statement", "_single_quote_string",
      "create_query"},
    procedure_body |-> {"_function_body_statement"},
    when_clause |-> {"_expression", "_insert_values", "_set_values", "where"},
    options_clause |-> {"_expression", "identifier"},
    create_index |-> {"_column", "_if_not_exists", "identifier", "index_fields", "object_reference",
      "options_clause", "where"},
    create_table |-> {"_if_not_exists", "_or_replace", "_temporary", "bq_cluster_by", "bq_partition_by",
      "column_definitions", "create_query", "object_reference", "options_clause"},
    bq_partition_by |-> {"_expression"},
    bq_cluster_by |-> {"identifier"},
    create_view |-> {"_if_not_exists", "_or_replace", "_temporary", "create_query", "identifier",
      "object_reference", "options_clause"},
    create_model |-> {"_if_not_exists", "_or_replace", "create_query", "object_reference", "options_clause"},
    export_data |-> {"create_query", "object_reference", "options_clause"},
    assert_statement |-> {"_expression", "_literal_string"} ])

ml_rules == Unit(
  NoWords,
  [ ml_function |-> {"identifier", "object_reference", "options_clause", "subquery"} ])

types_rules == Unit(
  NoWords,
  [ array_type |-> {"_type"},
    struct_type |-> {"_type", "identifier"},
    _type |-> {"array_type", "bigint", "binary", "bit", "char", "decimal", "double", "enum", "float", "int",
      "nchar", "numeric", "nvarchar", "object_reference", "smallint", "struct_type", "time", "timestamp",
      "varbinary", "varchar"} ])

objects_rules == Unit(
  NoWords,
  Tokens({"_admin_object_type"}) @@
  [ create_table_from_source |-> {"_if_not_exists", "_or_replace", "for_system_time_as_of",
      "object_reference", "options_clause"},
    create_external_schema |-> {"_if_not_exists", "object_reference", "options_clause"},
    create_row_access_policy |-> {"_expression", "_if_not_exists", "_literal_string", "_or_replace",
      "identifier", "object_reference"},
    drop_row_access_policy |-> {"_if_exists", "identifier", "object_reference"},
    create_admin_object |-> {"_admin_object_type", "_if_not_exists", "_or_replace", "object_reference",
      "options_clause"},
    alter_admin_object |-> {"_admin_object_type", "_if_exists", "object_reference", "options_clause"},
    drop_admin_object |-> {"_admin_object_type", "_if_exists", "object_reference"},
    undrop_schema |-> {"_if_not_exists", "object_reference", "options_clause"},
    alter_schema_replica |-> {"_if_exists", "identifier", "object_reference", "options_clause"},
    alter_search_index |-> {"_if_exists", "identifier", "object_reference", "search_index_action"},
    search_index_action |-> {"_if_exists", "_if_not_exists", "identifier", "options_clause"},
    drop_search_index |-> {"_if_exists", "identifier", "object_reference"},
    drop_qualified_table |-> {"_if_exists", "object_reference"} ])

alter_rules == Unit(
  NoWords,
  Tokens({"_bq_enforcement"}) @@
  [ alter_view |-> {"_dml_read", "_if_exists", "change_ownership", "object_reference", "options_clause",
      "rename_column", "rename_object", "set_schema"},
    alter_materialized_view |-> {"_if_exists", "change_ownership", "object_reference", "options_clause",
      "rename_object", "set_schema"},
    alter_schema |-> {"_bq_default_collate", "_if_exists", "identifier", "object_reference",
      "options_clause"},
    create_schema |-> {"_bq_default_collate", "_if_not_exists", "object_reference", "options_clause"},
    _bq_default_collate |-> {"_literal_string"},
    _alter_specifications |-> {"_bq_default_collate", "_if_exists", "add_column", "add_constraint",
      "alter_column", "change_column", "change_ownership", "drop_column", "drop_constraint",
      "modify_column", "options_clause", "rename_column", "rename_object", "set_schema"},
    add_constraint |-> {"_bq_enforcement", "_check_constraint", "_if_not_exists", "_key_constraint",
      "_primary_key_constraint", "constraint", "identifier"},
    alter_column |-> {"_expression", "_if_exists", "_type", "identifier", "options_clause"},
    drop_all_row_access_policies |-> {"object_reference"} ])

rules_2 == Unit(
  StrongWords({"called", "returns"}),
  NoRules)

layers == <<Copy(dialect_transaction_rules), Copy(dialect_alter_rules), Copy(dialect_legacy_rules),
    Inline(rules_1), Own(select_rules), Own(expr_rules), Own(string_rules), Own(scripting_rules),
    Own(ddl_rules), Own(ml_rules), Own(types_rules), Own(objects_rules), Own(alter_rules), Inline(rules_2)>>

conflicts == {{"object_reference", "_qualified_field"}, {"field", "_qualified_field"},
  {"_column", "_qualified_field"}, {"object_reference"},
  {"between_expression", "binary_expression", "like_expression"},
  {"transaction", "start_transaction_statement"}, {"transaction", "commit_statement"},
  {"transaction", "rollback_statement"}, {"_commit", "commit_statement"},
  {"_rollback", "rollback_statement"}, {"create_function"}, {"add_constraint"}, {"list", "grouping_set"},
  {"list", "rollup_element"}, {"list", "cube_element"}, {"all_fields", "all_fields_except"}, {"qualify"},
  {"array_type", "struct_type"}, {"unnest"}}

-----------------------------------------------------------------------------
\* spanner/grammar.js, which extends bigquery/grammar.js.
spanner_rules == Unit(
  StrongWords({"stored", "reservoir", "sql", "interleave", "parent", "null_filtered", "storing", "stream",
    "deletion", "policy", "older_than", "max", "locality", "placement", "proto", "bundle", "remote",
    "output", "statistics", "synonym", "identity", "counter", "skip", "hidden", "auto_increment",
    "bit_reversed_positive"}),
  Tokens({"locking_clause"}) @@
  [ _ddl_statement |-> {"_alter_statement", "_create_statement", "_drop_statement", "_refresh_statement",
      "_rename_statement", "alter_change_stream", "alter_index_columns", "alter_statistics",
      "analyze_statement", "assert_statement", "comment_statement", "create_search_index",
      "drop_change_stream", "drop_search_index", "export_data", "grant_statement", "load_data_statement",
      "locality_group_statement", "model_statement", "proto_bundle_statement", "revoke_statement",
      "set_statement"},
    _create_statement |-> {"_create_statement", "create_change_stream", "create_database",
      "create_function", "create_index", "create_materialized_view", "create_model", "create_procedure",
      "create_role", "create_schema", "create_sequence", "create_table", "create_trigger", "create_type",
      "create_view"},
    insert |-> {"_insert_values", "_set_values", "identifier", "object_reference"},
    _select_statement |-> {"from", "locking_clause", "select", "select_expression"},
    tablesample |-> {"_natural_number"},
    relation |-> {"_alias", "_column_list", "invocation", "object_reference", "pivot_clause", "subquery",
      "tablesample", "unnest", "unpivot_clause", "values"},
    create_sequence |-> {"_if_not_exists", "object_reference", "options_clause", "sequence_option_clause"},
    alter_sequence |-> {"_if_exists", "_type", "change_ownership", "identifier", "literal",
      "object_reference", "options_clause", "rename_object", "sequence_option_clause"},
    _column_constraint |-> {"_check_constraint", "_column_comment", "_default_expression", "_expression",
      "_not_null", "_primary_key", "direction", "identifier", "object_reference", "options_clause",
      "sequence_option_clause"},
    create_view |-> {"_if_not_exists", "_or_replace", "create_query", "identifier", "object_reference",
      "options_clause"} ])

spanner_ddl_rules == Unit(
  NoWords,
  [ create_table |-> {"_if_not_exists", "column_definitions", "interleave_clause", "object_reference",
      "options_clause", "row_deletion_policy", "table_primary_key"},
    alter_database |-> {"identifier", "options_clause"},
    _alter_specifications |-> {"add_column", "add_constraint", "alter_column", "change_column",
      "change_ownership", "drop_column", "drop_constraint", "identifier", "interleave_clause",
      "modify_column", "options_clause", "rename_column", "rename_object", "row_deletion_policy",
      "set_schema"},
    alter_column |-> {"_column_constraint", "_expression", "_type", "identifier", "options_clause",
      "sequence_option_clause"},
    sequence_option_clause |-> {"literal"},
    table_primary_key |-> {"ordered_key_part"},
    ordered_key_part |-> {"identifier"},
    interleave_clause |-> {"object_reference"},
    row_deletion_policy |-> {"_unquoted_interval", "identifier"},
    _unquoted_interval |-> {"_natural_number", "identifier"},
    string_type |-> {"_natural_number"},
    bytes_type |-> {"_natural_number"},
    _type |-> {"array_type", "bigint", "binary", "bit", "bytes_type", "char", "decimal", "double", "enum",
      "float", "int", "nchar", "numeric", "nvarchar", "object_reference", "smallint", "string_type",
      "struct_type", "time", "timestamp", "varbinary", "varchar"},
    create_index |-> {"_column", "_column_list", "_if_not_exists", "index_fields", "interleave_clause",
      "object_reference"},
    create_change_stream |-> {"change_stream_target", "object_reference", "options_clause"},
    change_stream_target |-> {"_column_list", "object_reference"} ])

spanner_admin_rules == Unit(
  NoWords,
  Tokens({"analyze_statement"}) @@
  [ locality_group_statement |-> {"identifier", "options_clause"},
    proto_bundle_statement |-> {"object_reference"},
    create_search_index |-> {"_if_not_exists", "bq_partition_by", "identifier", "interleave_clause",
      "object_reference", "options_clause", "order_by", "where"},
    alter_index_columns |-> {"identifier", "options_clause"},
    drop_search_index |-> {"_if_exists", "identifier"},
    alter_change_stream |-> {"change_stream_target", "identifier", "options_clause"},
    drop_change_stream |-> {"_if_exists", "identifier"},
    alter_statistics |-> {"identifier", "options_clause"},
    create_model |-> {"_if_not_exists", "_or_replace", "column_definitions", "object_reference",
      "options_clause"},
    model_statement |-> {"_if_exists", "object_reference", "options_clause"} ])

spanner_layers == <<Inline(spanner_rules), Own(spanner_ddl_rules), Own(spanner_admin_rules)>>

spanner_conflicts == {{"object_reference", "_qualified_field"}, {"field", "_qualified_field"},
  {"_column", "_qualified_field"}, {"object_reference"},
  {"between_expression", "binary_expression", "like_expression"},
  {"transaction", "start_transaction_statement"}, {"transaction", "commit_statement"},
  {"transaction", "rollback_statement"}, {"_commit", "commit_statement"},
  {"_rollback", "rollback_statement"}, {"create_function"}, {"add_constraint"}, {"list", "grouping_set"},
  {"list", "rollup_element"}, {"list", "cube_element"}, {"all_fields", "all_fields_except"}, {"qualify"},
  {"array_type", "struct_type"}, {"unnest"}}
==============================================================================
