--------------------------- MODULE RedshiftRules ---------------------------
(***************************************************************************)
(* redshift/grammar.js and the rule files it spreads: what the grammar     *)
(* adds to the rules of base and what it overrides, one unit per object of *)
(* rules, and the layers in the order they are spread.                     *)
(***************************************************************************)
EXTENDS GrammarHelpers

Base == INSTANCE BaseRules
Copied == INSTANCE CopiedRules

dialect_transaction_rules == Copied!dialect_transaction_rules
dialect_alter_rules == Copied!dialect_alter_rules
misc_rules == Copied!misc_rules
legacy_words == Copied!legacy_words
create_rules_own_1 == Copied!create_rules_own_1
create_rules_own_2 == Copied!create_rules_own_2

create_rules == Spread(<<create_rules_own_1, Base!create_function_rules, Base!create_procedure_rules,
    create_rules_own_2>>)

drop_rules == Copied!drop_rules
rename_rules == Copied!rename_rules
refresh_rules == Copied!refresh_rules
truncate_rules == Copied!truncate_rules
insert_rules == Copied!insert_rules
update_rules == Copied!update_rules
delete_rules == Copied!delete_rules
merge_rules == Copied!merge_rules
legacy_dispatch == Copied!legacy_dispatch

dialect_legacy_rules == Spread(<<misc_rules, legacy_words, create_rules, drop_rules, rename_rules,
    refresh_rules, truncate_rules, insert_rules, update_rules, delete_rules, merge_rules, legacy_dispatch>>)

rules == Unit(
  Words({"conjunction", "inerror", "integration", "unlimited"}) @@
  StrongWords({"show", "schemas", "databases", "datashares", "columns", "grants", "keys", "constraints",
    "exported", "parameters", "predicate", "namespace", "account", "priority", "masking", "rls", "policy",
    "policies", "identity", "provider", "library", "template", "templates", "definition", "attach",
    "detach", "cancel", "abort", "close", "forward", "lock", "call", "called", "prepare", "deallocate",
    "copy", "unload", "iam_role", "postgres", "mysql", "kinesis", "msk", "redshift", "uri", "port",
    "secret_arn", "properties", "lambda", "datashare", "remove", "model", "target", "settings", "off",
    "offset", "ignoreheader", "maxfilesize", "gzip", "bzip2", "lzop", "zstd", "format", "csv", "delimiter",
    "quote", "parquet", "orc", "avro", "rcfile", "compression", "vacuum", "reindex", "sort", "distkey",
    "sortkey", "diststyle", "encode", "compound", "interleaved", "even", "auto", "yes", "backup", "stored",
    "location", "partitioned", "delimited", "fields", "terminated", "approximate", "nocreatedb",
    "nocreateuser", "syslog", "access", "unrestricted", "timeout", "sequences", "functions", "procedures",
    "append", "declare", "cursor"}),
  [ from |-> {"_from_clauses_limit_0", "cross_join", "join", "lateral_cross_join", "lateral_join",
      "relation"},
    statement |-> {"_ddl_statement", "_dml_read", "_dml_write", "_transaction_statement", "abort_statement",
      "alter_group_statement", "analyze_statement", "call_statement", "cancel_statement", "close_statement",
      "copy_statement", "deallocate_statement", "declare_cursor_statement", "desc_statement",
      "end_statement", "execute_statement", "fetch_statement", "lock_statement", "prepare_statement",
      "set_session_authorization", "set_session_variable_statement", "show_statement", "unload_statement"},
    declare_cursor_statement |-> {"_dml_read", "identifier"},
    _ddl_statement |-> {"_alter_statement", "_create_statement", "_drop_statement", "_merge_statement",
      "_optimize_statement", "_refresh_statement", "_rename_statement", "alter_datashare",
      "alter_default_privileges", "alter_external_view", "alter_masking_policy", "alter_rls_policy",
      "alter_system_statement", "alter_template", "attach_masking_policy", "attach_rls_policy",
      "comment_statement", "create_external_view", "create_identity_provider", "create_library",
      "create_masking_policy", "create_rls_policy", "create_template", "detach_masking_policy",
      "detach_rls_policy", "drop_external_view", "drop_identity_provider", "drop_library",
      "drop_masking_policy", "drop_model", "drop_rls_policy", "drop_template", "grant_statement",
      "reset_statement", "revoke_statement", "set_statement"},
    prepare_statement |-> {"_dml_read", "_dml_write", "_type", "identifier"},
    execute_statement |-> {"_expression", "identifier"},
    deallocate_statement |-> {"identifier"},
    _expression |-> {"_qualified_field", "approximate_count", "array", "between_expression",
      "binary_expression", "case", "cast", "exists", "interval", "invocation", "like_expression", "list",
      "literal", "parameter", "parenthesized_expression", "position_expression", "subquery", "subscript",
      "trim_expression", "typed_temporal_literal", "unary_expression", "window_function"},
    approximate_count |-> {"invocation"},
    _grant_object |-> {"object_reference"} ])

rs_create_rules == Unit(
  NoWords,
  Tokens({"_redshift_diststyle"}) @@
  [ _column_constraint |-> {"_check_constraint", "_column_comment", "_default_expression", "_expression",
      "_not_null", "_primary_key", "direction", "identifier", "object_reference"},
    create_table |-> {"_if_not_exists", "_redshift_distkey", "_redshift_diststyle", "_redshift_sortkey",
      "_temporary", "column_definitions", "create_query", "object_reference"},
    _redshift_distkey |-> {"identifier"},
    _redshift_sortkey |-> {"identifier"},
    create_materialized_view |-> {"_if_not_exists", "create_query", "object_reference"},
    create_model |-> {"_if_not_exists", "_literal_string", "identifier", "model_parameter",
      "object_reference", "subquery"},
    model_parameter |-> {"_literal_string", "identifier"},
    create_datashare |-> {"_if_not_exists", "object_reference"},
    alter_datashare |-> {"object_reference"},
    _create_statement |-> {"_create_statement", "create_database", "create_datashare",
      "create_external_function", "create_external_schema", "create_external_table", "create_function",
      "create_materialized_view", "create_model", "create_procedure", "create_role", "create_schema",
      "create_sequence", "create_table", "create_trigger", "create_type", "create_view"},
    create_external_function |-> {"_literal_string", "_or_replace", "_type", "object_reference"},
    create_external_schema |-> {"_if_not_exists", "_literal_string", "identifier", "literal"},
    create_external_table |-> {"_if_not_exists", "_literal_string", "column_definition",
      "column_definitions", "identifier", "object_reference"},
    _alter_specifications |-> {"_expression", "_literal_string", "add_column", "add_constraint",
      "alter_column", "alter_diststyle_clause", "alter_sortkey_clause", "change_column", "change_ownership",
      "drop_column", "drop_constraint", "identifier", "modify_column", "object_reference", "rename_column",
      "rename_object", "set_schema"},
    alter_diststyle_clause |-> {"identifier"},
    alter_sortkey_clause |-> {"identifier"},
    _role_options |-> {"_integer", "_literal_string", "identifier"},
    drop_role |-> {"_if_exists", "identifier"},
    alter_group_statement |-> {"identifier"},
    set_session_variable_statement |-> {"_expression", "object_reference"} ])

rs_copy_rules == Unit(
  NoWords,
  [ copy_statement |-> {"_column_list", "_integer", "_literal_string", "identifier", "object_reference"},
    unload_statement |-> {"_integer", "_literal_string", "identifier"} ])

rs_optimize_rules == Unit(
  NoWords,
  [ vacuum_statement |-> {"object_reference"},
    analyze_compression_statement |-> {"object_reference"},
    _optimize_statement |-> {"analyze_compression_statement", "vacuum_statement"} ])

objects_rules == Unit(
  NoWords,
  Tokens({"abort_statement", "end_statement"}) @@
  [ show_statement |-> {"_grant_object", "_rs_like_filter", "_rs_principal", "_type", "identifier", "limit",
      "object_reference"},
    _rs_like_filter |-> {"_literal_string"},
    _rs_principal |-> {"identifier"},
    cancel_statement |-> {"_literal_string", "_natural_number"},
    lock_statement |-> {"object_reference"},
    call_statement |-> {"_expression", "object_reference"},
    close_statement |-> {"identifier"},
    fetch_statement |-> {"_natural_number", "identifier"},
    analyze_statement |-> {"identifier", "object_reference"},
    set_session_authorization |-> {"identifier"},
    create_masking_policy |-> {"_expression", "_if_not_exists", "column_definitions", "object_reference"},
    alter_masking_policy |-> {"_expression", "object_reference"},
    drop_masking_policy |-> {"object_reference"},
    attach_masking_policy |-> {"_natural_number", "_rs_principal", "identifier", "object_reference"},
    detach_masking_policy |-> {"_rs_principal", "identifier", "object_reference"},
    create_rls_policy |-> {"_expression", "column_definitions", "identifier", "object_reference"},
    alter_rls_policy |-> {"_expression", "object_reference"},
    drop_rls_policy |-> {"_drop_behavior", "_if_exists", "object_reference"},
    attach_rls_policy |-> {"_rs_principal", "object_reference"},
    detach_rls_policy |-> {"_rs_principal", "object_reference"},
    create_identity_provider |-> {"_identity_provider_option", "identifier"},
    _identity_provider_option |-> {"_literal_string", "identifier", "option_pair"},
    option_pair |-> {"identifier", "literal"},
    drop_identity_provider |-> {"identifier"},
    desc_statement |-> {"_literal_string", "identifier"},
    create_library |-> {"_identity_provider_option", "_literal_string", "_or_replace", "identifier"},
    drop_library |-> {"identifier"},
    create_template |-> {"_or_replace", "identifier", "object_reference", "template_parameter"},
    template_parameter |-> {"identifier", "literal"},
    alter_template |-> {"identifier", "literal", "object_reference"},
    drop_template |-> {"object_reference"},
    alter_system_statement |-> {"identifier", "literal"},
    alter_default_privileges |-> {"grant_statement", "identifier", "object_reference", "revoke_statement"},
    create_external_view |-> {"_if_not_exists", "create_query", "object_reference"},
    alter_external_view |-> {"_dml_read", "object_reference"},
    drop_external_view |-> {"_if_exists", "object_reference"},
    drop_model |-> {"_if_exists", "object_reference"} ])

redshift_clause_rules == Unit(
  NoWords,
  [ alter_materialized_view |-> {"_if_exists", "change_ownership", "identifier", "object_reference",
      "rename_object", "set_schema"},
    alter_database |-> {"_redshift_db_option", "change_ownership", "identifier", "object_reference",
      "redshift_option", "rename_object"},
    create_database |-> {"_if_not_exists", "_redshift_db_option", "identifier"},
    _redshift_db_option |-> {"identifier", "literal"},
    redshift_option |-> {"identifier", "literal"} ])

layers == <<Copy(dialect_transaction_rules), Copy(dialect_alter_rules), Copy(dialect_legacy_rules),
    Inline(rules), Own(rs_create_rules), Own(rs_copy_rules), Own(rs_optimize_rules), Own(objects_rules),
    Own(redshift_clause_rules)>>

conflicts == {{"object_reference", "_qualified_field"}, {"field", "_qualified_field"},
  {"_column", "_qualified_field"}, {"object_reference"},
  {"between_expression", "binary_expression", "like_expression"},
  {"transaction", "start_transaction_statement"}, {"transaction", "commit_statement"},
  {"transaction", "rollback_statement"}, {"_commit", "commit_statement"},
  {"_rollback", "rollback_statement"}, {"create_function"}, {"list", "grouping_set"},
  {"list", "rollup_element"}, {"list", "cube_element"}, {"alter_group_statement", "alter_role"}}
==============================================================================
