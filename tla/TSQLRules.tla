----------------------------- MODULE TSQLRules -----------------------------
(***************************************************************************)
(* tsql/grammar.js and the rule files it spreads: what the grammar adds to *)
(* the rules of base and what it overrides, one unit per object of rules,  *)
(* and the layers in the order they are spread.                            *)
(***************************************************************************)
EXTENDS GrammarHelpers

Base == INSTANCE BaseRules
Copied == INSTANCE CopiedRules

dialect_transaction_rules == Copied!dialect_transaction_rules
dialect_alter_rules == Copied!dialect_alter_rules
misc_rules == Copied!misc_rules
legacy_words == Copied!legacy_words
create_rules_own_1 == Copied!create_rules_own_1
create_rules_own_2 == Copied!create_rules_own_2

create_rules == Spread(<<create_rules_own_1, Base!create_function_rules, Base!create_procedure_rules,
    create_rules_own_2>>)

drop_rules == Copied!drop_rules
rename_rules == Copied!rename_rules
refresh_rules == Copied!refresh_rules
truncate_rules == Copied!truncate_rules
insert_rules == Copied!insert_rules
update_rules == Copied!update_rules
delete_rules == Copied!delete_rules
merge_rules == Copied!merge_rules
legacy_dispatch == Copied!legacy_dispatch

dialect_legacy_rules == Spread(<<misc_rules, legacy_words, create_rules, drop_rules, rename_rules,
    refresh_rules, truncate_rules, insert_rules, update_rules, delete_rules, merge_rules, legacy_dispatch>>)

rules_1 == Unit(
  Words({"configuration", "containment", "name", "remove", "transaction"}) @@
  StrongWords({"top", "filegroup", "output", "inserted", "deleted", "raiserror", "throw", "try", "catch",
    "go", "bulk", "openrowset", "nolock", "rowlock", "updlock", "readpast", "tablock", "tablockx",
    "datetime2", "smalldatetime", "money", "smallmoney", "uniqueidentifier", "pivot", "unpivot", "apply",
    "distribution", "round_robin", "replicate", "shortcut", "target", "print", "break", "log", "rebuild",
    "reorganize", "resume", "pause", "abort", "seterror", "continue", "hash", "columnstore", "heap", "file",
    "format", "clustered", "copy", "while", "source", "declare", "cursor", "open", "close", "deny",
    "control", "revert", "caller", "cookie", "setuser", "statistics", "partitions", "backup", "restore",
    "certificate", "credential", "scoped", "encryption", "decryption", "scheme", "security", "policy",
    "predicate", "block", "replication", "rule", "sensitivity", "classification", "server", "application",
    "deallocate", "insensitive", "scroll", "global", "forward_only", "static", "keyset", "dynamic",
    "fast_forward", "scroll_locks", "optimistic", "type_warning", "absolute", "relative", "prior",
    "read_only", "exec", "execute", "save", "return", "waitfor", "delay", "timeout", "option", "synonym",
    "off", "login", "must_change", "identity", "persisted"}),
  Tokens({"_tsql_quoted_identifier", "variable"}) @@
  [ program |-> {"statement", "transaction"},
    statement |-> {"_ddl_statement", "_dml_read", "_dml_write", "backup_statement", "bulk_insert_statement",
      "close_cursor_statement", "compound_statement", "deallocate_cursor_statement",
      "declare_cursor_statement", "declare_statement", "enable_trigger_statement", "exec_statement",
      "execute_as_statement", "fetch_cursor_statement", "if_statement", "open_cursor_statement",
      "open_key_statement", "print_statement", "raiserror_statement", "return_statement",
      "revert_statement", "save_transaction_statement", "sensitivity_classification_statement",
      "set_option_statement", "setuser_statement", "throw_statement", "try_catch_statement",
      "update_statistics_statement", "waitfor_statement", "while_statement"},
    _dml_read |-> {"_cte", "_select_statement", "option_clause", "set_operation"},
    alter_index_statement |-> {"identifier", "index_option", "literal", "object_reference"},
    index_option |-> {"identifier", "literal"},
    _ddl_statement |-> {"_alter_statement", "_create_statement", "_drop_statement", "_merge_statement",
      "_refresh_statement", "_rename_statement", "alter_index_statement", "alter_login_statement",
      "alter_user_statement", "comment_statement", "copy_into_statement", "create_default_or_rule",
      "create_key_object", "create_login_statement", "create_partition_function", "create_partition_scheme",
      "create_principal_role", "create_security_policy", "create_statistics", "create_synonym_statement",
      "create_user_statement", "deny_statement", "drop_login_statement", "drop_synonym_statement",
      "drop_tsql_object", "drop_user_statement", "grant_statement", "revoke_statement", "set_statement",
      "use_statement"},
    _create_statement |-> {"_create_statement", "create_database", "create_external_data_source",
      "create_external_file_format", "create_external_table", "create_function", "create_index",
      "create_materialized_view", "create_procedure", "create_role", "create_schema", "create_sequence",
      "create_shortcut", "create_table", "create_trigger", "create_type", "create_view"},
    _alter_specifications |-> {"add_column", "add_constraint", "alter_column", "change_column",
      "change_ownership", "drop_column", "drop_constraint", "modify_column", "rename_column",
      "rename_object", "set_schema", "table_with_option"},
    create_table |-> {"_if_not_exists", "_temporary", "column_definitions", "create_query",
      "object_reference", "table_with_options"},
    identifier |-> {"_double_quote_string", "_identifier", "_tsql_quoted_identifier"},
    _expression |-> {"_qualified_field", "array", "between_expression", "binary_expression", "case", "cast",
      "exists", "interval", "invocation", "like_expression", "list", "literal", "parameter",
      "parenthesized_expression", "subquery", "subscript", "typed_temporal_literal", "unary_expression",
      "variable", "window_function"},
    _column_constraint |-> {"_check_constraint", "_column_comment", "_default_expression", "_integer",
      "_not_null", "_primary_key", "direction", "identifier", "object_reference"},
    create_type |-> {"_not_null", "_type", "column_definitions", "object_reference"},
    column_definition |-> {"_column", "_column_constraint", "_expression", "_type"},
    term |-> {"_alias", "_expression", "all_fields", "variable"},
    set_statement |-> {"_expression", "_transaction_mode", "identifier", "variable"},
    save_transaction_statement |-> {"identifier", "variable"},
    _rollback |-> {"identifier", "variable"} ])

tsql_admin_rules == Unit(
  NoWords,
  Tokens({"_on_off"}) @@
  [ tsql_option |-> {"_on_off", "identifier", "literal"},
    set_option_statement |-> {"_on_off", "identifier", "literal", "object_reference", "variable"},
    deny_statement |-> {"identifier", "object_reference", "tsql_permission"},
    tsql_permission |-> {"identifier"},
    execute_as_statement |-> {"_literal_string", "variable"},
    revert_statement |-> {"variable"},
    setuser_statement |-> {"_literal_string", "identifier"},
    enable_trigger_statement |-> {"object_reference"},
    update_statistics_statement |-> {"_statistics_option", "identifier", "object_reference"},
    create_statistics |-> {"_statistics_option", "identifier", "object_reference", "where"},
    _statistics_option |-> {"identifier", "literal", "tsql_option"},
    backup_statement |-> {"_backup_option", "backup_device", "object_reference"},
    backup_device |-> {"_literal_string", "identifier"},
    _backup_option |-> {"identifier", "tsql_option"},
    open_key_statement |-> {"_literal_string", "identifier"},
    create_key_object |-> {"_key_option", "_literal_string", "identifier"},
    _key_option |-> {"_literal_string", "identifier", "tsql_option"},
    create_partition_function |-> {"_expression", "_type", "identifier"},
    create_partition_scheme |-> {"identifier"},
    create_security_policy |-> {"object_reference", "security_predicate", "tsql_option"},
    security_predicate |-> {"_expression", "object_reference"},
    create_default_or_rule |-> {"_expression", "object_reference"},
    sensitivity_classification_statement |-> {"object_reference", "tsql_option"},
    create_principal_role |-> {"_literal_string", "identifier", "tsql_option"},
    drop_tsql_object |-> {"_if_exists", "identifier", "object_reference"} ])

tsql_select_rules == Unit(
  NoWords,
  [ group_by |-> {"_expression", "cube_clause", "grouping_sets_clause", "rollup_clause"},
    select |-> {"select_expression", "top_clause"},
    top_clause |-> {"_expression", "_natural_number"},
    from |-> {"cross_apply", "cross_join", "for_clause", "group_by", "having", "join", "lateral_cross_join",
      "lateral_join", "limit", "offset_fetch_clause", "order_by", "outer_apply", "relation", "where",
      "window_clause"},
    cross_apply |-> {"_alias", "invocation", "subquery"},
    outer_apply |-> {"_alias", "invocation", "subquery"},
    pivot_clause |-> {"_expression", "identifier", "invocation"},
    unpivot_clause |-> {"identifier"},
    for_clause |-> {"json_mode", "xml_mode"},
    xml_mode |-> {"_literal_string", "for_xml_option"},
    for_xml_option |-> {"_literal_string"},
    json_mode |-> {"_literal_string", "for_json_option"},
    for_json_option |-> {"_literal_string"} ])

tsql_type_rules == Unit(
  NoWords,
  Tokens({"smalldatetime", "money_type", "uniqueidentifier"}) @@
  [ _type |-> {"array_size_definition", "bigint", "binary", "bit", "char", "datetime2", "decimal", "double",
      "enum", "float", "int", "money_type", "nchar", "numeric", "nvarchar", "object_reference",
      "smalldatetime", "smallint", "time", "timestamp", "uniqueidentifier", "varbinary", "varchar"},
    datetime2 |-> {"_natural_number"} ])

tsql_hint_rules == Unit(
  NoWords,
  [ tablesample |-> {"_natural_number"},
    relation |-> {"_alias", "_column_list", "invocation", "object_reference", "pivot_clause", "subquery",
      "table_hints", "tablesample", "unpivot_clause", "values"},
    table_hints |-> {"table_hint"},
    table_hint |-> {"identifier"} ])

tsql_dml_rules == Unit(
  NoWords,
  [ output_clause |-> {"identifier", "object_reference", "output_column", "variable"},
    output_column |-> {"_expression", "identifier"},
    insert |-> {"_column_list", "_dml_read", "_set_values", "identifier", "list", "object_reference",
      "output_clause"},
    _update_statement |-> {"output_clause", "update"},
    _delete_from |-> {"limit", "object_reference", "order_by", "where"},
    _delete_statement |-> {"_delete_from", "delete", "limit", "order_by", "output_clause", "where"},
    when_clause |-> {"_expression", "_insert_values", "_set_values"},
    bulk_insert_statement |-> {"_literal_string", "bulk_option", "object_reference"},
    bulk_option |-> {"_literal_string", "_natural_number", "identifier"} ])

tsql_procedural_rules == Unit(
  NoWords,
  [ declare_statement |-> {"variable_declaration"},
    variable_declaration |-> {"_expression", "_type", "variable"},
    if_statement |-> {"_expression", "compound_statement"},
    while_statement |-> {"_expression", "compound_statement"},
    compound_statement |-> {"statement"},
    try_catch_statement |-> {"statement"},
    raiserror_statement |-> {"_expression"},
    throw_statement |-> {"_expression"},
    print_statement |-> {"_expression"},
    declare_cursor_statement |-> {"_dml_read", "identifier"},
    open_cursor_statement |-> {"identifier"},
    fetch_cursor_statement |-> {"_expression", "identifier", "variable"},
    close_cursor_statement |-> {"identifier"},
    deallocate_cursor_statement |-> {"identifier"},
    exec_statement |-> {"_expression", "exec_param", "object_reference"},
    exec_param |-> {"_expression", "variable"},
    return_statement |-> {"_expression"},
    waitfor_statement |-> {"_integer", "_literal_string"},
    option_clause |-> {"query_hint"},
    query_hint |-> {"_expression", "_integer", "identifier"} ])

tsql_synapse_rules == Unit(
  NoWords,
  [ create_external_data_source |-> {"_if_not_exists", "object_reference", "with_option"},
    create_external_file_format |-> {"_if_not_exists", "object_reference", "with_option"},
    create_external_table |-> {"_if_not_exists", "column_definitions", "object_reference", "with_option"},
    copy_into_statement |-> {"_literal_string", "identifier", "object_reference", "with_option"},
    create_shortcut |-> {"_if_not_exists", "object_reference", "with_option"},
    with_option |-> {"_literal_string", "_natural_number", "distribution", "identifier", "object_reference"},
    distribution |-> {"identifier"},
    table_with_options |-> {"table_with_option"},
    table_with_option |-> {"_expression", "distribution", "identifier"} ])

tsql_security_rules == Unit(
  NoWords,
  [ create_synonym_statement |-> {"object_reference"},
    drop_synonym_statement |-> {"_if_exists", "object_reference"},
    create_login_statement |-> {"identifier", "login_option"},
    login_option |-> {"_literal_string", "identifier", "literal"},
    alter_login_statement |-> {"identifier", "login_option"},
    drop_login_statement |-> {"identifier"},
    create_user_statement |-> {"identifier", "user_option"},
    user_option |-> {"identifier", "literal"},
    alter_user_statement |-> {"identifier", "user_option"},
    drop_user_statement |-> {"_if_exists", "identifier"},
    create_role |-> {"_role_options", "_user_access_role_config", "identifier"},
    alter_role |-> {"_role_options", "identifier", "rename_object", "set_configuration"},
    drop_role |-> {"_if_exists", "identifier"} ])

tsql_database_rules == Unit(
  NoWords,
  [ create_database |-> {"_db_file_element", "_if_not_exists", "db_filespec", "identifier",
      "object_reference", "tsql_option"},
    _db_file_element |-> {"db_filespec", "identifier"},
    db_filespec |-> {"tsql_option"},
    alter_database |-> {"_alter_db_option", "db_filespec", "identifier", "rename_object", "tsql_option"},
    _alter_db_option |-> {"_on_off", "identifier", "tsql_option"} ])

rules_2 == Unit(
  StrongWords({"logged", "offset", "returning", "returns"}),
  NoRules)

layers == <<Copy(dialect_transaction_rules), Copy(dialect_alter_rules), Copy(dialect_legacy_rules),
    Inline(rules_1), Own(tsql_admin_rules), Own(tsql_select_rules), Own(tsql_type_rules), Own(tsql_hint_rules),
    Own(tsql_dml_rules), Own(tsql_procedural_rules), Own(tsql_synapse_rules), Own(tsql_security_rules),
    Own(tsql_database_rules), Inline(rules_2)>>

conflicts == {{"object_reference", "_qualified_field"}, {"field", "_qualified_field"},
  {"_column", "_qualified_field"}, {"object_reference"},
  {"between_expression", "binary_expression", "like_expression"},
  {"transaction", "start_transaction_statement"}, {"transaction", "commit_statement"},
  {"transaction", "rollback_statement"}, {"_commit", "commit_statement"},
  {"_rollback", "rollback_statement"}, {"create_function"}, {"list", "grouping_set"},
  {"list", "rollup_element"}, {"list", "cube_element"}, {"_function_return", "return_statement"}}
==============================================================================
