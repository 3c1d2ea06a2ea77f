----------------------------- MODULE Db2Rules ------------------------------
(***************************************************************************)
(* db2/grammar.js and the rule files it spreads: what the grammar adds to  *)
(* the rules of base and what it overrides, one unit per object of rules,  *)
(* and the layers in the order they are spread.                            *)
(***************************************************************************)
EXTENDS GrammarHelpers

Base == INSTANCE BaseRules
Copied == INSTANCE CopiedRules

dialect_transaction_rules == Copied!dialect_transaction_rules
dialect_alter_rules == Copied!dialect_alter_rules
misc_rules == Copied!misc_rules
legacy_words == Copied!legacy_words
create_rules_own_1 == Copied!create_rules_own_1
create_rules_own_2 == Copied!create_rules_own_2

create_rules == Spread(<<create_rules_own_1, Base!create_function_rules, Base!create_procedure_rules,
    create_rules_own_2>>)

drop_rules == Copied!drop_rules
rename_rules == Copied!rename_rules
refresh_rules == Copied!refresh_rules
truncate_rules == Copied!truncate_rules
insert_rules == Copied!insert_rules
update_rules == Copied!update_rules
delete_rules == Copied!delete_rules
merge_rules == Copied!merge_rules
legacy_dispatch == Copied!legacy_dispatch

dialect_legacy_rules == Spread(<<misc_rules, legacy_words, create_rules, drop_rules, rename_rules,
    refresh_rules, truncate_rules, insert_rules, update_rules, delete_rules, merge_rules, legacy_dispatch>>)

rules_1 == Unit(
  Words({"age", "caller", "capture", "changes", "client", "method", "modification", "query", "retain",
    "scope", "tracking", "xsrobject", "yes"}) @@
  StrongWords({"global", "organize", "dimensions", "label", "asensitive", "compress", "current_user",
    "cursors", "hierarchy", "insensitive", "locks", "mapping", "session_user", "system_user", "extension",
    "partition", "group", "grouping", "groups", "schema", "user", "lock", "mode", "share", "exclusive",
    "call", "incremental", "allow", "access", "storage", "reuse", "triggers", "continue", "identity",
    "flush", "package", "cache", "dynamic", "event", "monitor", "buffer", "bufferpools", "federated",
    "authentication", "optimization", "profile", "free", "locator", "describe", "output", "connect",
    "disconnect", "sql", "alias", "variable", "constant", "checked", "unchecked", "off", "integrity",
    "whenever", "sqlerror", "sqlwarning", "found", "goto", "go", "allocate", "associate", "locators",
    "result", "exception", "trusted", "context", "remove", "called", "connection", "offset", "sqlstate",
    "system_time", "business_time", "prepare", "final", "wrapper", "nickname", "module", "server", "mask",
    "permission", "transfer", "ownership", "enforced", "ur", "cs", "rs", "rr", "preserve", "path", "audit",
    "categories", "status", "both", "failure", "success", "value", "values", "do", "leave", "iterate",
    "repeat", "pipe", "datalake", "stored", "location", "partitioned", "tblproperties", "format",
    "repeatable", "loop", "elseif", "while", "declare", "atomic", "signal", "resignal", "message_text",
    "get", "diagnostics", "optimize", "options", "version", "policy", "component", "components", "override",
    "authorized", "tree", "append", "activate", "reorg", "indexes", "cursor", "open", "close", "hold"}),
  [ _ddl_statement |-> {"_alter_statement", "_create_statement", "_drop_statement", "_merge_statement",
      "_refresh_statement", "_rename_statement", "comment_statement", "create_alias_statement",
      "create_variable_statement", "get_diagnostics_statement", "grant_statement", "label_statement",
      "resignal_statement", "revoke_statement", "set_schema", "set_statement", "signal_statement",
      "transfer_ownership"},
    declare_global_temporary_table |-> {"column_definitions", "object_reference"},
    create_table |-> {"_if_not_exists", "_temporary", "column_definitions", "create_query",
      "object_reference", "organize_by_clause"},
    organize_by_clause |-> {"identifier"},
    label_statement |-> {"_literal_string", "_qualified_field", "object_reference"},
    statement |-> {"_ddl_statement", "_dml_read", "_dml_write", "_transaction_statement",
      "allocate_cursor_statement", "associate_locators_statement", "audit_statement", "call_statement",
      "close_cursor_statement", "compound_statement", "connect_statement", "datalake_table_statement",
      "declare_cursor_statement", "declare_global_temporary_table", "declare_section_statement",
      "declare_statement", "describe_statement", "disconnect_statement", "execute_immediate_statement",
      "execute_statement", "fetch_cursor_statement", "flush_statement", "for_statement",
      "free_locator_statement", "goto_statement", "if_statement", "iterate_statement", "leave_statement",
      "lock_table_statement", "loop_statement", "open_cursor_statement", "pipe_statement",
      "prepare_statement", "refresh_table_statement", "reorg_statement", "repeat_statement",
      "set_integrity_statement", "set_variable_statement", "whenever_statement", "while_statement"},
    reorg_statement |-> {"object_reference"},
    _alter_specifications |-> {"add_column", "add_constraint", "alter_column", "change_column",
      "change_ownership", "drop_column", "drop_constraint", "modify_column", "rename_column",
      "rename_object", "set_schema"},
    _create_statement |-> {"_create_statement", "create_audit_policy", "create_database", "create_function",
      "create_index", "create_mask", "create_module", "create_nickname", "create_permission",
      "create_procedure", "create_role", "create_schema", "create_security_label",
      "create_security_label_component", "create_security_policy", "create_sequence", "create_server",
      "create_table", "create_trigger", "create_type", "create_view", "create_wrapper"},
    create_security_label |-> {"_literal_string", "_security_label_component", "object_reference"},
    _security_label_component |-> {"_literal_string", "identifier"},
    create_security_policy |-> {"identifier"},
    create_security_label_component |-> {"_expression", "identifier"},
    _drop_statement |-> {"drop_audit_policy", "drop_database", "drop_function", "drop_index",
      "drop_materialized_view", "drop_procedure", "drop_role", "drop_schema", "drop_sequence", "drop_table",
      "drop_type", "drop_view"},
    set_statement |-> {"_expression", "_transaction_mode", "identifier", "object_reference",
      "special_register"},
    relation |-> {"_alias", "_column_list", "data_change_table_reference", "invocation", "object_reference",
      "subquery", "tablesample", "temporal_clause", "values"},
    temporal_clause |-> {"_expression"},
    data_change_table_reference |-> {"_delete_from", "delete", "insert", "update"},
    from |-> {"cross_join", "group_by", "having", "join", "lateral_cross_join", "lateral_join",
      "offset_fetch_clause", "optimize_for_clause", "order_by", "relation", "where", "window_clause",
      "with_isolation_clause"} ])

db2_modules_rules == Unit(
  NoWords,
  [ create_wrapper |-> {"identifier", "options_clause"},
    create_server |-> {"_expression", "identifier", "options_clause"},
    create_nickname |-> {"object_reference", "options_clause"},
    create_module |-> {"_or_replace", "object_reference"},
    options_clause |-> {"_literal_string", "identifier"} ])

db2_data_control_rules == Unit(
  NoWords,
  [ create_mask |-> {"_expression", "identifier", "object_reference"},
    create_permission |-> {"_expression", "object_reference"} ])

db2_isolation_rules == Unit(
  NoWords,
  Tokens({"with_isolation_clause"}) @@
  [ optimize_for_clause |-> {"_natural_number"} ])

db2_special_register_rules == Unit(
  NoWords,
  Tokens({"special_register"}))

db2_diagnostics_rules == Unit(
  NoWords,
  [ signal_statement |-> {"_expression", "_literal_string"},
    resignal_statement |-> {"_expression", "_literal_string"},
    get_diagnostics_statement |-> {"identifier"} ])

db2_audit_rules == Unit(
  NoWords,
  [ create_audit_policy |-> {"identifier", "object_reference"},
    drop_audit_policy |-> {"object_reference"} ])

db2_procedural_rules == Unit(
  Words({"begin_declare_section", "end_declare_section"}),
  Tokens({"declare_section_statement"}) @@
  [ compound_statement |-> {"identifier", "statement"},
    declare_statement |-> {"_expression", "_type", "identifier"},
    set_variable_statement |-> {"_expression", "_qualified_field", "identifier"},
    if_statement |-> {"_expression", "statement"},
    while_statement |-> {"_expression", "identifier", "statement"},
    loop_statement |-> {"identifier", "statement"},
    repeat_statement |-> {"_expression", "identifier", "statement"},
    pipe_statement |-> {"_expression"},
    leave_statement |-> {"identifier"},
    iterate_statement |-> {"identifier"},
    open_cursor_statement |-> {"_expression", "identifier"},
    fetch_cursor_statement |-> {"identifier"},
    for_statement |-> {"_dml_read", "identifier", "statement"},
    prepare_statement |-> {"_literal_string", "identifier", "parameter"},
    execute_statement |-> {"identifier", "parameter"},
    datalake_table_statement |-> {"_datalake_option", "_if_exists", "_if_not_exists", "_or_replace",
      "column_definitions", "object_reference"},
    _datalake_option |-> {"_datalake_property", "_literal_string", "column_definitions", "identifier"},
    _datalake_property |-> {"_literal_string"} ])

db2_admin_ddl_rules == Unit(
  NoWords,
  [ lock_table_statement |-> {"object_reference"},
    call_statement |-> {"_expression", "named_argument", "object_reference"},
    refresh_table_statement |-> {"object_reference"},
    _truncate_statement |-> {"object_reference"},
    set_integrity_statement |-> {"identifier", "object_reference"},
    flush_statement |-> {"identifier", "object_reference"},
    free_locator_statement |-> {"identifier"},
    describe_statement |-> {"identifier"},
    execute_immediate_statement |-> {"_expression"},
    connect_statement |-> {"identifier", "literal"},
    disconnect_statement |-> {"identifier"},
    create_alias_statement |-> {"_or_replace", "object_reference"},
    create_variable_statement |-> {"_expression", "_or_replace", "_type", "object_reference"},
    audit_statement |-> {"_audit_target", "identifier"},
    _audit_target |-> {"identifier", "object_reference"},
    whenever_statement |-> {"identifier"},
    goto_statement |-> {"identifier"},
    allocate_cursor_statement |-> {"identifier"},
    associate_locators_statement |-> {"identifier", "object_reference"} ])

db2_clause_rules == Unit(
  NoWords,
  [ savepoint_statement |-> {"identifier"},
    close_cursor_statement |-> {"identifier"},
    declare_cursor_statement |-> {"_dml_read", "identifier"},
    alter_index |-> {"_if_exists", "identifier", "literal", "rename_object"},
    alter_view |-> {"_dml_read", "_if_exists", "change_ownership", "identifier", "object_reference",
      "rename_column", "rename_object", "set_schema"},
    alter_schema |-> {"identifier"},
    alter_database |-> {"change_ownership", "identifier", "literal", "rename_object", "set_configuration"},
    set_schema |-> {"identifier", "literal"},
    transfer_ownership |-> {"_transferable_object", "identifier"},
    _transferable_object |-> {"identifier", "object_reference"} ])

rules_2 == Unit(
  StrongWords({"double"}),
  NoRules)

layers == <<Copy(dialect_transaction_rules), Copy(dialect_alter_rules), Copy(dialect_legacy_rules),
    Inline(rules_1), Own(db2_modules_rules), Own(db2_data_control_rules), Own(db2_isolation_rules),
    Own(db2_special_register_rules), Own(db2_diagnostics_rules), Own(db2_audit_rules),
    Own(db2_procedural_rules), Own(db2_admin_ddl_rules), Own(db2_clause_rules), Inline(rules_2)>>

conflicts == {{"object_reference", "_qualified_field"}, {"field", "_qualified_field"},
  {"_column", "_qualified_field"}, {"object_reference"},
  {"between_expression", "binary_expression", "like_expression"},
  {"transaction", "start_transaction_statement"}, {"transaction", "commit_statement"},
  {"transaction", "rollback_statement"}, {"_commit", "commit_statement"},
  {"_rollback", "rollback_statement"}, {"create_function"}, {"list", "grouping_set"},
  {"list", "rollup_element"}, {"list", "cube_element"}, {"from"}, {"transaction", "compound_statement"},
  {"set_variable_statement", "object_reference"}}
==============================================================================
