---------------------------- MODULE CopiedRules ----------------------------
(***************************************************************************)
(* The statement rules that every dialect of the base keeps a copy of, as  *)
(* in bigquery/grammar: transactions.js, alter_vendor.js and               *)
(* legacy_statements.js. A dialect that says Copied!x has the same rules   *)
(* in its own x.                                                           *)
(***************************************************************************)
EXTENDS GrammarHelpers

Base == INSTANCE BaseRules

dialect_transaction_rules == Unit(
  Words({"snapshot"}),
  Tokens({"_transaction_mode"}) @@
  [ program |-> {"statement", "transaction"},
    transaction |-> {"_commit", "_rollback", "statement", "transaction_mode"},
    _commit |-> {"_transaction_chain"},
    _rollback |-> {"_transaction_chain"},
    commit_statement |-> {"_commit"},
    rollback_statement |-> {"_rollback"},
    start_transaction_statement |-> {"transaction_mode"},
    release_savepoint_statement |-> {"identifier"},
    rollback_to_savepoint_statement |-> {"_transaction_chain", "identifier"} ])

dialect_alter_rules == Unit(
  Words({"change", "disable", "enable", "logged", "modify", "owner", "value"}),
  Tokens({"_drop_behavior"}) @@
  [ _alter_statement |-> {"alter_database", "alter_index", "alter_materialized_view", "alter_role",
      "alter_schema", "alter_sequence", "alter_table", "alter_type", "alter_view"},
    alter_table |-> {"_alter_specifications", "_if_exists", "object_reference"},
    _alter_specifications |-> {"add_column", "add_constraint", "alter_column", "change_column",
      "change_ownership", "drop_column", "drop_constraint", "modify_column", "rename_column",
      "rename_object", "set_schema"},
    add_column |-> {"_if_not_exists", "column_definition", "column_position"},
    add_constraint |-> {"constraint", "identifier"},
    drop_constraint |-> {"_drop_behavior", "_if_exists", "identifier"},
    alter_column |-> {"_expression", "_type", "identifier"},
    modify_column |-> {"_if_exists", "column_definition", "column_position"},
    change_column |-> {"_if_exists", "column_definition", "column_position", "identifier"},
    column_position |-> {"identifier"},
    drop_column |-> {"_if_exists", "identifier"},
    rename_column |-> {"identifier"},
    alter_view |-> {"_dml_read", "_if_exists", "change_ownership", "object_reference", "rename_column",
      "rename_object", "set_schema"},
    alter_materialized_view |-> {"_if_exists", "change_ownership", "object_reference", "rename_object",
      "set_schema"},
    alter_schema |-> {"identifier"},
    alter_database |-> {"change_ownership", "identifier", "rename_object", "set_configuration"},
    alter_role |-> {"_role_options", "identifier", "rename_object", "set_configuration"},
    set_configuration |-> {"identifier", "literal"},
    alter_index |-> {"_if_exists", "identifier", "literal", "rename_object"},
    alter_sequence |-> {"_if_exists", "_integer", "_type", "change_ownership", "identifier", "literal",
      "object_reference", "rename_object"},
    alter_type |-> {"_drop_behavior", "_if_exists", "_if_not_exists", "_single_quote_string", "_type",
      "change_ownership", "identifier", "rename_object", "set_schema"},
    rename_object |-> {"object_reference"},
    set_schema |-> {"identifier"},
    change_ownership |-> {"identifier"} ])

misc_rules == Unit(
  NoWords,
  [ comment_statement |-> {"_comment_target", "_literal_string"},
    _comment_target |-> {"_qualified_field", "cast", "function_arguments", "identifier", "object_reference"},
    _show_tables |-> {"_expression", "_qualified_field"},
    reset_statement |-> {"object_reference"},
    use_statement |-> {"object_reference"},
    index_hint |-> {"identifier"},
    returning |-> {"select_expression"} ])

legacy_words == Unit(
  Words({"analyze", "explain", "verbose", "tables", "tablespace", "duplicate", "force", "ignore", "use",
    "include", "character", "reset", "returning", "hash", "conflict", "do", "nothing", "catalog",
    "extension", "cache", "collate", "concurrently", "connection", "deferrable", "encrypted", "initially",
    "none", "nowait", "owned", "password", "refresh", "rename", "unlogged", "until", "valid", "wait"}),
  NoRules)

create_rules_own_1 == Unit(
  NoWords,
  [ _create_statement |-> {"_create_statement", "create_database", "create_function", "create_procedure",
      "create_role", "create_schema", "create_sequence", "create_table", "create_trigger", "create_type",
      "create_view"},
    create_table |-> {"_if_not_exists", "_temporary", "column_definitions", "create_query",
      "object_reference"},
    storage_parameters |-> {"array", "identifier", "literal"},
    table_option |-> {"_integer", "_literal_string", "identifier"},
    create_query |-> {"_dml_read"},
    create_view |-> {"_check_option", "_if_not_exists", "_or_replace", "_temporary", "create_query",
      "identifier", "object_reference"},
    create_materialized_view |-> {"_if_not_exists", "_or_replace", "create_query", "object_reference"},
    _operator_class |-> {"identifier", "term"},
    composite_field |-> {"_index_field"},
    _index_field |-> {"_column", "_expression", "_operator_class", "direction", "identifier", "invocation"},
    index_fields |-> {"_index_field", "composite_field"},
    tablespace |-> {"identifier"},
    covering_columns |-> {"index_fields"},
    create_index |-> {"_column", "_if_not_exists", "covering_columns", "identifier", "index_fields",
      "object_reference", "tablespace", "where"} ])

create_rules_own_2 == Unit(
  NoWords,
  Tokens({"_trigger_timing", "_trigger_deferrable"}) @@
  [ create_schema |-> {"_if_not_exists", "identifier"},
    _with_settings |-> {"_single_quote_string", "identifier"},
    create_database |-> {"_if_not_exists", "_with_settings", "identifier"},
    create_role |-> {"_role_options", "_user_access_role_config", "identifier"},
    _role_options |-> {"_integer", "_literal_string", "identifier"},
    _user_access_role_config |-> {"identifier"},
    create_sequence |-> {"_if_not_exists", "_integer", "_type", "literal", "object_reference"},
    create_trigger |-> {"_create_trigger_event", "_if_not_exists", "_or_replace", "_temporary",
      "_trigger_clause", "_trigger_timing", "object_reference", "term"},
    _trigger_clause |-> {"_expression", "_trigger_deferrable", "identifier", "object_reference"},
    _create_trigger_event |-> {"identifier"},
    create_type |-> {"_with_settings", "column_definitions", "enum_elements", "identifier",
      "object_reference"},
    enum_elements |-> {"_literal_string"} ])

create_rules == Spread(<<create_rules_own_1, Base!create_function_rules, Base!create_procedure_rules,
    create_rules_own_2>>)

drop_rules == Unit(
  NoWords,
  [ _drop_statement |-> {"drop_database", "drop_function", "drop_index", "drop_materialized_view",
      "drop_procedure", "drop_role", "drop_schema", "drop_sequence", "drop_table", "drop_type", "drop_view"},
    drop_table |-> {"_drop_behavior", "_if_exists", "object_reference"},
    drop_view |-> {"_drop_behavior", "_if_exists", "object_reference"},
    drop_materialized_view |-> {"_drop_behavior", "_if_exists", "object_reference"},
    drop_schema |-> {"_drop_behavior", "_if_exists", "identifier"},
    drop_database |-> {"_if_exists", "identifier"},
    drop_role |-> {"_if_exists", "identifier"},
    drop_type |-> {"_drop_behavior", "_if_exists", "object_reference"},
    drop_sequence |-> {"_drop_behavior", "_if_exists", "object_reference"},
    drop_index |-> {"_drop_behavior", "_if_exists", "identifier", "object_reference"},
    drop_function |-> {"_drop_behavior", "_if_exists", "object_reference"},
    drop_procedure |-> {"_drop_behavior", "_if_exists", "object_reference"} ])

rename_rules == Unit(
  NoWords,
  [ _rename_statement |-> {"_if_exists", "_natural_number", "_rename_table_names", "object_reference"},
    _rename_table_names |-> {"object_reference"} ])

refresh_rules == Unit(
  NoWords,
  [ refresh_materialized_view |-> {"object_reference"} ])

truncate_rules == Unit(
  NoWords,
  [ _truncate_statement |-> {"_drop_behavior", "object_reference"} ])

insert_rules == Unit(
  NoWords,
  [ _insert_statement |-> {"insert"},
    insert |-> {"_insert_values", "_set_values", "identifier", "object_reference"},
    _on_conflict |-> {"_set_values", "conflict_target", "where"},
    conflict_target |-> {"_expression", "identifier", "where"},
    _on_duplicate_key_update |-> {"assignment_list"},
    assignment_list |-> {"assignment"},
    assignment |-> {"_expression", "_qualified_field"},
    _insert_values |-> {"_column_list", "_dml_read", "list"},
    _set_values |-> {"assignment"} ])

update_rules == Unit(
  NoWords,
  [ _update_statement |-> {"update"},
    update |-> {"_mysql_update_statement", "_postgres_update_statement"},
    _mysql_update_statement |-> {"_set_values", "join", "relation", "where"},
    _postgres_update_statement |-> {"_set_values", "from", "relation"} ])

delete_rules == Unit(
  NoWords,
  Tokens({"delete"}) @@
  [ _delete_statement |-> {"_delete_from", "delete"},
    _delete_from |-> {"object_reference", "order_by", "where"} ])

merge_rules == Unit(
  NoWords,
  [ _merge_statement |-> {"_alias", "_expression", "object_reference", "subquery", "when_clause"},
    when_clause |-> {"_expression", "_insert_values", "_set_values", "where"} ])

legacy_dispatch == Unit(
  NoWords,
  [ _ddl_statement |-> {"_alter_statement", "_create_statement", "_drop_statement", "_merge_statement",
      "_refresh_statement", "_rename_statement", "grant_statement", "revoke_statement", "set_statement"},
    _dml_write |-> {"_cte", "_delete_statement", "_insert_statement", "_truncate_statement",
      "_update_statement"},
    _refresh_statement |-> {"refresh_materialized_view"} ])

dialect_legacy_rules == Spread(<<misc_rules, legacy_words, create_rules, drop_rules, rename_rules,
    refresh_rules, truncate_rules, insert_rules, update_rules, delete_rules, merge_rules, legacy_dispatch>>)
==============================================================================
