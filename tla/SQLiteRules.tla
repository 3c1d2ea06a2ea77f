---------------------------- MODULE SQLiteRules ----------------------------
(***************************************************************************)
(* sqlite/grammar.js and the rule files it spreads: what the grammar adds  *)
(* to the rules of base and what it overrides, one unit per object of      *)
(* rules, and the layers in the order they are spread.                     *)
(***************************************************************************)
EXTENDS GrammarHelpers

Base == INSTANCE BaseRules
Copied == INSTANCE CopiedRules

dialect_transaction_rules == Copied!dialect_transaction_rules
dialect_alter_rules == Copied!dialect_alter_rules
misc_rules == Copied!misc_rules
legacy_words == Copied!legacy_words
create_rules_own_1 == Copied!create_rules_own_1
create_rules_own_2 == Copied!create_rules_own_2

create_rules == Spread(<<create_rules_own_1, Base!create_function_rules, Base!create_procedure_rules,
    create_rules_own_2>>)

drop_rules == Copied!drop_rules
rename_rules == Copied!rename_rules
refresh_rules == Copied!refresh_rules
truncate_rules == Copied!truncate_rules
insert_rules == Copied!insert_rules
update_rules == Copied!update_rules
delete_rules == Copied!delete_rules
merge_rules == Copied!merge_rules
legacy_dispatch == Copied!legacy_dispatch

dialect_legacy_rules == Spread(<<misc_rules, legacy_words, create_rules, drop_rules, rename_rules,
    refresh_rules, truncate_rules, insert_rules, update_rules, delete_rules, merge_rules, legacy_dispatch>>)

rules == Unit(
  Words({"exclusive"}) @@
  StrongWords({"glob", "match", "pragma", "attach", "detach", "rowid", "reindex", "indexed",
    "autoincrement", "rollback", "abort", "fail", "strict", "virtual", "stored", "vacuum"}),
  Tokens({"not_glob", "not_match", "end_statement", "conflict_action"}) @@
  [ from |-> {"_from_clauses_limit_only_0", "cross_join", "join", "lateral_cross_join", "lateral_join",
      "relation"},
    binary_expression |-> {"_expression", "distinct_from", "is_not", "list", "not_distinct_from",
      "not_glob", "not_in", "not_match", "not_rlike", "op_other", "subquery"},
    _ddl_statement |-> {"_alter_statement", "_create_statement", "_drop_statement", "_merge_statement",
      "_refresh_statement", "_rename_statement", "end_statement", "set_statement"},
    _dml_write |-> {"_cte", "_delete_statement", "_insert_statement", "_update_statement"},
    group_by |-> {"_expression"},
    statement |-> {"_ddl_statement", "_dml_read", "_dml_write", "_transaction_statement",
      "attach_statement", "detach_statement", "pragma_statement", "reindex_statement", "vacuum_statement"},
    _create_statement |-> {"_create_statement", "create_database", "create_function", "create_index",
      "create_procedure", "create_role", "create_schema", "create_sequence", "create_table",
      "create_trigger", "create_type", "create_view", "create_virtual_table"},
    create_trigger |-> {"_create_trigger_event", "_dml_read", "_dml_write", "_expression", "_if_not_exists",
      "_temporary", "object_reference"},
    create_table |-> {"_if_not_exists", "_temporary", "column_definitions", "create_query",
      "object_reference"},
    vacuum_statement |-> {"_literal_string", "identifier"},
    reindex_statement |-> {"object_reference"},
    insert |-> {"_insert_values", "_on_conflict", "_set_values", "conflict_action", "identifier",
      "object_reference", "returning"},
    update |-> {"_mysql_update_statement", "_postgres_update_statement", "conflict_action"},
    transaction |-> {"_commit", "_rollback", "statement", "transaction_mode"},
    _update_statement |-> {"returning", "update"},
    _delete_statement |-> {"_delete_from", "delete", "returning"},
    _column_constraint |-> {"_check_constraint", "_column_comment", "_default_expression", "_expression",
      "_not_null", "_primary_key", "direction", "identifier", "object_reference"},
    relation |-> {"_alias", "_column_list", "identifier", "invocation", "object_reference", "subquery",
      "tablesample", "values"} ])

sqlite_pragma_rules == Unit(
  NoWords,
  [ pragma_statement |-> {"_expression", "object_reference"} ])

sqlite_attach_rules == Unit(
  NoWords,
  [ attach_statement |-> {"_literal_string", "identifier"},
    detach_statement |-> {"identifier"} ])

sqlite_virtual_table_rules == Unit(
  NoWords,
  [ create_virtual_table |-> {"_expression", "_if_not_exists", "identifier", "object_reference"} ])

layers == <<Copy(dialect_transaction_rules), Copy(dialect_alter_rules), Copy(dialect_legacy_rules),
    Inline(rules), Own(sqlite_pragma_rules), Own(sqlite_attach_rules), Own(sqlite_virtual_table_rules)>>

conflicts == {{"object_reference", "_qualified_field"}, {"field", "_qualified_field"},
  {"_column", "_qualified_field"}, {"object_reference"},
  {"between_expression", "binary_expression", "like_expression"},
  {"transaction", "start_transaction_statement"}, {"transaction", "commit_statement"},
  {"transaction", "rollback_statement"}, {"_commit", "commit_statement"},
  {"_rollback", "rollback_statement"}, {"create_function"}, {"list", "grouping_set"},
  {"list", "rollup_element"}, {"list", "cube_element"}}
==============================================================================
