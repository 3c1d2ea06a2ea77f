----------------------------- MODULE HanaRules -----------------------------
(***************************************************************************)
(* hana/grammar.js and the rule files it spreads: what the grammar adds to *)
(* the rules of base and what it overrides, one unit per object of rules,  *)
(* and the layers in the order they are spread.                            *)
(***************************************************************************)
EXTENDS GrammarHelpers

Base == INSTANCE BaseRules
Copied == INSTANCE CopiedRules

dialect_transaction_rules == Copied!dialect_transaction_rules
dialect_alter_rules == Copied!dialect_alter_rules
misc_rules == Copied!misc_rules
legacy_words == Copied!legacy_words
create_rules_own_1 == Copied!create_rules_own_1
create_rules_own_2 == Copied!create_rules_own_2

create_rules == Spread(<<create_rules_own_1, Base!create_function_rules, Base!create_procedure_rules,
    create_rules_own_2>>)

drop_rules == Copied!drop_rules
rename_rules == Copied!rename_rules
refresh_rules == Copied!refresh_rules
truncate_rules == Copied!truncate_rules
insert_rules == Copied!insert_rules
update_rules == Copied!update_rules
delete_rules == Copied!delete_rules
merge_rules == Copied!merge_rules
legacy_dispatch == Copied!legacy_dispatch

dialect_legacy_rules == Spread(<<misc_rules, legacy_words, create_rules, drop_rules, rename_rules,
    refresh_rules, truncate_rules, insert_rules, update_rules, delete_rules, merge_rules, legacy_dispatch>>)

rules == Unit(
  StrongWords({"top", "upsert", "lock", "mode", "exclusive", "share", "delta", "load", "unload", "priority",
    "log", "logged", "persistent", "memory", "off", "offset", "statistics", "pse", "vector", "audit",
    "policy", "credential", "certificate", "synonym", "workload", "class", "mapping", "usergroup",
    "rolegroup", "jwt", "ldap", "part", "anonymization", "assertion", "rebuild", "online", "preferred",
    "loadable", "remove", "page", "partition", "partitions", "partitioned", "parameter", "saml", "x509",
    "provider", "remote", "source", "scheduler", "job", "validate", "annotate", "cancel", "async", "call",
    "connect", "parameters", "unset", "export", "import", "scan", "rdf", "file", "sparql_graph", "purpose",
    "location", "at", "atomic", "attribute", "called", "connection", "locked", "hint", "sqlscript",
    "invoker", "definer", "reads", "declare", "cursor", "constant", "inout", "global", "sql"}),
  Tokens({"parameter"}) @@
  [ _create_statement |-> {"_create_statement", "create_database", "create_function", "create_index",
      "create_materialized_view", "create_procedure", "create_role", "create_schema", "create_sequence",
      "create_table", "create_trigger", "create_type", "create_view"},
    from |-> {"_from_clauses_limit_only_0", "cross_join", "join", "lateral_cross_join", "lateral_join",
      "relation"},
    select |-> {"_integer", "select_expression"},
    add_column |-> {"_if_not_exists", "column_definition", "column_position"},
    _alter_specifications |-> {"add_column", "add_constraint", "alter_column", "change_column",
      "change_ownership", "drop_column", "drop_constraint", "literal", "modify_column", "rename_column",
      "rename_object", "set_schema"},
    statement |-> {"_ddl_statement", "_dml_read", "_dml_write", "_transaction_statement",
      "alter_system_statement", "annotate_statement", "call_statement", "cancel_async_call_statement",
      "compound_statement", "connect_statement", "declare_cursor_statement", "do_statement",
      "export_statement", "import_statement", "load_unload_statement", "lock_table_statement",
      "merge_delta_statement", "refresh_object_statement", "rename_object_statement",
      "set_schema_statement", "unset_statement", "upsert_statement", "validate_statement",
      "with_hint_clause"},
    declare_cursor_statement |-> {"_dml_read", "identifier"},
    _ddl_statement |-> {"_alter_statement", "_create_statement", "_drop_statement", "_merge_statement",
      "_refresh_statement", "_rename_statement", "comment_statement", "grant_statement",
      "hana_object_statement", "revoke_statement", "set_statement", "table_group_statement"},
    alter_sequence |-> {"_dml_read", "_if_exists", "_type", "change_ownership", "identifier", "literal",
      "object_reference", "rename_object"},
    create_schema |-> {"_if_not_exists", "identifier", "object_reference"},
    _truncate_statement |-> {"literal", "object_reference"} ])

hana_statement_rules == Unit(
  StrongWords({"while", "elseif", "break", "continue", "reverse"}),
  [ tablesample |-> {"_natural_number"},
    create_table |-> {"_if_not_exists", "_temporary", "column_definitions", "create_query",
      "object_reference"},
    upsert_statement |-> {"_column_list", "_dml_read", "_expression", "object_reference", "where"},
    with_hint_clause |-> {"identifier", "invocation"},
    create_procedure |-> {"compound_statement", "object_reference", "procedure_parameter"},
    procedure_parameter |-> {"_type", "identifier"},
    compound_statement |-> {"_sqlscript_statement"},
    _sqlscript_statement |-> {"assignment_statement", "declare_statement", "for_statement", "if_statement",
      "statement", "while_statement"},
    if_statement |-> {"_expression", "_sqlscript_statement"},
    while_statement |-> {"_expression", "_sqlscript_statement"},
    for_statement |-> {"_expression", "_sqlscript_statement", "identifier"},
    declare_statement |-> {"_expression", "_type", "identifier"},
    assignment_statement |-> {"_dml_read", "_expression", "identifier"},
    _select_statement |-> {"from", "locking_clause", "select", "select_expression"},
    locking_clause |-> {"_integer", "object_reference"} ])

hana_admin_rules == Unit(
  NoWords,
  Tokens({"_hana_object_kind", "_hana_load_unit"}) @@
  [ lock_table_statement |-> {"literal", "object_reference"},
    merge_delta_statement |-> {"_expression", "literal", "object_reference"},
    load_unload_statement |-> {"identifier", "object_reference"},
    refresh_object_statement |-> {"object_reference"},
    rename_object_statement |-> {"object_reference"},
    set_schema_statement |-> {"object_reference"},
    alter_system_statement |-> {"_expression", "literal", "system_option"},
    system_option |-> {"identifier", "literal"},
    hana_object_statement |-> {"_expression", "_hana_object_kind", "_if_exists", "_or_replace", "literal",
      "object_reference", "system_option"},
    validate_statement |-> {"_expression", "object_reference"},
    annotate_statement |-> {"_expression", "identifier", "object_reference"},
    cancel_async_call_statement |-> {"_expression"},
    call_statement |-> {"_expression", "identifier", "object_reference"},
    connect_statement |-> {"_expression", "object_reference"},
    export_statement |-> {"_expression", "_hana_io_file_type", "_hana_io_format", "_hana_io_objects",
      "_hana_io_tail", "_select_statement", "literal", "object_reference", "where"},
    import_statement |-> {"_expression", "_hana_io_file_type", "_hana_io_format", "_hana_io_objects",
      "_hana_io_tail", "identifier", "literal", "object_reference"},
    _hana_io_objects |-> {"object_reference"},
    _hana_io_file_type |-> {"identifier"},
    _hana_io_format |-> {"identifier"},
    _hana_io_tail |-> {"_expression", "_hana_io_option", "call_statement"},
    _hana_io_option |-> {"_expression", "identifier", "literal"},
    unset_statement |-> {"identifier", "literal", "object_reference"},
    do_statement |-> {"_hana_do_parameter", "compound_statement"},
    _hana_do_parameter |-> {"_expression", "identifier"},
    alter_index |-> {"_hana_load_unit", "identifier", "object_reference"},
    alter_role |-> {"identifier", "object_reference"},
    table_group_statement |-> {"object_reference", "system_option"} ])

hana_regexpr_rules == Unit(
  NoWords,
  Tokens({"_hana_regexpr_name"}) @@
  [ hana_regexpr_function |-> {"_expression", "_hana_regexpr_name", "_position_operand", "literal"},
    _expression |-> {"_qualified_field", "array", "between_expression", "binary_expression", "case", "cast",
      "datetime_value_function", "exists", "hana_regexpr_function", "interval", "invocation",
      "like_expression", "list", "literal", "parameter", "parenthesized_expression", "position_expression",
      "regex_position_expression", "regex_substring_expression", "subquery", "subscript", "trim_expression",
      "typed_temporal_literal", "unary_expression", "window_function"} ])

layers == <<Copy(dialect_transaction_rules), Copy(dialect_alter_rules), Copy(dialect_legacy_rules),
    Inline(rules), Own(hana_statement_rules), Own(hana_admin_rules), Own(hana_regexpr_rules)>>

conflicts == {{"object_reference", "_qualified_field"}, {"field", "_qualified_field"},
  {"_column", "_qualified_field"}, {"object_reference"},
  {"between_expression", "binary_expression", "like_expression"},
  {"transaction", "start_transaction_statement"}, {"transaction", "commit_statement"},
  {"transaction", "rollback_statement"}, {"_commit", "commit_statement"},
  {"_rollback", "rollback_statement"}, {"create_function"}, {"list", "grouping_set"},
  {"list", "rollup_element"}, {"list", "cube_element"}, {"transaction", "compound_statement"},
  {"transaction", "_sqlscript_statement"}, {"create_table", "table_group_statement"},
  {"alter_table", "table_group_statement"}, {"drop_table", "table_group_statement"}}
==============================================================================
