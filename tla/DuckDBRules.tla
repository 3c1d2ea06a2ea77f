---------------------------- MODULE DuckDBRules ----------------------------
(***************************************************************************)
(* duckdb/grammar.js and the rule files it spreads: what the grammar adds  *)
(* to the rules of base and what it overrides, one unit per object of      *)
(* rules, and the layers in the order they are spread.                     *)
(***************************************************************************)
EXTENDS GrammarHelpers

Base == INSTANCE BaseRules
Copied == INSTANCE CopiedRules

dialect_transaction_rules == Copied!dialect_transaction_rules
dialect_alter_rules == Copied!dialect_alter_rules
misc_rules == Copied!misc_rules
legacy_words == Copied!legacy_words
create_rules_own_1 == Copied!create_rules_own_1
create_rules_own_2 == Copied!create_rules_own_2

create_rules == Spread(<<create_rules_own_1, Base!create_function_rules, Base!create_procedure_rules,
    create_rules_own_2>>)

drop_rules == Copied!drop_rules
rename_rules == Copied!rename_rules
refresh_rules == Copied!refresh_rules
truncate_rules == Copied!truncate_rules
insert_rules == Copied!insert_rules
update_rules == Copied!update_rules
delete_rules == Copied!delete_rules
merge_rules == Copied!merge_rules
legacy_dispatch == Copied!legacy_dispatch

dialect_legacy_rules == Spread(<<misc_rules, legacy_words, create_rules, drop_rules, rename_rules,
    refresh_rules, truncate_rules, insert_rules, update_rules, delete_rules, merge_rules, legacy_dispatch>>)

rules == Unit(
  Words({"hugeint", "uinteger", "ubigint", "usmallint", "utinyint", "tinyint", "blob", "uuid", "varint"}) @@
  StrongWords({"returning", "prepare", "deallocate", "show", "databases", "attach", "detach", "install",
    "summarize", "asof", "positional", "map", "struct", "qualify", "load", "pivot", "unpivot", "name",
    "copy", "macro", "export", "import", "read_csv", "read_csv_auto", "read_parquet", "read_json",
    "read_json_auto", "read_orc", "read_avro", "checkpoint", "force", "vacuum", "describe", "global",
    "variable", "secret", "persistent", "call", "called"}),
  [ statement |-> {"_ddl_statement", "_dml_read", "_dml_write", "_transaction_statement",
      "analyze_statement", "attach_statement", "call_statement", "checkpoint_statement", "copy_statement",
      "deallocate_statement", "describe_statement", "detach_statement", "execute_statement",
      "export_database_statement", "from_first_select", "import_database_statement", "install_statement",
      "load_statement", "pivot_statement", "prepare_statement", "reset_config_statement",
      "set_config_statement", "set_variable_statement", "show_statement", "summarize_statement",
      "unpivot_statement", "vacuum_statement"},
    _create_statement |-> {"_create_statement", "create_database", "create_function", "create_index",
      "create_macro_statement", "create_materialized_view", "create_procedure", "create_role",
      "create_schema", "create_sequence", "create_table", "create_trigger", "create_type", "create_view"},
    _dml_read |-> {"_cte", "_select_statement", "from_first_select", "set_operation"},
    _ddl_statement |-> {"_alter_statement", "_create_statement", "_drop_statement", "_merge_statement",
      "_refresh_statement", "_rename_statement", "comment_statement", "create_secret_statement",
      "drop_secret_statement", "grant_statement", "revoke_statement", "set_statement", "use_statement"},
    _insert_statement |-> {"insert", "returning"},
    insert |-> {"_insert_values", "_on_conflict", "_set_values", "identifier", "object_reference"},
    _on_conflict |-> {"_column_list", "_set_values", "where"},
    _update_statement |-> {"returning", "update"},
    _delete_statement |-> {"_delete_from", "delete", "returning"},
    _expression |-> {"_qualified_field", "array", "between_expression", "binary_expression", "case", "cast",
      "exists", "file_reader", "implicit_cast", "interval", "invocation", "lambda_expression",
      "like_expression", "list", "list_comprehension", "literal", "map_literal", "parameter",
      "parenthesized_expression", "struct_literal", "subquery", "subscript", "typed_temporal_literal",
      "unary_expression", "window_function"},
    relation |-> {"_alias", "_column_list", "file_reader", "invocation", "object_reference", "subquery",
      "tablesample", "values"},
    implicit_cast |-> {"_expression", "_type"} ])

duckdb_select_rules == Unit(
  StrongWords({"sample"}),
  Tokens({"_by_name"}) @@
  [ select |-> {"_expression", "select_expression"},
    qualify |-> {"_expression"},
    set_operation |-> {"_by_name", "_select_statement"},
    all_fields_exclude |-> {"identifier", "object_reference"},
    all_fields_replace |-> {"_expression", "identifier", "object_reference"},
    all_fields_rename |-> {"identifier", "object_reference"},
    term |-> {"_alias", "_expression", "all_fields", "all_fields_exclude", "all_fields_rename",
      "all_fields_replace"},
    from |-> {"asof_join", "cross_join", "group_by", "having", "join", "lateral_cross_join", "lateral_join",
      "limit", "offset_fetch_clause", "order_by", "positional_join", "qualify", "relation", "using_sample",
      "where", "window_clause"},
    using_sample |-> {"_integer", "invocation"},
    from_first_select |-> {"asof_join", "cross_join", "group_by", "having", "join", "lateral_cross_join",
      "lateral_join", "limit", "order_by", "positional_join", "qualify", "relation", "select_expression",
      "using_sample", "where", "window_clause"},
    asof_join |-> {"_expression", "identifier", "relation"},
    positional_join |-> {"relation"},
    relation |-> {"_alias", "_column_list", "_literal_string", "file_reader", "invocation",
      "object_reference", "subquery", "tablesample"},
    group_by |-> {"_expression", "cube_clause", "grouping_sets_clause", "rollup_clause"},
    order_by |-> {"order_target"} ])

duckdb_pivot_rules == Unit(
  NoWords,
  [ pivot_statement |-> {"_expression", "identifier", "invocation", "object_reference"},
    unpivot_statement |-> {"identifier", "object_reference"} ])

duckdb_expression_rules == Unit(
  NoWords,
  [ lambda_expression |-> {"_expression", "identifier"},
    struct_literal |-> {"_expression", "_literal_string"},
    map_literal |-> {"struct_literal"},
    file_reader |-> {"_expression"},
    list_comprehension |-> {"_expression", "identifier"} ])

duckdb_type_rules == Unit(
  NoWords,
  [ map_type |-> {"_type"},
    struct_type |-> {"_struct_type_fields"},
    _struct_type_fields |-> {"_struct_type_field"},
    _struct_type_field |-> {"_type", "identifier"},
    _type |-> {"bigint", "binary", "bit", "char", "decimal", "double", "enum", "float", "int", "map_type",
      "nchar", "numeric", "nvarchar", "object_reference", "smallint", "struct_type", "time", "timestamp",
      "varbinary", "varchar"} ])

duckdb_statement_rules == Unit(
  NoWords,
  [ attach_statement |-> {"_if_not_exists", "_literal_string", "_or_replace", "identifier", "literal"},
    detach_statement |-> {"_if_exists", "identifier"},
    install_statement |-> {"_literal_string", "identifier"},
    load_statement |-> {"_literal_string", "identifier"},
    summarize_statement |-> {"_dml_read", "object_reference"},
    create_macro_statement |-> {"_expression", "_if_not_exists", "_or_replace", "identifier",
      "object_reference"},
    export_database_statement |-> {"_expression", "_literal_string", "identifier"},
    import_database_statement |-> {"_literal_string"},
    copy_statement |-> {"_expression", "_literal_string", "_select_statement", "identifier",
      "object_reference"},
    show_statement |-> {"object_reference"},
    prepare_statement |-> {"_dml_read", "_dml_write", "identifier"},
    execute_statement |-> {"_expression", "identifier"},
    deallocate_statement |-> {"identifier"} ])

duckdb_admin_rules == Unit(
  NoWords,
  Tokens({"analyze_statement", "_config_scope", "_secret_storage"}) @@
  [ checkpoint_statement |-> {"identifier"},
    vacuum_statement |-> {"identifier", "object_reference"},
    call_statement |-> {"_expression", "object_reference"},
    describe_statement |-> {"_dml_read", "object_reference"},
    set_config_statement |-> {"_config_scope", "_expression", "identifier"},
    reset_config_statement |-> {"_config_scope", "identifier"},
    set_variable_statement |-> {"_expression", "identifier"},
    create_secret_statement |-> {"_if_not_exists", "_or_replace", "_secret_storage", "identifier",
      "secret_option"},
    secret_option |-> {"identifier", "literal"},
    drop_secret_statement |-> {"_if_exists", "_secret_storage", "identifier"} ])

layers == <<Copy(dialect_transaction_rules), Copy(dialect_alter_rules), Copy(dialect_legacy_rules),
    Inline(rules), Own(duckdb_select_rules), Own(duckdb_pivot_rules), Own(duckdb_expression_rules),
    Own(duckdb_type_rules), Own(duckdb_statement_rules), Own(duckdb_admin_rules)>>

conflicts == {{"object_reference", "_qualified_field"}, {"field", "_qualified_field"},
  {"_column", "_qualified_field"}, {"object_reference"},
  {"between_expression", "binary_expression", "like_expression"},
  {"transaction", "start_transaction_statement"}, {"transaction", "commit_statement"},
  {"transaction", "rollback_statement"}, {"_commit", "commit_statement"},
  {"_rollback", "rollback_statement"}, {"create_function"}, {"list", "grouping_set"},
  {"list", "rollup_element"}, {"list", "cube_element"}, {"from_first_select", "from"},
  {"statement", "_dml_read"}, {"all_fields_exclude", "all_fields"}, {"all_fields_replace", "all_fields"},
  {"all_fields_rename", "all_fields"}, {"struct_type"},
  {"object_reference", "_qualified_field", "lambda_expression"}, {"_qualified_field", "lambda_expression"},
  {"lambda_expression"}, {"binary_expression", "lambda_expression"},
  {"binary_expression", "pivot_statement"}, {"between_expression", "pivot_statement"},
  {"list", "pivot_statement"}}
==============================================================================
