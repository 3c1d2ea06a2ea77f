----------------------------- MODULE HiveRules -----------------------------
(***************************************************************************)
(* hive/grammar.js and the rule files it spreads: what the grammar adds to *)
(* the rules of base and what it overrides, one unit per object of rules,  *)
(* and the layers in the order they are spread.                            *)
(***************************************************************************)
EXTENDS GrammarHelpers

Base == INSTANCE BaseRules
Copied == INSTANCE CopiedRules

dialect_transaction_rules == Copied!dialect_transaction_rules
dialect_alter_rules == Copied!dialect_alter_rules
misc_rules == Copied!misc_rules
legacy_words == Copied!legacy_words
create_rules_own_1 == Copied!create_rules_own_1
create_rules_own_2 == Copied!create_rules_own_2

create_rules == Spread(<<create_rules_own_1, Base!create_function_rules, Base!create_procedure_rules,
    create_rules_own_2>>)

drop_rules == Copied!drop_rules
rename_rules == Copied!rename_rules
refresh_rules == Copied!refresh_rules
truncate_rules == Copied!truncate_rules
insert_rules == Copied!insert_rules
update_rules == Copied!update_rules
delete_rules == Copied!delete_rules
merge_rules == Copied!merge_rules
legacy_dispatch == Copied!legacy_dispatch

dialect_legacy_rules == Spread(<<misc_rules, legacy_words, create_rules, drop_rules, rename_rules,
    refresh_rules, truncate_rules, insert_rules, update_rules, delete_rules, merge_rules, legacy_dispatch>>)

rules == Unit(
  Words({"dbproperties"}) @@
  StrongWords({"roles", "export", "import", "macro", "serde", "serdeproperties", "unset", "skewed",
    "directories", "stored", "cached", "uncached", "replication", "tblproperties", "location",
    "partitioned", "sort", "sorted", "format", "delimited", "delimiter", "fields", "terminated", "escaped",
    "lines", "parquet", "rcfile", "csv", "textfile", "avro", "sequencefile", "orc", "jsonfile", "clustered",
    "buckets", "msck", "repair", "sync", "partitions", "cluster", "distribute", "bucket", "load", "inpath",
    "directory", "oids", "virtual", "jar", "tinyint", "connector", "connectors", "dcproperties", "url",
    "columns", "indexes", "locks", "compactions", "conf", "views", "abort", "transactions", "handler",
    "environment", "parameter", "style", "overwrite", "transform", "show", "describe", "formatted",
    "extended", "databases", "schemas", "functions", "exchange", "concatenate", "compact", "pool"}),
  Tokens({"tinyint"}) @@
  [ _create_statement |-> {"_create_statement", "create_database", "create_function",
      "create_materialized_view", "create_procedure", "create_role", "create_schema", "create_sequence",
      "create_table", "create_trigger", "create_type", "create_view"},
    statement |-> {"_ddl_statement", "_dml_read", "_dml_write", "_transaction_statement"},
    _ddl_statement |-> {"_alter_statement", "_create_statement", "_drop_statement", "_merge_statement",
      "_refresh_statement", "_rename_statement", "abort_transactions_statement", "alter_connector",
      "comment_statement", "create_connector", "create_temporary_macro", "describe_statement",
      "drop_connector", "export_statement", "grant_role", "grant_statement", "import_statement",
      "load_data", "msck_repair_statement", "reset_statement", "revoke_role", "revoke_statement",
      "set_role_statement", "set_statement", "show_statement", "use_statement"},
    _type |-> {"bigint", "binary", "bit", "char", "decimal", "double", "enum", "float", "int", "nchar",
      "numeric", "nvarchar", "object_reference", "smallint", "time", "timestamp", "tinyint", "varbinary",
      "varchar"},
    create_connector |-> {"_if_not_exists", "_key_value_pair", "_literal_string", "identifier"},
    alter_connector |-> {"_key_value_pair", "_literal_string", "identifier"},
    drop_connector |-> {"_if_exists", "identifier"},
    abort_transactions_statement |-> {"_natural_number"},
    grant_role |-> {"identifier"},
    revoke_role |-> {"identifier"},
    set_role_statement |-> {"identifier"},
    export_statement |-> {"_expression", "_literal_string", "identifier", "object_reference"},
    import_statement |-> {"_expression", "_literal_string", "identifier", "object_reference"},
    create_temporary_macro |-> {"_expression", "_type", "identifier"},
    _dml_write |-> {"_cte", "_delete_statement", "_insert_statement", "_truncate_statement",
      "_update_statement", "insert_overwrite_directory", "multi_table_insert"},
    load_data |-> {"_literal_string", "object_reference", "table_partition"},
    insert_overwrite_directory |-> {"_dml_read", "_literal_string", "row_format", "stored_as"},
    multi_table_insert |-> {"_alias", "_insert_values", "object_reference", "select_expression",
      "table_partition", "where"},
    create_table |-> {"_if_not_exists", "_table_settings", "_temporary", "column_definitions",
      "create_query", "object_reference"},
    _table_settings |-> {"row_format", "skewed_by", "storage_location", "storage_parameters", "stored_as",
      "stored_by", "table_cluster", "table_option", "table_partition", "table_sort"},
    insert |-> {"_insert_values", "_on_conflict", "_on_duplicate_key_update", "_set_values", "identifier",
      "object_reference", "table_partition"},
    create_database |-> {"_if_not_exists", "identifier", "literal", "table_option"},
    _alter_specifications |-> {"_expression", "add_column", "add_constraint", "add_partition",
      "alter_column", "change_column", "change_ownership", "compact_partition", "concatenate_partition",
      "drop_column", "drop_constraint", "exchange_partition", "modify_column", "rename_column",
      "rename_object", "set_schema", "table_option"},
    concatenate_partition |-> {"_expression", "identifier"},
    compact_partition |-> {"_expression", "_literal_string", "identifier", "table_option"},
    from |-> {"cluster_by", "cross_join", "distribute_by", "group_by", "having", "join",
      "lateral_cross_join", "lateral_join", "lateral_view", "limit", "order_by", "relation", "sort_by",
      "where", "window_clause"},
    cluster_by |-> {"_expression"},
    distribute_by |-> {"_expression"},
    sort_by |-> {"order_target"},
    tablesample |-> {"_natural_number", "identifier", "invocation"},
    create_function |-> {"_if_not_exists", "_literal_string", "_or_replace", "_type", "column_definitions",
      "function_arguments", "function_body", "function_cost", "function_environment", "function_handler",
      "function_language", "function_leakproof", "function_parameter_style", "function_rows",
      "function_safety", "function_security", "function_strictness", "function_support",
      "function_volatility", "object_reference"},
    function_handler |-> {"_literal_string"},
    function_environment |-> {"_literal_string", "identifier"},
    function_parameter_style |-> {"identifier"},
    select |-> {"select_expression", "transform_clause"},
    transform_clause |-> {"_expression", "_literal_string", "column_definition", "identifier", "row_format"},
    show_statement |-> {"_literal_string", "identifier", "object_reference", "partition_spec"},
    describe_statement |-> {"identifier", "object_reference", "partition_spec"},
    partition_spec |-> {"_expression", "identifier"},
    exchange_partition |-> {"object_reference", "partition_spec"} ])

hive_storage_rules == Unit(
  NoWords,
  Tokens({"stored_as"}) @@
  [ storage_location |-> {"_literal_string", "_natural_number"},
    table_cluster |-> {"field", "literal"},
    table_sort |-> {"identifier"},
    row_format |-> {"_literal_string"},
    stored_by |-> {"_literal_string"} ])

hive_partition_rules == Unit(
  NoWords,
  [ table_partition |-> {"_key_value_pair", "column_definitions", "identifier"},
    add_partition |-> {"_expression", "_if_not_exists", "_literal_string", "identifier"},
    msck_repair_statement |-> {"object_reference"},
    skewed_by |-> {"_expression", "identifier"} ])

hive_lateral_view_rules == Unit(
  NoWords,
  [ lateral_view |-> {"identifier", "invocation"} ])

\* Mutant: the copies are spread last.
layersCopiesLast == <<Inline(rules), Own(hive_storage_rules), Own(hive_partition_rules),
    Own(hive_lateral_view_rules), Copy(dialect_transaction_rules), Copy(dialect_alter_rules),
    Copy(dialect_legacy_rules)>>

layers == <<Copy(dialect_transaction_rules), Copy(dialect_alter_rules), Copy(dialect_legacy_rules),
    Inline(rules), Own(hive_storage_rules), Own(hive_partition_rules), Own(hive_lateral_view_rules)>>

conflicts == {{"object_reference", "_qualified_field"}, {"object_reference"},
  {"between_expression", "binary_expression", "like_expression"},
  {"transaction", "start_transaction_statement"}, {"transaction", "commit_statement"},
  {"transaction", "rollback_statement"}, {"_commit", "commit_statement"},
  {"_rollback", "rollback_statement"}, {"create_function"}, {"list", "grouping_set"},
  {"list", "rollup_element"}, {"list", "cube_element"}, {"stored_by"}, {"row_format"}, {"skewed_by"},
  {"select", "multi_table_insert"}}
==============================================================================
