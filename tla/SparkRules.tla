---------------------------- MODULE SparkRules -----------------------------
(***************************************************************************)
(* spark/grammar.js, databricks/grammar.js and the rule files they spread: *)
(* what the grammars add to the rules of hive, and the second to those of  *)
(* the first, and what they override, one unit per object of rules, and    *)
(* the layers in the order they are spread.                                *)
(***************************************************************************)
EXTENDS GrammarHelpers

rules_1 == Unit(
  Words({"name", "dbproperties", "namespace", "properties", "purge"}) @@
  StrongWords({"version", "overwrite", "clustered", "buckets", "tblproperties", "format", "delimited",
    "delimiter", "fields", "terminated", "escaped", "lines", "parquet", "rcfile", "csv", "textfile", "avro",
    "sequencefile", "orc", "jsonfile", "stored", "virtual", "cached", "uncached", "replication", "compute",
    "stats", "optimize", "zorder", "rewrite", "bin_pack", "incremental", "statistics", "location",
    "partitioned", "sort", "sorted", "metadata", "noscan", "ignore", "rlike", "schedule", "while", "elseif",
    "loop", "repeat", "signal", "resignal", "leave", "iterate", "diagnostics", "sqlstate",
    "returned_sqlstate", "message_text", "message", "condition", "get", "qualify", "pivot", "unpivot",
    "bucket", "cluster", "distribute", "transform", "var", "variable", "variant", "varchar", "string",
    "inpath", "directory", "load", "changes", "oids", "delta", "source", "shallow", "deep", "clone",
    "field", "call", "ordered", "options", "distributed", "columns", "unset", "declare"}),
  [ program |-> {"statement", "transaction"},
    statement |-> {"_ddl_statement", "_dml_read", "_dml_write", "_transaction_statement", "block",
      "for_statement", "get_diagnostics_statement", "if_statement", "iterate_statement", "leave_statement",
      "loop_statement", "repeat_statement", "resignal_statement", "signal_statement", "while_statement"},
    create_table |-> {"_if_not_exists", "_table_settings", "_temporary", "column_definitions",
      "create_query", "object_reference"},
    alter_view |-> {"_dml_read", "_expression", "_if_exists", "change_ownership", "object_reference",
      "rename_column", "rename_object", "set_schema", "table_option"},
    _optimize_statement |-> {"_compute_stats", "_delta_optimize", "_optimize_table", "_spark_analyze"},
    _ddl_statement |-> {"_alter_statement", "_create_statement", "_drop_statement", "_merge_statement",
      "_optimize_statement", "_refresh_statement", "_rename_statement", "add_resource_statement",
      "cache_table", "call_statement", "clear_cache", "comment_statement", "create_table_like",
      "declare_variable_statement", "describe_query", "describe_statement", "grant_role", "grant_statement",
      "list_resource_statement", "load_data", "msck_repair_statement", "reset_statement", "revoke_role",
      "revoke_statement", "set_path_statement", "set_role_statement", "set_statement",
      "set_variable_statement", "show_collations_statement", "show_statement", "uncache_table",
      "use_statement"},
    set_statement |-> {"_expression", "_transaction_mode", "identifier", "object_reference"},
    _type |-> {"bigint", "binary", "bit", "char", "decimal", "double", "enum", "float", "int", "nchar",
      "numeric", "nvarchar", "object_reference", "smallint", "time", "timestamp", "tinyint", "varbinary",
      "varchar"},
    _expression |-> {"_qualified_field", "array", "between_expression", "binary_expression", "case", "cast",
      "collate_expression", "exists", "interval", "invocation", "like_expression", "list", "literal",
      "parameter", "parenthesized_expression", "position_expression", "subquery", "subscript",
      "typed_temporal_literal", "unary_expression", "variant_path_expression", "window_function"},
    when_clause |-> {"_expression", "_insert_values", "_set_values", "where"},
    insert |-> {"_insert_values", "_on_conflict", "_on_duplicate_key_update", "_set_values", "identifier",
      "object_reference", "table_partition"},
    term |-> {"_alias", "_expression", "all_fields", "select_except_clause"},
    relation |-> {"_alias", "_column_list", "invocation", "lateral_subquery", "object_reference",
      "pivot_clause", "subquery", "tablesample", "time_travel", "unpivot_clause", "values"},
    time_travel |-> {"_expression"},
    from |-> {"cluster_by", "cross_join", "distribute_by", "group_by", "having", "join",
      "lateral_cross_join", "lateral_join", "lateral_view", "limit", "order_by", "qualify", "relation",
      "sort_by", "where", "window_clause"},
    _alter_specifications |-> {"_expression", "add_column", "add_constraint", "add_partition",
      "alter_column", "change_column", "change_ownership", "drop_column", "drop_constraint",
      "modify_column", "partition_transform", "rename_column", "rename_object", "set_schema",
      "table_option", "write_order"},
    tablesample |-> {"_natural_number"} ])

spark_create_rules == Unit(
  NoWords,
  [ _table_settings |-> {"literal", "row_format", "shallow_clone", "storage_location", "storage_parameters",
      "stored_as", "table_cluster", "table_option", "table_options", "table_partition", "table_sort",
      "table_using"},
    table_using |-> {"object_reference"},
    table_options |-> {"table_option"},
    shallow_clone |-> {"object_reference"},
    create_view |-> {"_if_not_exists", "_literal_string", "_or_replace", "_temporary", "create_query",
      "identifier", "object_reference", "table_option", "table_options", "table_using"},
    create_table_like |-> {"_if_not_exists", "_literal_string", "identifier", "object_reference"} ])

spark_optimize_rules == Unit(
  NoWords,
  [ _compute_stats |-> {"_partition_spec", "field", "object_reference"},
    _spark_analyze |-> {"_partition_spec", "field", "object_reference"},
    _partition_spec |-> {"table_option"},
    _optimize_table |-> {"object_reference", "where"},
    _delta_optimize |-> {"field", "object_reference", "where"} ])

spark_spark4_rules == Unit(
  NoWords,
  [ declare_variable_statement |-> {"_expression", "_or_replace", "_type", "identifier"},
    set_variable_statement |-> {"_expression", "identifier"},
    lateral_subquery |-> {"_dml_read", "identifier"},
    select_except_clause |-> {"identifier"},
    collate_expression |-> {"_qualified_field", "identifier", "invocation", "literal",
      "parenthesized_expression"},
    variant_path_expression |-> {"_qualified_field", "identifier", "subscript", "variant_path_expression"} ])

spark_scripting_rules == Unit(
  NoWords,
  [ block |-> {"statement"},
    if_statement |-> {"_expression", "statement"},
    for_statement |-> {"_dml_read", "identifier", "statement"},
    while_statement |-> {"_expression", "statement"},
    loop_statement |-> {"identifier", "statement"},
    repeat_statement |-> {"_expression", "statement"},
    leave_statement |-> {"identifier"},
    iterate_statement |-> {"identifier"},
    signal_statement |-> {"_single_quote_string"},
    resignal_statement |-> {"_single_quote_string"},
    get_diagnostics_statement |-> {"_integer", "identifier"} ])

spark_iceberg_rules == Unit(
  NoWords,
  [ call_statement |-> {"_expression", "identifier", "object_reference"},
    partition_transform |-> {"identifier", "literal"},
    write_order |-> {"order_target"} ])

spark_select_rules == Unit(
  NoWords,
  [ qualify |-> {"_expression"},
    group_by |-> {"_expression", "cube_clause", "grouping_sets_clause", "rollup_clause"},
    pivot_clause |-> {"_expression", "identifier", "invocation", "literal"},
    unpivot_clause |-> {"identifier"} ])

spark_cache_rules == Unit(
  NoWords,
  Tokens({"clear_cache"}) @@
  [ cache_table |-> {"_dml_read", "object_reference"},
    uncache_table |-> {"_if_exists", "object_reference"},
    show_collations_statement |-> {"_literal_string"},
    describe_statement |-> {"identifier", "object_reference", "partition_spec"},
    describe_query |-> {"_dml_read", "object_reference"},
    set_path_statement |-> {"_path_element"},
    _path_element |-> {"object_reference"} ])

spark_resource_rules == Unit(
  NoWords,
  [ add_resource_statement |-> {"_literal_string"},
    list_resource_statement |-> {"_literal_string"} ])

spark_clause_rules == Unit(
  NoWords,
  Tokens({"_database_keyword"}) @@
  [ _dbproperties |-> {"spark_property"},
    spark_property |-> {"_expression", "identifier", "literal"},
    create_database |-> {"_database_keyword", "_dbproperties", "_if_not_exists", "identifier", "literal"},
    alter_database |-> {"_database_keyword", "_dbproperties", "change_ownership", "identifier", "literal",
      "rename_object"},
    drop_database |-> {"_database_keyword", "_drop_behavior", "_if_exists", "identifier"},
    create_schema |-> {"_dbproperties", "_if_not_exists", "identifier", "literal"},
    alter_schema |-> {"_dbproperties", "identifier", "literal"},
    drop_schema |-> {"_drop_behavior", "_if_exists", "identifier"},
    drop_table |-> {"_drop_behavior", "_if_exists", "object_reference"},
    drop_function |-> {"_drop_behavior", "_if_exists", "object_reference"} ])

rules_2 == Unit(
  StrongWords({"lazy", "clear", "uncache", "file", "files", "jars", "archive", "archives", "list",
    "collations", "geometry", "geography", "query", "path", "default_path", "system_path", "current_schema",
    "current_database", "called", "repeatable", "variadic", "varbinary", "varying"}),
  NoRules)

layers == <<Inline(rules_1), Own(spark_create_rules), Own(spark_optimize_rules), Own(spark_spark4_rules),
    Own(spark_scripting_rules), Own(spark_iceberg_rules), Own(spark_select_rules), Own(spark_cache_rules),
    Own(spark_resource_rules), Own(spark_clause_rules), Inline(rules_2)>>

conflicts == {{"object_reference", "_qualified_field"}, {"_column", "_qualified_field"},
  {"object_reference"}, {"between_expression", "binary_expression", "like_expression"},
  {"transaction", "start_transaction_statement"}, {"transaction", "commit_statement"},
  {"transaction", "rollback_statement"}, {"_commit", "commit_statement"},
  {"_rollback", "rollback_statement"}, {"from"}, {"create_function"}, {"list", "grouping_set"},
  {"list", "rollup_element"}, {"list", "cube_element"}, {"term"}, {"lateral_cross_join"}, {"values"},
  {"select_expression"}, {"set_operation"}, {"group_by"}, {"subquery", "lateral_subquery"},
  {"order_target"}, {"write_order"}, {"cluster_by"}, {"distribute_by"}, {"sort_by"}, {"qualify"},
  {"select", "multi_table_insert"}, {"row_format"}, {"lateral_view"}}

-----------------------------------------------------------------------------
\* databricks/grammar.js, which extends spark/grammar.js.
databricks_rules_1 == Unit(
  StrongWords({"retain", "hours", "dry", "run", "restore", "convert", "fsck", "repair", "reorg", "cron",
    "every", "at", "apply", "purge", "generate", "msck", "partitions", "sync", "grant", "revoke", "deny",
    "privileges", "service", "principal", "recipient", "metastore", "volume", "credential", "share", "copy",
    "fileformat", "pattern", "validate", "format_options", "copy_options", "catalog", "describe", "call",
    "branch", "tag", "identity", "position", "distributed", "ordered", "namespace", "streaming", "live",
    "provider", "options", "url", "grants", "history", "detail", "global", "handler", "environment",
    "parameter", "style", "shallow", "deep", "clone", "catalogs", "namespaces", "volumes", "connections",
    "credentials", "shares", "recipients", "providers", "undrop", "id", "server", "bloomfilter", "users",
    "policies", "locations", "procedures", "dropped", "appends", "upsert", "vacuum", "policy", "show",
    "unload", "keys", "extended", "version", "flow", "names"}),
  [ _ddl_statement |-> {"_alter_statement", "_create_statement", "_drop_statement", "_merge_statement",
      "_optimize_statement", "_refresh_statement", "_rename_statement", "_show_statement",
      "_unload_statement", "add_resource_statement", "apply_changes_statement", "cache_table",
      "call_statement", "clear_cache", "comment_statement", "convert_to_delta_statement",
      "copy_into_statement", "create_catalog", "create_connection", "create_credential",
      "create_external_location", "create_live_table", "create_namespace", "create_policy",
      "create_provider", "create_recipient", "create_server", "create_share", "create_streaming_table",
      "create_table_like", "create_volume", "deny_statement", "describe_detail", "describe_history",
      "describe_query", "describe_table", "describe_uc_object", "drop_bloomfilter_index",
      "execute_immediate_statement", "fsck_repair_statement", "generate_statement", "grant_statement",
      "list_resource_statement", "msck_repair_statement", "reorg_table_statement", "reset_statement",
      "restore_table_statement", "revoke_statement", "set_statement", "uncache_table", "undrop_statement",
      "use_statement"},
    _optimize_statement |-> {"_compute_stats", "_delta_optimize", "_optimize_table", "_spark_analyze",
      "_vacuum_table"},
    _refresh_statement |-> {"refresh_function", "refresh_materialized_view", "refresh_table_databricks"},
    _show_statement |-> {"_show_catalogs", "_show_columns", "_show_create", "_show_grants",
      "_show_namespaces", "_show_partitions", "_show_procedures", "_show_tables", "_show_tables_dropped",
      "_show_tblproperties", "_show_uc_object_type", "_show_volumes"},
    _drop_statement |-> {"drop_catalog", "drop_connection", "drop_credential", "drop_database",
      "drop_external_location", "drop_function", "drop_index", "drop_materialized_view", "drop_namespace",
      "drop_policy", "drop_procedure", "drop_provider", "drop_recipient", "drop_role", "drop_schema",
      "drop_sequence", "drop_share", "drop_table", "drop_type", "drop_view", "drop_volume"},
    table_partition |-> {"_key_value_pair", "column_definitions", "partition_field"},
    _alter_specifications |-> {"_alter_table_iceberg_spec", "add_column", "add_constraint", "add_partition",
      "alter_column", "change_column", "change_ownership", "drop_column", "drop_constraint", "identifier",
      "modify_column", "partition_transform", "rename_column", "rename_object", "set_schema", "write_order"},
    set_statement |-> {"_expression", "_transaction_mode", "identifier", "object_reference"},
    copy_into_statement |-> {"_copy_option", "_dml_read", "_literal_string", "identifier",
      "object_reference"},
    _copy_option |-> {"_literal_string"} ])

vacuum_rules == Unit(
  NoWords,
  [ _vacuum_table |-> {"literal", "object_reference"} ])

restore_rules == Unit(
  NoWords,
  [ restore_table_statement |-> {"_expression", "literal", "object_reference"},
    convert_to_delta_statement |-> {"object_reference"},
    fsck_repair_statement |-> {"object_reference"},
    reorg_table_statement |-> {"object_reference", "where"},
    generate_statement |-> {"identifier", "object_reference"},
    msck_repair_statement |-> {"object_reference"} ])

grant_rules == Unit(
  NoWords,
  Tokens({"_privilege_create_sub"}) @@
  [ grant_statement |-> {"_principal_list", "_privilege_list", "_securable_object"},
    revoke_statement |-> {"_principal_list", "_privilege_list", "_securable_object"},
    deny_statement |-> {"_principal_list", "_privilege_list", "_securable_object"},
    _privilege_list |-> {"_privilege_type"},
    _privilege_type |-> {"_privilege_create_sub", "identifier"},
    _securable_object |-> {"object_reference"},
    _principal_list |-> {"_principal"},
    _principal |-> {"identifier", "literal"} ])

databricks_drop_rules == Unit(
  NoWords,
  [ drop_catalog |-> {"_drop_behavior", "_if_exists", "object_reference"},
    drop_namespace |-> {"_drop_behavior", "_if_exists", "object_reference"},
    drop_connection |-> {"_if_exists", "object_reference"},
    drop_credential |-> {"_if_exists", "object_reference"},
    drop_external_location |-> {"_if_exists", "object_reference"},
    drop_volume |-> {"_if_exists", "object_reference"},
    drop_share |-> {"_if_exists", "object_reference"},
    drop_recipient |-> {"_if_exists", "object_reference"},
    drop_provider |-> {"_if_exists", "object_reference"},
    drop_policy |-> {"_if_exists", "object_reference"} ])

describe_rules == Unit(
  NoWords,
  [ describe_table |-> {"_partition_spec", "object_reference"},
    describe_history |-> {"literal", "object_reference"},
    describe_detail |-> {"object_reference"},
    describe_uc_object |-> {"object_reference"} ])

show_rules == Unit(
  NoWords,
  Tokens({"_show_uc_object_type"}) @@
  [ _show_create |-> {"object_reference"},
    _unload_statement |-> {"_select_statement", "_single_quote_string", "storage_parameters"},
    _show_catalogs |-> {"literal"},
    _show_namespaces |-> {"literal", "object_reference"},
    _show_volumes |-> {"object_reference"},
    _show_grants |-> {"identifier", "object_reference"},
    _show_procedures |-> {"object_reference"},
    _show_tables_dropped |-> {"object_reference"},
    _show_tblproperties |-> {"identifier", "object_reference"},
    _show_partitions |-> {"_partition_spec", "object_reference"},
    _show_columns |-> {"object_reference"} ])

cache_rules == Unit(
  NoWords,
  [ refresh_table_databricks |-> {"object_reference"},
    refresh_function |-> {"object_reference"} ])

call_rules == Unit(
  NoWords,
  [ call_statement |-> {"_expression", "identifier", "object_reference"},
    execute_immediate_statement |-> {"_expression", "identifier"} ])

databricks_create_rules == Unit(
  NoWords,
  [ create_namespace |-> {"_if_not_exists", "_literal_string", "_or_replace", "object_reference"},
    create_streaming_table |-> {"_if_not_exists", "_literal_string", "_or_replace", "column_definitions",
      "create_query", "identifier", "object_reference", "table_option"},
    create_materialized_view |-> {"_if_not_exists", "_literal_string", "_or_replace", "column_definitions",
      "create_query", "identifier", "object_reference", "schedule_clause", "table_option"},
    schedule_clause |-> {"_integer", "_literal_string", "identifier"},
    create_live_table |-> {"_if_not_exists", "_literal_string", "_or_replace", "column_definitions",
      "create_query", "object_reference", "table_option"},
    partition_field |-> {"identifier", "literal"},
    create_catalog |-> {"_if_not_exists", "_literal_string", "_or_replace", "object_reference"},
    create_volume |-> {"_if_not_exists", "_literal_string", "_or_replace", "object_reference"},
    create_connection |-> {"_if_not_exists", "_or_replace", "identifier", "object_reference", "table_option"},
    create_credential |-> {"_if_not_exists", "_literal_string", "_or_replace", "object_reference"},
    create_external_location |-> {"_if_not_exists", "_literal_string", "_or_replace", "object_reference"},
    create_share |-> {"_if_not_exists", "_literal_string", "_or_replace", "object_reference"},
    create_recipient |-> {"_if_not_exists", "_literal_string", "_or_replace", "object_reference"},
    create_provider |-> {"_if_not_exists", "_literal_string", "_or_replace", "object_reference"},
    create_policy |-> {"_if_not_exists", "_literal_string", "_or_replace", "object_reference"},
    undrop_statement |-> {"_literal_string", "object_reference"},
    create_server |-> {"_if_not_exists", "_key_value_pair", "_literal_string", "identifier"},
    drop_bloomfilter_index |-> {"object_reference"} ])

alter_rules == Unit(
  NoWords,
  [ _alter_table_iceberg_spec |-> {"_expression", "_if_exists", "_if_not_exists", "_literal_string",
      "identifier", "list", "object_reference"} ])

apply_rules == Unit(
  NoWords,
  [ apply_changes_statement |-> {"_apply_column_mapping_list", "_column_list", "_expression",
      "assignment_list", "identifier", "list", "object_reference", "subquery"},
    _apply_column_mapping_list |-> {"_column", "column_mapping"},
    column_mapping |-> {"_expression", "identifier"} ])

databricks_rules_2 == Unit(
  StrongWords({"called", "generated"}),
  NoRules)

databricks_layers == <<Inline(databricks_rules_1), Own(vacuum_rules), Own(restore_rules), Own(grant_rules),
    Own(databricks_drop_rules), Own(describe_rules), Own(show_rules), Own(cache_rules), Own(call_rules), Own(databricks_create_rules),
    Own(alter_rules), Own(apply_rules), Inline(databricks_rules_2)>>

databricks_conflicts == {{"object_reference", "_qualified_field"}, {"_column", "_qualified_field"},
  {"object_reference"}, {"between_expression", "binary_expression", "like_expression"},
  {"transaction", "start_transaction_statement"}, {"transaction", "commit_statement"},
  {"transaction", "rollback_statement"}, {"_commit", "commit_statement"},
  {"_rollback", "rollback_statement"}, {"from"}, {"create_function"}, {"list", "grouping_set"},
  {"list", "rollup_element"}, {"list", "cube_element"}, {"term"}, {"values"}, {"select_expression"},
  {"set_operation"}, {"group_by"}, {"subquery", "lateral_subquery"}, {"order_target"}, {"write_order"},
  {"cluster_by"}, {"distribute_by"}, {"sort_by"}, {"select", "multi_table_insert"}, {"lateral_cross_join"},
  {"row_format"}, {"lateral_view"}}
==============================================================================
