--------------------------- MODULE PostgresRules ---------------------------
(***************************************************************************)
(* postgres/grammar.js, cockroachdb/grammar.js and the rule files they     *)
(* spread: what the grammars add to the rules of base, and the second to   *)
(* those of the first, and what they override, one unit per object of      *)
(* rules, and the layers in the order they are spread.                     *)
(***************************************************************************)
EXTENDS GrammarHelpers

Base == INSTANCE BaseRules
Copied == INSTANCE CopiedRules

dialect_transaction_rules == Copied!dialect_transaction_rules
dialect_alter_rules == Copied!dialect_alter_rules

legacy_words == Unit(
  NoWords,
  [ order_target |-> {"_expression", "direction"} ])

misc_rules == Copied!misc_rules

legacy_dispatch == Unit(
  Words({"analyze", "explain", "verbose", "tables", "tablespace", "duplicate", "force", "ignore", "use",
    "include", "character", "reset", "returning", "hash", "conflict", "do", "nothing", "catalog",
    "extension", "cache", "collate", "concurrently", "connection", "deferrable", "encrypted", "initially",
    "none", "nowait", "owned", "password", "refresh", "rename", "unlogged", "until", "valid", "wait"}),
  NoRules)

create_rules_own_1 == Copied!create_rules_own_1
create_rules_own_2 == Copied!create_rules_own_2

create_rules == Spread(<<create_rules_own_1, Base!create_function_rules, Base!create_procedure_rules,
    create_rules_own_2>>)

drop_rules == Copied!drop_rules
rename_rules == Copied!rename_rules
refresh_rules == Copied!refresh_rules
truncate_rules == Copied!truncate_rules
insert_rules == Copied!insert_rules
update_rules == Copied!update_rules
delete_rules == Copied!delete_rules
merge_rules == Copied!merge_rules

legacy_more == Unit(
  NoWords,
  [ _ddl_statement |-> {"_alter_statement", "_create_statement", "_drop_statement", "_merge_statement",
      "_refresh_statement", "_rename_statement", "grant_statement", "revoke_statement", "set_statement"},
    _dml_write |-> {"_cte", "_delete_statement", "_insert_statement", "_truncate_statement",
      "_update_statement"},
    _refresh_statement |-> {"refresh_materialized_view"} ])

dialect_legacy_rules == Spread(<<legacy_words, misc_rules, legacy_dispatch, create_rules, drop_rules,
    rename_rules, refresh_rules, truncate_rules, insert_rules, update_rules, delete_rules, merge_rules,
    legacy_more>>)

rules == Unit(
  StrongWords({"aggregate", "concurrently", "btree", "hash", "gist", "spgist", "gin", "brin", "unlogged",
    "logged", "extension", "domain", "assignment", "implicit", "server", "wrapper", "options", "policy",
    "permissive", "restrictive", "vacuum", "copy", "stdin", "stdout", "freeze", "escape", "encoding",
    "force_quote", "quote", "force_null", "force_not_null", "header", "program", "plain", "extended",
    "main", "storage", "compression", "returning", "conflict", "upsert", "nowait", "attach", "depends",
    "wait", "tablespace", "replication", "oid", "oids", "name", "regclass", "regnamespace", "regproc",
    "regtype", "publication", "subscription", "search", "breadth", "depth", "ilike", "setof", "variadic",
    "leakproof", "parallel", "safe", "unsafe", "restricted", "called", "strict", "support", "cost",
    "ordinality", "attribute", "statistics", "format", "delimiter", "csv", "inherits", "including",
    "excluding", "indexes", "object_id", "list", "identity", "show", "off", "offset", "match", "matched",
    "version", "text", "current_user", "session_user", "current_role", "listen", "notify", "unlisten",
    "reindex", "cluster", "checkpoint", "discard", "plans", "sequences", "load", "close", "abort", "chain",
    "move", "prior", "absolute", "relative", "forward", "backward", "label", "reassign", "import",
    "collation", "conversion", "method", "handler", "transform", "sql", "event", "procedural", "large",
    "object", "routine", "operator", "rule", "also", "replica", "share", "lock", "locked", "skip", "mode",
    "access", "exclusive", "prepare", "deallocate", "call", "costs", "settings", "generic_plan", "buffers",
    "wal", "timing", "summary", "yaml", "functions", "procedures", "routines", "declare", "cursor",
    "scroll", "hold"}),
  Tokens({"_postgres_escape_string", "not_ilike"}) @@
  [ from |-> {"_from_clauses_limit_0", "cross_join", "join", "lateral_cross_join", "lateral_join",
      "relation"},
    statement |-> {"_ddl_statement", "_dml_read", "_dml_write", "_transaction_statement",
      "declare_cursor_statement", "explain_options"},
    declare_cursor_statement |-> {"_dml_read", "identifier"},
    _dml_write |-> {"_copy_statement", "_cte", "_delete_statement", "_insert_statement",
      "_truncate_statement", "_update_statement"},
    _insert_statement |-> {"insert", "returning"},
    insert |-> {"_insert_values", "_on_conflict", "_set_values", "identifier", "object_reference"},
    _delete_statement |-> {"_delete_from", "delete", "returning"},
    _update_statement |-> {"returning", "update"},
    _create_statement |-> {"_create_statement", "create_aggregate_statement", "create_cast",
      "create_database", "create_domain", "create_extension", "create_foreign_table", "create_function",
      "create_index", "create_materialized_view", "create_policy", "create_procedure", "create_publication",
      "create_role", "create_schema", "create_sequence", "create_server", "create_subscription",
      "create_table", "create_trigger", "create_type", "create_view"},
    create_table |-> {"_if_not_exists", "_temporary", "column_definitions", "create_query",
      "inherits_clause", "like_clause", "object_reference", "partition_bound", "table_partition_by"},
    create_index |-> {"_column", "_if_not_exists", "covering_columns", "identifier", "index_fields",
      "object_reference", "tablespace", "where"},
    _optimize_statement |-> {"_vacuum_table"},
    _alter_statement |-> {"alter_database", "alter_index", "alter_materialized_view", "alter_policy",
      "alter_publication", "alter_role", "alter_schema", "alter_sequence", "alter_table", "alter_type",
      "alter_view"},
    _drop_statement |-> {"drop_database", "drop_extension", "drop_function", "drop_index",
      "drop_materialized_view", "drop_procedure", "drop_publication", "drop_role", "drop_schema",
      "drop_sequence", "drop_subscription", "drop_table", "drop_type", "drop_view"},
    _literal_string |-> {"_dollar_quoted_string", "_postgres_escape_string", "_single_quote_string"},
    _expression |-> {"_qualified_field", "array", "between_expression", "binary_expression", "case", "cast",
      "exists", "implicit_cast", "interval", "invocation", "like_expression", "list", "literal",
      "object_id", "parameter", "parenthesized_expression", "position_expression", "subquery", "subscript",
      "typed_temporal_literal", "unary_expression", "window_function"},
    binary_expression |-> {"_expression", "distinct_from", "is_not", "list", "not_distinct_from",
      "not_ilike", "not_in", "not_rlike", "not_similar_to", "op_other", "similar_to", "subquery"},
    implicit_cast |-> {"_expression", "_type"},
    object_id |-> {"_literal_string"},
    _ddl_statement |-> {"_alter_statement", "_create_statement", "_drop_statement", "_merge_statement",
      "_optimize_statement", "_refresh_statement", "_rename_statement", "_show_statement",
      "abort_statement", "alter_collation_statement", "alter_conversion_statement",
      "alter_event_trigger_statement", "alter_operator_statement", "alter_rule_statement", "call_statement",
      "checkpoint_statement", "close_statement", "cluster_statement", "comment_statement",
      "create_access_method_statement", "create_collation_statement", "create_conversion_statement",
      "create_event_trigger_statement", "create_operator_statement", "create_rule_statement",
      "create_transform_statement", "deallocate_statement", "discard_statement", "do_statement",
      "end_statement", "execute_statement", "grant_statement", "import_foreign_schema_statement",
      "listen_statement", "load_statement", "lock_table_statement", "move_statement", "notify_statement",
      "prepare_statement", "reassign_owned_statement", "reindex_statement", "reset_statement",
      "revoke_statement", "security_label_statement", "set_statement", "unlisten_statement"},
    do_statement |-> {"_dollar_quoted_string", "identifier"},
    cte |-> {"_cte_cycle_clause", "_cte_search_clause", "_dml_read", "_dml_write", "identifier"},
    _cte_search_clause |-> {"identifier"},
    _cte_cycle_clause |-> {"_expression", "identifier"},
    _column_constraint |-> {"_check_constraint", "_column_comment", "_default_expression", "_expression",
      "_integer", "_not_null", "_primary_key", "direction", "identifier", "object_reference"},
    set_statement |-> {"_transaction_mode", "identifier", "literal", "object_reference"},
    reset_statement |-> {"object_reference"},
    use_statement |-> {"object_reference"},
    _show_statement |-> {"_literal_string", "object_reference"},
    comment_statement |-> {"_comment_target", "_literal_string"},
    _comment_target |-> {"_qualified_field", "cast", "function_arguments", "identifier", "object_reference"} ])

pg_copy_rules == Unit(
  NoWords,
  [ _copy_statement |-> {"_column_list", "_dml_read", "_literal_string", "object_reference", "where"} ])

pg_optimize_rules == Unit(
  NoWords,
  Tokens({"_vacuum_legacy_option"}) @@
  [ _vacuum_table |-> {"_vacuum_legacy_option", "_vacuum_option", "_vacuum_target"},
    _vacuum_option |-> {"identifier", "literal"},
    _vacuum_target |-> {"field", "object_reference"} ])

pg_create_rules == Unit(
  NoWords,
  [ create_cast |-> {"_type", "function_arguments", "object_reference"},
    create_domain |-> {"_check_constraint", "_default_expression", "_not_null", "_type", "object_reference"},
    fdw_options |-> {"_literal_string", "identifier"},
    create_server |-> {"_if_not_exists", "_literal_string", "fdw_options", "identifier"},
    create_foreign_table |-> {"_if_not_exists", "column_definitions", "fdw_options", "identifier",
      "object_reference"},
    create_extension |-> {"_if_not_exists", "_literal_string", "identifier"},
    create_policy |-> {"object_reference", "parenthesized_expression"},
    create_aggregate_statement |-> {"_or_replace", "_type", "aggregate_option", "object_reference"},
    aggregate_option |-> {"_expression", "identifier"} ])

pg_alter_rules == Unit(
  NoWords,
  [ _alter_specifications |-> {"add_column", "add_constraint", "alter_column", "change_column",
      "change_ownership", "drop_column", "drop_constraint", "identifier", "modify_column", "rename_column",
      "rename_object", "set_schema", "storage_parameters"},
    storage_parameters |-> {"storage_parameter"},
    storage_parameter |-> {"identifier", "literal"},
    alter_column |-> {"_expression", "_identifier", "_integer", "_key_value_pair", "_type", "identifier"},
    alter_index |-> {"_all_in_tablespace", "_depends_on_extension", "_if_exists", "_natural_number",
      "identifier", "literal", "object_reference", "rename_object"},
    _depends_on_extension |-> {"identifier"},
    _all_in_tablespace |-> {"identifier"},
    alter_materialized_view |-> {"_all_in_tablespace", "_depends_on_extension", "_if_exists",
      "_materialized_view_action", "object_reference", "rename_column", "rename_object", "set_schema"},
    _materialized_view_action |-> {"_expression", "_natural_number", "change_ownership", "identifier"},
    alter_policy |-> {"object_reference", "parenthesized_expression", "rename_object"} ])

pg_drop_rules == Unit(
  NoWords,
  [ drop_extension |-> {"_if_exists", "identifier"} ])

pg_replication_rules == Unit(
  NoWords,
  [ create_publication |-> {"_key_value_pair", "identifier", "object_reference"},
    create_subscription |-> {"_key_value_pair", "_literal_string", "identifier"},
    alter_publication |-> {"_key_value_pair", "identifier", "object_reference"},
    drop_publication |-> {"_if_exists", "identifier"},
    drop_subscription |-> {"_if_exists", "identifier"} ])

pg_partition_rules == Unit(
  Words({"modulus", "remainder", "defaults", "identity", "comments"}),
  [ table_partition_by |-> {"_expression"},
    partition_bound |-> {"_expression"},
    inherits_clause |-> {"object_reference"},
    like_clause |-> {"object_reference"} ])

pg_notify_rules == Unit(
  NoWords,
  [ listen_statement |-> {"identifier"},
    notify_statement |-> {"_literal_string", "identifier"},
    unlisten_statement |-> {"all_fields", "identifier"} ])

pg_statement_rules == Unit(
  NoWords,
  Tokens({"_boolean_option"}) @@
  [ _select_statement |-> {"from", "locking_clause", "select", "select_expression"},
    locking_clause |-> {"object_reference"},
    lock_table_statement |-> {"object_reference"},
    prepare_statement |-> {"_dml_read", "_dml_write", "_type", "identifier"},
    execute_statement |-> {"_expression", "identifier"},
    deallocate_statement |-> {"identifier"},
    call_statement |-> {"_expression", "identifier", "object_reference"},
    explain_options |-> {"_boolean_option"},
    _grant_object |-> {"object_reference"},
    select |-> {"_expression", "select_expression"},
    _delete_from |-> {"limit", "object_reference", "order_by", "relation", "where"} ])

pg_maintenance_rules == Unit(
  NoWords,
  Tokens({"checkpoint_statement", "discard_statement", "abort_statement", "end_statement"}) @@
  [ reindex_statement |-> {"_reindex_option", "object_reference"},
    _reindex_option |-> {"_boolean_option", "identifier"},
    cluster_statement |-> {"_boolean_option", "object_reference"},
    load_statement |-> {"_literal_string"},
    close_statement |-> {"identifier"},
    move_statement |-> {"_cursor_direction", "identifier"},
    _cursor_direction |-> {"_integer"} ])

pg_object_rules == Unit(
  NoWords,
  Tokens({"operator_symbol"}) @@
  [ security_label_statement |-> {"_literal_string", "_security_label_object", "identifier"},
    _security_label_object |-> {"_integer", "function_arguments", "object_reference"},
    reassign_owned_statement |-> {"_role_specification"},
    _role_specification |-> {"identifier"},
    import_foreign_schema_statement |-> {"_key_value_option", "identifier", "object_reference"},
    _key_value_option |-> {"_literal_string", "identifier"},
    create_collation_statement |-> {"_expression", "_if_not_exists", "identifier", "object_reference"},
    create_conversion_statement |-> {"_literal_string", "object_reference"},
    create_access_method_statement |-> {"identifier", "object_reference"},
    create_transform_statement |-> {"_or_replace", "_transform_function", "_type", "identifier"},
    _transform_function |-> {"function_arguments", "object_reference"},
    create_event_trigger_statement |-> {"_event_trigger_filter", "identifier", "object_reference"},
    _event_trigger_filter |-> {"_literal_string", "identifier"},
    create_operator_statement |-> {"_operator_option", "operator_symbol"},
    _operator_option |-> {"_operator_value", "identifier"},
    _operator_value |-> {"_type", "operator_symbol"},
    alter_operator_statement |-> {"_operator_option", "_role_specification", "_type", "identifier",
      "operator_symbol"},
    create_rule_statement |-> {"_expression", "_or_replace", "identifier", "object_reference", "statement"},
    alter_rule_statement |-> {"identifier", "object_reference"},
    _object_alter_action |-> {"_role_specification", "identifier"},
    alter_collation_statement |-> {"_object_alter_action", "object_reference"},
    alter_conversion_statement |-> {"_object_alter_action", "object_reference"},
    alter_event_trigger_statement |-> {"_object_alter_action", "identifier"} ])

layers == <<Copy(dialect_transaction_rules), Copy(dialect_alter_rules), Copy(dialect_legacy_rules),
    Inline(rules), Own(pg_copy_rules), Own(pg_optimize_rules), Own(pg_create_rules), Own(pg_alter_rules),
    Own(pg_drop_rules), Own(pg_replication_rules), Own(pg_partition_rules), Own(pg_notify_rules),
    Own(pg_statement_rules), Own(pg_maintenance_rules), Own(pg_object_rules)>>

conflicts == {{"object_reference", "_qualified_field"}, {"_column", "_qualified_field"},
  {"object_reference"}, {"between_expression", "binary_expression", "like_expression"},
  {"transaction", "start_transaction_statement"}, {"transaction", "commit_statement"},
  {"transaction", "rollback_statement"}, {"_commit", "commit_statement"},
  {"_rollback", "rollback_statement"}, {"create_function"}, {"list", "grouping_set"},
  {"list", "rollup_element"}, {"list", "cube_element"}}

externals == Base!externals \cup {"_dollar_quoted_string_start_tag", "_dollar_quoted_string_end_tag",
  "_dollar_quoted_string"}

-----------------------------------------------------------------------------
\* cockroachdb/grammar.js, which extends postgres/grammar.js.
crdb_rules == Unit(
  Words({"availability", "configuration", "failure", "parent", "region", "regions"}) @@
  StrongWords({"family", "convert", "placement", "survive", "locality", "regional", "global", "configure",
    "discard", "split", "unsplit", "scatter", "at", "expiration", "backup", "restore", "import",
    "changefeed", "upsert", "latest", "csv", "system", "jobs", "job", "setting", "cancel", "pause",
    "resume", "query", "queries", "sessions", "schedule", "schedules", "export", "users", "databases",
    "grants", "columns", "storing"}),
  [ statement |-> {"_ddl_statement", "_dml_read", "_dml_write", "_transaction_statement",
      "backup_statement", "cancel_query_statement", "check_external_connection_statement",
      "create_changefeed_statement", "create_external_connection_statement", "create_statistics_statement",
      "declare_cursor_statement", "drop_external_connection_statement", "drop_owned_by_statement",
      "explain_options", "export_statement", "import_into_statement", "job_control_statement",
      "reset_cluster_setting_statement", "restore_statement", "schedule_control_statement",
      "set_cluster_setting_statement"},
    _dml_write |-> {"_copy_statement", "_cte", "_delete_statement", "_insert_statement",
      "_truncate_statement", "_update_statement", "upsert_statement"},
    relation |-> {"_alias", "_column_list", "as_of_clause", "invocation", "object_reference", "subquery",
      "values"},
    create_index |-> {"_column", "_column_list", "_if_not_exists", "covering_columns",
      "crdb_options_clause", "identifier", "index_fields", "object_reference", "tablespace", "where"},
    _alter_specifications |-> {"_expression", "add_column", "add_constraint", "alter_column",
      "change_column", "change_ownership", "drop_column", "drop_constraint", "identifier", "modify_column",
      "rename_column", "rename_object", "set_schema", "split_at", "storage_parameters", "unsplit_at"},
    split_at |-> {"_expression", "values"},
    unsplit_at |-> {"values"},
    constraint |-> {"_check_constraint", "_constraint_literal", "_key_constraint",
      "_primary_key_constraint", "family_def"},
    family_def |-> {"identifier"} ])

crdb_statement_rules == Unit(
  NoWords,
  [ as_of_clause |-> {"_expression"},
    crdb_options_clause |-> {"crdb_option"},
    crdb_option |-> {"_expression", "identifier"},
    backup_statement |-> {"_literal_string", "as_of_clause", "crdb_options_clause", "object_reference"},
    restore_statement |-> {"_literal_string", "crdb_options_clause", "object_reference"},
    import_into_statement |-> {"_column_list", "_literal_string", "crdb_options_clause", "object_reference"},
    create_changefeed_statement |-> {"_literal_string", "crdb_options_clause", "object_reference"},
    _show_statement |-> {"_literal_string", "identifier", "object_reference"},
    upsert_statement |-> {"_insert_values", "_set_values", "object_reference"} ])

crdb_admin_rules == Unit(
  NoWords,
  [ job_control_statement |-> {"_job_selector", "identifier"},
    cancel_query_statement |-> {"_job_selector"},
    schedule_control_statement |-> {"_job_selector"},
    _job_selector |-> {"_expression"},
    set_cluster_setting_statement |-> {"_expression", "object_reference"},
    reset_cluster_setting_statement |-> {"object_reference"},
    create_external_connection_statement |-> {"_if_not_exists", "_literal_string", "identifier"},
    drop_external_connection_statement |-> {"_if_exists", "_literal_string", "identifier"},
    check_external_connection_statement |-> {"_literal_string", "crdb_options_clause"},
    export_statement |-> {"_dml_read", "_expression", "crdb_options_clause", "identifier",
      "object_reference"},
    create_statistics_statement |-> {"as_of_clause", "identifier", "object_reference", "where"},
    drop_owned_by_statement |-> {"_drop_behavior", "identifier"} ])

crdb_clause_rules == Unit(
  NoWords,
  Tokens({"_survive_clause"}) @@
  [ _configure_zone |-> {"_zone_option"},
    _zone_option |-> {"_expression", "identifier"},
    alter_database |-> {"_configure_zone", "_if_exists", "_if_not_exists", "_survive_clause",
      "change_ownership", "identifier", "rename_object", "set_configuration"},
    alter_index |-> {"_configure_zone", "_if_exists", "identifier", "rename_object", "split_at",
      "unsplit_at"},
    create_database |-> {"_expression", "_if_not_exists", "_literal_string", "_survive_clause",
      "_with_settings", "identifier"} ])

crdb_layers == <<Inline(crdb_rules), Own(crdb_statement_rules), Own(crdb_admin_rules), Own(crdb_clause_rules)>>

crdb_conflicts == {{"object_reference", "_qualified_field"}, {"_column", "_qualified_field"},
  {"object_reference"}, {"between_expression", "binary_expression", "like_expression"},
  {"transaction", "start_transaction_statement"}, {"transaction", "commit_statement"},
  {"transaction", "rollback_statement"}, {"_commit", "commit_statement"},
  {"_rollback", "rollback_statement"}, {"create_function"}, {"list", "grouping_set"},
  {"list", "rollup_element"}, {"list", "cube_element"}, {"values"}, {"_alter_specifications"}}
==============================================================================
