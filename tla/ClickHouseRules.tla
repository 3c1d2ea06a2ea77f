-------------------------- MODULE ClickHouseRules --------------------------
(***************************************************************************)
(* clickhouse/grammar.js and the rule files it spreads: what the grammar   *)
(* adds to the rules of base and what it overrides, one unit per object of *)
(* rules, and the layers in the order they are spread.                     *)
(***************************************************************************)
EXTENDS GrammarHelpers

Base == INSTANCE BaseRules
Copied == INSTANCE CopiedRules

rules_1 == Unit(
  NoWords,
  Tokens({"marginalia"}))

dialect_transaction_rules == Copied!dialect_transaction_rules
dialect_alter_rules == Copied!dialect_alter_rules
misc_rules == Copied!misc_rules
legacy_words == Copied!legacy_words
create_rules_own_1 == Copied!create_rules_own_1
create_rules_own_2 == Copied!create_rules_own_2

create_rules == Spread(<<create_rules_own_1, Base!create_function_rules, Base!create_procedure_rules,
    create_rules_own_2>>)

drop_rules == Copied!drop_rules
rename_rules == Copied!rename_rules
refresh_rules == Copied!refresh_rules
truncate_rules == Copied!truncate_rules
insert_rules == Copied!insert_rules
update_rules == Copied!update_rules
delete_rules == Copied!delete_rules
merge_rules == Copied!merge_rules
legacy_dispatch == Copied!legacy_dispatch

dialect_legacy_rules == Spread(<<misc_rules, legacy_words, create_rules, drop_rules, rename_rules,
    refresh_rules, truncate_rules, insert_rules, update_rules, delete_rules, merge_rules, legacy_dispatch>>)

rules_2 == Unit(
  Words({"cleanup", "dry", "parts", "run"}) @@
  StrongWords({"global", "changeable_in_readonly", "const", "constraint", "constraints", "readonly",
    "writable", "apply", "show", "databases", "processlist", "granularity", "engine", "prewhere", "final",
    "sample", "totals", "format", "ilike", "settings", "setting", "dictionary", "dictionaries", "live",
    "populate", "cluster", "move", "undrop", "describe", "named", "collection", "masking", "overridable",
    "part", "partition", "ttl", "disk", "volume", "attach", "detach", "source", "layout", "lifetime", "min",
    "max", "codec", "alias", "ephemeral", "optimize", "deduplicate", "freeze", "materialize",
    "materialized", "clear", "qualify", "fill", "step", "outfile", "kill", "query", "mutation",
    "identified", "quota", "keyed", "row", "policy", "permissive", "restrictive", "profile", "backup",
    "restore", "exchange", "unfreeze", "name", "host", "ip", "async", "test", "system", "flush", "logs",
    "reload", "config", "dns", "cache", "merges", "fetches", "replicated", "sends", "distributed", "sync",
    "replica", "stop", "start", "map", "tuple", "nested", "lowcardinality", "nullable", "fixedstring",
    "uint8", "uint16", "uint32", "uint64", "uint128", "uint256", "int8", "int16", "int32", "int64",
    "int128", "int256", "float32", "float64", "uuid", "ipv4", "ipv6", "date32", "datetime", "datetime64"}),
  Tokens({"global_in", "global_not_in", "not_ilike"}) @@
  [ _insert_statement |-> {"insert", "returning"},
    insert |-> {"_column_list", "_insert_values", "_set_values", "identifier", "invocation",
      "object_reference"},
    statement |-> {"_ddl_statement", "_dml_read", "_dml_write", "alter_user_statement", "attach_statement",
      "backup_statement", "ch_grant_statement", "ch_revoke_statement", "check_statement",
      "create_quota_statement", "create_role_statement", "create_row_policy_statement",
      "create_settings_profile_statement", "create_user_statement", "describe_statement",
      "detach_statement", "exchange_tables_statement", "exists_statement", "kill_mutation_statement",
      "kill_query_statement", "masking_policy_statement", "move_access_statement",
      "named_collection_statement", "optimize_statement", "restore_statement", "set_role_statement",
      "show_statement", "system_statement", "undrop_statement", "use_statement"},
    attach_statement |-> {"_attach_target"},
    detach_statement |-> {"_attach_target"},
    _attach_target |-> {"_if_exists", "object_reference", "on_cluster"},
    join |-> {"_column_list", "_expression", "join", "relation"},
    binary_expression |-> {"_expression", "distinct_from", "global_in", "global_not_in", "is_not", "list",
      "not_distinct_from", "not_ilike", "not_in", "not_rlike", "op_other", "subquery"},
    term |-> {"_alias", "_expression", "all_fields", "all_fields_transform"},
    all_fields_transform |-> {"_column_transformer", "object_reference"},
    _column_transformer |-> {"_expression", "identifier"} ])

ch_type_rules == Unit(
  NoWords,
  [ map_type |-> {"_type"},
    tuple_type |-> {"tuple_type_field"},
    tuple_type_field |-> {"_type", "identifier"},
    nested_type |-> {"nested_type_field"},
    nested_type_field |-> {"_type", "identifier"},
    lowcardinality_type |-> {"_type"},
    nullable_type |-> {"_type"},
    fixedstring_type |-> {"_natural_number"},
    datetime_type |-> {"_literal_string", "_natural_number"},
    array_type |-> {"_type"},
    _type |-> {"array_type", "bigint", "binary", "bit", "char", "datetime_type", "decimal", "double",
      "enum", "fixedstring_type", "float", "int", "lowcardinality_type", "map_type", "nchar", "nested_type",
      "nullable_type", "numeric", "nvarchar", "object_reference", "smallint", "time", "timestamp",
      "tuple_type", "varbinary", "varchar"} ])

ch_select_rules == Unit(
  NoWords,
  [ prewhere |-> {"_expression"},
    array_join |-> {"array_join_item"},
    array_join_item |-> {"_expression", "identifier"},
    sample_clause |-> {"_sample_ratio"},
    _sample_ratio |-> {"literal"},
    qualify |-> {"_expression"},
    into_outfile_clause |-> {"_literal_string"},
    format_clause |-> {"identifier"},
    settings_clause |-> {"setting_item"},
    setting_item |-> {"identifier", "literal"},
    relation |-> {"_alias", "_column_list", "invocation", "object_reference", "sample_clause", "subquery",
      "tablesample", "values"},
    from |-> {"array_join", "cross_join", "format_clause", "group_by", "having", "into_outfile_clause",
      "join", "lateral_cross_join", "lateral_join", "limit", "order_by", "prewhere", "qualify", "relation",
      "settings_clause", "where", "window_clause"},
    order_target |-> {"_expression", "direction", "with_fill"},
    with_fill |-> {"_expression"},
    group_by |-> {"_expression", "cube_clause", "grouping_sets_clause", "rollup_clause"},
    limit |-> {"limit_by", "literal", "offset"},
    limit_by |-> {"_expression"} ])

ch_create_rules == Unit(
  NoWords,
  [ _column_constraint |-> {"_check_constraint", "_column_comment", "_default_expression", "_expression",
      "_not_null", "_primary_key", "codec_clause"},
    codec_clause |-> {"identifier", "invocation"},
    _create_statement |-> {"_create_statement", "create_database", "create_dictionary", "create_function",
      "create_index", "create_live_view", "create_materialized_view", "create_procedure", "create_role",
      "create_schema", "create_sequence", "create_table", "create_trigger", "create_type", "create_view"},
    create_table |-> {"_if_not_exists", "_table_clause", "_temporary", "column_definitions", "create_query",
      "engine_clause", "object_reference", "on_cluster"},
    create_database |-> {"_if_not_exists", "_literal_string", "engine_clause", "identifier", "on_cluster",
      "settings_clause"},
    engine_clause |-> {"identifier", "invocation"},
    _table_clause |-> {"order_by", "partition_by", "primary_key_clause", "sample_by_clause",
      "settings_clause", "ttl_clause"},
    primary_key_clause |-> {"_expression", "list"},
    sample_by_clause |-> {"_expression"},
    ttl_clause |-> {"ttl_item"},
    ttl_item |-> {"_expression", "_literal_string"},
    on_cluster |-> {"_literal_string", "identifier"},
    create_materialized_view |-> {"_if_not_exists", "_or_replace", "create_query", "engine_clause",
      "object_reference", "on_cluster"},
    create_live_view |-> {"_if_not_exists", "_or_replace", "create_query", "object_reference", "on_cluster"},
    create_dictionary |-> {"_dictionary_clause", "_if_not_exists", "_or_replace", "column_definitions",
      "object_reference", "on_cluster"},
    _dictionary_clause |-> {"_dictionary_arg", "_dictionary_lifetime", "identifier"},
    _dictionary_arg |-> {"_dictionary_arg", "_literal_string", "identifier", "literal"},
    _dictionary_lifetime |-> {"_natural_number"} ])

ch_system_rules == Unit(
  NoWords,
  [ show_statement |-> {"_literal_string", "object_reference"},
    system_statement |-> {"_system_command", "on_cluster"},
    _system_command |-> {"identifier", "object_reference"} ])

ch_mutation_rules == Unit(
  NoWords,
  Tokens({"partition_id"}) @@
  [ _alter_specifications |-> {"add_column", "add_constraint", "alter_column", "alter_delete",
      "alter_index_spec", "alter_partition", "alter_update", "change_column", "change_ownership",
      "drop_column", "drop_constraint", "identifier", "modify_column", "rename_column", "rename_object",
      "set_schema", "setting_item"},
    alter_index_spec |-> {"_expression", "_natural_number", "identifier", "in_partition_clause",
      "invocation"},
    alter_update |-> {"assignment", "in_partition_clause", "where"},
    alter_delete |-> {"in_partition_clause", "where"},
    in_partition_clause |-> {"_expression"},
    alter_partition |-> {"_expression", "_literal_string"},
    exchange_tables_statement |-> {"object_reference", "on_cluster"},
    optimize_statement |-> {"_expression", "literal", "object_reference", "on_cluster", "partition_selector"},
    partition_selector |-> {"_expression", "partition_id"} ])

ch_access_control_rules == Unit(
  NoWords,
  [ kill_query_statement |-> {"where"},
    kill_mutation_statement |-> {"where"},
    create_user_statement |-> {"_if_not_exists", "_literal_string", "ch_settings_clause", "identifier"},
    alter_user_statement |-> {"identifier"},
    create_role_statement |-> {"_ch_setting", "_if_not_exists", "_or_replace", "identifier", "on_cluster"},
    _ch_setting |-> {"_expression", "identifier", "literal"},
    ch_grant_statement |-> {"identifier"},
    ch_revoke_statement |-> {"identifier"},
    create_quota_statement |-> {"_integer", "identifier"},
    create_row_policy_statement |-> {"_expression", "_if_not_exists", "identifier", "object_reference"},
    create_settings_profile_statement |-> {"_ch_setting", "_if_not_exists", "_or_replace", "identifier",
      "on_cluster"},
    ch_settings_clause |-> {"_expression", "identifier"},
    backup_statement |-> {"_backup_destination", "_backup_target", "ch_settings_clause", "on_cluster"},
    restore_statement |-> {"_backup_destination", "_backup_target", "ch_settings_clause", "on_cluster"},
    _backup_target |-> {"object_reference"},
    _backup_destination |-> {"_literal_string", "invocation"} ])

ch_admin_rules == Unit(
  NoWords,
  [ check_statement |-> {"_expression", "ch_check_privilege", "object_reference"},
    ch_check_privilege |-> {"identifier"},
    describe_statement |-> {"_dml_read", "object_reference"},
    exists_statement |-> {"object_reference"},
    move_access_statement |-> {"identifier", "object_reference"},
    set_role_statement |-> {"_role_selection", "object_reference"},
    _role_selection |-> {"object_reference"},
    undrop_statement |-> {"_literal_string", "object_reference", "on_cluster"},
    named_collection_statement |-> {"_if_exists", "_if_not_exists", "named_collection_option",
      "object_reference", "on_cluster"},
    named_collection_option |-> {"identifier", "literal"},
    masking_policy_statement |-> {"_if_exists", "_if_not_exists", "_or_replace", "_role_selection",
      "assignment_list", "object_reference", "where"} ])

rules_3 == Unit(
  StrongWords({"maxvalue", "minvalue", "rows"}),
  NoRules)

layers == <<Inline(rules_1), Copy(dialect_transaction_rules), Copy(dialect_alter_rules),
    Copy(dialect_legacy_rules), Inline(rules_2), Own(ch_type_rules), Own(ch_select_rules),
    Own(ch_create_rules), Own(ch_system_rules), Own(ch_mutation_rules), Own(ch_access_control_rules),
    Own(ch_admin_rules), Inline(rules_3)>>

conflicts == {{"object_reference", "_qualified_field"}, {"field", "_qualified_field"},
  {"_column", "_qualified_field"}, {"object_reference"},
  {"between_expression", "binary_expression", "like_expression"},
  {"transaction", "start_transaction_statement"}, {"transaction", "commit_statement"},
  {"transaction", "rollback_statement"}, {"_commit", "commit_statement"},
  {"_rollback", "rollback_statement"}, {"from"}, {"all_fields_transform", "all_fields"},
  {"all_fields_transform"}, {"_qualified_field", "_column_transformer"}, {"create_function"},
  {"list", "grouping_set"}, {"list", "rollup_element"}, {"list", "cube_element"},
  {"binary_expression", "assignment"}, {"create_user_statement", "create_role"},
  {"alter_user_statement", "alter_role"}, {"alter_user_statement", "object_reference"},
  {"create_role_statement", "create_role"}, {"ch_grant_statement", "grant_statement"},
  {"ch_revoke_statement", "revoke_statement"}}
==============================================================================
