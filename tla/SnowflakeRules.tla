-------------------------- MODULE SnowflakeRules ---------------------------
(***************************************************************************)
(* snowflake/grammar.js and the rule files it spreads: what the grammar    *)
(* adds to the rules of base and what it overrides, one unit per object of *)
(* rules, and the layers in the order they are spread.                     *)
(***************************************************************************)
EXTENDS GrammarHelpers

Base == INSTANCE BaseRules
Copied == INSTANCE CopiedRules

dialect_transaction_rules == Unit(
  NoWords,
  Tokens({"commit_statement", "rollback_statement"}) @@
  [ _transaction_statement |-> {"begin_statement", "commit_statement", "rollback_statement",
      "start_transaction_statement"},
    begin_statement |-> {"identifier"},
    start_transaction_statement |-> {"identifier"} ])

dialect_alter_rules == Copied!dialect_alter_rules

misc_rules == Unit(
  NoWords,
  [ comment_statement |-> {"_comment_target", "_if_exists", "_literal_string"},
    _comment_target |-> {"_qualified_field", "cast", "function_arguments", "identifier", "object_reference"},
    _show_tables |-> {"_expression", "_qualified_field"},
    reset_statement |-> {"object_reference"},
    use_statement |-> {"object_reference"},
    index_hint |-> {"identifier"},
    returning |-> {"select_expression"} ])

legacy_words == Copied!legacy_words

create_rules_own_1 == Unit(
  NoWords,
  [ _create_statement |-> {"_create_statement", "create_database", "create_function", "create_procedure",
      "create_role", "create_schema", "create_sequence", "create_table", "create_trigger", "create_type",
      "create_view"},
    create_table |-> {"_if_not_exists", "_temporary", "column_definitions", "create_query",
      "object_reference"},
    storage_parameters |-> {"array", "identifier", "literal"},
    table_option |-> {"_integer", "_literal_string", "identifier"},
    create_query |-> {"_dml_read"},
    create_view |-> {"_check_option", "_if_not_exists", "_or_replace", "_temporary", "create_query",
      "identifier", "object_reference"},
    create_materialized_view |-> {"_if_not_exists", "_or_replace", "create_query", "object_reference"},
    _operator_class |-> {"identifier", "term"},
    composite_field |-> {"_index_field"},
    _index_field |-> {"_column", "_expression", "_operator_class", "direction", "identifier", "invocation"},
    index_fields |-> {"_index_field", "composite_field"},
    tablespace |-> {"identifier"},
    covering_columns |-> {"index_fields"},
    create_index |-> {"_column", "_if_not_exists", "_or_replace", "covering_columns", "identifier",
      "index_fields", "object_reference", "tablespace", "where"} ])

create_rules_own_2 == Copied!create_rules_own_2

create_rules == Spread(<<create_rules_own_1, Base!create_function_rules, Base!create_procedure_rules,
    create_rules_own_2>>)

drop_rules == Unit(
  NoWords,
  [ _drop_statement |-> {"drop_database", "drop_function", "drop_index", "drop_materialized_view",
      "drop_procedure", "drop_role", "drop_schema", "drop_sequence", "drop_table", "drop_type", "drop_view"},
    drop_table |-> {"_drop_behavior", "_if_exists", "object_reference"},
    drop_view |-> {"_drop_behavior", "_if_exists", "object_reference"},
    drop_materialized_view |-> {"_drop_behavior", "_if_exists", "object_reference"},
    drop_schema |-> {"_drop_behavior", "_if_exists", "identifier"},
    drop_database |-> {"_if_exists", "identifier"},
    drop_role |-> {"_if_exists", "identifier"},
    drop_type |-> {"_drop_behavior", "_if_exists", "object_reference"},
    drop_sequence |-> {"_drop_behavior", "_if_exists", "object_reference"},
    drop_index |-> {"_drop_behavior", "_if_exists", "object_reference"},
    drop_function |-> {"_drop_behavior", "_if_exists", "object_reference"},
    drop_procedure |-> {"_drop_behavior", "_if_exists", "object_reference"} ])

rename_rules == Copied!rename_rules
refresh_rules == Copied!refresh_rules
truncate_rules == Copied!truncate_rules
insert_rules == Copied!insert_rules
update_rules == Copied!update_rules
delete_rules == Copied!delete_rules
merge_rules == Copied!merge_rules
legacy_dispatch == Copied!legacy_dispatch

dialect_legacy_rules == Spread(<<misc_rules, legacy_words, create_rules, drop_rules, rename_rules,
    refresh_rules, truncate_rules, insert_rules, update_rules, delete_rules, merge_rules, legacy_dispatch>>)

rules_1 == Unit(
  StrongWords({"storage", "api", "notification", "enabled", "connect", "prior", "nocycle", "ilike", "at",
    "one", "per", "past", "next", "match_recognize", "measures", "define", "skip", "flatten", "let",
    "raise", "exception", "task", "stream", "dynamic", "warehouse", "clone", "optimization", "search",
    "recluster", "global", "transient", "tags", "tag", "template", "autoincrement", "identity", "noorder",
    "projection", "aggregation", "entity", "allowed", "keys", "lifecycle", "contact", "try_cast",
    "failover", "edition", "feature", "virtual", "enforced", "rely", "norely", "validate", "novalidate",
    "undrop", "warehouse_size", "max_cluster_count", "min_cluster_count", "scaling_policy", "standard",
    "economy", "auto_suspend", "auto_resume", "suspend", "resume", "abort", "queries", "schedule", "output",
    "caller", "memoizable", "aggregate", "allowed_values", "managed", "alert", "suspended", "condition",
    "frozen", "authentication", "application", "package", "compute", "pool", "cortex", "service", "dbt",
    "project", "dcm", "event", "volume", "hybrid", "iceberg", "mcp", "server", "model", "network", "rule",
    "notebook", "resource", "monitor", "semantic", "share", "streamlit", "alerts", "applications", "pools",
    "connections", "services", "projects", "volumes", "accounts", "servers", "rules", "objects", "regions",
    "replication", "monitors", "shares", "streamlits", "variables", "workspaces", "imported", "metric",
    "identifier", "result", "future", "deployments", "history", "name", "snapshot", "ownership", "operate",
    "audit", "evolve", "attach", "apply", "packages", "bind", "endpoint", "import", "manage", "execution",
    "override", "restrictions", "reference", "purchase", "exchange", "listing", "backup", "references",
    "error_table", "tabular", "text", "top", "sample", "block", "fields", "repeatable", "seed",
    "append_only", "changes", "information", "directed", "asof", "match_condition", "minus", "interactive",
    "require", "backfill", "enroll", "mfa", "method", "delegated", "authorizations", "final", "running",
    "empty", "matches", "omit", "unmatched", "permute", "resultset", "async", "elseif", "loop", "while",
    "reverse", "repeat", "break", "exit", "iterate", "open", "close", "await", "cancel", "other", "dry_run",
    "retry", "graph", "run", "config", "subpath", "connect_by_root", "metrics", "dimensions", "facts",
    "semantic_view", "body", "movement", "indexing", "storage_location", "notify", "triggers", "pull",
    "person", "suspend_immediate", "respect", "replica", "insufficient", "retention", "internal", "simple",
    "partial", "ls", "class", "specification", "workspace", "rm", "secure", "masking", "target_lag",
    "access", "secondary", "roles", "source", "qualify", "pivot", "unpivot", "string", "rlike", "copy",
    "policy", "declare", "cursor", "match", "stage", "url", "credentials", "file_format", "copy_options",
    "directory", "encryption", "pattern", "list", "call", "overwrite", "location", "cluster", "clustering",
    "show", "terse", "grants", "users", "pipes", "integrations", "transactions", "locks", "starts",
    "account", "describe", "desc", "file", "format", "formats", "pipe", "integration", "parameters",
    "views", "columns", "schemas", "databases", "warehouses", "stages", "streams", "tasks", "functions",
    "procedures", "sequences", "policies", "put", "get", "remove", "files", "unset", "swap", "purge"}),
  Tokens({"pipe_operator"}) @@
  [ program |-> {"statement"},
    statement |-> {"_statement_body", "pipe_operator"},
    _statement_body |-> {"_ddl_statement", "_dml_read", "_dml_write", "_transaction_statement",
      "assignment_statement", "async_statement", "await_statement", "break_statement", "call_statement",
      "call_with_anonymous_procedure", "cancel_statement", "case_statement", "close_statement",
      "compound_statement", "continue_statement", "fetch_statement", "for_statement", "if_statement",
      "let_statement", "loop_statement", "null_statement", "open_statement", "raise_statement",
      "repeat_statement", "return_statement", "undrop_statement", "unset_statement", "while_statement"},
    _ddl_statement |-> {"_alter_statement", "_create_statement", "_drop_statement", "_merge_statement",
      "_refresh_statement", "_rename_statement", "comment_statement", "copy_files_statement", "copy_into",
      "describe_statement", "execute_alert", "execute_code_bundle", "execute_dbt_project",
      "execute_dcm_project", "execute_experiment", "execute_immediate_statement", "execute_job_service",
      "execute_notebook", "execute_notebook_project", "execute_task", "get_statement", "grant_statement",
      "list_stage_statement", "put_statement", "remove_statement", "revoke_statement", "set_statement",
      "show_statement", "use_secondary_roles", "use_statement"},
    _select_statement |-> {"from", "locking_clause", "select", "select_expression", "where"},
    locking_clause |-> {"_integer"},
    _drop_statement |-> {"drop_index", "drop_materialized_view", "drop_object", "drop_sequence",
      "drop_table", "drop_type", "drop_view"},
    _create_statement |-> {"_create_statement", "create_account_object", "create_ai_function",
      "create_alert", "create_database", "create_database_role", "create_dataset", "create_dynamic_table",
      "create_event_table", "create_external_table", "create_file_format_statement", "create_function",
      "create_index", "create_integration", "create_interactive_table", "create_masking_policy",
      "create_materialized_view", "create_network_policy", "create_network_rule", "create_pipe",
      "create_platform_object", "create_procedure", "create_replication_group", "create_role",
      "create_row_access_policy", "create_schema", "create_semantic_view", "create_sequence",
      "create_share", "create_stage", "create_stream", "create_table", "create_tag", "create_task",
      "create_type", "create_user", "create_view", "create_warehouse_statement"},
    create_integration |-> {"_if_not_exists", "_or_replace_or_alter", "identifier", "integration_option"},
    integration_option |-> {"identifier", "integration_option_group", "literal", "object_reference"},
    integration_option_group |-> {"identifier", "integration_option", "literal"},
    _alter_statement |-> {"alter_account", "alter_account_object", "alter_alert", "alter_application",
      "alter_application_package", "alter_database", "alter_dynamic_table", "alter_external_table",
      "alter_file_format", "alter_iceberg_table", "alter_index", "alter_integration",
      "alter_masking_policy", "alter_materialized_view", "alter_network_policy", "alter_organization",
      "alter_pipe", "alter_platform_object", "alter_role", "alter_routine", "alter_row_access_policy",
      "alter_schema", "alter_semantic_view", "alter_sequence", "alter_session", "alter_share",
      "alter_stage", "alter_stream", "alter_table", "alter_table_cluster", "alter_tag", "alter_task",
      "alter_type", "alter_user", "alter_view", "alter_warehouse"},
    _insert_statement |-> {"insert", "multi_table_insert", "returning"},
    multi_table_insert |-> {"_dml_read", "_expression", "insert_into_clause"},
    insert_into_clause |-> {"_expression", "identifier", "object_reference"},
    _update_statement |-> {"returning", "update"},
    _delete_statement |-> {"_delete_from", "delete", "returning"},
    insert |-> {"_insert_values", "_set_values", "identifier", "literal", "object_reference"},
    _alter_specifications |-> {"add_column", "add_constraint", "alter_column", "alter_constraint",
      "change_column", "change_ownership", "drop_column", "drop_constraint", "identifier",
      "modify_constraint", "rename_column", "rename_constraint", "rename_object", "set_schema",
      "snowflake_property", "snowflake_table_action"},
    from_values |-> {"_alias", "_column_list", "values"},
    from |-> {"asof_join", "connect_by_clause", "cross_join", "from_values", "group_by", "having",
      "index_hint", "join", "lateral_cross_join", "lateral_join", "limit", "offset_fetch_clause",
      "order_by", "qualify", "relation", "where", "window_clause"},
    unary_expression |-> {"_expression", "_signed_operand", "bang", "op_unary_other"},
    term |-> {"_alias", "_expression", "all_fields", "all_fields_transform"},
    all_fields_transform |-> {"_exclude_columns", "_ilike_pattern", "_rename_columns", "object_reference"},
    _ilike_pattern |-> {"_literal_string"},
    _exclude_columns |-> {"identifier"},
    _rename_columns |-> {"identifier"},
    group_by |-> {"_expression", "cube_clause", "grouping_sets_clause", "rollup_clause"},
    relation |-> {"_alias", "_column_list", "changes_clause", "invocation", "joined_relation",
      "match_recognize_clause", "named_argument", "object_reference", "parameter", "pivot_clause",
      "resample_clause", "semantic_view_clause", "stage_ref", "subquery", "tablesample",
      "time_travel_clause", "unpivot_clause", "values"},
    _expression |-> {"_colon_cast", "_qualified_field", "array", "array_constant", "between_expression",
      "binary_expression", "bind_variable", "case", "cast", "collate_expression", "connect_by_root",
      "date_function", "exists", "interval", "invocation", "lambda_expression", "like_expression", "list",
      "literal", "object_constant", "outer_join_marker", "parameter", "parameterized_literal",
      "parenthesized_expression", "path_access", "position_expression", "spread_expression", "subquery",
      "subscript", "typed_temporal_literal", "unary_expression", "variant_access", "window_function"},
    invocation |-> {"_expression", "_literal_string", "filter_expression", "identifier", "limit",
      "object_reference", "order_by", "term", "within_group"},
    _colon_cast |-> {"_expression", "_type"} ])

qualify_rules == Unit(
  NoWords,
  [ qualify |-> {"_expression"} ])

pivot_rules == Unit(
  NoWords,
  [ pivot_clause |-> {"identifier", "invocation", "pivot_in_any", "pivot_in_list"},
    pivot_in_list |-> {"_integer", "_literal_string"},
    pivot_in_any |-> {"order_by"},
    unpivot_clause |-> {"identifier"} ])

match_rec_rules == Unit(
  NoWords,
  Tokens({"rows_per_match"}) @@
  [ match_recognize_clause |-> {"after_match_skip", "define_clause", "measures_clause", "order_by",
      "partition_by", "pattern_clause", "rows_per_match"},
    measures_clause |-> {"measure_item"},
    measure_item |-> {"_expression", "identifier"},
    after_match_skip |-> {"identifier"},
    pattern_clause |-> {"_pattern_alternation"},
    _pattern_alternation |-> {"_pattern_sequence"},
    _pattern_sequence |-> {"pattern_term"},
    pattern_term |-> {"_pattern_alternation", "identifier", "pattern_quantifier"},
    pattern_quantifier |-> {"_natural_number"},
    define_clause |-> {"define_item"},
    define_item |-> {"_expression", "identifier"} ])

time_travel_rules == Unit(
  NoWords,
  [ time_travel_clause |-> {"time_travel_spec"},
    time_travel_spec |-> {"_expression"} ])

variant_rules == Unit(
  NoWords,
  [ variant_access |-> {"_expression", "_qualified_field", "identifier", "invocation",
      "parenthesized_expression"} ])

scripting_rules == Unit(
  NoWords,
  Tokens({"bind_position", "null_statement"}) @@
  [ bind_variable |-> {"bind_position", "identifier"},
    compound_statement |-> {"declare_section", "exception_clause", "identifier", "statement"},
    declare_section |-> {"declaration"},
    declaration |-> {"_dml_read", "_expression", "_resultset_source", "_type", "compound_statement",
      "identifier", "routine_arguments", "routine_returns"},
    _resultset_source |-> {"_dml_read", "execute_immediate_statement"},
    assignment_statement |-> {"_dml_read", "_expression", "execute_immediate_statement", "identifier"},
    let_statement |-> {"_dml_read", "_expression", "_resultset_source", "_type", "identifier"},
    if_statement |-> {"_expression", "statement"},
    case_statement |-> {"_expression", "statement"},
    while_statement |-> {"_expression", "identifier", "statement"},
    for_statement |-> {"_expression", "identifier", "statement"},
    repeat_statement |-> {"_expression", "identifier", "statement"},
    loop_statement |-> {"identifier", "statement"},
    break_statement |-> {"identifier"},
    continue_statement |-> {"identifier"},
    raise_statement |-> {"identifier"},
    return_statement |-> {"_expression"},
    open_statement |-> {"_expression", "identifier"},
    fetch_statement |-> {"bind_variable", "identifier"},
    close_statement |-> {"identifier"},
    async_statement |-> {"statement"},
    await_statement |-> {"identifier"},
    cancel_statement |-> {"identifier"},
    exception_clause |-> {"when_handler"},
    when_handler |-> {"identifier", "statement"} ])

execute_rules == Unit(
  NoWords,
  [ execute_task |-> {"object_reference"},
    execute_experiment |-> {"object_reference"},
    execute_alert |-> {"object_reference"},
    execute_dcm_project |-> {"_dcm_configuration", "_dcm_from", "_if_exists", "_integer", "_literal_string",
      "identifier", "object_reference"},
    _dcm_configuration |-> {"identifier", "named_argument"},
    _dcm_from |-> {"_literal_string"},
    execute_job_service |-> {"_dml_read", "_literal_string", "named_argument", "object_reference",
      "snowflake_property", "stage_ref"},
    execute_notebook |-> {"_literal_string", "object_reference"},
    execute_notebook_project |-> {"object_reference", "snowflake_property"},
    execute_code_bundle |-> {"_literal_string", "object_reference", "snowflake_property"} ])

object_keyword_rules == Unit(
  StrongWords({"agent", "agents", "approval", "approved", "artifact", "available", "backups", "base",
    "branches", "bundle", "bundles", "channel", "channels", "classes", "code", "configuration",
    "configurations", "connector", "connectors", "consumer", "consumers", "contacts", "containers",
    "content", "contracts", "dataset", "datasets", "definitions", "delta", "deploy", "deployment",
    "directives", "draft", "endpoints", "entities", "experiment", "experiments", "families", "gateway",
    "git", "grace_period_in_days", "image", "images", "indexes", "inference", "instance", "instances",
    "job", "jobs", "listings", "maintenance", "methods", "models", "multi", "nodes", "notebooks", "offers",
    "online", "openflow", "organization", "output_path", "pairs", "party", "pats", "plan", "plane", "plans",
    "postgres", "preview", "pricing", "privacy", "profile", "profiles", "programmatic", "published",
    "repositories", "repository", "revision", "root", "routing", "rss", "runs", "runtime", "runtimes",
    "scope", "scopes", "secret", "secrets", "shared", "snapshots", "specifications", "telemetry", "test",
    "tokens", "types", "version", "versions", "workload", "ai", "attributes", "definition", "fork", "lock",
    "private", "provisioned", "relationships", "specification_template", "synonyms", "throughput", "vector",
    "versioned", "approve", "decline", "directive", "immediately", "materialization", "pair", "pat",
    "patch", "publish", "rotate", "terminate", "token", "upgrade", "visibility", "convert", "discovery",
    "linked_catalog", "inherited", "scoped", "archive", "excluding", "expectation", "resample",
    "metadata_columns", "gateways", "exchange"}),
  NoRules)

create_platform_rules == Unit(
  NoWords,
  Tokens({"_platform_kind"}) @@
  [ create_platform_object |-> {"_if_not_exists", "_or_replace_or_alter", "_platform_clause",
      "_platform_kind", "object_reference"},
    create_dataset |-> {"_if_not_exists", "_or_replace", "object_reference"},
    _platform_clause |-> {"_comment_property", "_dml_read", "_literal_string", "_platform_source",
      "_policy_signature", "_snowflake_object_kind", "clone_clause", "contact_clause", "copy_list",
      "identifier", "named_argument", "object_reference", "snowflake_property", "tag_clause"},
    _platform_source |-> {"_integer", "_literal_string", "identifier", "object_reference", "stage_ref"},
    _policy_signature |-> {"_expression", "_type", "identifier"},
    create_replication_group |-> {"_group_clause", "_if_not_exists", "_or_replace", "object_reference"},
    _group_clause |-> {"_group_item", "identifier", "tag_clause"},
    _group_item |-> {"_literal_string", "object_reference"},
    create_ai_function |-> {"_comment_property", "_if_not_exists", "_literal_string",
      "_or_replace_or_alter", "_type", "identifier", "object_reference", "routine_argument"},
    create_interactive_table |-> {"_comment_property", "_if_not_exists", "_or_replace_or_alter",
      "cluster_by_clause", "column_definitions", "create_query", "object_reference", "snowflake_property",
      "tag_clause"},
    create_type |-> {"_comment_property", "_if_not_exists", "_or_replace_or_alter", "_type",
      "object_reference"},
    create_semantic_view |-> {"_comment_property", "_if_not_exists", "_or_replace_or_alter",
      "object_reference", "semantic_item", "semantic_relationship", "semantic_table", "snowflake_property"},
    semantic_table |-> {"_comment_property", "_semantic_synonyms", "identifier", "object_reference"},
    semantic_relationship |-> {"identifier"},
    semantic_item |-> {"_comment_property", "_expression", "_semantic_synonyms", "object_reference"},
    _semantic_synonyms |-> {"_literal_string"} ])

alter_platform_rules == Unit(
  NoWords,
  Tokens({"_alter_platform_kind", "_pat", "_for_all_listings"}) @@
  [ alter_platform_object |-> {"_alter_platform_action", "_alter_platform_kind", "_if_exists",
      "object_reference"},
    _alter_platform_action |-> {"_comment_property", "_expression", "_if_exists", "_if_not_exists",
      "_literal_string", "_pat_action", "_platform_source", "_policy_signature", "_set_properties_body",
      "_set_tag", "_unset_name", "_unset_tag", "_version_clause", "_version_name", "_version_property",
      "_version_source", "identifier", "object_reference", "rename_object", "snowflake_property"},
    _version_name |-> {"_literal_string", "identifier"},
    _version_source |-> {"_dml_read", "_platform_source"},
    _version_clause |-> {"_comment_property", "identifier", "snowflake_property"},
    _version_property |-> {"_literal_string", "identifier", "snowflake_property"},
    _pat_action |-> {"_comment_property", "_if_exists", "_if_not_exists", "_pat", "_set_properties_body",
      "_unset_name", "identifier", "snowflake_property"},
    _key_pair_action |-> {"_comment_property", "_set_properties_body", "_unset_name", "identifier",
      "snowflake_property"},
    alter_type |-> {"_comment_property", "_if_exists", "object_reference", "rename_object"},
    alter_application |-> {"_if_exists", "_integer", "_literal_string", "_set_properties_body", "_set_tag",
      "_spec_property", "_unset_name", "_unset_tag", "identifier", "object_reference", "rename_object",
      "snowflake_property"},
    _spec_property |-> {"_literal_string", "object_reference", "snowflake_property"},
    alter_application_package |-> {"_if_exists", "_literal_string", "_set_properties_body", "_set_tag",
      "_unset_name", "_unset_tag", "_version_property", "copy_list", "identifier", "object_reference",
      "rename_object", "snowflake_property"},
    alter_semantic_view |-> {"_expression", "_if_exists", "_set_properties_body", "_set_tag", "_unset_name",
      "_unset_tag", "identifier", "object_reference", "rename_object", "snowflake_property"},
    alter_organization |-> {"_for_all_listings", "_set_properties_body", "_set_tag", "_unset_name",
      "_unset_tag", "object_reference"} ])

copy_rules == Unit(
  NoWords,
  Tokens({"unquoted_url", "stage_ref"}) @@
  [ copy_into |-> {"_copy_location", "_copy_source", "_dml_read", "_expression", "copy_property",
      "identifier", "object_reference"},
    _copy_location |-> {"literal", "stage_ref", "unquoted_url"},
    _copy_source |-> {"_dml_read", "literal", "stage_ref", "unquoted_url"},
    copy_property |-> {"_copy_value", "identifier"},
    _copy_value |-> {"copy_list", "literal", "object_reference"},
    copy_list |-> {"_copy_value", "copy_aliased_value", "copy_kv"},
    copy_aliased_value |-> {"literal"},
    copy_kv |-> {"_copy_value", "identifier", "literal"} ])

snowflake_create_rules == Unit(
  NoWords,
  [ create_masking_policy |-> {"_comment_property", "_expression", "_if_not_exists", "_or_replace_or_alter",
      "_type", "object_reference", "policy_param", "snowflake_property"},
    create_row_access_policy |-> {"_expression", "_if_not_exists", "_literal_string",
      "_or_replace_or_alter", "object_reference", "policy_param"},
    policy_param |-> {"_type", "identifier"},
    create_file_format_statement |-> {"_if_not_exists", "_or_replace_or_alter", "file_format_property",
      "object_reference"},
    file_format_property |-> {"identifier", "literal"},
    backup_set_clause |-> {"_literal_string", "object_reference"},
    clone_clause |-> {"object_reference", "time_travel_clause"},
    create_warehouse_statement |-> {"_if_not_exists", "_or_replace_or_alter", "object_reference",
      "warehouse_properties"},
    warehouse_properties |-> {"_expression", "_literal_string", "identifier", "snowflake_property",
      "tag_clause"},
    create_external_table |-> {"_if_not_exists", "_literal_string", "_or_replace_or_alter", "create_query",
      "external_table_column", "file_format_property", "identifier", "object_reference",
      "row_access_policy_clause", "snowflake_property", "stage_ref", "tag_clause"},
    external_table_column |-> {"_expression", "_type", "identifier"} ])

create_table_rules == Unit(
  NoWords,
  Tokens({"_constraint_property"}) @@
  [ create_table |-> {"_if_not_exists", "_or_replace_or_alter", "_snowflake_table_clause",
      "_snowflake_table_kind", "column_definitions", "create_query", "object_reference"},
    _snowflake_table_kind |-> {"_temporary"},
    index_definition |-> {"identifier"},
    iceberg_partition_clause |-> {"_expression"},
    _snowflake_table_clause |-> {"_literal_string", "aggregation_policy_clause", "backup_set_clause",
      "clone_clause", "cluster_by_clause", "contact_clause", "create_query", "iceberg_partition_clause",
      "identifier", "join_policy_clause", "object_reference", "row_access_policy_clause",
      "snowflake_property", "storage_lifecycle_policy_clause", "tag_clause", "where"},
    cluster_by_clause |-> {"_expression"},
    tag_clause |-> {"literal", "object_reference"},
    row_access_policy_clause |-> {"identifier", "object_reference"},
    aggregation_policy_clause |-> {"identifier", "object_reference"},
    join_policy_clause |-> {"identifier", "object_reference"},
    storage_lifecycle_policy_clause |-> {"identifier", "object_reference"},
    contact_clause |-> {"identifier"},
    column_definitions |-> {"_column", "column_definition", "index_definition", "table_constraint"},
    _column |-> {"_literal_string", "identifier"},
    column_definition |-> {"_column", "_column_constraint", "_type"},
    _column_constraint |-> {"_expression", "_literal_string", "_not_null", "identity_clause",
      "inline_constraint", "masking_policy_clause", "projection_policy_clause", "tag_clause"},
    identity_clause |-> {"literal"},
    masking_policy_clause |-> {"_expression", "object_reference"},
    projection_policy_clause |-> {"object_reference"},
    inline_constraint |-> {"_constraint_property", "_expression", "identifier", "object_reference"},
    table_constraint |-> {"_constraint_property", "_expression", "_literal_string", "identifier",
      "object_reference"} ])

alter_table_rules == Unit(
  NoWords,
  Tokens({"_comma_column"}) @@
  [ add_constraint |-> {"table_constraint"},
    drop_constraint |-> {"_drop_behavior", "_if_exists", "identifier"},
    alter_constraint |-> {"_constraint_property", "identifier"},
    modify_constraint |-> {"_constraint_property", "identifier"},
    rename_constraint |-> {"identifier"},
    alter_column |-> {"_column_alteration_body", "_comma_column", "column_alteration"},
    column_alteration |-> {"_column_alteration_body"},
    _column_alteration_body |-> {"_column_action", "identifier"},
    _column_action |-> {"_expression", "_literal_string", "_type", "object_reference", "tag_assignment"},
    tag_assignment |-> {"literal", "object_reference"},
    snowflake_table_action |-> {"_dmf_arguments", "_dmf_option", "_expression", "identifier",
      "object_reference", "search_optimization_method", "snowflake_property", "tag_assignment", "where"},
    _dmf_arguments |-> {"identifier", "object_reference"},
    _dmf_option |-> {"_expression", "_integer", "identifier", "snowflake_property"},
    search_optimization_method |-> {"identifier"} ])

type_rules == Unit(
  NoWords,
  Tokens({"_include_time_zone"}) @@
  [ _type |-> {"_integer", "_interval_precision", "array_size_definition", "bigint", "binary", "bit",
      "char", "decimal", "double", "enum", "float", "identifier", "int", "nchar", "numeric", "nvarchar",
      "object_reference", "smallint", "time", "timestamp", "type_argument", "varbinary", "varchar"},
    type_argument |-> {"_integer", "_type", "identifier"} ])

alter_rules == Unit(
  NoWords,
  [ alter_session |-> {"identifier", "session_parameter"},
    session_parameter |-> {"_expression", "identifier"},
    alter_warehouse_statement |-> {"_if_exists", "object_reference", "warehouse_properties"},
    alter_table_cluster |-> {"_expression", "_if_exists", "object_reference"} ])

use_rules == Unit(
  NoWords,
  [ use_statement |-> {"object_reference"},
    use_secondary_roles |-> {"identifier"} ])

stage_rules == Unit(
  NoWords,
  [ create_stage |-> {"_if_not_exists", "_literal_string", "_or_replace_or_alter", "_temporary",
      "identifier", "object_reference"},
    alter_stage |-> {"_if_exists", "_literal_string", "identifier", "object_reference"},
    drop_stage |-> {"_if_exists", "object_reference"},
    list_stage_statement |-> {"_literal_string", "stage_ref"} ])

object_statement_rules == Unit(
  NoWords,
  Tokens({"_snowflake_object_kind", "_snowflake_describe_only_kind", "_snowflake_object_kind_plural",
    "_materialized_view_kind"}) @@
  [ _snowflake_object_name |-> {"_type", "object_reference"},
    drop_object |-> {"_drop_behavior", "_if_exists", "_integer", "_snowflake_object_kind",
      "_snowflake_object_name"},
    undrop_statement |-> {"_snowflake_object_kind", "identifier", "object_reference"},
    describe_statement |-> {"_expression", "_if_exists", "_integer", "_materialized_view_kind",
      "_snowflake_describe_only_kind", "_snowflake_object_kind", "_snowflake_object_name",
      "object_reference"},
    show_statement |-> {"_integer", "_show_clause", "_show_grants_grantee", "_snowflake_object_kind",
      "_snowflake_object_kind_plural", "_snowflake_object_name", "object_reference",
      "service_role_reference"},
    _show_grants_grantee |-> {"object_reference", "service_role_reference"},
    service_role_reference |-> {"identifier", "object_reference"},
    _show_clause |-> {"_integer", "_literal_string", "_show_for_target", "_show_on_target",
      "_show_privilege", "_show_scope", "identifier", "object_reference"},
    _show_privilege |-> {"identifier"},
    _show_on_target |-> {"object_reference"},
    _show_for_target |-> {"object_reference"},
    _show_scope |-> {"object_reference"} ])

grant_rules == Unit(
  NoWords,
  Tokens({"copy_grants_clause", "_grant_role_kind"}) @@
  [ grant_statement |-> {"_grant_privileges", "_grant_role_kind", "_grant_target", "_grantee",
      "_inherited_target", "copy_grants_clause", "object_reference", "service_role_reference"},
    revoke_statement |-> {"_grant_privileges", "_grant_role_kind", "_grant_target", "_grantee",
      "_inherited_target", "object_reference", "service_role_reference"},
    _grant_privileges |-> {"_grant_privilege"},
    _grant_privilege |-> {"object_reference"},
    _grant_target |-> {"_snowflake_object_kind", "_snowflake_object_kind_plural", "_type",
      "object_reference"},
    _inherited_target |-> {"_snowflake_object_kind_plural", "object_reference"},
    _grantee |-> {"identifier", "object_reference"} ])

query_extra_rules == Unit(
  NoWords,
  Tokens({"parameter"}) @@
  [ _qualified_field |-> {"identifier", "object_reference", "parameter"},
    _position_operand |-> {"_qualified_field", "cast", "invocation", "literal", "parenthesized_expression",
      "trim_expression"},
    resample_clause |-> {"_expression", "partition_by", "term"},
    partition_by |-> {"_expression"},
    select |-> {"_natural_number", "select_expression"},
    tablesample |-> {"_natural_number"},
    changes_clause |-> {"time_travel_spec"},
    time_travel_spec |-> {"_expression"},
    pivot_clause |-> {"_alias", "_dml_read", "_expression", "identifier", "invocation", "pivot_in_any",
      "pivot_in_list"},
    pivot_in_list |-> {"_alias", "_integer", "_literal_string"},
    pivot_in_any |-> {"order_by"},
    unpivot_clause |-> {"_alias", "identifier"},
    join |-> {"_column_list", "_expression", "identifier", "relation"},
    joined_relation |-> {"cross_join", "join", "relation"},
    cross_join |-> {"relation"},
    asof_join |-> {"_column_list", "_expression", "relation"},
    _delete_from |-> {"_alias", "object_reference", "relation", "where"},
    set_statement |-> {"_expression", "identifier"},
    unset_statement |-> {"identifier"},
    _truncate_statement |-> {"_if_exists", "object_reference"},
    all_fields_transform |-> {"_exclude_columns", "_ilike_pattern", "_rename_columns", "_replace_columns",
      "object_reference"},
    _replace_columns |-> {"_expression", "identifier"},
    set_operation |-> {"_select_statement", "limit", "offset_fetch_clause", "order_by"},
    outer_join_marker |-> {"_qualified_field"},
    connect_by_root |-> {"_expression"},
    connect_by_clause |-> {"_expression"},
    offset_fetch_clause |-> {"_snowflake_fetch", "literal"},
    _snowflake_fetch |-> {"literal"},
    order_by |-> {"direction", "order_target"} ])

create_object_rules == Unit(
  NoWords,
  [ _clone_with_grants |-> {"clone_clause"},
    _comment_property |-> {"_literal_string"},
    create_stream |-> {"_clone_with_grants", "_comment_property", "_if_not_exists", "_or_replace_or_alter",
      "object_reference", "snowflake_property", "tag_clause", "time_travel_clause"},
    create_task |-> {"_clone_with_grants", "_comment_property", "_expression", "_if_not_exists",
      "_or_replace_or_alter", "contact_clause", "identifier", "object_reference", "snowflake_property",
      "tag_clause", "task_body"},
    task_body |-> {"_delete_statement", "_dml_read", "_insert_statement", "_merge_statement",
      "_update_statement", "call_statement", "compound_statement"},
    create_dynamic_table |-> {"_clone_with_grants", "_comment_property", "_dml_write", "_expression",
      "_if_not_exists", "_or_replace_or_alter", "aggregation_policy_clause", "backup_set_clause",
      "cluster_by_clause", "column_definitions", "contact_clause", "create_query", "object_reference",
      "row_access_policy_clause", "snowflake_property", "tag_clause", "time_travel_spec"},
    create_materialized_view |-> {"_comment_property", "_if_not_exists", "_or_replace_or_alter",
      "aggregation_policy_clause", "cluster_by_clause", "contact_clause", "create_query",
      "object_reference", "row_access_policy_clause", "snowflake_property", "tag_clause", "view_column"},
    create_alert |-> {"_clone_with_grants", "_comment_property", "_dml_read", "_if_not_exists",
      "_or_replace_or_alter", "object_reference", "snowflake_property", "tag_clause", "task_body"},
    create_pipe |-> {"_comment_property", "_if_not_exists", "_or_replace_or_alter", "copy_into",
      "object_reference", "snowflake_property", "tag_clause"},
    create_user |-> {"_comment_property", "_if_not_exists", "_or_replace_or_alter", "object_reference",
      "snowflake_property", "tag_clause"},
    create_network_policy |-> {"_comment_property", "_if_not_exists", "_or_replace_or_alter",
      "object_reference", "snowflake_property"},
    create_network_rule |-> {"_comment_property", "_if_not_exists", "_or_replace_or_alter",
      "object_reference", "snowflake_property"},
    create_share |-> {"_comment_property", "_if_not_exists", "_or_replace_or_alter", "object_reference",
      "snowflake_property"},
    create_database_role |-> {"_clone_with_grants", "_comment_property", "_if_not_exists",
      "_or_replace_or_alter", "object_reference", "tag_clause"},
    create_sequence |-> {"_clone_with_grants", "_comment_property", "_if_not_exists", "_integer",
      "_or_replace_or_alter", "object_reference", "tag_clause"},
    create_event_table |-> {"_clone_with_grants", "_comment_property", "_if_not_exists",
      "_or_replace_or_alter", "cluster_by_clause", "object_reference", "row_access_policy_clause",
      "snowflake_property", "tag_clause"},
    create_file_format_statement |-> {"_if_not_exists", "_or_replace_or_alter", "_temporary",
      "clone_clause", "file_format_property", "object_reference"},
    create_stage |-> {"_comment_property", "_if_not_exists", "_or_replace_or_alter", "_temporary",
      "clone_clause", "object_reference", "snowflake_property", "tag_clause"},
    create_account_object |-> {"_if_not_exists", "_natural_number", "_or_replace_or_alter",
      "_platform_clause", "object_reference"} ])

misc_statement_rules == Unit(
  NoWords,
  [ execute_immediate_statement |-> {"_expression", "_literal_string", "named_argument", "stage_ref"},
    execute_dbt_project |-> {"_if_exists", "object_reference", "snowflake_property"},
    execute_task |-> {"_literal_string", "object_reference"},
    call_statement |-> {"_expression", "bind_variable", "call_subquery_argument", "named_argument",
      "object_reference"},
    call_subquery_argument |-> {"from", "select"},
    named_argument |-> {"_expression", "identifier"},
    call_with_anonymous_procedure |-> {"anonymous_procedure", "call_statement", "cte"},
    anonymous_procedure |-> {"_snowflake_routine_clause", "identifier", "routine_arguments", "routine_body",
      "routine_returns"},
    when_clause |-> {"_expression", "_insert_values", "_set_values"},
    semantic_view_clause |-> {"_alias", "_expression", "object_reference"} ])

expression_extra_rules == Unit(
  NoWords,
  Tokens({"comment"}) @@
  [ array_constant |-> {"_expression"},
    object_constant |-> {"_expression", "all_fields", "all_fields_transform"},
    frame_definition |-> {"_current_row", "_integer", "_literal_string", "binary_expression", "identifier",
      "interval"},
    _signed_operand |-> {"_qualified_field", "case", "cast", "interval", "invocation",
      "parenthesized_expression", "window_function"},
    lambda_expression |-> {"_expression", "lambda_parameter"},
    lambda_parameter |-> {"_lambda_type", "identifier"},
    _lambda_type |-> {"bigint", "char", "decimal", "double", "float", "int", "numeric", "smallint", "time",
      "timestamp", "varchar"},
    interval |-> {"_interval_precision", "_literal_string", "identifier"},
    _interval_precision |-> {"_integer"},
    cast |-> {"_expression", "_type"},
    date_function |-> {"_expression"},
    spread_expression |-> {"_expression"},
    collate_expression |-> {"_expression", "_literal_string", "identifier"},
    like_expression |-> {"_expression", "not_like"},
    window_function |-> {"identifier", "invocation", "window_specification"},
    parameterized_literal |-> {"_literal_string", "object_reference", "time", "timestamp"},
    path_access |-> {"identifier", "path_access", "subscript"} ])

alter_other_rules == Unit(
  NoWords,
  [ alter_file_format |-> {"_if_exists", "_set_properties", "_set_tag", "_unset_properties", "_unset_tag",
      "object_reference", "rename_object"},
    alter_share |-> {"_if_exists", "_set_properties", "_set_tag", "_share_accounts", "_unset_properties",
      "_unset_tag", "object_reference", "snowflake_property"},
    _share_accounts |-> {"object_reference"},
    alter_network_policy |-> {"_if_exists", "_set_properties", "_set_tag", "_unset_properties",
      "_unset_tag", "object_reference", "rename_object"},
    alter_masking_policy |-> {"_expression", "_if_exists", "_set_properties", "_set_tag",
      "_unset_properties", "_unset_tag", "object_reference", "rename_object"},
    alter_row_access_policy |-> {"_expression", "_if_exists", "_set_properties", "_set_tag",
      "_unset_properties", "_unset_tag", "object_reference", "rename_object"},
    alter_tag |-> {"_if_exists", "_literal_string", "_masking_policy_ref", "_set_properties",
      "_unset_properties", "object_reference", "rename_object"},
    _masking_policy_ref |-> {"object_reference"},
    alter_external_table |-> {"_expression", "_if_exists", "_literal_string", "_set_properties", "_set_tag",
      "_unset_properties", "_unset_tag", "identifier", "object_reference", "rename_object"},
    alter_iceberg_table |-> {"_alter_specifications", "_cluster_by", "_expression", "_if_exists",
      "_literal_string", "object_reference", "snowflake_property"},
    alter_integration |-> {"_if_exists", "_set_properties", "_set_tag", "_unset_properties", "_unset_tag",
      "identifier", "object_reference"},
    alter_account_object |-> {"_if_exists", "_literal_string", "_natural_number", "_set_properties",
      "_set_tag", "_unset_properties", "_unset_tag", "object_reference", "rename_object",
      "snowflake_property_list"},
    snowflake_property_list |-> {"snowflake_property"},
    alter_account |-> {"_set_properties", "_set_tag", "_unset_properties", "_unset_tag", "object_reference"},
    alter_database |-> {"_if_exists", "_literal_string", "_set_contact", "_set_properties",
      "_set_properties_body", "_set_tag", "_unset_properties", "_unset_tag", "identifier",
      "object_reference", "rename_object"},
    alter_schema |-> {"_if_exists", "_set_properties", "_set_tag", "_unset_properties", "_unset_tag",
      "object_reference", "rename_object"},
    alter_sequence |-> {"_if_exists", "_integer", "_set_tag", "_unset_properties", "_unset_tag",
      "object_reference", "rename_object", "snowflake_property"},
    alter_stage |-> {"_if_exists", "_literal_string", "_set_properties", "_set_tag", "_unset_properties",
      "_unset_tag", "object_reference", "rename_object"} ])

files_rules == Unit(
  NoWords,
  Tokens({"file_uri"}) @@
  [ put_statement |-> {"_file_uri", "copy_property", "stage_ref"},
    get_statement |-> {"_file_uri", "copy_property", "stage_ref"},
    remove_statement |-> {"_literal_string", "stage_ref"},
    copy_files_statement |-> {"_dml_read", "_literal_string", "copy_property", "stage_ref"},
    _file_uri |-> {"_literal_string", "file_uri"} ])

snowflake_property_rules == Unit(
  NoWords,
  [ snowflake_property |-> {"copy_list", "identifier", "literal", "object_reference"} ])

create_routine_rules == Unit(
  NoWords,
  Tokens({"_argument_mode"}) @@
  [ _or_replace_or_alter |-> {"_or_replace"},
    create_view |-> {"_if_not_exists", "_or_replace_or_alter", "_snowflake_view_clause", "_temporary",
      "create_query", "object_reference", "view_column"},
    view_column |-> {"_literal_string", "identifier", "object_reference", "tag_clause"},
    _snowflake_view_clause |-> {"_literal_string", "aggregation_policy_clause", "contact_clause",
      "join_policy_clause", "row_access_policy_clause", "snowflake_property", "tag_clause"},
    create_function |-> {"_if_not_exists", "_or_replace_or_alter", "_snowflake_routine_clause",
      "_temporary", "object_reference", "routine_arguments", "routine_body", "routine_returns"},
    create_procedure |-> {"_if_not_exists", "_or_replace_or_alter", "_snowflake_routine_clause",
      "_temporary", "object_reference", "routine_arguments", "routine_body", "routine_returns"},
    routine_arguments |-> {"routine_argument"},
    routine_argument |-> {"_argument_mode", "_expression", "_type", "column_definition", "identifier"},
    routine_returns |-> {"_type", "column_definition"},
    _snowflake_routine_clause |-> {"_literal_string", "identifier", "snowflake_property"},
    routine_body |-> {"_literal_string", "compound_statement"},
    create_schema |-> {"_if_not_exists", "_literal_string", "_or_replace_or_alter", "backup_set_clause",
      "clone_clause", "contact_clause", "object_reference", "snowflake_property", "tag_clause"},
    create_database |-> {"_if_not_exists", "_literal_string", "_or_replace_or_alter", "backup_set_clause",
      "clone_clause", "contact_clause", "identifier", "object_reference", "snowflake_property", "tag_clause"},
    create_role |-> {"_if_not_exists", "_or_replace_or_alter", "identifier", "snowflake_property",
      "tag_clause"},
    create_tag |-> {"_if_not_exists", "_literal_string", "_or_replace_or_alter", "object_reference",
      "snowflake_property"} ])

alter_object_rules == Unit(
  NoWords,
  [ alter_view |-> {"_aggregation_policy", "_drop_row_access_policy", "_if_exists", "_join_policy",
      "_set_contact", "_set_properties", "_set_tag", "_snowflake_column_action", "_unset_properties",
      "_unset_tag", "identifier", "object_reference", "rename_object", "row_access_policy_clause"},
    alter_materialized_view |-> {"_cluster_by", "_if_exists", "_set_contact", "_set_properties",
      "_unset_properties", "object_reference", "rename_object"},
    alter_task |-> {"_dml_read", "_expression", "_if_exists", "_set_contact", "_set_properties", "_set_tag",
      "_unset_name", "_unset_tag", "identifier", "object_reference"},
    alter_dynamic_table |-> {"_cluster_by", "_expression", "_if_exists", "_set_properties", "_set_tag",
      "_snowflake_column_action", "_unset_properties", "_unset_tag", "identifier", "object_reference",
      "rename_object"},
    alter_alert |-> {"_dml_read", "_if_exists", "_set_properties", "_set_properties_body", "_set_tag",
      "_unset_properties", "_unset_tag", "object_reference", "task_body"},
    alter_warehouse |-> {"_if_exists", "_set_properties", "_set_tag", "_unset_properties", "_unset_tag",
      "object_reference", "rename_object"},
    alter_stream |-> {"_if_exists", "_set_properties", "_set_tag", "_unset_properties", "_unset_tag",
      "object_reference"},
    alter_pipe |-> {"_if_exists", "_set_properties", "_set_tag", "_unset_properties", "_unset_tag",
      "object_reference", "snowflake_property"},
    alter_role |-> {"_if_exists", "_set_properties", "_set_tag", "_unset_properties", "_unset_tag",
      "object_reference", "rename_object"},
    alter_user |-> {"_if_exists", "_key_pair_action", "_pat_action", "_set_properties",
      "_set_properties_body", "_set_tag", "_unset_properties", "_unset_tag", "identifier",
      "object_reference", "rename_object", "snowflake_property"},
    _set_tag |-> {"tag_assignment"},
    _unset_tag |-> {"object_reference"},
    _set_contact |-> {"identifier"},
    _join_policy |-> {"object_reference"},
    _aggregation_policy |-> {"identifier", "object_reference"},
    _cluster_by |-> {"_expression"},
    _drop_row_access_policy |-> {"object_reference"},
    _set_properties |-> {"_set_properties_body"},
    _set_properties_body |-> {"snowflake_property"},
    _unset_properties |-> {"_unset_name"},
    _unset_name |-> {"identifier"},
    alter_routine |-> {"_if_exists", "_type", "identifier", "object_reference", "rename_object",
      "snowflake_property", "tag_assignment"},
    tag_assignment |-> {"_literal_string", "object_reference"},
    _snowflake_column_action |-> {"_literal_string", "identifier", "object_reference", "tag_assignment"} ])

rules_2 == Unit(
  StrongWords({"attribute", "atomic", "called", "definer", "matched", "percent"}),
  Tokens({"_identifier", "_single_quote_string", "_double_quote_string", "_integer", "_decimal_number"}) @@
  [ _literal_string |-> {"_dollar_quoted_string", "_single_quote_string"},
    identifier |-> {"_double_quote_string", "_identifier", "identifier_function"},
    identifier_function |-> {"_integer", "_literal_string", "bind_variable", "identifier", "parameter"} ])

layers == <<Copy(dialect_transaction_rules), Copy(dialect_alter_rules), Copy(dialect_legacy_rules),
    Inline(rules_1), Own(qualify_rules), Own(pivot_rules), Own(match_rec_rules), Own(time_travel_rules),
    Own(variant_rules), Own(scripting_rules), Own(execute_rules), Own(object_keyword_rules),
    Own(create_platform_rules), Own(alter_platform_rules), Own(copy_rules), Own(snowflake_create_rules),
    Own(create_table_rules), Own(alter_table_rules), Own(type_rules), Own(alter_rules), Own(use_rules),
    Own(stage_rules), Own(object_statement_rules), Own(grant_rules), Own(query_extra_rules),
    Own(create_object_rules), Own(misc_statement_rules), Own(expression_extra_rules),
    Own(alter_other_rules), Own(files_rules), Own(snowflake_property_rules), Own(create_routine_rules),
    Own(alter_object_rules), Inline(rules_2)>>

conflicts == {{"object_reference", "_qualified_field"}, {"where", "like_expression"}, {"drop_column"},
  {"_qualified_field", "array"}, {"_qualified_field", "date_function"},
  {"_qualified_field", "identifier_function"}, {"_qualified_field", "parameterized_literal"},
  {"_qualified_field", "time"}, {"_qualified_field", "timestamp"}, {"_column", "index_definition"},
  {"_column", "table_constraint"}, {"_expression", "window_function"}, {"field", "_qualified_field"},
  {"_column", "_qualified_field"}, {"object_reference"},
  {"between_expression", "binary_expression", "like_expression"}, {"inline_constraint"}, {"alter_column"},
  {"create_function"}, {"list", "grouping_set"}, {"list", "rollup_element"}, {"list", "cube_element"},
  {"_function_return", "return_statement"}, {"object_reference", "type_argument"},
  {"function_argument", "object_reference"}, {"all_fields_transform", "all_fields"}, {"insert_into_clause"},
  {"relation", "lateral_cross_join"}, {"_alias", "lateral_join"}, {"_alias", "lateral_cross_join"}}

externals == Base!externals \cup {"_dollar_quoted_string_start_tag", "_dollar_quoted_string_end_tag",
  "_dollar_quoted_string"}
==============================================================================
