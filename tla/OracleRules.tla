---------------------------- MODULE OracleRules ----------------------------
(***************************************************************************)
(* oracle/grammar.js and the rule files it spreads: what the grammar adds  *)
(* to the rules of base and what it overrides, one unit per object of      *)
(* rules, and the layers in the order they are spread.                     *)
(***************************************************************************)
EXTENDS GrammarHelpers

Base == INSTANCE BaseRules
Copied == INSTANCE CopiedRules

dialect_transaction_rules == Unit(
  Words({"snapshot"}),
  Tokens({"sqlplus_slash", "_transaction_mode"}) @@
  [ program |-> {"sqlplus_slash", "statement", "transaction"},
    transaction |-> {"_commit", "_plsql_stmt", "_rollback", "transaction_mode"},
    commit_statement |-> {"_commit"},
    rollback_statement |-> {"_rollback"},
    start_transaction_statement |-> {"transaction_mode"},
    release_savepoint_statement |-> {"identifier"},
    rollback_to_savepoint_statement |-> {"_transaction_chain", "identifier"} ])

dialect_alter_rules == Unit(
  Words({"change", "disable", "enable", "modify", "owner", "value"}),
  [ _alter_statement |-> {"alter_database", "alter_index", "alter_materialized_view", "alter_role",
      "alter_schema", "alter_sequence", "alter_table", "alter_type", "alter_view"},
    add_column |-> {"_if_not_exists", "column_definition", "column_position"},
    add_constraint |-> {"constraint", "identifier"},
    alter_column |-> {"_expression", "_type", "identifier"},
    modify_column |-> {"_if_exists", "column_definition", "column_position"},
    change_column |-> {"_if_exists", "column_definition", "column_position", "identifier"},
    column_position |-> {"identifier"},
    rename_column |-> {"identifier"},
    alter_schema |-> {"identifier"},
    alter_database |-> {"change_ownership", "identifier", "rename_object", "set_configuration"},
    set_configuration |-> {"identifier", "literal"},
    rename_object |-> {"object_reference"},
    set_schema |-> {"identifier"},
    change_ownership |-> {"identifier"} ])

misc_rules == Unit(
  NoWords,
  [ _comment_target |-> {"_qualified_field", "cast", "function_arguments", "identifier", "object_reference"},
    _show_tables |-> {"_expression", "_qualified_field"},
    reset_statement |-> {"object_reference"},
    use_statement |-> {"object_reference"},
    index_hint |-> {"identifier"},
    returning |-> {"select_expression"} ])

legacy_words == Unit(
  Words({"analyze", "explain", "verbose", "tables", "tablespace", "force", "ignore", "use", "include",
    "character", "reset", "returning", "hash", "conflict", "do", "nothing", "catalog", "extension", "cache",
    "collate", "concurrently", "deferrable", "none", "nowait", "owned", "password", "rename", "unlogged",
    "until", "valid", "wait"}),
  NoRules)

create_rules_own_1 == Unit(
  NoWords,
  [ storage_parameters |-> {"array", "identifier", "literal"},
    table_option |-> {"_integer", "_literal_string", "identifier"},
    _operator_class |-> {"identifier", "term"},
    composite_field |-> {"_index_field"},
    index_fields |-> {"_index_field", "composite_field"},
    tablespace |-> {"identifier"},
    covering_columns |-> {"index_fields"} ])

create_rules_own_2 == Unit(
  NoWords,
  [ create_schema |-> {"_if_not_exists", "identifier"},
    _with_settings |-> {"_single_quote_string", "identifier"},
    _user_access_role_config |-> {"identifier"},
    _create_trigger_event |-> {"identifier"},
    enum_elements |-> {"_literal_string"} ])

create_rules == Spread(<<create_rules_own_1, Base!create_function_rules, Base!create_procedure_rules,
    create_rules_own_2>>)

drop_rules == Unit(
  NoWords,
  [ drop_schema |-> {"_drop_behavior", "_if_exists", "identifier"},
    drop_database |-> {"_if_exists", "identifier"},
    drop_sequence |-> {"_drop_behavior", "_if_exists", "object_reference"},
    drop_function |-> {"_drop_behavior", "_if_exists", "object_reference"},
    drop_procedure |-> {"_drop_behavior", "_if_exists", "object_reference"} ])

rename_rules == Copied!rename_rules
refresh_rules == Copied!refresh_rules

insert_rules == Unit(
  NoWords,
  [ _on_conflict |-> {"_set_values", "conflict_target", "where"},
    conflict_target |-> {"_expression", "identifier", "where"},
    _on_duplicate_key_update |-> {"assignment_list"} ])

update_rules == Unit(
  NoWords,
  [ _mysql_update_statement |-> {"_set_values", "join", "relation", "where"},
    _postgres_update_statement |-> {"_set_values", "from", "relation"} ])

delete_rules == Unit(
  NoWords,
  [ _delete_from |-> {"object_reference", "order_by", "where"} ])

legacy_dispatch == Unit(
  NoWords,
  [ _refresh_statement |-> {"refresh_materialized_view"} ])

dialect_legacy_rules == Spread(<<misc_rules, legacy_words, create_rules, drop_rules, rename_rules,
    refresh_rules, insert_rules, update_rules, delete_rules, legacy_dispatch>>)

rules_1 == Unit(
  StrongWords({"json_table", "xmltable", "columns", "path", "passing", "pivot", "match_recognize",
    "pattern", "define", "per", "past", "one", "match", "matched", "percent", "unpivot", "dense_rank",
    "organization", "heap", "exceptions", "connect", "prior", "nocycle", "siblings", "forall", "bulk",
    "collect", "indices", "rowtype", "save", "target", "rownum", "dual", "cursor", "open", "fetch", "close",
    "package", "body", "editionable", "noneditionable", "authid", "pragma", "reverse", "continue", "elsif",
    "exit", "loop", "exception", "while", "source", "declare", "current_user", "pipe", "scn", "synonym",
    "identified", "link", "number", "varchar2", "nvarchar2", "clob", "nclob", "blob", "bfile", "raw",
    "long", "rowid", "urowid", "binary_float", "binary_double", "byte", "year", "month", "day", "second",
    "list", "partitions", "subpartition", "subpartitions", "less", "than", "split", "exchange", "at",
    "skip", "nav", "keep", "updated", "dimension", "measures", "rules", "upsert", "sequential", "automatic",
    "iterate", "system", "scope", "sid", "memory", "spfile", "flush", "kill", "checkpoint", "switch",
    "logfile", "archive", "log", "directory", "compute", "estimate", "validate", "structure", "sample",
    "statistics"}),
  [ _create_statement |-> {"_create_statement", "create_database", "create_database_link_statement",
      "create_directory_statement", "create_function", "create_index", "create_materialized_view",
      "create_materialized_view_log", "create_materialized_zonemap", "create_operator", "create_package",
      "create_package_body", "create_procedure", "create_role", "create_schema", "create_sequence",
      "create_synonym_statement", "create_table", "create_trigger", "create_type", "create_view",
      "grant_statement"},
    _drop_statement |-> {"drop_database", "drop_database_link_statement", "drop_directory_statement",
      "drop_function", "drop_index", "drop_materialized_view", "drop_materialized_view_log",
      "drop_materialized_zonemap", "drop_package", "drop_procedure", "drop_role", "drop_schema",
      "drop_sequence", "drop_synonym_statement", "drop_table", "drop_type", "drop_view"},
    _ddl_statement |-> {"_alter_statement", "_create_statement", "_drop_statement", "_merge_statement",
      "_oracle_admin_statement", "_refresh_statement", "_rename_statement", "alter_database_link_statement",
      "alter_materialized_view_log", "alter_materialized_zonemap", "comment_statement", "context_statement",
      "create_cluster_statement", "drop_cluster_statement", "grant_statement", "restore_point_statement",
      "revoke_statement", "set_statement", "truncate_cluster_statement"},
    statement |-> {"_ddl_statement", "_dml_read", "_dml_write", "_transaction_statement",
      "alter_session_statement", "alter_system_statement", "analyze_statement", "assignment_statement",
      "associate_statistics_statement", "audit_policy_statement", "call_statement", "case_statement",
      "compound_statement", "continue_statement", "cursor_close_statement", "cursor_fetch_statement",
      "cursor_open_statement", "execute_immediate_statement", "exit_statement", "explain_plan_statement",
      "flashback_statement", "for_statement", "forall_statement", "goto_statement", "if_statement",
      "lock_table_statement", "loop_statement", "null_statement", "pipe_row_statement", "pragma_statement",
      "purge_statement", "raise_statement", "return_statement", "set_role_statement", "statement_label",
      "while_statement"},
    from |-> {"_from_clauses_0", "apply_join", "cross_join", "join", "join_to_one", "lateral_cross_join",
      "lateral_join", "lateral_relation", "relation"},
    xmltable |-> {"_expression", "_literal_string", "xml_namespaces", "xmltable_column"},
    xmltable_column |-> {"_expression", "_literal_string", "_type", "identifier"},
    pivot_clause |-> {"_alias", "_column_or_columns", "_pivot_value", "invocation", "subquery"},
    _pivot_value |-> {"_pivot_atom"},
    _pivot_atom |-> {"_integer", "_literal_string", "identifier"},
    unpivot_clause |-> {"_column_or_columns", "_pivot_value"},
    _column_or_columns |-> {"identifier"},
    unary_expression |-> {"_expression", "_signed_operand", "bang", "op_unary_other"},
    _expression |-> {"_qualified_field", "array", "at_time_zone_expression", "between_expression",
      "binary_expression", "bind_array_element", "bind_record_field", "call_chain", "case", "cast",
      "collate_expression", "cursor_attribute", "cursor_expression", "date_literal", "exists",
      "exponent_expression", "interval", "interval_qualified_expression", "invocation",
      "is_a_set_condition", "is_json_condition", "json_constructor", "json_dot_path", "json_function",
      "json_object_access", "keep_aggregate", "like_expression", "list", "literal", "multiset_condition",
      "multiset_operation", "new_expression", "outer_join_column", "parameter", "parenthesized_expression",
      "remote_reference", "subquery", "subscript", "timestamp_literal", "trim_expression",
      "unary_expression", "window_function", "xmlcast", "xmlexists", "xmlparse", "xmlquery", "xmlserialize"},
    keep_aggregate |-> {"identifier", "invocation", "order_by", "window_specification"},
    create_table |-> {"_if_not_exists", "_table_body", "_table_prefix_0", "object_reference",
      "sharing_clause"},
    _table_as_clause |-> {"create_query", "organization_clause", "table_partition_by"},
    _table_body |-> {"_oracle_table_property", "_primary_key", "_table_as_clause", "column_definition",
      "column_definitions", "constraint", "create_query", "identifier", "object_reference"},
    create_trigger |-> {"_create_trigger_event", "_expression", "_or_replace", "compound_statement",
      "object_reference"},
    _alter_specifications |-> {"_oracle_physical_attribute", "add_column", "add_constraint", "alter_column",
      "alter_partition", "change_column", "change_ownership", "drop_column", "drop_constraint",
      "modify_column", "rename_column", "rename_object", "set_schema"} ] @@
  ordered_optionals("_from_clauses", <<
    {"where"}, {"connect_by_clause"}, {"_group_having"}, {"window_clause"}, {"qualify"}, {"model_clause"},
    {"order_siblings_by"}, {"order_by"}, {"offset_fetch_clause"}>>) @@
  ordered_optionals("_table_prefix", <<
    {"_or_replace"}, {"_oracle_table_kind"}>>))

oracle_hierarchical_rules == Unit(
  NoWords,
  [ order_siblings_by |-> {"order_target"} ])

oracle_xml_rules == Unit(
  StrongWords({"xmlquery", "xmlexists", "xmlcast", "xmlserialize", "xmlparse", "xmlnamespaces", "document",
    "content", "wellformed", "encoding", "indent", "hide", "defaults"}),
  [ xmlquery |-> {"_literal_string", "_xml_passing"},
    xmlexists |-> {"_literal_string", "_xml_passing"},
    _xml_passing |-> {"_expression", "identifier"},
    xmlcast |-> {"_expression", "_type"},
    xmlserialize |-> {"_expression", "_type", "_xmlserialize_option"},
    _xmlserialize_option |-> {"_literal_string", "_natural_number"},
    xmlparse |-> {"_expression"},
    xml_namespaces |-> {"_literal_string", "identifier"} ])

oracle_graph_table_rules == Unit(
  StrongWords({"graph_table"}),
  [ graph_table |-> {"_expression", "graph_path", "identifier", "object_reference", "where"},
    graph_path |-> {"graph_edge", "graph_vertex"},
    graph_vertex |-> {"_graph_element"},
    graph_edge |-> {"_graph_element", "graph_quantifier"},
    _graph_element |-> {"_graph_pattern_label", "identifier", "where"},
    _graph_pattern_label |-> {"identifier"},
    graph_quantifier |-> {"_natural_number"} ])

oracle_multiset_rules == Unit(
  Words({"a"}) @@
  StrongWords({"submultiset"}),
  Tokens({"not_member", "not_submultiset"}) @@
  [ is_a_set_condition |-> {"_expression", "is_not"},
    multiset_condition |-> {"_expression", "not_member", "not_submultiset"},
    multiset_operation |-> {"_expression"} ])

oracle_pluggable_rules == Unit(
  StrongWords({"abort", "application", "copy", "every", "file_name_convert", "global_name", "hours",
    "install", "instances", "max_audit_size", "max_shared_temp_size", "minutes", "patch", "path_prefix",
    "proxy", "service_name_convert", "unplug", "upgrade"}),
  [ create_pluggable_database |-> {"_pdb_admin_user", "_pdb_create_option", "_pdb_kind", "_pdb_source",
      "identifier"},
    _pdb_kind |-> {"object_reference"},
    _pdb_admin_user |-> {"_literal_string", "identifier"},
    _pdb_source |-> {"_literal_string", "object_reference"},
    _pdb_create_option |-> {"_literal_string", "_pdb_refresh_mode", "_pdb_storage", "identifier"},
    _pdb_refresh_mode |-> {"_natural_number"},
    _pdb_storage |-> {"_size"},
    alter_pluggable_database |-> {"_pdb_alter_action", "_pdb_target"},
    _pdb_target |-> {"identifier"},
    _pdb_alter_action |-> {"_literal_string", "_pdb_application_action", "_pdb_instances",
      "_pdb_open_option", "_pdb_refresh_mode", "_pdb_storage", "identifier"},
    _pdb_open_option |-> {"_pdb_instances"},
    _pdb_instances |-> {"_literal_string"},
    _pdb_application_action |-> {"_literal_string", "_natural_number"},
    drop_pluggable_database |-> {"identifier"} ])

oracle_plsql_rules == Unit(
  NoWords,
  Tokens({"type_attribute", "rowtype_attribute"}))

oracle_cursor_rules == Unit(
  NoWords,
  [ cursor_for_loop |-> {"_dml_read", "identifier", "statement"} ])

oracle_package_rules == Unit(
  NoWords,
  [ _package_spec_item |-> {"_declaration"},
    _package_body_item |-> {"_declaration"},
    package_exception_declaration |-> {"identifier"},
    package_subprogram_declaration |-> {"_type", "function_argument", "identifier"},
    package_subprogram_body |-> {"_type", "exception_handler", "function_argument", "identifier",
      "statement", "variable_declaration"},
    package_pragma |-> {"_expression", "identifier"} ])

oracle_procedural_rules == Unit(
  NoWords,
  Tokens({"null_statement"}) @@
  [ pragma_statement |-> {"_expression", "identifier"},
    pipe_row_statement |-> {"_expression"} ])

oracle_type_rules == Unit(
  NoWords,
  Tokens({"clob", "nclob", "blob", "bfile", "rowid", "urowid", "long_type", "binary_float", "binary_double"}) @@
  [ number_type |-> {"_natural_number"},
    varchar2 |-> {"_natural_number"},
    nvarchar2 |-> {"_natural_number"},
    raw_type |-> {"_natural_number"},
    timestamp |-> {"_natural_number"},
    interval_year_to_month |-> {"_natural_number"},
    interval_day_to_second |-> {"_natural_number"},
    date_literal |-> {"_literal_string"},
    timestamp_literal |-> {"_literal_string"} ])

oracle_hint_rules == Unit(
  NoWords,
  Tokens({"optimizer_hint"}) @@
  [ select |-> {"optimizer_hint", "select_expression"} ])

oracle_partition_rules == Unit(
  NoWords,
  [ table_partition_by |-> {"_partition_method", "_partition_option", "partition_definition"},
    _partition_method |-> {"_expression", "identifier"},
    _partition_option |-> {"_expression", "_natural_number", "store_in_clause", "subpartition_definition"},
    store_in_clause |-> {"identifier"},
    _partition_values |-> {"_expression"},
    partition_definition |-> {"_natural_number", "_oracle_physical_attribute", "_partition_values",
      "identifier", "subpartition_definition"},
    subpartition_definition |-> {"_oracle_physical_attribute", "_partition_values", "identifier"},
    alter_partition |-> {"_expression", "_natural_number", "_oracle_physical_attribute",
      "_partition_maintenance_option", "_partition_values", "identifier", "object_reference",
      "partition_definition", "subpartition_definition", "table_partition_by"},
    _partition_maintenance_option |-> {"identifier"} ])

oracle_table_ddl_rules == Unit(
  StrongWords({"advanced", "annotations", "basic", "capacity", "compress", "creation", "critical",
    "decrypt", "definition", "dml", "domain", "duplicated", "encrypt", "extended", "high", "inmemory",
    "invisible", "low", "medium", "memcompress", "metadata", "movement", "nocompress", "nomaxvalue",
    "nominvalue", "noorder", "norely", "norowdependencies", "novalidate", "oltp", "preserve", "priority",
    "private", "rely", "result_cache", "rowdependencies", "salt", "sharded", "sharing", "store", "virtual",
    "visible"}),
  Tokens({"sharing_clause", "on_commit_clause", "access_parameters_text", "inmemory_clause"}) @@
  [ typeless_column_definition |-> {"_column", "_typeless_column_property"},
    column_definitions |-> {"column_definition", "constraints", "typeless_column_definition"},
    _constraint_name |-> {"identifier"},
    _column_constraint |-> {"_check_constraint", "_column_property", "_constraint_name",
      "_constraint_state", "_not_null", "_oracle_references", "_primary_key"},
    _typeless_column_property |-> {"_column_property", "_constraint_state", "_not_null"},
    _column_property |-> {"_column_comment", "_default_expression", "_encrypt_clause", "_expression",
      "_identity_option", "annotations_clause", "direction", "identifier", "object_reference"},
    _oracle_references |-> {"identifier", "object_reference"},
    _check_constraint |-> {"_expression"},
    _default_expression |-> {"_constraint_state", "_expression", "_inner_default_expression", "_not_null",
      "_qualified_field", "field"},
    _identity_option |-> {"_integer"},
    _encrypt_clause |-> {"_literal_string", "identifier"},
    annotations_clause |-> {"annotation"},
    annotation |-> {"_literal_string", "identifier"},
    constraint |-> {"_check_constraint", "_constraint_literal", "_constraint_state", "_key_constraint",
      "_primary_key_constraint", "period_definition"},
    _constraint_literal |-> {"_check_constraint", "_oracle_references", "_primary_key", "identifier",
      "ordered_columns"},
    _constraint_state |-> {"_oracle_physical_attribute", "create_index", "object_reference"},
    _oracle_table_kind |-> {"_temporary"},
    _oracle_table_property |-> {"_oracle_physical_attribute", "_oracle_table_attribute", "identifier",
      "lob_storage_clause", "nested_table_clause", "on_commit_clause", "organization_clause",
      "table_partition_by", "varray_storage_clause", "xmltype_storage_clause"},
    _oracle_table_attribute |-> {"annotations_clause", "identifier", "immutable_clause", "inmemory_clause"},
    immutable_clause |-> {"_natural_number", "identifier"},
    organization_clause |-> {"_index_organized_option", "external_table_spec"},
    _index_organized_option |-> {"_natural_number", "_oracle_physical_attribute", "identifier"},
    external_table_spec |-> {"_external_option", "_reject_limit"},
    _external_option |-> {"_access_parameter_group", "_literal_string", "identifier"},
    _reject_limit |-> {"_natural_number"},
    inline_external_table |-> {"_external_option", "_reject_limit", "column_definition"},
    external_modify_clause |-> {"_external_option", "_reject_limit"},
    _access_parameter_group |-> {"_access_parameter_group", "access_parameters_text"},
    period_definition |-> {"identifier"},
    compression_clause |-> {"_natural_number"} ])

oracle_ddl_ext_rules == Unit(
  NoWords,
  [ create_database |-> {"_oracle_database_clause", "identifier"},
    _oracle_database_clause |-> {"_expression", "identifier"},
    create_operator |-> {"_if_not_exists", "_or_replace", "object_reference", "operator_binding"},
    operator_binding |-> {"_type", "object_reference"} ])

oracle_admin_ddl_rules == Unit(
  NoWords,
  Tokens({"_lock_mode"}) @@
  [ restore_point_statement |-> {"_expression", "identifier"},
    create_cluster_statement |-> {"_cluster_option", "column_definitions", "object_reference"},
    _cluster_option |-> {"identifier", "literal"},
    truncate_cluster_statement |-> {"object_reference"},
    drop_cluster_statement |-> {"object_reference"},
    context_statement |-> {"_or_replace", "identifier", "object_reference"},
    audit_policy_statement |-> {"identifier"},
    associate_statistics_statement |-> {"_statistics_association", "identifier", "object_reference"},
    _statistics_association |-> {"_expression", "literal", "object_reference"},
    explain_plan_statement |-> {"_literal_string", "identifier", "object_reference", "statement"},
    set_role_statement |-> {"identifier", "role_grant"},
    role_grant |-> {"identifier"} ])

oracle_mview_rules == Unit(
  NoWords,
  Tokens({"_mv_build_clause", "_mv_query_rewrite", "_mv_log_new_values"}) @@
  [ _mv_log_value_list |-> {"_mv_log_value"},
    create_materialized_zonemap |-> {"_expression", "_mv_query_rewrite", "_oracle_physical_attribute",
      "create_query", "object_reference"},
    alter_materialized_zonemap |-> {"_mv_query_rewrite", "_oracle_physical_attribute", "object_reference"},
    drop_materialized_zonemap |-> {"object_reference"},
    _oracle_storage_option |-> {"identifier", "literal"},
    drop_table |-> {"_if_exists", "object_reference"},
    drop_type |-> {"_if_exists", "object_reference"} ])

oracle_admin_rules == Unit(
  StrongWords({"main", "single", "decrement"}),
  Tokens({"_model_option"}) @@
  [ _select_statement |-> {"_select_core"},
    _select_core |-> {"from", "locking_clause", "select", "select_expression"},
    locking_clause |-> {"_integer", "object_reference"},
    model_clause |-> {"_model_columns", "_model_option", "_model_tail_0", "identifier", "model_reference",
      "model_rule"},
    model_reference |-> {"_model_columns", "_model_option", "identifier", "subquery"},
    _model_columns |-> {"model_column"},
    model_column |-> {"_alias", "_expression"},
    model_rule |-> {"_expression", "model_cell", "order_by"},
    model_cell |-> {"_expression", "identifier", "model_for_loop"},
    model_for_loop |-> {"_expression", "identifier", "subquery"},
    subscript |-> {"_expression", "_qualified_field"},
    alter_system_statement |-> {"_expression", "_literal_string", "identifier"} ] @@
  ordered_optionals("_model_tail", <<
    {}, {}, {}, {"_expression", "_integer"}>>))

oracle_match_recognize_rules == Unit(
  StrongWords({"running", "permute", "subset", "unmatched", "show", "matches"}),
  Tokens({"rows_per_match"}) @@
  [ match_recognize_clause |-> {"after_match_skip", "define_clause", "measures_clause", "order_by",
      "partition_by", "pattern_clause", "rows_per_match", "subset_clause"},
    measures_clause |-> {"measure_item"},
    measure_item |-> {"_expression", "identifier"},
    after_match_skip |-> {"identifier"},
    pattern_clause |-> {"_pattern_alternation"},
    _pattern_alternation |-> {"pattern_term"},
    pattern_term |-> {"_pattern_alternation", "identifier", "pattern_quantifier", "pattern_term"},
    pattern_quantifier |-> {"_natural_number"},
    subset_clause |-> {"identifier"},
    define_clause |-> {"define_item"},
    define_item |-> {"_expression", "identifier"} ])

oracle_storage_rules == Unit(
  StrongWords({"access", "allocate", "attributes", "auto", "basicfile", "bitmap", "blockchain",
    "buffer_pool", "cell_flash_cache", "chunk", "cleanup", "collation", "collection", "compact",
    "consistent", "datafile", "days", "deallocate", "deduplicate", "extent", "flash_cache", "freelist",
    "freelists", "freepools", "hashing", "identifier", "idle", "indexes", "indexing", "initial", "instance",
    "invalidate", "invalidation", "keep_duplicates", "lob", "location", "locator", "mapping", "max",
    "maxextents", "memoptimize", "min", "minextents", "move", "multivalue", "nested", "nomapping",
    "noprecheck", "nosort", "object", "opaque", "optimal", "overflow", "packed", "parameters", "partial",
    "pctincrease", "pctthreshold", "pctversion", "period", "precheck", "reads", "recycle", "ref",
    "reference", "reject", "retention", "securefile", "shrink", "sort", "space", "staging", "template",
    "unlimited", "unpacked", "unused", "validation", "varray", "version", "xmltype", "initially",
    "maxvalue", "minvalue", "references", "refresh", "referencing"}),
  Tokens({"size_unit"}) @@
  [ _oracle_physical_attribute |-> {"_natural_number", "compression_clause", "identifier", "literal",
      "storage_clause"},
    _size |-> {"_natural_number", "size_unit"},
    storage_clause |-> {"_storage_option"},
    _storage_option |-> {"_natural_number", "_size"},
    lob_storage_clause |-> {"_lob_parameter", "identifier"},
    varray_storage_clause |-> {"_lob_parameter", "identifier"},
    _lob_parameter |-> {"_encrypt_clause", "_natural_number", "_size", "identifier", "storage_clause"},
    nested_table_clause |-> {"_oracle_physical_attribute", "identifier"},
    xmltype_storage_clause |-> {"identifier"} ])

oracle_alter_table_rules == Unit(
  NoWords,
  Tokens({"_drop_domain", "shrink_clause", "table_lock_clause", "all_triggers_clause"}) @@
  [ alter_table |-> {"_alter_specifications", "_if_exists", "object_reference"},
    _alter_specifications |-> {"_oracle_physical_attribute", "_oracle_table_attribute", "add_column",
      "add_columns_clause", "add_constraint", "add_overflow_clause", "add_unnamed_constraint",
      "all_triggers_clause", "allocate_extent_clause", "alter_column", "alter_constraint_state",
      "alter_partition", "change_column", "change_ownership", "deallocate_unused_clause", "drop_column",
      "drop_columns_clause", "drop_constraint", "drop_key_clause", "drop_unused_columns_clause",
      "modify_column", "modify_column_annotations", "modify_columns_clause", "modify_constraint_clause",
      "modify_lob_clause", "modify_nested_table_clause", "modify_opaque_type_clause", "move_clause",
      "rename_column", "rename_constraint_clause", "rename_object", "set_schema", "set_unused_clause",
      "shrink_clause", "table_lock_clause"},
    add_columns_clause |-> {"column_definition", "constraint", "ref_column_clause", "scope_clause",
      "typeless_column_definition"},
    ref_column_clause |-> {"identifier"},
    scope_clause |-> {"identifier", "object_reference"},
    add_unnamed_constraint |-> {"_check_constraint", "_constraint_state", "_key_constraint",
      "_primary_key_constraint"},
    add_overflow_clause |-> {"_oracle_physical_attribute"},
    modify_columns_clause |-> {"_drop_domain", "modify_column_definition", "object_reference"},
    modify_column_annotations |-> {"annotations_clause", "identifier"},
    modify_column_definition |-> {"_column", "_column_constraint", "_drop_domain", "_type"},
    modify_constraint_clause |-> {"_constraint_state", "_drop_behavior", "_primary_key", "identifier",
      "ordered_columns"},
    drop_columns_clause |-> {"_drop_column_option", "identifier", "period_definition"},
    drop_unused_columns_clause |-> {"_drop_column_option"},
    _drop_column_option |-> {"_natural_number"},
    drop_column |-> {"_drop_column_option", "_if_exists", "identifier"},
    drop_constraint |-> {"_drop_constraint_option", "_if_exists", "identifier"},
    drop_key_clause |-> {"_drop_constraint_option", "_primary_key", "ordered_columns"},
    _drop_constraint_option |-> {"_drop_behavior"},
    alter_constraint_state |-> {"_constraint_state", "_drop_behavior", "_primary_key", "identifier",
      "ordered_columns"},
    rename_constraint_clause |-> {"identifier"},
    set_unused_clause |-> {"_drop_column_option", "identifier"},
    move_clause |-> {"_oracle_physical_attribute", "_partition_maintenance_option", "lob_storage_clause",
      "nested_table_clause"},
    allocate_extent_clause |-> {"_literal_string", "_natural_number", "_size"},
    deallocate_unused_clause |-> {"_size"},
    modify_lob_clause |-> {"_lob_parameter", "identifier"},
    modify_nested_table_clause |-> {"identifier"},
    modify_opaque_type_clause |-> {"object_reference"} ])

oracle_index_ddl_rules == Unit(
  NoWords,
  [ create_index |-> {"_column", "_if_not_exists", "_index_property", "_index_table_spec",
      "_qualified_index_name", "object_reference"},
    _index_table_spec |-> {"identifier", "index_fields", "object_reference"},
    _index_field |-> {"_column", "_expression", "_index_field_tail_0", "_qualified_field",
      "binary_expression", "invocation"},
    _qualified_index_name |-> {"identifier"},
    _index_property |-> {"_oracle_physical_attribute", "annotations_clause", "covering_columns",
      "object_reference", "parameters_clause", "partition_definition", "store_in_clause",
      "table_partition_by", "where"},
    parameters_clause |-> {"_literal_string"},
    alter_index |-> {"_if_exists", "_oracle_physical_attribute", "annotations_clause", "identifier",
      "index_partition_action", "object_reference", "parameters_clause", "rename_object"},
    index_partition_action |-> {"_expression", "_oracle_physical_attribute", "identifier",
      "partition_definition"} ] @@
  ordered_optionals("_index_field_tail", <<
    {"identifier"}, {"_operator_class"}, {"direction"}, {}>>))

oracle_query_rules == Unit(
  StrongWords({"apply", "block", "seed", "versions"}),
  [ object_reference |-> {"dblink_name", "identifier"},
    dblink_name |-> {"identifier"},
    relation |-> {"_relation_clauses_0", "analytic_view_subquery", "graph_table", "inline_external_table",
      "invocation", "join", "json_table", "nested_columns_clause", "object_reference", "relation",
      "restricted_subquery", "subquery", "table_collection", "values", "xmltable"},
    lateral_relation |-> {"_alias", "subquery"},
    restricted_subquery |-> {"_dml_read", "identifier"},
    table_collection |-> {"_dml_read", "_expression"},
    partition_extension |-> {"_expression", "identifier"},
    sample_clause |-> {"_decimal_or_integer", "_natural_number"},
    _decimal_or_integer |-> {"_decimal_number", "_integer"},
    flashback_clause |-> {"_expression", "identifier"},
    apply_join |-> {"_alias", "invocation", "subquery", "table_collection"},
    join_to_one |-> {"join", "relation"},
    outer_join_column |-> {"_qualified_field"} ] @@
  ordered_optionals("_relation_clauses", <<
    {"external_modify_clause"}, {"hierarchies_clause"}, {"partition_extension"}, {"flashback_clause"},
    {"sample_clause", "tablesample"}, {"pivot_clause", "unpivot_clause"}, {"match_recognize_clause"},
    {"_alias", "_column_list"}, {"partition_by"}>>))

oracle_dml_rules == Unit(
  StrongWords({"errors", "forever", "name", "position", "seconds", "milliseconds"}),
  Tokens({"parameter"}) @@
  [ dml_target |-> {"_alias", "object_reference", "partition_extension", "restricted_subquery", "subquery",
      "table_collection"},
    _dml_extra_from |-> {"cross_join", "join", "lateral_cross_join", "lateral_join", "relation"},
    _dml_wait |-> {"_natural_number"},
    log_errors_clause |-> {"_expression", "_natural_number", "object_reference"},
    returning_into_clause |-> {"_returning_item", "_returning_target"},
    _returning_item |-> {"_expression"},
    _returning_target |-> {"identifier", "parameter"},
    _dml_tail |-> {"_dml_wait", "log_errors_clause", "returning_into_clause"},
    assignment_list |-> {"assignment"},
    assignment |-> {"_expression", "_qualified_field", "identifier", "subquery"},
    _set_values |-> {"assignment"},
    _insert_columns |-> {"_column", "identifier"},
    _insert_values |-> {"_dml_read", "_expression", "_insert_columns", "invocation", "object_reference"},
    insert |-> {"_dml_tail", "_insert_values", "_set_values", "dml_target"},
    _insert_statement |-> {"insert", "multi_table_insert"},
    multi_table_insert |-> {"_dml_read", "_expression", "insert_into_clause"},
    insert_into_clause |-> {"_expression", "_insert_columns", "_set_values", "dml_target",
      "log_errors_clause"},
    update |-> {"_dml_extra_from", "_dml_tail", "_set_values", "dml_target", "order_by", "where"},
    _delete_statement |-> {"_oracle_delete_from", "_oracle_delete_target", "delete"},
    _oracle_delete_from |-> {"_dml_extra_from", "_dml_tail", "dml_target", "order_by", "where"},
    _oracle_delete_target |-> {"_dml_extra_from", "_dml_tail", "dml_target", "order_by", "where"},
    _merge_statement |-> {"_dml_tail", "_expression", "dml_target", "relation", "when_clause"},
    when_clause |-> {"_expression", "_when_action"},
    _when_action |-> {"_dml_read", "_expression", "_insert_columns", "_set_values", "where"} ])

oracle_plsql_core_rules == Unit(
  StrongWords({"bulk_exceptions", "bulk_rowcount", "found", "isopen", "notfound", "rowcount", "sequence",
    "definer", "aggregate", "accessible", "array", "constant", "deterministic", "goto", "javascript",
    "language", "mle", "module", "nocopy", "parallel_enable", "pipelined", "polymorphic", "raise", "record",
    "relies_on", "shard_enable", "signature", "sql_macro", "subtype", "pairs", "repeat", "varying",
    "mutable"}),
  Tokens({"mle_source", "_q_quote_string"}) @@
  [ statement_label |-> {"identifier"},
    _plsql_stmt |-> {"procedure_call_statement", "statement", "statement_label"},
    procedure_call_statement |-> {"invocation", "object_reference"},
    compound_statement |-> {"_declaration", "_plsql_stmt", "exception_handler", "identifier"},
    exception_handler |-> {"_plsql_stmt", "object_reference"},
    _declaration |-> {"cursor_declaration", "exception_declaration", "pragma_declaration",
      "subprogram_declaration", "subprogram_definition", "subtype_declaration", "type_declaration",
      "variable_declaration"},
    variable_declaration |-> {"_expression", "_plsql_type", "identifier"},
    _plsql_type |-> {"_type", "object_reference", "rowtype_attribute", "type_attribute"},
    type_declaration |-> {"_natural_number", "_plsql_type", "identifier", "record_field"},
    record_field |-> {"_expression", "_plsql_type", "identifier"},
    subtype_declaration |-> {"_expression", "_plsql_type", "identifier"},
    cursor_declaration |-> {"_dml_read", "_plsql_type", "cursor_param", "identifier"},
    cursor_param |-> {"_expression", "_plsql_type", "identifier"},
    exception_declaration |-> {"identifier"},
    pragma_declaration |-> {"_expression", "identifier"},
    plsql_parameter |-> {"_expression", "_plsql_type", "identifier"},
    _subprogram_heading |-> {"_plsql_type", "identifier", "plsql_parameter"},
    _subprogram_property |-> {"identifier", "object_reference"},
    _subprogram_body |-> {"_declaration", "_plsql_stmt", "exception_handler", "identifier"},
    call_specification |-> {"_literal_string", "call_spec_parameter", "identifier", "mle_source"},
    call_spec_parameter |-> {"_type", "identifier"},
    subprogram_declaration |-> {"_subprogram_heading", "_subprogram_property"},
    subprogram_definition |-> {"_subprogram_body", "_subprogram_heading", "_subprogram_property",
      "call_specification"},
    create_function |-> {"_if_not_exists", "_plsql_type", "_subprogram_body", "_subprogram_property",
      "_type_prefix_0", "_unit_signature_0", "call_specification", "object_reference"},
    create_procedure |-> {"_if_not_exists", "_subprogram_body", "_subprogram_property", "_type_prefix_0",
      "_unit_signature_0", "call_specification", "object_reference"},
    if_statement |-> {"_expression", "_plsql_stmt"},
    while_statement |-> {"_expression", "_plsql_stmt", "identifier"},
    loop_statement |-> {"_plsql_stmt", "identifier"},
    case_statement |-> {"_case_when_value", "_expression", "_plsql_stmt", "identifier"},
    _case_when_value |-> {"_expression"},
    exit_statement |-> {"_expression", "identifier"},
    continue_statement |-> {"_expression", "identifier"},
    raise_statement |-> {"object_reference"},
    goto_statement |-> {"identifier"},
    return_statement |-> {"_expression"},
    for_statement |-> {"_plsql_stmt", "for_control", "for_iterand", "identifier"},
    for_iterand |-> {"_plsql_type", "identifier"},
    for_control |-> {"_expression", "execute_immediate_statement", "invocation", "object_reference",
      "subquery"},
    _cursor_target |-> {"identifier", "parameter"},
    cursor_open_statement |-> {"_cursor_target", "_dml_read", "_expression", "named_argument",
      "using_clause"},
    using_clause |-> {"_expression"},
    cursor_fetch_statement |-> {"_cursor_target", "_expression", "_into_target"},
    cursor_close_statement |-> {"_cursor_target"},
    execute_immediate_statement |-> {"_expression", "_into_target", "using_clause"},
    forall_statement |-> {"_delete_statement", "_expression", "_merge_statement", "_update_statement",
      "execute_immediate_statement", "identifier", "insert", "invocation", "object_reference"},
    cursor_attribute |-> {"_expression", "_qualified_field", "identifier", "parameter"},
    invocation |-> {"_invocation_argument", "_invocation_tail_0", "object_reference", "term"},
    _invocation_argument |-> {"_argument_tail_0", "_qualified_choice", "match_navigation", "named_argument",
      "term"},
    match_navigation |-> {"invocation"},
    _listagg_overflow |-> {"_literal_string"},
    index_choice |-> {"_expression", "binary_expression", "literal", "parameter"},
    iterator_choice |-> {"_expression", "for_control", "for_iterand"},
    call_chain |-> {"_expression", "identifier", "invocation", "named_argument"},
    bind_array_element |-> {"_expression", "parameter"},
    exponent_expression |-> {"_expression"},
    _literal_string |-> {"_q_quote_string", "_single_quote_string"},
    where |-> {"_expression", "identifier"} ] @@
  ordered_optionals("_unit_signature", <<
    {"sharing_clause"}, {"plsql_parameter"}>>) @@
  ordered_optionals("_argument_tail", <<
    {"_nulls_treatment"}, {"order_by"}, {"_literal_string"}, {"_listagg_overflow"}, {"limit"}>>) @@
  ordered_optionals("_invocation_tail", <<
    {"filter_expression"}, {"within_group"}>>))

oracle_views_tx_rules == Unit(
  StrongWords({"batch", "bequeath", "computation", "concurrent", "edition", "editioning", "enforced",
    "evaluate", "id", "indicator", "precision", "recompile", "under", "reduced", "statement", "trusted",
    "without"}),
  Tokens({"_view_constraint_state"}) @@
  [ create_view |-> {"_if_not_exists", "_view_check_tail", "_view_modifiers_0", "_view_option",
      "_view_spec", "create_query", "object_reference", "sharing_clause"},
    _view_spec |-> {"_expression", "object_reference", "view_column", "view_constraint"},
    _view_option |-> {"annotations_clause", "identifier"},
    _view_check_tail |-> {"_check_option", "identifier"},
    view_column |-> {"_encrypt_clause", "_primary_key", "_view_constraint_state", "annotations_clause",
      "identifier"},
    view_constraint |-> {"_oracle_references", "_primary_key", "_view_constraint_state", "identifier",
      "ordered_columns"},
    alter_view |-> {"_alter_view_action", "_dml_read", "_if_exists", "object_reference"},
    _alter_view_action |-> {"add_constraint", "add_unnamed_constraint", "annotations_clause",
      "change_ownership", "drop_constraint", "drop_key_clause", "modify_columns_clause",
      "modify_constraint_clause", "rename_column", "rename_object", "set_schema"},
    drop_view |-> {"_drop_behavior", "_if_exists", "object_reference"},
    drop_materialized_view |-> {"_drop_behavior", "_if_exists", "object_reference"},
    drop_index |-> {"_drop_behavior", "_if_exists", "object_reference"},
    mv_refresh_clause |-> {"_expression"},
    create_materialized_view |-> {"_if_not_exists", "_mv_build_clause", "_mv_query_rewrite", "_or_replace",
      "_oracle_physical_attribute", "annotations_clause", "create_query", "identifier", "mv_column",
      "mv_refresh_clause", "object_reference", "table_partition_by"},
    mv_column |-> {"_encrypt_clause", "annotations_clause", "identifier"},
    _commit |-> {"_literal_string", "_natural_number", "_transaction_chain"},
    _rollback |-> {"_literal_string", "_transaction_chain"},
    set_statement |-> {"_set_transaction_option", "object_reference", "transaction_mode"},
    _set_transaction_option |-> {"_literal_string", "identifier", "transaction_mode"},
    _truncate_statement |-> {"_drop_behavior", "object_reference"},
    lock_table_statement |-> {"_lock_mode", "_natural_number", "object_reference", "partition_extension"},
    call_statement |-> {"call_chain", "invocation", "parameter"} ] @@
  ordered_optionals("_view_modifiers", <<
    {"_or_replace"}, {}, {"_temporary"}, {}, {}, {}>>))

oracle_json_rules == Unit(
  StrongWords({"absent", "allow", "ascii", "conditional", "disallow", "empty", "format", "json_array",
    "json_arrayagg", "json_exists", "json_object", "json_objectagg", "json_query", "json_serialize",
    "json_transform", "json_value", "keys", "mismatch", "error", "omit", "ordered", "ordinality", "pretty",
    "quotes", "scalar", "strict", "unconditional", "unknown", "wrapper", "append", "prepend", "missing",
    "remove", "rename_op", "lax"}),
  Tokens({"_json_format", "_json_null_clause", "_json_wrapper", "_json_quotes"}) @@
  [ _json_returning |-> {"_type"},
    _json_passing |-> {"_expression", "identifier"},
    _json_on_clause |-> {"_expression", "identifier"},
    _json_path |-> {"_literal_string"},
    json_function |-> {"json_array_function", "json_object_function", "json_objectagg_function",
      "json_path_function", "json_serialize_function", "json_transform_function"},
    json_path_function |-> {"_expression", "_json_format", "_json_on_clause", "_json_passing", "_json_path",
      "_json_quotes", "_json_returning", "_json_wrapper"},
    json_entry |-> {"_expression", "_json_format", "object_reference"},
    _json_object_option |-> {"_json_null_clause", "_json_returning"},
    json_object_function |-> {"_json_object_option", "json_entry"},
    json_objectagg_function |-> {"_json_object_option", "json_entry"},
    json_array_function |-> {"_expression", "_json_format", "_json_null_clause", "_json_returning",
      "order_by"},
    json_serialize_function |-> {"_expression", "_json_format", "_json_on_clause", "_json_returning"},
    json_transform_function |-> {"_expression", "_json_returning", "json_transform_operation"},
    json_transform_operation |-> {"_expression", "_json_format", "_json_path", "json_transform_operation"},
    json_constructor |-> {"_expression", "json_entry"},
    is_json_condition |-> {"_expression", "is_not"},
    json_dot_path |-> {"_json_dot_path_tail", "_qualified_field"},
    _json_dot_path_tail |-> {"_json_dot_path_tail", "identifier"},
    json_table |-> {"_expression", "_json_format", "_json_on_clause", "_json_path", "json_table_column"},
    json_table_column |-> {"_json_format", "_json_on_clause", "_json_path", "_json_quotes", "_json_wrapper",
      "_type", "identifier", "json_array_step", "json_table_column"},
    nested_columns_clause |-> {"identifier", "json_table_column"},
    json_object_access |-> {"_json_step", "_qualified_field", "identifier", "subscript"},
    _json_step |-> {"identifier", "json_array_step"},
    json_array_step |-> {"_expression"} ])

oracle_tablespace_rules == Unit(
  StrongWords({"autoallocate", "autoextend", "backup", "bigfile", "blocksize", "datafiles", "dictionary",
    "encryption", "contents", "management", "manual", "normal", "off", "offset", "offline", "guarantee",
    "lost", "maxsize", "minimum", "noguarantee", "permanent", "protection", "resize", "smallfile",
    "suspend", "tempfile", "uniform", "undo"}),
  [ _oracle_admin_statement |-> {"_oracle_misc_statement", "_oracle_unit_statement",
      "alter_domain_statement", "alter_duality_view_statement", "alter_package_statement",
      "alter_pluggable_database", "alter_profile", "alter_synonym_statement", "alter_tablespace",
      "alter_trigger_statement", "create_domain_statement", "create_duality_view_statement",
      "create_pluggable_database", "create_profile", "create_property_graph_statement", "create_tablespace",
      "create_vector_index_statement", "drop_domain_statement", "drop_pluggable_database", "drop_profile",
      "drop_tablespace"},
    _file_spec |-> {"_autoextend_clause", "_literal_string", "_size"},
    _autoextend_clause |-> {"_size"},
    _file_clause |-> {"_autoextend_clause", "_file_spec"},
    create_tablespace |-> {"_file_clause", "_if_not_exists", "_tablespace_option", "compression_clause",
      "identifier", "inmemory_clause", "storage_clause"},
    _tablespace_option |-> {"_literal_string", "_size", "identifier"},
    alter_tablespace |-> {"_alter_tablespace_action", "_if_exists", "identifier"},
    _alter_tablespace_action |-> {"_autoextend_clause", "_file_clause", "_literal_string",
      "_natural_number", "_size", "_tablespace_option", "compression_clause", "identifier",
      "inmemory_clause", "storage_clause"},
    drop_tablespace |-> {"_if_exists", "identifier"} ])

oracle_sequence_profile_rules == Unit(
  StrongWords({"composite_limit", "connect_time", "cpu_per_call", "cpu_per_session",
    "failed_login_attempts", "idle_time", "inactive_account_time", "container", "logical_reads_per_call",
    "logical_reads_per_session", "mandatory", "password_grace_time", "password_life_time",
    "password_lock_time", "password_reuse_max", "password_reuse_time", "password_rollover_time",
    "password_verify_function", "private_sga", "profile", "sessions_per_user", "noextend", "noscale",
    "noshard", "nokeep", "scale", "shard", "extend"}),
  [ _sequence_option |-> {"_integer", "_type", "literal", "object_reference", "sharing_clause"},
    create_sequence |-> {"_if_not_exists", "_sequence_option", "object_reference"},
    alter_sequence |-> {"_if_exists", "_integer", "_sequence_option", "change_ownership", "identifier",
      "object_reference", "rename_object"},
    _limit_value |-> {"_natural_number"},
    _profile_limit |-> {"_limit_value", "_size", "object_reference"},
    _profile_body |-> {"_profile_limit"},
    create_profile |-> {"_profile_body", "identifier"},
    alter_profile |-> {"_profile_body", "identifier"},
    drop_profile |-> {"identifier"} ])

oracle_grant_rules == Unit(
  StrongWords({"delegate", "hierarchy", "inherit", "java", "mining", "debug", "resource", "library"}),
  Tokens({"_privilege_noun", "_container_clause"}) @@
  [ _privilege_type |-> {"_privilege_noun", "identifier"},
    _grant_object |-> {"object_reference"},
    _grantee |-> {"identifier", "object_reference"},
    grant_statement |-> {"_container_clause", "_grant_object", "_grantee_list", "_literal_string",
      "_privilege_list", "identifier"},
    revoke_statement |-> {"_container_clause", "_grant_object", "_grantee_list", "_privilege_list"} ])

oracle_program_rules == Unit(
  StrongWords({"choose", "display", "flexible", "settings", "specification", "usecase"}),
  Tokens({"_editionable_clause"}) @@
  [ _compiler_parameter |-> {"identifier", "literal"},
    compile_clause |-> {"_compiler_parameter"},
    alter_synonym_statement |-> {"_editionable_clause", "_if_exists", "object_reference"},
    alter_package_statement |-> {"_editionable_clause", "_if_exists", "compile_clause", "object_reference"},
    alter_trigger_statement |-> {"_editionable_clause", "_if_exists", "compile_clause", "object_reference",
      "rename_object"},
    _domain_enum_value |-> {"identifier", "literal"},
    create_domain_statement |-> {"_domain_definition", "_domain_option", "_if_not_exists",
      "object_reference"},
    _domain_definition |-> {"_column_constraint", "_domain_enum_value", "_type", "case", "identifier",
      "invocation"},
    _domain_option |-> {"_expression", "annotations_clause"},
    alter_domain_statement |-> {"_expression", "_if_exists", "annotations_clause", "object_reference"},
    drop_domain_statement |-> {"_if_exists", "object_reference"} ])

oracle_utility_rules == Unit(
  StrongWords({"chained", "credential", "dangling", "graph", "indextype", "property"}),
  [ analyze_statement |-> {"_integer", "object_reference", "partition_extension"},
    comment_statement |-> {"_comment_target", "_literal_string", "_oracle_comment_target"},
    _oracle_comment_target |-> {"identifier", "object_reference"},
    create_database_link_statement |-> {"_expression", "_if_not_exists", "_literal_string", "dblink_name",
      "identifier"} ])

oracle_type_admin_rules == Unit(
  StrongWords({"constructor", "convert", "element", "final", "map", "static", "instantiable", "member",
    "oid", "overriding", "result", "self", "substitutable"}),
  Tokens({"_type_modifier"}) @@
  [ create_type |-> {"_if_not_exists", "_type_definition", "_type_option_0", "_type_prefix_0",
      "object_reference"},
    _type_definition |-> {"_natural_number", "_not_null", "_object_type_body", "_type", "object_reference"},
    _object_type_body |-> {"_literal_string", "_type_element", "_type_modifier", "identifier"},
    _type_element |-> {"_literal_string", "_type", "_type_method", "identifier"},
    _type_method |-> {"_subprogram_heading", "_type_modifier_or_overriding", "identifier", "plsql_parameter"},
    _type_modifier_or_overriding |-> {"_type_modifier"},
    alter_type |-> {"_dependent_handling", "_editionable_clause", "_if_exists", "_natural_number", "_type",
      "_type_element", "_type_method", "_type_modifier", "compile_clause", "identifier", "object_reference"},
    _dependent_handling |-> {"object_reference"} ] @@
  ordered_optionals("_type_prefix", <<
    {"_or_replace"}, {"_editionable_clause"}>>) @@
  ordered_optionals("_type_option", <<
    {}, {"_literal_string"}, {"sharing_clause"}, {}>>))

oracle_session_rules == Unit(
  StrongWords({"active", "advise", "archival", "ddl", "guard", "resumable", "sync", "timeout", "visibility"}),
  [ alter_session_statement |-> {"_expression", "_literal_string", "_natural_number", "identifier"},
    _legacy_alter_system |-> {"_expression", "_literal_string", "identifier"},
    alter_system_statement |-> {"_legacy_alter_system", "identifier"} ])

oracle_graph_rules == Unit(
  StrongWords({"accuracy", "are", "dot", "options", "properties", "types", "cosine", "destination",
    "distance", "distribute", "duality", "flex", "unnest", "nocheck", "noinsert", "noupdate", "nodelete",
    "duplicate", "edge", "efconstruction", "euclidean", "euclidean_squared", "hamming", "hnsw", "ivf",
    "label", "logical", "manhattan", "min_vectors_per_partition", "mixed", "neighbor", "neighbors",
    "relational", "replication", "samples_per_partition", "vector", "vertex"}),
  Tokens({"_graph_option", "_duality_tag", "_duality_graphql_tag"}) @@
  [ create_property_graph_statement |-> {"_graph_option", "_if_not_exists", "_or_replace",
      "graph_edge_table", "graph_vertex_table", "object_reference"},
    graph_vertex_table |-> {"_graph_key", "_graph_label", "_graph_properties", "identifier",
      "object_reference"},
    graph_edge_table |-> {"_graph_endpoint_0", "_graph_key", "_graph_label", "_graph_properties",
      "identifier", "object_reference"},
    _graph_key |-> {"identifier"},
    _graph_label |-> {"_graph_properties", "identifier"},
    _graph_properties |-> {"_expression", "identifier"},
    create_vector_index_statement |-> {"_if_not_exists", "_natural_number", "_vector_parameter",
      "identifier", "object_reference"},
    _vector_parameter |-> {"_natural_number"},
    alter_duality_view_statement |-> {"_if_exists", "object_reference"},
    create_duality_view_statement |-> {"_duality_graphql", "_duality_query", "_if_not_exists",
      "_or_replace", "object_reference"},
    _duality_query |-> {"_duality_member", "_duality_tags", "relation", "where"},
    _duality_member |-> {"_duality_query", "_duality_tags", "_expression", "_literal_string"},
    _duality_tags |-> {"_duality_tag"},
    _duality_graphql |-> {"_duality_graphql_object", "_duality_graphql_tag", "object_reference"},
    _duality_graphql_object |-> {"_duality_graphql_member"},
    _duality_graphql_member |-> {"_duality_graphql_object", "_duality_graphql_tag", "identifier",
      "object_reference"} ] @@
  ordered_optionals("_graph_endpoint", <<
    {"_graph_key"}, {"identifier", "object_reference"}, {"object_reference"}>>))

oracle_unit_rules == Unit(
  StrongWords({"compound", "crossedition", "follows", "forward", "logoff", "logon", "parent", "pluggable",
    "precedes", "servererror", "shutdown", "startup"}),
  Tokens({"_trigger_timing", "_timing_point"}) @@
  [ _oracle_unit_statement |-> {"alter_function_statement", "alter_procedure_statement",
      "create_type_body_statement", "drop_trigger_statement"},
    alter_function_statement |-> {"_editionable_clause", "_if_exists", "compile_clause", "object_reference"},
    alter_procedure_statement |-> {"_editionable_clause", "_if_exists", "compile_clause", "object_reference"},
    drop_trigger_statement |-> {"_if_exists", "object_reference"},
    create_synonym_statement |-> {"_editionable_clause", "_if_not_exists", "_or_replace", "identifier",
      "object_reference", "sharing_clause"},
    drop_synonym_statement |-> {"_if_exists", "object_reference"},
    create_directory_statement |-> {"_if_not_exists", "_literal_string", "_or_replace", "identifier",
      "sharing_clause"},
    _package_property |-> {"identifier", "object_reference", "sharing_clause"},
    create_package |-> {"_editionable_clause", "_if_not_exists", "_or_replace", "_package_property",
      "_package_spec_item", "identifier", "object_reference"},
    create_package_body |-> {"_editionable_clause", "_if_not_exists", "_or_replace", "_package_body_item",
      "identifier", "object_reference"},
    create_type_body_statement |-> {"_if_not_exists", "_type_body_element", "_type_prefix_0",
      "object_reference"},
    _type_body_element |-> {"_subprogram_body", "_type_modifier_or_overriding", "identifier",
      "plsql_parameter", "subprogram_definition"},
    create_trigger |-> {"_editionable_clause", "_if_not_exists", "_or_replace", "_timing_section",
      "_trigger_events", "_trigger_option", "_trigger_target", "_trigger_timing", "compound_statement",
      "identifier", "invocation", "object_reference", "sharing_clause"},
    _trigger_events |-> {"_trigger_event"},
    _trigger_event |-> {"_create_trigger_event"},
    _trigger_target |-> {"identifier", "object_reference"},
    _trigger_option |-> {"_expression", "identifier", "object_reference"},
    _timing_section |-> {"_declaration", "_plsql_stmt", "_timing_point", "exception_handler"} ])

oracle_mvlog_rules == Unit(
  StrongWords({"asynchronous", "hour", "minute", "synchronous", "triggers"}),
  Tokens({"_interval_unit_name"}) @@
  [ _mv_log_value |-> {"identifier"},
    _mv_log_refresh |-> {"object_reference"},
    _mv_log_purge |-> {"_expression", "_interval_unit_name"},
    create_materialized_view_log |-> {"_if_not_exists", "_mv_log_new_values", "_mv_log_purge",
      "_mv_log_refresh", "_mv_log_value", "_oracle_physical_attribute", "object_reference",
      "sharing_clause", "table_partition_by"},
    alter_materialized_view_log |-> {"_if_exists", "_mv_log_new_values", "_mv_log_purge", "_mv_log_refresh",
      "_mv_log_value", "_oracle_physical_attribute", "identifier", "object_reference", "table_partition_by"},
    drop_materialized_view_log |-> {"_if_exists", "object_reference"},
    alter_materialized_view |-> {"_if_exists", "_mv_query_rewrite", "_oracle_physical_attribute",
      "annotations_clause", "change_ownership", "mv_refresh_clause", "object_reference", "rename_object",
      "set_schema"},
    alter_database_link_statement |-> {"_expression", "_if_exists", "identifier", "object_reference"},
    flashback_statement |-> {"_expression", "identifier", "object_reference"},
    purge_statement |-> {"identifier", "object_reference"} ])

oracle_account_rules == Unit(
  StrongWords({"authentication", "through", "account", "roles", "container_data", "digest", "editions",
    "enterprise", "expire", "externally", "factor", "globally", "http", "quota", "unlock", "users"}),
  [ _account_string_or_name |-> {"_literal_string", "identifier"},
    _account_option |-> {"_account_string_or_name", "_literal_string", "_size", "identifier",
      "object_reference"},
    _role_options |-> {"_account_option", "_integer", "_literal_string", "identifier"},
    alter_role |-> {"_if_exists", "_role_options", "identifier", "rename_object", "set_configuration"},
    create_role |-> {"_if_not_exists", "_role_options", "_user_access_role_config", "identifier"} ])

oracle_misc_rules == Unit(
  StrongWords({"bucket", "hybrid", "iceberg"}),
  [ _oracle_misc_statement |-> {"alter_property_graph_statement", "create_hybrid_vector_index_statement",
      "create_iceberg_table_statement", "drop_iceberg_table_statement", "drop_property_graph_statement",
      "rename_object_statement"},
    bind_record_field |-> {"identifier", "parameter"},
    assignment_statement |-> {"_expression", "_qualified_field", "bind_record_field", "identifier",
      "invocation", "parameter"},
    drop_role |-> {"_if_exists", "identifier"},
    drop_database_link_statement |-> {"_if_exists", "object_reference"},
    drop_directory_statement |-> {"_if_exists", "identifier"},
    drop_package |-> {"_if_exists", "object_reference"},
    rename_object_statement |-> {"object_reference"},
    alter_property_graph_statement |-> {"_if_exists", "object_reference"},
    drop_property_graph_statement |-> {"_if_exists", "object_reference"},
    create_iceberg_table_statement |-> {"_iceberg_transform", "_if_not_exists", "_literal_string", "_type",
      "identifier", "object_reference"},
    _iceberg_transform |-> {"_natural_number", "identifier"},
    drop_iceberg_table_statement |-> {"_if_exists", "identifier", "object_reference"},
    create_hybrid_vector_index_statement |-> {"_if_not_exists", "_literal_string", "identifier",
      "object_reference"} ])

oracle_expr_rules == Unit(
  Words({"like"}) @@
  StrongWords({"conversion", "float32", "float64", "int8", "multiset", "sparse"}),
  Tokens({"_remote_link", "op_other", "_integer", "_decimal_number", "json_type"}) @@
  [ _signed_operand |-> {"_qualified_field", "_signed_operand", "case", "cast", "invocation",
      "parenthesized_expression", "window_function"},
    collate_expression |-> {"_expression", "identifier"},
    interval_qualified_expression |-> {"_natural_number", "parenthesized_expression"},
    remote_reference |-> {"_qualified_field", "_remote_link"},
    cursor_expression |-> {"subquery"},
    new_expression |-> {"invocation"},
    interval |-> {"_literal_string", "_natural_number", "identifier"},
    _cast_options |-> {"_cast_format", "_expression"},
    _cast_format |-> {"_expression"},
    at_time_zone_expression |-> {"_expression"},
    cast |-> {"_cast_options", "_expression", "_type", "object_reference", "subquery"},
    _qualified_choice |-> {"_expression", "identifier", "index_choice", "iterator_choice"},
    _into_target |-> {"_qualified_field", "parameter"},
    _type |-> {"array_size_definition", "bfile", "bigint", "binary", "binary_double", "binary_float", "bit",
      "blob", "char", "char_semantics_type", "clob", "decimal", "double", "enum", "float", "int",
      "interval_day_to_second", "interval_year_to_month", "json_type", "long_type", "national_char_type",
      "nchar", "nclob", "number_star_type", "number_type", "numeric", "nvarchar", "nvarchar2",
      "object_reference", "raw_type", "rowid", "smallint", "time", "timestamp", "urowid",
      "urowid_size_type", "varbinary", "varchar", "varchar2", "vector_type"},
    number_star_type |-> {"_natural_number"},
    urowid_size_type |-> {"_natural_number"},
    vector_type |-> {"_natural_number"},
    national_char_type |-> {"_natural_number"},
    char_semantics_type |-> {"_natural_number"} ])

oracle_select_clause_rules == Unit(
  StrongWords({"approx", "across", "analytic", "ancestor", "beginning", "fact", "hierarchies", "count",
    "approximate", "breadth", "depth", "efsearch", "exact", "minus", "probes", "qualify", "respect",
    "search", "connect_by_root"}),
  Tokens({"_nulls_treatment"}) @@
  [ set_operation |-> {"_select_core", "_select_statement", "_set_operand", "_set_operation_tail",
      "_set_operator"},
    _set_operand |-> {"_select_statement", "_set_operator"},
    _set_operator |-> {"identifier"},
    _set_operation_tail |-> {"offset_fetch_clause", "order_by"},
    group_by |-> {"_expression", "cube_clause", "grouping_sets_clause", "rollup_clause"},
    _group_having |-> {"group_by", "having"},
    connect_by_clause |-> {"_connect_by", "_start_with"},
    _start_with |-> {"_expression"},
    _connect_by |-> {"_expression"},
    _cte |-> {"_cte_list", "subprogram_definition"},
    _cte_list |-> {"_cte_item"},
    _cte_item |-> {"analytic_view_cte", "cte"},
    analytic_view_cte |-> {"analytic_view_subquery", "identifier"},
    analytic_view_subquery |-> {"_analytic_filter", "analytic_measure", "hierarchies_clause",
      "object_reference"},
    hierarchies_clause |-> {"identifier"},
    _analytic_filter |-> {"_expression", "identifier"},
    analytic_measure |-> {"_expression", "identifier"},
    _hierarchy_window |-> {"_expression", "identifier"},
    cte |-> {"_dml_read", "_dml_write", "cycle_clause", "identifier", "search_clause", "values"},
    search_clause |-> {"identifier"},
    cycle_clause |-> {"_expression", "identifier"},
    window_function |-> {"_nulls_treatment", "identifier", "invocation", "window_specification"},
    frame_definition |-> {"_current_row", "_integer", "_literal_string", "binary_expression", "identifier",
      "interval"},
    qualify |-> {"_expression"},
    window_clause |-> {"identifier", "window_specification"},
    window_specification |-> {"_hierarchy_window", "identifier", "order_by", "partition_by", "window_frame"},
    offset_fetch_clause |-> {"_expression", "_fetch_first_clause"},
    _fetch_first_clause |-> {"_fetch_count", "_fetch_end"},
    _fetch_count |-> {"_expression"},
    _fetch_end |-> {"_target_accuracy"},
    _target_accuracy |-> {"_accuracy_parameters", "_expression"},
    _accuracy_parameters |-> {"_expression"} ])

rules_2 == Unit(
  Words({"query", "master", "coalesce"}) @@
  StrongWords({"attribute", "atomic", "connection", "logged", "savepoint", "lock", "mode", "share",
    "exclusive", "purge", "flashback", "restore", "point", "clean", "cluster", "size", "storage", "reuse",
    "including", "constraints", "context", "audit", "noaudit", "policy", "whenever", "successful",
    "associate", "disassociate", "selectivity", "plan", "call", "build", "never", "fast", "complete",
    "demand", "segment", "prebuilt", "excluding", "zonemap", "pruning", "rebuild", "compile", "consider",
    "fresh", "rewrite", "unusable", "monitoring", "authenticated", "online", "pctfree", "national",
    "operator", "binding", "pctused", "initrans", "noparallel", "nocache", "logging", "nologging",
    "noreverse", "called", "locked", "model", "shared", "encrypted"}),
  Tokens({"_identifier"}))

layers == <<Copy(dialect_transaction_rules), Copy(dialect_alter_rules), Copy(dialect_legacy_rules),
    Inline(rules_1), Own(oracle_hierarchical_rules), Own(oracle_xml_rules), Own(oracle_graph_table_rules),
    Own(oracle_multiset_rules), Own(oracle_pluggable_rules), Own(oracle_plsql_rules),
    Own(oracle_cursor_rules), Own(oracle_package_rules), Own(oracle_procedural_rules),
    Own(oracle_type_rules), Own(oracle_hint_rules), Own(oracle_partition_rules),
    Own(oracle_table_ddl_rules), Own(oracle_ddl_ext_rules), Own(oracle_admin_ddl_rules),
    Own(oracle_mview_rules), Own(oracle_admin_rules), Own(oracle_match_recognize_rules),
    Own(oracle_storage_rules), Own(oracle_alter_table_rules), Own(oracle_index_ddl_rules),
    Own(oracle_query_rules), Own(oracle_dml_rules), Own(oracle_plsql_core_rules),
    Own(oracle_views_tx_rules), Own(oracle_json_rules), Own(oracle_tablespace_rules),
    Own(oracle_sequence_profile_rules), Own(oracle_grant_rules), Own(oracle_program_rules),
    Own(oracle_utility_rules), Own(oracle_type_admin_rules), Own(oracle_session_rules),
    Own(oracle_graph_rules), Own(oracle_unit_rules), Own(oracle_mvlog_rules), Own(oracle_account_rules),
    Own(oracle_misc_rules), Own(oracle_expr_rules), Own(oracle_select_clause_rules), Inline(rules_2)>>

conflicts == {{"object_reference", "_qualified_field"}, {"field", "_qualified_field"},
  {"_column", "_qualified_field"}, {"object_reference"},
  {"between_expression", "binary_expression", "like_expression"},
  {"between_expression", "binary_expression", "like_expression", "multiset_condition"},
  {"_expression", "interval_qualified_expression"}, {"transaction", "start_transaction_statement"},
  {"transaction", "commit_statement"}, {"transaction", "rollback_statement"},
  {"_commit", "commit_statement"}, {"_rollback", "rollback_statement"}, {"list", "grouping_set"},
  {"list", "rollup_element"}, {"list", "cube_element"}, {"assignment_statement", "_qualified_field"},
  {"_function_return", "return_statement"}, {"pragma_statement", "_qualified_field"}, {"inmemory_clause"},
  {"move_clause"}, {"add_overflow_clause"}, {"alter_partition"}, {"partition_definition"},
  {"subpartition_definition"}, {"index_partition_action"}, {"compression_clause"},
  {"add_unnamed_constraint"}, {"modify_constraint_clause"}, {"alter_constraint_state"}, {"constraint"},
  {"drop_key_clause"}, {"drop_constraint"}, {"_oracle_table_attribute"}, {"_encrypt_clause"},
  {"_index_organized_option"}, {"_constraint_state"}, {"modify_columns_clause"},
  {"_column", "_qualified_field", "object_reference"}, {"lob_storage_clause"}, {"_default_expression"},
  {"dblink_name"}, {"partition_by"}, {"insert_into_clause"}, {"table_collection"}, {"locking_clause"},
  {"log_errors_clause"}, {"set_statement", "object_reference"}, {"table_partition_by"}, {"qualify"},
  {"_duality_query", "json_constructor"}, {"_fetch_first_clause"}, {"binary_expression", "order_target"},
  {"_column_property", "create_domain_statement"}, {"keyword_char", "keyword_varchar"}}
==============================================================================
