---------------------------- MODULE MySQLRules -----------------------------
(***************************************************************************)
(* mysql/grammar.js, mariadb/grammar.js and the rule files they spread:    *)
(* what the grammars add to the rules of base, and the second to those of  *)
(* the first, and what they override, one unit per object of rules, and    *)
(* the layers in the order they are spread.                                *)
(***************************************************************************)
EXTENDS GrammarHelpers

Base == INSTANCE BaseRules
Copied == INSTANCE CopiedRules

dialect_transaction_rules == Copied!dialect_transaction_rules
dialect_alter_rules == Copied!dialect_alter_rules
misc_rules == Copied!misc_rules
legacy_words == Copied!legacy_words
create_rules_own_1 == Copied!create_rules_own_1
create_rules_own_2 == Copied!create_rules_own_2

create_rules == Spread(<<create_rules_own_1, Base!create_function_rules, Base!create_procedure_rules,
    create_rules_own_2>>)

drop_rules == Copied!drop_rules
rename_rules == Copied!rename_rules
refresh_rules == Copied!refresh_rules
truncate_rules == Copied!truncate_rules
insert_rules == Copied!insert_rules
update_rules == Copied!update_rules
delete_rules == Copied!delete_rules
merge_rules == Copied!merge_rules
legacy_dispatch == Copied!legacy_dispatch

dialect_legacy_rules == Spread(<<misc_rules, legacy_words, create_rules, drop_rules, rename_rules,
    refresh_rules, truncate_rules, insert_rules, update_rules, delete_rules, merge_rules, legacy_dispatch>>)

rules_1 == Unit(
  StrongWords({"match", "against", "query", "expansion", "share", "lock", "locked", "prepare", "deallocate",
    "skip", "mode", "global", "persist", "persist_only", "names", "expire", "account", "unlock",
    "identified", "quick", "extended", "fast", "medium", "changed", "upgrade", "histogram", "buckets",
    "repair", "use_frm", "no_write_to_binlog", "auto_increment", "stored", "virtual", "optimize", "engine",
    "high_priority", "low_priority", "delayed", "rlike", "split", "tablets", "ignore", "fields",
    "terminated", "lines", "outfile", "dumpfile", "into", "rollup", "event", "every", "starts", "ends",
    "invisible", "visible", "enclosed", "respect", "completion", "preserve", "slave", "json_table", "path",
    "infile", "databases", "processlist", "status", "warnings", "variables", "indexes", "describe",
    "schedule", "at", "load", "escaped", "grants", "show", "columns", "keys", "escape", "follows",
    "precedes", "while", "elseif", "loop", "repeat", "signal", "resignal", "leave", "iterate",
    "diagnostics", "sqlstate", "message_text", "returned_sqlstate", "condition", "get", "call", "declare",
    "cursor", "open", "fetch", "close", "handler", "sqlexception", "sqlwarning", "exit", "continue",
    "found", "list", "partitions", "less", "than", "reorganize", "coalesce", "rebuild", "remove",
    "partitioning", "linear"}),
  Tokens({"user_variable", "_backtick_quoted_string"}) @@
  [ create_table |-> {"_if_not_exists", "_temporary", "column_definitions", "create_query",
      "object_reference", "table_option", "table_partition_by"},
    _create_statement |-> {"create_database", "create_event", "create_function", "create_index",
      "create_procedure", "create_role", "create_schema", "create_sequence", "create_table",
      "create_trigger", "create_type", "create_view"},
    _optimize_statement |-> {"_mariadb_optimize_table"},
    _ddl_statement |-> {"_alter_statement", "_create_statement", "_drop_statement", "_merge_statement",
      "_optimize_statement", "_refresh_statement", "_rename_statement", "alter_event", "alter_instance",
      "alter_logfile_group", "alter_server", "alter_tablespace", "alter_user_statement",
      "analyze_table_statement", "check_table_statement", "comment_statement", "create_logfile_group",
      "create_resource_group", "create_server", "create_spatial_reference_system", "create_tablespace",
      "create_user_statement", "deallocate_statement", "describe_statement", "drop_event",
      "drop_logfile_group", "drop_resource_group", "drop_server", "drop_spatial_reference_system",
      "drop_tablespace", "drop_user_statement", "execute_statement", "grant_statement", "prepare_statement",
      "rename_user_statement", "repair_table_statement", "revoke_statement", "set_resource_group",
      "set_statement", "show_statement"},
    _dml_write |-> {"_cte", "_delete_statement", "_insert_statement", "_truncate_statement",
      "_update_statement", "load_data_statement"},
    _dml_read |-> {"_cte", "_select_statement", "set_operation", "table_statement", "values_row_statement"},
    insert |-> {"_insert_values", "_on_conflict", "_on_duplicate_key_update", "_set_values", "identifier",
      "object_reference"},
    from |-> {"cross_join", "group_by", "having", "index_hint", "into_outfile", "join",
      "lateral_cross_join", "lateral_join", "limit", "order_by", "relation", "where", "window_clause"},
    _delete_statement |-> {"_delete_from", "_delete_target", "cross_join", "delete", "from", "join",
      "lateral_cross_join", "lateral_join", "relation", "where"},
    _delete_target |-> {"object_reference"},
    join |-> {"_column_list", "_expression", "index_hint", "join", "relation"},
    relation |-> {"_alias", "_column_list", "invocation", "json_table", "object_reference", "subquery",
      "tablesample", "values"},
    group_by |-> {"_expression", "cube_clause", "grouping_sets_clause", "rollup_clause"},
    window_function |-> {"identifier", "invocation", "window_specification"},
    _column_constraint |-> {"_check_constraint", "_column_comment", "_default_expression", "_expression",
      "_not_null", "_primary_key", "direction", "identifier", "object_reference"},
    table_option |-> {"_integer", "_literal_string", "identifier"},
    values_row_statement |-> {"_expression"},
    table_statement |-> {"limit", "object_reference", "order_by"},
    json_table |-> {"_expression", "_json_table_column_def", "_literal_string"},
    _json_table_column_def |-> {"_literal_string", "_type", "identifier"},
    show_statement |-> {"_expression", "limit", "object_reference"},
    describe_statement |-> {"identifier", "object_reference"},
    limit |-> {"_integer", "literal", "offset"},
    _expression |-> {"_qualified_field", "array", "between_expression", "binary_expression", "case", "cast",
      "exists", "interval", "invocation", "like_expression", "list", "literal", "match_against",
      "parameter", "parenthesized_expression", "position_expression", "subquery", "subscript",
      "typed_temporal_literal", "unary_expression", "user_variable", "window_function"},
    match_against |-> {"_expression", "_qualified_field"},
    identifier |-> {"_backtick_quoted_string", "_double_quote_string", "_identifier"},
    _alter_specifications |-> {"add_column", "add_constraint", "alter_algorithm_option", "alter_column",
      "alter_lock_option", "alter_partition", "change_column", "change_ownership", "drop_column",
      "drop_constraint", "modify_column", "rename_column", "rename_object", "set_schema", "table_option"},
    alter_algorithm_option |-> {"identifier"},
    alter_lock_option |-> {"identifier"},
    statement |-> {"_ddl_statement", "_dml_read", "_dml_write", "_transaction_statement", "call_statement",
      "case_statement", "checksum_table_statement", "clone_statement", "close_cursor_statement",
      "compound_statement", "declare_condition_statement", "declare_cursor_statement",
      "declare_handler_statement", "declare_statement", "do_statement", "fetch_cursor_statement",
      "flush_statement", "get_diagnostics_statement", "handler_statement", "help_statement", "if_statement",
      "import_table_statement", "install_statement", "iterate_statement", "kill_statement",
      "leave_statement", "load_xml_statement", "lock_instance_statement", "lock_tables_statement",
      "loop_statement", "open_cursor_statement", "repeat_statement", "reset_statement",
      "resignal_statement", "restart_statement", "return_statement", "set_variable_statement",
      "signal_statement", "uninstall_statement", "unlock_tables_statement", "while_statement"},
    procedure_body |-> {"_single_quote_string", "compound_statement"} ])

mysql_create_rules == Unit(
  NoWords,
  [ create_trigger |-> {"_create_trigger_event", "_expression", "_if_not_exists", "_or_replace",
      "_temporary", "identifier", "object_reference", "procedure_body", "term"} ])

mysql_optimize_rules == Unit(
  NoWords,
  [ _mariadb_optimize_table |-> {"object_reference"} ])

mysql_load_data_rules == Unit(
  NoWords,
  [ load_data_statement |-> {"_column_list", "_literal_string", "_load_fields_clause", "_load_ignore_lines",
      "_load_lines_clause", "_load_set_item", "identifier", "object_reference"},
    _load_set_item |-> {"_expression", "identifier"},
    _load_fields_clause |-> {"_literal_string"},
    _load_lines_clause |-> {"_load_lines_starting", "_load_lines_terminated"},
    _load_lines_starting |-> {"_literal_string"},
    _load_lines_terminated |-> {"_literal_string"},
    _load_ignore_lines |-> {"_integer"},
    into_outfile |-> {"_literal_string", "_load_fields_clause", "_load_lines_clause", "identifier"} ])

mysql_events_rules == Unit(
  NoWords,
  [ create_event |-> {"_dml_read", "_dml_write", "_event_schedule", "_if_not_exists", "_literal_string",
      "_or_replace", "identifier", "object_reference"},
    _event_schedule |-> {"_expression", "identifier"} ])

mysql_procedural_rules == Unit(
  NoWords,
  [ compound_statement |-> {"identifier", "statement"},
    declare_statement |-> {"_expression", "_type", "identifier"},
    set_variable_statement |-> {"_expression", "_qualified_field", "identifier", "user_variable"},
    if_statement |-> {"_expression", "statement"},
    while_statement |-> {"_expression", "statement"},
    repeat_statement |-> {"_expression", "statement"},
    loop_statement |-> {"identifier", "statement"},
    leave_statement |-> {"identifier"},
    iterate_statement |-> {"identifier"},
    return_statement |-> {"_expression"},
    call_statement |-> {"invocation"},
    signal_statement |-> {"_single_quote_string"},
    resignal_statement |-> {"_single_quote_string"},
    get_diagnostics_statement |-> {"_integer", "identifier"},
    declare_cursor_statement |-> {"_dml_read", "identifier"},
    open_cursor_statement |-> {"identifier"},
    fetch_cursor_statement |-> {"identifier", "user_variable"},
    close_cursor_statement |-> {"identifier"},
    declare_condition_statement |-> {"_single_quote_string", "identifier"},
    declare_handler_statement |-> {"compound_statement", "handler_condition", "statement"},
    handler_condition |-> {"_single_quote_string", "identifier"},
    case_statement |-> {"_expression", "statement"} ])

mysql_partition_rules == Unit(
  NoWords,
  [ table_partition_by |-> {"_expression", "_natural_number", "identifier", "partition_definition"},
    partition_definition |-> {"_expression", "identifier"},
    alter_partition |-> {"_natural_number", "identifier", "partition_definition"} ])

mysql_admin_rules == Unit(
  NoWords,
  [ _select_statement |-> {"from", "locking_clause", "select", "select_expression"},
    locking_clause |-> {"object_reference"},
    set_variable_statement |-> {"_literal_string", "identifier", "set_assignment"},
    set_assignment |-> {"_expression", "_qualified_field", "identifier", "user_variable"},
    create_role |-> {"_role_options", "_user_access_role_config", "identifier"},
    alter_role |-> {"_role_options", "identifier", "rename_object", "set_configuration"},
    drop_role |-> {"_if_exists", "identifier"},
    account_name |-> {"_literal_string", "identifier"},
    create_user_statement |-> {"_if_not_exists", "_user_auth_option", "account_name"},
    _user_auth_option |-> {"_literal_string", "identifier"},
    alter_user_statement |-> {"_if_exists", "_user_auth_option", "account_name"},
    drop_user_statement |-> {"_if_exists", "account_name"},
    rename_user_statement |-> {"account_name"},
    repair_table_statement |-> {"object_reference"},
    check_table_statement |-> {"object_reference"},
    analyze_table_statement |-> {"_integer", "identifier", "object_reference"},
    prepare_statement |-> {"_literal_string", "identifier", "user_variable"},
    execute_statement |-> {"identifier", "user_variable"},
    deallocate_statement |-> {"identifier"} ])

mysql_admin_ddl_rules == Unit(
  NoWords,
  Tokens({"unlock_tables_statement", "lock_instance_statement", "restart_statement"}) @@
  [ mysql_option |-> {"identifier", "literal"},
    alter_event |-> {"_dml_read", "_dml_write", "_event_schedule", "_literal_string", "identifier",
      "object_reference"},
    drop_event |-> {"_if_exists", "object_reference"},
    create_server |-> {"identifier", "mysql_option"},
    alter_server |-> {"identifier", "mysql_option"},
    drop_server |-> {"_if_exists", "identifier"},
    create_tablespace |-> {"_literal_string", "_tablespace_option", "identifier"},
    alter_tablespace |-> {"_literal_string", "_tablespace_option", "identifier"},
    drop_tablespace |-> {"identifier"},
    _tablespace_option |-> {"_literal_string", "identifier", "mysql_option"},
    create_logfile_group |-> {"_literal_string", "_tablespace_option", "identifier"},
    alter_logfile_group |-> {"_literal_string", "_tablespace_option", "identifier"},
    drop_logfile_group |-> {"_tablespace_option", "identifier"},
    create_spatial_reference_system |-> {"_if_not_exists", "_natural_number", "_or_replace", "srs_attribute"},
    srs_attribute |-> {"_literal_string", "_natural_number", "identifier"},
    drop_spatial_reference_system |-> {"_if_exists", "_natural_number"},
    create_resource_group |-> {"identifier", "mysql_option"},
    drop_resource_group |-> {"identifier"},
    set_resource_group |-> {"_natural_number", "identifier"},
    do_statement |-> {"_expression"},
    handler_statement |-> {"_expression", "identifier", "limit", "object_reference", "where"},
    import_table_statement |-> {"_literal_string"},
    load_xml_statement |-> {"_literal_string", "_natural_number", "assignment_list", "identifier",
      "object_reference"},
    lock_tables_statement |-> {"lock_table_spec"},
    lock_table_spec |-> {"identifier", "object_reference"},
    alter_instance |-> {"identifier"},
    clone_statement |-> {"_literal_string", "_natural_number", "account_name"},
    help_statement |-> {"_literal_string"},
    install_statement |-> {"_literal_string", "identifier"},
    uninstall_statement |-> {"_literal_string", "identifier"},
    checksum_table_statement |-> {"object_reference"},
    flush_statement |-> {"flush_option", "object_reference"},
    flush_option |-> {"identifier"},
    kill_statement |-> {"_natural_number"},
    reset_statement |-> {"reset_option"},
    reset_option |-> {"identifier"} ])

mysql_clause_rules == Unit(
  NoWords,
  Tokens({"_view_algorithm", "_view_sql_security", "_view_check_option", "_index_ddl_option"}) @@
  [ alter_view |-> {"_dml_read", "_if_exists", "_view_algorithm", "_view_check_option", "_view_definer",
      "_view_sql_security", "change_ownership", "identifier", "object_reference", "rename_column",
      "rename_object", "set_schema"},
    _view_definer |-> {"literal", "object_reference"},
    _mysql_db_option |-> {"_literal_string", "identifier", "literal"},
    create_database |-> {"_if_not_exists", "_mysql_db_option", "identifier"},
    create_schema |-> {"_if_not_exists", "_mysql_db_option", "identifier"},
    alter_database |-> {"_mysql_db_option", "identifier"},
    alter_schema |-> {"_mysql_db_option", "identifier"},
    drop_index |-> {"_if_exists", "_index_ddl_option", "identifier", "object_reference"} ])

rules_2 == Unit(
  Words({"copy", "encryption", "exclusive", "inplace", "shared", "sql", "starting", "temptable", "undefined"}) @@
  StrongWords({"attribute", "straight_join", "algorithm", "optionally", "atomic", "called", "repeatable",
    "errors", "server", "options", "undo", "datafile", "undofile", "logfile", "spatial", "reference",
    "resource", "import", "concurrent", "prev", "instance", "backup", "clone", "directory", "require",
    "ssl", "help", "install", "uninstall", "plugin", "component", "soname", "checksum", "flush", "export",
    "kill", "shutdown", "concurrently", "references"}),
  NoRules)

\* Mutant: the older SET of the procedural rules comes after the one that
\* takes a list of assignments.
layersProceduralLast == <<Copy(dialect_transaction_rules), Copy(dialect_alter_rules),
    Copy(dialect_legacy_rules), Inline(rules_1), Own(mysql_create_rules), Own(mysql_optimize_rules),
    Own(mysql_load_data_rules), Own(mysql_events_rules), Own(mysql_partition_rules),
    Own(mysql_admin_rules), Own(mysql_admin_ddl_rules), Own(mysql_clause_rules),
    Own(mysql_procedural_rules), Inline(rules_2)>>

layers == <<Copy(dialect_transaction_rules), Copy(dialect_alter_rules), Copy(dialect_legacy_rules),
    Inline(rules_1), Own(mysql_create_rules), Own(mysql_optimize_rules), Own(mysql_load_data_rules),
    Own(mysql_events_rules), Own(mysql_procedural_rules), Own(mysql_partition_rules),
    Own(mysql_admin_rules), Own(mysql_admin_ddl_rules), Own(mysql_clause_rules), Inline(rules_2)>>

conflicts == {{"object_reference", "_qualified_field"}, {"field", "_qualified_field"},
  {"_column", "_qualified_field"}, {"object_reference"},
  {"between_expression", "binary_expression", "like_expression"},
  {"transaction", "start_transaction_statement"}, {"transaction", "commit_statement"},
  {"transaction", "rollback_statement"}, {"_commit", "commit_statement"},
  {"_rollback", "rollback_statement"}, {"create_function"}, {"list", "grouping_set"},
  {"list", "rollup_element"}, {"list", "cube_element"}, {"_function_return", "return_statement"},
  {"_qualified_field", "set_assignment"}, {"alter_partition"},
  {"declare_statement", "declare_cursor_statement", "declare_condition_statement", "declare_handler_statement"},
  {"statement", "declare_handler_statement"}, {"relation", "_delete_target"}}

-----------------------------------------------------------------------------
\* mariadb/grammar.js, which extends mysql/grammar.js.
\* Mutant: a new word without the precedence of the words it begins with.
mariadbRulesPlainVersioning == Unit(
  Words({"versioning"}) @@
  StrongWords({"system", "system_time", "period", "package", "body", "invisible", "visible", "version"}),
  NoRules)

mariadb_rules == Unit(
  StrongWords({"system", "system_time", "versioning", "period", "package", "body", "invisible", "visible",
    "version"}),
  [ _create_statement |-> {"_create_statement", "create_database", "create_event", "create_function",
      "create_index", "create_materialized_view", "create_package", "create_package_body",
      "create_procedure", "create_role", "create_schema", "create_sequence", "create_table",
      "create_trigger", "create_type", "create_view"} ])

\* Mutant: the relation of MySQL, without the clause the file is about.
temporalRulesUnused == Unit(
  NoWords,
  [ _for_system_time |-> {"_expression"},
    relation |-> {"_alias", "_column_list", "invocation", "json_table", "object_reference", "subquery",
      "tablesample", "values"} ])

\* Mutant: the relation of the base, with the clause the file is about.
temporalRulesOfBase == Unit(
  NoWords,
  [ _for_system_time |-> {"_expression"},
    relation |-> {"_alias", "_column_list", "_for_system_time", "invocation", "object_reference",
      "subquery", "tablesample", "values"} ])

mariadb_temporal_rules == Unit(
  NoWords,
  [ _for_system_time |-> {"_expression"},
    relation |-> {"_alias", "_column_list", "_for_system_time", "invocation", "json_table",
      "object_reference", "subquery", "tablesample", "values"} ])

mariadb_versioning_rules == Unit(
  NoWords,
  [ period_for_system_time |-> {"identifier"},
    column_definitions |-> {"column_definition", "constraint", "period_for_system_time"},
    create_table |-> {"_if_not_exists", "_or_replace", "_temporary", "column_definitions", "create_query",
      "object_reference", "table_option"} ])

mariadb_returning_rules == Unit(
  NoWords,
  [ returning |-> {"select_expression"},
    _delete_statement |-> {"_delete_from", "delete", "returning"},
    insert |-> {"_insert_values", "_on_conflict", "_on_duplicate_key_update", "_set_values", "identifier",
      "object_reference", "returning"},
    update |-> {"_mysql_update_statement", "_postgres_update_statement", "returning"} ])

mariadb_package_rules == Unit(
  NoWords,
  [ create_package |-> {"_if_not_exists", "_or_replace", "object_reference", "package_spec"},
    create_package_body |-> {"_if_not_exists", "_or_replace", "object_reference", "package_spec"},
    package_spec |-> {"identifier", "package_item"},
    package_item |-> {"package_function_decl", "package_procedure_decl"},
    package_function_decl |-> {"_type", "function_arguments", "object_reference"},
    package_procedure_decl |-> {"function_arguments", "object_reference"} ])

mariadb_invisible_rules == Unit(
  NoWords,
  [ _column_constraint |-> {"_check_constraint", "_column_comment", "_default_expression", "_expression",
      "_not_null", "_primary_key", "direction", "identifier", "object_reference"} ])

mariadb_layers == <<Inline(mariadb_rules), Own(mariadb_temporal_rules), Own(mariadb_versioning_rules),
    Own(mariadb_returning_rules), Own(mariadb_package_rules), Own(mariadb_invisible_rules)>>

\* Mutant: the conflicts of the base, but not those of MySQL.
mariadbConflictsOfBase == {{"object_reference", "_qualified_field"}, {"field", "_qualified_field"},
  {"object_reference"}, {"between_expression", "binary_expression", "like_expression"},
  {"create_function"}, {"list", "grouping_set"}, {"list", "rollup_element"}, {"list", "cube_element"}}

mariadb_conflicts == {{"object_reference", "_qualified_field"}, {"field", "_qualified_field"},
  {"_column", "_qualified_field"}, {"object_reference"},
  {"between_expression", "binary_expression", "like_expression"},
  {"transaction", "start_transaction_statement"}, {"transaction", "commit_statement"},
  {"transaction", "rollback_statement"}, {"_commit", "commit_statement"},
  {"_rollback", "rollback_statement"}, {"create_function"}, {"list", "grouping_set"},
  {"list", "rollup_element"}, {"list", "cube_element"}, {"_function_return", "return_statement"},
  {"_qualified_field", "set_assignment"}, {"alter_partition"},
  {"declare_statement", "declare_cursor_statement", "declare_condition_statement", "declare_handler_statement"},
  {"statement", "declare_handler_statement"}, {"relation"}}
==============================================================================
