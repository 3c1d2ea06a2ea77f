--------------------------- MODULE TeradataRules ---------------------------
(***************************************************************************)
(* teradata/grammar.js and the rule files it spreads: what the grammar     *)
(* adds to the rules of base and what it overrides, one unit per object of *)
(* rules, and the layers in the order they are spread.                     *)
(***************************************************************************)
EXTENDS GrammarHelpers

Base == INSTANCE BaseRules
Copied == INSTANCE CopiedRules

dialect_transaction_rules == Copied!dialect_transaction_rules
dialect_alter_rules == Copied!dialect_alter_rules
misc_rules == Copied!misc_rules
legacy_words == Copied!legacy_words
create_rules_own_1 == Copied!create_rules_own_1
create_rules_own_2 == Copied!create_rules_own_2

create_rules == Spread(<<create_rules_own_1, Base!create_function_rules, Base!create_procedure_rules,
    create_rules_own_2>>)

drop_rules == Copied!drop_rules
rename_rules == Copied!rename_rules
refresh_rules == Copied!refresh_rules
truncate_rules == Copied!truncate_rules
insert_rules == Copied!insert_rules
update_rules == Copied!update_rules
delete_rules == Copied!delete_rules
merge_rules == Copied!merge_rules
legacy_dispatch == Copied!legacy_dispatch

dialect_legacy_rules == Spread(<<misc_rules, legacy_words, create_rules, drop_rules, rename_rules,
    refresh_rules, truncate_rules, insert_rules, update_rules, delete_rules, merge_rules, legacy_dispatch>>)

rules == Unit(
  Words({"select", "delete", "analysis", "modified", "stat", "sql", "consume", "art", "noddltext"}) @@
  StrongWords({"server", "trusted", "import", "export", "hash", "perm", "permanent", "spool", "bytes",
    "account", "multiset", "expand", "call", "called", "dump", "initiate", "restart", "using", "keep",
    "show", "logging", "capture", "isolated", "loading", "give", "checkpoint", "echo", "abort", "flush",
    "demographics", "map", "method", "transform", "online", "error", "query", "query_band", "fallback",
    "journal", "dual", "macro", "top", "global", "collect", "summary", "statistics", "stats", "qualify",
    "range_n", "case_n", "unknown", "locking", "access", "exclusive", "protection", "log", "logged",
    "minimum", "maximum", "datablocksize", "mergeblockratio", "freespace", "blockcompression", "checksum",
    "sample", "format", "help", "minus", "preserve", "none", "columns", "compress", "casespecific",
    "uppercase", "title", "share"}),
  Tokens({"parameter"}) @@
  [ relation |-> {"_alias", "_column_list", "invocation", "object_reference", "subquery", "values"},
    _create_statement |-> {"_create_statement", "create_database", "create_foreign_server",
      "create_function", "create_index", "create_join_index", "create_procedure", "create_role",
      "create_schema", "create_sequence", "create_table", "create_trigger", "create_type", "create_view"},
    create_foreign_server |-> {"foreign_server_action", "foreign_server_option", "identifier",
      "object_reference"},
    foreign_server_option |-> {"_literal_string", "identifier"},
    foreign_server_action |-> {"object_reference"},
    create_join_index |-> {"_if_not_exists", "create_query", "object_reference", "primary_index"},
    create_database |-> {"_if_not_exists", "database_option", "identifier"},
    database_option |-> {"_expression", "identifier", "literal"},
    alter_table |-> {"_alter_specifications", "_if_exists", "alter_table_option", "object_reference"},
    statement |-> {"_ddl_statement", "_dml_read", "_dml_write", "_transaction_statement", "abort_statement",
      "call_statement", "checkpoint_statement", "collect_demographics_statement",
      "collect_statistics_statement", "compound_statement", "create_macro_statement", "database_statement",
      "declare_cursor_statement", "delete_database_statement", "drop_statistics_statement",
      "dump_explain_clause", "echo_statement", "execute_function_statement", "execute_macro_statement",
      "give_statement", "help_statement", "initiate_index_analysis_statement",
      "initiate_partition_analysis_statement", "insert_explain_clause", "logging_statement",
      "rename_object_statement", "replace_view", "restart_index_analysis_statement",
      "set_query_band_statement", "show_statement", "using_request_clause"},
    declare_cursor_statement |-> {"_dml_read", "identifier"},
    update |-> {"_mysql_update_statement", "_postgres_update_statement", "insert"},
    select |-> {"literal", "select_expression"},
    from |-> {"cross_join", "expand_on_clause", "group_by", "having", "join", "lateral_cross_join",
      "lateral_join", "order_by", "qualify", "relation", "sample_clause", "where", "window_clause"},
    _ddl_statement |-> {"_alter_statement", "_create_statement", "_drop_statement", "_merge_statement",
      "_refresh_statement", "_rename_statement", "comment_statement", "grant_statement", "revoke_statement",
      "set_statement"},
    expand_on_clause |-> {"_expression", "identifier"} ])

teradata_statement_rules == Unit(
  NoWords,
  Tokens({"on_commit_clause"}) @@
  [ create_table |-> {"_column_list", "_if_not_exists", "_temporary", "column_definitions", "create_query",
      "object_reference", "on_commit_clause", "primary_index", "table_option", "table_partition_by"},
    table_option |-> {"_table_attribute", "column_definition", "identifier"},
    _table_attribute |-> {"identifier", "literal", "object_reference"},
    alter_table_option |-> {"_table_attribute", "identifier"},
    primary_index |-> {"_column_list", "identifier"},
    table_partition_by |-> {"_expression", "case_n", "range_n"},
    range_n |-> {"_range_operand"},
    _range_operand |-> {"identifier", "literal"},
    case_n |-> {"_expression"},
    collect_statistics_statement |-> {"_column_list", "object_reference"},
    create_macro_statement |-> {"macro_parameter", "object_reference", "statement"},
    macro_parameter |-> {"_type", "identifier"},
    qualify |-> {"_expression"},
    locking_modifier |-> {"object_reference"},
    _dml_read |-> {"_cte", "_select_statement", "locking_modifier", "set_operation"},
    set_operation |-> {"_select_statement"},
    replace_view |-> {"_column_list", "create_query", "object_reference"},
    set_query_band_statement |-> {"literal"},
    sample_clause |-> {"literal"},
    term |-> {"_alias", "_expression", "all_fields", "format_attribute"},
    format_attribute |-> {"literal"},
    _column_constraint |-> {"_check_constraint", "_column_comment", "_default_expression", "_expression",
      "_not_null", "_primary_key", "direction", "identifier", "literal", "object_reference"},
    compound_statement |-> {"identifier", "statement"} ])

teradata_admin_rules == Unit(
  NoWords,
  [ show_statement |-> {"_dml_read", "_logging_scope", "object_reference"},
    help_statement |-> {"object_reference"},
    logging_statement |-> {"_logging_scope"},
    _logging_scope |-> {"identifier", "literal", "object_reference"},
    database_statement |-> {"object_reference"},
    give_statement |-> {"object_reference"},
    rename_object_statement |-> {"object_reference"},
    delete_database_statement |-> {"object_reference"},
    checkpoint_statement |-> {"object_reference"},
    echo_statement |-> {"_literal_string"},
    abort_statement |-> {"_literal_string", "where"},
    collect_demographics_statement |-> {"object_reference"},
    drop_statistics_statement |-> {"identifier", "object_reference"},
    execute_macro_statement |-> {"_expression", "object_reference"} ])

teradata_analysis_rules == Unit(
  NoWords,
  [ call_statement |-> {"_expression", "object_reference"},
    dump_explain_clause |-> {"_explain_limit", "_qcd_target"},
    _qcd_target |-> {"identifier", "object_reference"},
    _explain_limit |-> {"literal"},
    initiate_index_analysis_statement |-> {"_analysis_boundary", "_analysis_checkpoint",
      "_analysis_time_limit", "_workload_analysis_target", "literal"},
    initiate_partition_analysis_statement |-> {"_analysis_time_limit", "_workload_analysis_target"},
    restart_index_analysis_statement |-> {"_analysis_checkpoint", "_analysis_time_limit",
      "_workload_analysis_target"},
    _workload_analysis_target |-> {"identifier", "object_reference"},
    _analysis_boundary |-> {"identifier", "literal"},
    _analysis_checkpoint |-> {"literal"},
    _analysis_time_limit |-> {"literal"},
    insert_explain_clause |-> {"_explain_limit", "_qcd_target", "literal", "object_reference"},
    execute_function_statement |-> {"_expression", "identifier", "object_reference"},
    using_request_clause |-> {"_using_variable"},
    _using_variable |-> {"_type", "identifier"} ])

layers == <<Copy(dialect_transaction_rules), Copy(dialect_alter_rules), Copy(dialect_legacy_rules),
    Inline(rules), Own(teradata_statement_rules), Own(teradata_admin_rules), Own(teradata_analysis_rules)>>

conflicts == {{"object_reference", "_qualified_field"}, {"field", "_qualified_field"},
  {"_column", "_qualified_field"}, {"object_reference"},
  {"between_expression", "binary_expression", "like_expression"},
  {"transaction", "start_transaction_statement"}, {"transaction", "commit_statement"},
  {"transaction", "rollback_statement"}, {"_commit", "commit_statement"},
  {"_rollback", "rollback_statement"}, {"create_function"}, {"list", "grouping_set"},
  {"list", "rollup_element"}, {"list", "cube_element"}, {"table_option"},
  {"transaction", "compound_statement"}}
==============================================================================
