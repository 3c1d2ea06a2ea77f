----------------------------- MODULE BaseRules -----------------------------
(***************************************************************************)
(* The rules of the base grammar, which keeps to ANSI SQL: grammar.js and  *)
(* the rule files of grammar/, one unit per object of rules, and the       *)
(* layers in the order they are spread.                                    *)
(***************************************************************************)
EXTENDS GrammarHelpers

rules == Unit(
  NoWords,
  Tokens({"comment", "marginalia"}) @@
  [ program |-> {"statement"} ])

keyword_rules == Unit(
  Words({"select", "delete", "insert", "replace", "update", "truncate", "merge", "into", "values",
    "matched", "set", "from", "left", "right", "inner", "full", "outer", "cross", "join", "lateral",
    "natural", "on", "where", "order", "group", "partition", "by", "having", "desc", "asc", "limit",
    "offset", "primary", "create", "alter", "drop", "add", "table", "view", "column", "materialized",
    "sequence", "increment", "minvalue", "maxvalue", "start", "restart", "usage", "rollup", "cube",
    "grouping", "sets", "key", "as", "distinct", "constraint", "filter", "cast", "separator", "case",
    "when", "then", "else", "end", "in", "and", "or", "is", "not", "using", "index", "for", "if", "exists",
    "generated", "always", "default", "cascade", "restrict", "with", "without", "no", "data", "type", "to",
    "database", "schema", "public", "user", "admin", "role", "temp", "temporary", "cycle", "union", "all",
    "any", "some", "intersect", "begin", "commit", "rollback", "transaction", "savepoint", "release",
    "work", "chain", "diagnostics", "size", "over", "nulls", "first", "after", "before", "last", "window",
    "range", "groups", "between", "unbounded", "preceding", "following", "exclude", "current", "row",
    "fetch", "declare", "cursor", "scroll", "ties", "others", "only", "unique", "foreign", "references",
    "like", "rlike", "similar", "recursive", "cascaded", "local", "current_timestamp", "check", "option",
    "attribute", "authorization", "action", "grant", "revoke", "privileges", "tablesample", "bernoulli",
    "system", "percent", "string", "next", "except", "trigger", "function", "returns", "return", "setof",
    "atomic", "language", "immutable", "stable", "volatile", "leakproof", "parallel", "safe", "unsafe",
    "restricted", "called", "input", "strict", "cost", "rows", "support", "definer", "invoker", "security",
    "out", "inout", "variadic", "ordinality", "session", "isolation", "level", "serializable", "repeatable",
    "corresponding", "symmetric", "asymmetric", "read", "write", "committed", "uncommitted", "zone",
    "immediate", "deferred", "constraints", "characteristics", "each", "instead", "of", "old", "new",
    "referencing", "statement", "execute", "procedure", "external", "comment", "null", "true", "false",
    "boolean", "bit", "binary", "varbinary", "smallint", "int", "bigint", "decimal", "numeric", "real",
    "float", "double", "precision", "varying", "char", "nchar", "varchar", "nvarchar", "json", "xml",
    "enum", "date", "time", "timestamp", "interval", "array", "both", "leading", "trailing", "trim",
    "characters", "octets", "global", "continue", "identity", "current_user", "current_role", "flag",
    "occurrence", "call", "within", "current_date", "current_time", "localtime", "localtimestamp", "escape"}),
  Tokens({"is_not", "not_like", "not_rlike", "similar_to", "not_similar_to", "distinct_from",
    "not_distinct_from", "_temporary", "_not_null", "_primary_key", "_if_exists", "_if_not_exists",
    "_or_replace", "_current_row", "_exclude_current_row", "_exclude_group", "_exclude_no_others",
    "_exclude_ties", "_check_option", "direction"}))

type_rules == Unit(
  NoWords,
  Tokens({"_include_time_zone"}) @@
  [ _type |-> {"array_size_definition", "bigint", "binary", "bit", "char", "decimal", "double", "enum",
      "float", "int", "nchar", "numeric", "nvarchar", "object_reference", "smallint", "time", "timestamp",
      "varbinary", "varchar"},
    array_size_definition |-> {"_array_size_definition"},
    _array_size_definition |-> {"_integer"},
    smallint |-> {"_natural_number"},
    int |-> {"_natural_number"},
    bigint |-> {"_natural_number"},
    bit |-> {"_natural_number"},
    binary |-> {"_natural_number"},
    varbinary |-> {"_natural_number"},
    float |-> {"_natural_number"},
    double |-> {"_natural_number"},
    decimal |-> {"_natural_number"},
    numeric |-> {"_natural_number"},
    char |-> {"_natural_number"},
    varchar |-> {"_natural_number"},
    nchar |-> {"_natural_number"},
    nvarchar |-> {"_natural_number"},
    time |-> {"_include_time_zone", "_natural_number"},
    timestamp |-> {"_include_time_zone", "_natural_number"},
    enum |-> {"_literal_string"},
    array |-> {"_dml_read", "_expression"} ])

column_list_rules == Unit(
  NoWords,
  [ _column_list |-> {"_column"},
    _column |-> {"_literal_string", "identifier"},
    _key_value_pair |-> {"_literal_string", "identifier"},
    column_definitions |-> {"column_definition", "constraints"},
    column_definition |-> {"_column", "_column_constraint", "_type"},
    _column_comment |-> {"_literal_string"},
    _column_constraint |-> {"_check_constraint", "_column_comment", "_default_expression", "_expression",
      "_not_null", "_primary_key", "direction", "identifier", "object_reference"},
    _check_constraint |-> {"binary_expression", "literal"},
    _default_expression |-> {"_inner_default_expression"},
    _inner_default_expression |-> {"array", "binary_expression", "cast", "invocation", "list", "literal",
      "unary_expression"},
    constraints |-> {"constraint"},
    constraint |-> {"_check_constraint", "_constraint_literal", "_key_constraint", "_primary_key_constraint"},
    _constraint_literal |-> {"_check_constraint", "_primary_key", "identifier", "object_reference",
      "ordered_columns"},
    _primary_key_constraint |-> {"_primary_key", "ordered_columns"},
    _key_constraint |-> {"_key_kind", "_references_clause", "identifier", "ordered_columns"},
    _key_kind |-> {"_if_not_exists"},
    _references_clause |-> {"identifier", "object_reference"},
    ordered_columns |-> {"ordered_column"},
    ordered_column |-> {"_column", "direction"} ])

expression_rules == Unit(
  NoWords,
  Tokens({"parameter", "op_other", "op_unary_other", "not_in", "_double_quote_string",
    "_single_quote_string", "_natural_number", "_integer", "_decimal_number", "_bit_string", "bang",
    "_identifier"}) @@
  [ _expression |-> {"_qualified_field", "array", "between_expression", "binary_expression", "case", "cast",
      "datetime_value_function", "exists", "interval", "invocation", "like_expression", "list", "literal",
      "parameter", "parenthesized_expression", "position_expression", "regex_position_expression",
      "regex_substring_expression", "subquery", "subscript", "trim_expression", "typed_temporal_literal",
      "unary_expression", "window_function"},
    object_reference |-> {"identifier"},
    field |-> {"identifier"},
    _qualified_field |-> {"identifier", "object_reference"},
    case |-> {"_expression"},
    cast |-> {"_expression", "_type"},
    exists |-> {"subquery"},
    invocation |-> {"_literal_string", "filter_expression", "limit", "named_argument", "object_reference",
      "order_by", "term", "within_group"},
    filter_expression |-> {"where"},
    within_group |-> {"order_by"},
    trim_expression |-> {"_expression"},
    position_expression |-> {"_expression", "_position_call", "_position_operand"},
    regex_position_expression |-> {"_expression", "_position_operand", "_position_regex_call", "literal"},
    regex_substring_expression |-> {"_expression", "_position_operand", "_substring_regex_call", "literal"},
    _position_operand |-> {"_qualified_field", "cast", "invocation", "literal", "parameter",
      "parenthesized_expression", "trim_expression"},
    parenthesized_expression |-> {"_expression"},
    subscript |-> {"_expression"},
    binary_expression |-> {"_expression", "distinct_from", "is_not", "list", "not_distinct_from", "not_in",
      "not_rlike", "not_similar_to", "op_other", "similar_to", "subquery"},
    unary_expression |-> {"_expression", "_signed_operand", "bang", "op_unary_other"},
    _signed_operand |-> {"_qualified_field", "case", "cast", "invocation", "parenthesized_expression",
      "window_function"},
    interval |-> {"_literal_string", "identifier"},
    between_expression |-> {"_expression"},
    like_expression |-> {"_expression", "not_like"},
    typed_temporal_literal |-> {"_literal_string"},
    datetime_value_function |-> {"_natural_number"},
    subquery |-> {"_dml_read"},
    list |-> {"_expression"},
    literal |-> {"_bit_string", "_decimal_number", "_integer", "_literal_string"},
    _literal_string |-> {"_single_quote_string"},
    identifier |-> {"_double_quote_string", "_identifier"} ])

transaction_rules == Unit(
  NoWords,
  Tokens({"_transaction_chain"}) @@
  [ transaction_mode |-> {"transaction_diagnostics"},
    transaction_diagnostics |-> {"literal"},
    start_transaction_statement |-> {"transaction_mode"},
    commit_statement |-> {"_transaction_chain"},
    rollback_statement |-> {"_transaction_chain"},
    rollback_to_savepoint_statement |-> {"_transaction_chain", "identifier"},
    savepoint_statement |-> {"identifier"},
    release_savepoint_statement |-> {"identifier"},
    _transaction_statement |-> {"commit_statement", "release_savepoint_statement", "rollback_statement",
      "rollback_to_savepoint_statement", "savepoint_statement", "start_transaction_statement"} ])

statement_rules_own_1 == Unit(
  NoWords,
  [ statement |-> {"_ddl_statement", "_dml_read", "_dml_write", "_transaction_statement", "call_statement",
      "declare_cursor_statement"},
    declare_cursor_statement |-> {"_dml_read", "identifier"} ])

create_rules_own_1 == Unit(
  NoWords,
  [ _create_statement |-> {"_create_statement", "create_function", "create_procedure", "create_role",
      "create_schema", "create_sequence", "create_table", "create_trigger", "create_type", "create_view"},
    create_table |-> {"column_definitions", "create_query", "identifier", "object_reference"},
    create_query |-> {"_dml_read"},
    create_view |-> {"_check_option", "create_query", "identifier", "object_reference"} ])

create_function_rules == Unit(
  NoWords,
  Tokens({"_argmode", "function_volatility", "function_leakproof", "function_security", "function_safety",
    "function_strictness"}) @@
  [ create_function |-> {"_function_option", "_if_not_exists", "_or_replace", "_type", "column_definitions",
      "function_arguments", "function_body", "object_reference"},
    _function_option |-> {"function_cost", "function_language", "function_leakproof", "function_rows",
      "function_safety", "function_security", "function_strictness", "function_support",
      "function_volatility"},
    function_argument |-> {"_argmode", "_type", "identifier", "literal"},
    function_arguments |-> {"function_argument"},
    _function_return |-> {"_expression"},
    _function_body_statement |-> {"_function_return", "statement"},
    function_body |-> {"_function_body_statement", "_function_return", "_single_quote_string"},
    function_language |-> {"identifier"},
    function_cost |-> {"_natural_number"},
    function_rows |-> {"_natural_number"},
    function_support |-> {"_literal_string"} ])

create_procedure_rules == Unit(
  NoWords,
  [ create_procedure |-> {"_if_not_exists", "_or_replace", "_procedure_option", "function_arguments",
      "identifier", "object_reference", "procedure_body"},
    _procedure_option |-> {"function_language", "function_safety", "function_security"},
    procedure_body |-> {"_function_body_statement", "_single_quote_string"} ])

create_rules_own_2 == Unit(
  NoWords,
  [ create_schema |-> {"identifier"},
    create_role |-> {"identifier"},
    create_sequence |-> {"_integer", "_type", "literal", "object_reference"},
    create_trigger |-> {"_create_trigger_event", "_expression", "_transition_alias", "_triggered_statement",
      "object_reference"},
    _create_trigger_event |-> {"identifier"},
    _transition_alias |-> {"identifier"},
    _triggered_statement |-> {"statement"},
    create_type |-> {"_type", "column_definitions", "object_reference"} ])

create_rules == Spread(<<create_rules_own_1, create_function_rules, create_procedure_rules,
    create_rules_own_2>>)

alter_rules == Unit(
  NoWords,
  Tokens({"_drop_behavior"}) @@
  [ _alter_statement |-> {"alter_sequence", "alter_table", "alter_type"},
    alter_table |-> {"_alter_table_action", "object_reference"},
    _alter_table_action |-> {"add_column", "add_constraint", "alter_column", "drop_column",
      "drop_constraint"},
    add_column |-> {"column_definition"},
    alter_column |-> {"_expression", "_type", "identifier"},
    drop_column |-> {"_drop_behavior", "identifier"},
    add_constraint |-> {"constraint"},
    drop_constraint |-> {"_drop_behavior", "identifier"},
    alter_type |-> {"_type", "identifier", "object_reference"},
    alter_sequence |-> {"_integer", "literal", "object_reference"} ])

drop_rules == Unit(
  NoWords,
  [ _drop_statement |-> {"drop_function", "drop_procedure", "drop_role", "drop_schema", "drop_sequence",
      "drop_table", "drop_type", "drop_view"},
    drop_table |-> {"_drop_behavior", "object_reference"},
    drop_view |-> {"_drop_behavior", "object_reference"},
    drop_schema |-> {"_drop_behavior", "identifier"},
    drop_role |-> {"identifier"},
    drop_type |-> {"_drop_behavior", "object_reference"},
    drop_sequence |-> {"_drop_behavior", "object_reference"},
    drop_function |-> {"_drop_behavior", "object_reference"},
    drop_procedure |-> {"_drop_behavior", "object_reference"} ])

merge_rules == Unit(
  NoWords,
  [ _merge_statement |-> {"_alias", "_expression", "object_reference", "subquery", "when_clause"},
    when_clause |-> {"_expression", "_insert_values", "_set_values"} ])

delete_rules == Unit(
  NoWords,
  Tokens({"delete"}) @@
  [ _delete_statement |-> {"_delete_from", "delete"},
    _delete_from |-> {"_alias", "object_reference", "where"} ])

insert_rules == Unit(
  NoWords,
  [ _insert_statement |-> {"insert"},
    insert |-> {"_insert_values", "object_reference"},
    assignment |-> {"_expression", "_qualified_field"},
    _insert_values |-> {"_column_list", "_dml_read", "list"},
    _set_values |-> {"assignment"} ])

update_rules == Unit(
  NoWords,
  [ _update_statement |-> {"update"},
    update |-> {"_alias", "_set_values", "object_reference", "where"} ])

truncate_rules == Unit(
  NoWords,
  [ _truncate_statement |-> {"object_reference"} ])

select_rules == Unit(
  NoWords,
  Tokens({"grouping_set"}) @@
  [ _cte |-> {"cte"},
    cte |-> {"_dml_read", "_dml_write", "identifier"},
    set_operation |-> {"_select_statement", "identifier"},
    _select_statement |-> {"from", "select", "select_expression"},
    select |-> {"select_expression"},
    select_expression |-> {"term"},
    term |-> {"_alias", "_expression", "all_fields"},
    all_fields |-> {"object_reference"},
    partition_by |-> {"_expression"},
    frame_definition |-> {"_current_row", "_integer", "_literal_string", "binary_expression", "identifier"},
    window_frame |-> {"_exclude_current_row", "_exclude_group", "_exclude_no_others", "_exclude_ties",
      "frame_definition"},
    window_clause |-> {"identifier", "window_specification"},
    window_specification |-> {"order_by", "partition_by", "window_frame"},
    window_function |-> {"identifier", "invocation", "window_specification"},
    _alias |-> {"identifier"},
    from |-> {"_from_clauses_0", "cross_join", "join", "lateral_cross_join", "lateral_join", "relation"},
    relation |-> {"_alias", "_column_list", "invocation", "object_reference", "subquery", "tablesample",
      "values"},
    tablesample |-> {"_natural_number"},
    values |-> {"list"},
    join |-> {"_column_list", "_expression", "join", "relation"},
    cross_join |-> {"identifier", "relation"},
    lateral_join |-> {"_expression", "identifier", "invocation", "subquery"},
    lateral_cross_join |-> {"identifier", "invocation", "subquery"},
    where |-> {"_expression"},
    group_by |-> {"_expression", "cube_clause", "grouping_sets_clause", "rollup_clause"},
    rollup_clause |-> {"_expression", "rollup_element"},
    rollup_element |-> {"_expression"},
    cube_clause |-> {"_expression", "cube_element"},
    cube_element |-> {"_expression"},
    grouping_sets_clause |-> {"_expression", "grouping_set"},
    having |-> {"_expression"},
    order_by |-> {"order_target"},
    order_target |-> {"_expression", "direction"},
    limit |-> {"literal", "offset"},
    offset |-> {"literal"},
    offset_fetch_clause |-> {"_fetch_first_clause", "literal"},
    _fetch_first_clause |-> {"literal"} ] @@
  ordered_optionals("_from_clauses", <<
    {"where"}, {"group_by"}, {"having"}, {"window_clause"}, {"order_by"}, {"offset_fetch_clause"}>>) @@
  ordered_optionals("_from_clauses_limit", <<
    {"where"}, {"group_by"}, {"having"}, {"window_clause"}, {"order_by"}, {"limit"}, {"offset_fetch_clause"}>>) @@
  ordered_optionals("_from_clauses_limit_only", <<
    {"where"}, {"group_by"}, {"having"}, {"window_clause"}, {"order_by"}, {"limit"}>>) @@
  ordered_optionals("_from_clauses_plain", <<
    {"where"}, {"group_by"}, {"having"}, {"window_clause"}, {"order_by"}>>))

set_rules == Unit(
  NoWords,
  [ set_statement |-> {"identifier", "transaction_mode"} ])

grant_rules == Unit(
  NoWords,
  Tokens({"_privilege_type"}) @@
  [ grant_statement |-> {"_grant_object", "_grantee_list", "_privilege_list"},
    revoke_statement |-> {"_grant_object", "_grantee_list", "_privilege_list"},
    _privilege_list |-> {"_privilege_type"},
    _grant_object |-> {"object_reference"},
    _grantee_list |-> {"_grantee"},
    _grantee |-> {"identifier"} ])

call_rules == Unit(
  NoWords,
  [ call_statement |-> {"_expression", "named_argument", "object_reference"},
    named_argument |-> {"_expression", "identifier"} ])

statement_rules_own_2 == Unit(
  NoWords,
  [ _ddl_statement |-> {"_alter_statement", "_create_statement", "_drop_statement", "_merge_statement",
      "grant_statement", "revoke_statement", "set_statement"},
    _dml_write |-> {"_cte", "_delete_statement", "_insert_statement", "_truncate_statement",
      "_update_statement"},
    _dml_read |-> {"_cte", "_select_statement", "set_operation"} ])

statement_rules == Spread(<<statement_rules_own_1, create_rules, alter_rules, drop_rules, merge_rules,
    delete_rules, insert_rules, update_rules, truncate_rules, select_rules, set_rules, grant_rules,
    call_rules, statement_rules_own_2>>)

layers == <<Inline(rules), Own(keyword_rules), Own(type_rules), Own(column_list_rules), Own(expression_rules),
    Own(transaction_rules), Own(statement_rules)>>

conflicts == {{"object_reference", "_qualified_field"}, {"field", "_qualified_field"}, {"object_reference"},
  {"between_expression", "binary_expression", "like_expression"}, {"create_function"},
  {"list", "grouping_set"}, {"list", "rollup_element"}, {"list", "cube_element"}}

externals == {"_position_call", "_position_regex_call", "_substring_regex_call"}

roots == {"program", "_identifier", "comment", "marginalia"}
==============================================================================
