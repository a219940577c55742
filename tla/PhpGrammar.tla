----------------------------- MODULE PhpGrammar ----------------------------
(***************************************************************************)
(* The grammar of PHP as tree-sitter-php publishes it in the file          *)
(* php_only/src/node-types.json: the types of the children a node of a     *)
(* type can have, field by field, the children in no field under `none`.   *)
(* The comment over CompleteIndexer.java says that its walk was            *)
(* transcribed from that file; this is what it has to agree with.          *)
(***************************************************************************)

Literal ==
    {"boolean", "encapsed_string", "float", "heredoc", "integer", "nowdoc", "null", "string"}

PrimaryExpression ==
    {"anonymous_function", "array_creation_expression", "arrow_function", "cast_expression",
     "class_constant_access_expression", "dynamic_variable_name",
     "function_call_expression", "member_access_expression", "member_call_expression",
     "name", "nullsafe_member_access_expression", "nullsafe_member_call_expression",
     "object_creation_expression", "parenthesized_expression", "print_intrinsic",
     "qualified_name", "relative_name", "scoped_call_expression",
     "scoped_property_access_expression", "shell_command_expression",
     "subscript_expression", "throw_expression", "update_expression", "variable_name"} \cup Literal

Expression ==
    {"assignment_expression", "augmented_assignment_expression", "binary_expression",
     "cast_expression", "clone_expression", "conditional_expression",
     "error_suppression_expression", "include_expression", "include_once_expression",
     "match_expression", "reference_assignment_expression", "require_expression",
     "require_once_expression", "unary_op_expression", "yield_expression"} \cup PrimaryExpression

Statement ==
    {"break_statement", "class_declaration", "compound_statement", "const_declaration",
     "continue_statement", "declare_statement", "do_statement", "echo_statement",
     "empty_statement", "enum_declaration", "exit_statement", "expression_statement",
     "for_statement", "foreach_statement", "function_definition",
     "function_static_declaration", "global_declaration", "goto_statement", "if_statement",
     "interface_declaration", "named_label_statement", "namespace_definition",
     "namespace_use_declaration", "return_statement", "switch_statement",
     "trait_declaration", "try_statement", "unset_statement", "while_statement"}

Type ==
    {"disjunctive_normal_form_type", "intersection_type", "named_type", "optional_type",
     "primitive_type", "union_type"}

ClassName == {"name", "qualified_name", "relative_name"}

Variable ==
    {"cast_expression", "dynamic_variable_name", "function_call_expression",
     "member_access_expression", "member_call_expression",
     "nullsafe_member_access_expression", "nullsafe_member_call_expression",
     "scoped_call_expression", "scoped_property_access_expression", "subscript_expression",
     "variable_name"}

Modifiers ==
    {"abstract_modifier", "final_modifier", "readonly_modifier", "static_modifier",
     "var_modifier", "visibility_modifier"}

Grammar ==
    [anonymous_class |-> [attributes |-> {"attribute_list"}, body |-> {"declaration_list"},
         none |-> {"arguments", "base_clause", "class_interface_clause"} \cup Modifiers],
     anonymous_function |-> [attributes |-> {"attribute_list"},
         body |-> {"compound_statement"}, parameters |-> {"formal_parameters"},
         reference_modifier |-> {"reference_modifier"},
         return_type |-> {"bottom_type"} \cup Type, static_modifier |-> {"static_modifier"},
         none |-> {"anonymous_function_use_clause"}],
     anonymous_function_use_clause |-> [none |-> {"by_ref", "variable_name"}],
     argument |-> [name |-> {"name"}, reference_modifier |-> {"reference_modifier"},
         none |-> {"argument_placeholder", "variadic_unpacking"} \cup Expression],
     arguments |-> [none |-> {"argument", "variadic_placeholder"}],
     array_creation_expression |-> [none |-> {"array_element_initializer"}],
     array_element_initializer |-> [none |-> {"by_ref",
                                              "variadic_unpacking"} \cup Expression],
     arrow_function |-> [attributes |-> {"attribute_list"}, body |-> Expression,
         parameters |-> {"formal_parameters"},
         reference_modifier |-> {"reference_modifier"},
         return_type |-> {"bottom_type"} \cup Type,
                          static_modifier |-> {"static_modifier"}],
     assignment_expression |-> [left |-> {"list_literal"} \cup Variable,
         right |-> Expression],
     attribute |-> [parameters |-> {"arguments"}, none |-> ClassName],
     attribute_group |-> [none |-> {"attribute"}],
     attribute_list |-> [none |-> {"attribute_group"}],
     augmented_assignment_expression |-> [left |-> Variable, operator |-> {"token"},
         right |-> Expression],
     base_clause |-> [none |-> ClassName],
     binary_expression |-> [left |-> Expression, operator |-> {"token"},
         right |-> Expression],
     break_statement |-> [none |-> Expression],
     by_ref |-> [none |-> Variable],
     case_statement |-> [value |-> Expression, none |-> Statement],
     cast_expression |-> [type |-> {"cast_type"},
         value |-> {"clone_expression", "error_suppression_expression",
                    "include_expression", "include_once_expression",
                    "unary_op_expression"} \cup PrimaryExpression],
     catch_clause |-> [body |-> {"compound_statement"}, name |-> {"variable_name"},
         type |-> {"type_list"}],
     class_constant_access_expression |-> [none |-> {"array_creation_expression",
                                                     "class_constant_access_expression",
                                                     "encapsed_string", "heredoc",
                                                     "nowdoc",
                                                     "object_creation_expression",
                                                     "parenthesized_expression",
                                                     "relative_scope",
                                                     "string"} \cup Variable \cup ClassName],
     class_declaration |-> [attributes |-> {"attribute_list"},
         body |-> {"declaration_list"}, name |-> {"name"},
         none |-> {"base_clause", "class_interface_clause"} \cup Modifiers],
     class_interface_clause |-> [none |-> ClassName],
     clone_expression |-> [none |-> PrimaryExpression],
     colon_block |-> [none |-> Statement],
     compound_statement |-> [none |-> Statement],
     conditional_expression |-> [alternative |-> Expression, body |-> Expression,
         condition |-> Expression],
     const_declaration |-> [attributes |-> {"attribute_list"}, type |-> Type,
         none |-> {"const_element"} \cup Modifiers],
     const_element |-> [none |-> Expression],
     continue_statement |-> [none |-> Expression],
     declaration_list |-> [none |-> {"const_declaration", "method_declaration",
                                     "property_declaration", "use_declaration"}],
     declare_directive |-> [none |-> Literal],
     declare_statement |-> [none |-> {"declare_directive"} \cup Statement],
     default_statement |-> [none |-> Statement],
     disjunctive_normal_form_type |-> [none |-> {"intersection_type", "named_type",
                                                 "optional_type", "primitive_type"}],
     do_statement |-> [body |-> Statement, condition |-> {"parenthesized_expression"}],
     dynamic_variable_name |-> [none |-> Expression],
     echo_statement |-> [none |-> {"sequence_expression"} \cup Expression],
     else_clause |-> [body |-> {"colon_block"} \cup Statement],
     else_if_clause |-> [body |-> {"colon_block"} \cup Statement,
         condition |-> {"parenthesized_expression"}],
     encapsed_string |-> [none |-> {"escape_sequence", "string_content"} \cup Expression],
     enum_case |-> [attributes |-> {"attribute_list"}, name |-> {"name"},
         value |-> Expression],
     enum_declaration |-> [attributes |-> {"attribute_list"},
         body |-> {"enum_declaration_list"}, name |-> {"name"},
         none |-> {"class_interface_clause", "primitive_type"}],
     enum_declaration_list |-> [none |-> {"const_declaration", "enum_case",
                                          "method_declaration", "use_declaration"}],
     error_suppression_expression |-> [none |-> Expression],
     exit_statement |-> [none |-> Expression],
     expression_statement |-> [none |-> Expression],
     finally_clause |-> [body |-> {"compound_statement"}],
     for_statement |-> [body |-> Statement,
         condition |-> {"sequence_expression"} \cup Expression,
         initialize |-> {"sequence_expression"} \cup Expression,
         update |-> {"sequence_expression"} \cup Expression],
     foreach_statement |-> [body |-> {"colon_block"} \cup Statement,
         none |-> {"by_ref", "list_literal", "pair"} \cup Expression],
     formal_parameters |-> [none |-> {"property_promotion_parameter", "simple_parameter",
                                      "variadic_parameter"}],
     function_call_expression |-> [arguments |-> {"arguments"},
         function |-> {"array_creation_expression", "dynamic_variable_name",
                       "encapsed_string", "function_call_expression", "heredoc",
                       "member_call_expression", "nowdoc",
                       "nullsafe_member_call_expression", "object_creation_expression",
                       "parenthesized_expression", "scoped_call_expression", "string",
                       "subscript_expression", "variable_name"} \cup ClassName],
     function_definition |-> [attributes |-> {"attribute_list"},
         body |-> {"compound_statement"}, name |-> {"name"},
         parameters |-> {"formal_parameters"}, return_type |-> {"bottom_type"} \cup Type,
         none |-> {"reference_modifier"}],
     function_static_declaration |-> [none |-> {"static_variable_declaration"}],
     global_declaration |-> [none |-> {"dynamic_variable_name", "variable_name"}],
     goto_statement |-> [none |-> {"name"}],
     heredoc |-> [end_tag |-> {"heredoc_end"}, identifier |-> {"heredoc_start"},
         value |-> {"heredoc_body"}],
     heredoc_body |-> [none |-> {"escape_sequence", "string_content"} \cup Expression],
     if_statement |-> [alternative |-> {"else_clause", "else_if_clause"},
         body |-> {"colon_block"} \cup Statement,
         condition |-> {"parenthesized_expression"}],
     include_expression |-> [none |-> Expression],
     include_once_expression |-> [none |-> Expression],
     interface_declaration |-> [attributes |-> {"attribute_list"},
         body |-> {"declaration_list"}, name |-> {"name"}, none |-> {"base_clause"}],
     intersection_type |-> [none |-> {"named_type", "optional_type", "primitive_type"}],
     list_literal |-> [none |-> {"by_ref", "list_literal"} \cup Expression],
     match_block |-> [none |-> {"match_conditional_expression",
                                "match_default_expression"}],
     match_condition_list |-> [none |-> Expression],
     match_conditional_expression |-> [conditional_expressions |-> {"match_condition_list"},
         return_expression |-> Expression],
     match_default_expression |-> [return_expression |-> Expression],
     match_expression |-> [body |-> {"match_block"},
         condition |-> {"parenthesized_expression"}],
     member_access_expression |-> [name |-> Expression,
         object |-> {"array_creation_expression", "class_constant_access_expression",
                     "encapsed_string", "heredoc", "nowdoc", "object_creation_expression",
                     "parenthesized_expression", "string"} \cup Variable \cup ClassName],
     member_call_expression |-> [arguments |-> {"arguments"}, name |-> Expression,
         object |-> {"array_creation_expression", "class_constant_access_expression",
                     "encapsed_string", "heredoc", "nowdoc", "object_creation_expression",
                     "parenthesized_expression", "string"} \cup Variable \cup ClassName],
     method_declaration |-> [attributes |-> {"attribute_list"},
         body |-> {"compound_statement"}, name |-> {"name"},
         parameters |-> {"formal_parameters"}, return_type |-> {"bottom_type"} \cup Type,
         none |-> {"reference_modifier"} \cup Modifiers],
     named_label_statement |-> [none |-> {"name"}],
     named_type |-> [none |-> ClassName],
     namespace_definition |-> [body |-> {"compound_statement"},
                                         name |-> {"namespace_name"}],
     namespace_name |-> [none |-> {"name"}],
     namespace_use_clause |-> [alias |-> {"name"}, type |-> {"token"},
         none |-> {"name", "qualified_name"}],
     namespace_use_declaration |-> [body |-> {"namespace_use_group"}, type |-> {"token"},
         none |-> {"namespace_name", "namespace_use_clause"}],
     namespace_use_group |-> [none |-> {"namespace_use_clause"}],
     nowdoc |-> [end_tag |-> {"heredoc_end"}, identifier |-> {"heredoc_start"},
         value |-> {"nowdoc_body"}],
     nowdoc_body |-> [none |-> {"nowdoc_string"}],
     nullsafe_member_access_expression |-> [name |-> Expression,
         object |-> {"array_creation_expression", "class_constant_access_expression",
                     "encapsed_string", "heredoc", "nowdoc", "object_creation_expression",
                     "parenthesized_expression", "string"} \cup Variable \cup ClassName],
     nullsafe_member_call_expression |-> [arguments |-> {"arguments"}, name |-> Expression,
         object |-> {"array_creation_expression", "class_constant_access_expression",
                     "encapsed_string", "heredoc", "nowdoc", "object_creation_expression",
                     "parenthesized_expression", "string"} \cup Variable \cup ClassName],
     object_creation_expression |-> [none |-> {"anonymous_class", "arguments",
                                               "dynamic_variable_name",
                                               "member_access_expression",
                                               "nullsafe_member_access_expression",
                                               "parenthesized_expression",
                                               "scoped_property_access_expression",
                                               "subscript_expression",
                                               "variable_name"} \cup ClassName],
     optional_type |-> [none |-> {"named_type", "primitive_type"}],
     pair |-> [none |-> {"by_ref", "list_literal"} \cup Expression],
     parenthesized_expression |-> [none |-> Expression],
     print_intrinsic |-> [none |-> Expression],
     program |-> [none |-> {"php_end_tag", "php_tag"} \cup Statement],
     property_declaration |-> [attributes |-> {"attribute_list"}, type |-> Type,
         none |-> {"property_element", "property_hook_list"} \cup Modifiers],
     property_element |-> [default_value |-> Expression, name |-> {"variable_name"}],
     property_hook |-> [attributes |-> {"attribute_list"},
         body |-> {"compound_statement"} \cup Expression, final |-> {"final_modifier"},
         parameters |-> {"formal_parameters"},
         reference_modifier |-> {"reference_modifier"}, none |-> {"name"}],
     property_hook_list |-> [none |-> {"property_hook"}],
     property_promotion_parameter |-> [attributes |-> {"attribute_list"},
         default_value |-> Expression, name |-> {"by_ref", "variable_name"},
         readonly |-> {"readonly_modifier"}, type |-> Type,
         visibility |-> {"visibility_modifier"}, none |-> {"property_hook_list"}],
     qualified_name |-> [prefix |-> {"namespace_name", "token"}, none |-> {"name"}],
     reference_assignment_expression |-> [left |-> {"list_literal"} \cup Variable,
         right |-> Expression],
     relative_name |-> [prefix |-> {"namespace_name", "token"}, none |-> {"name"}],
     require_expression |-> [none |-> Expression],
     require_once_expression |-> [none |-> Expression],
     return_statement |-> [none |-> Expression],
     scoped_call_expression |-> [arguments |-> {"arguments"}, name |-> Expression,
         scope |-> {"array_creation_expression", "class_constant_access_expression",
                    "encapsed_string", "heredoc", "nowdoc", "object_creation_expression",
                    "parenthesized_expression", "relative_scope",
                    "string"} \cup Variable \cup ClassName],
     scoped_property_access_expression |-> [name |-> {"dynamic_variable_name",
                                                      "variable_name"},
         scope |-> {"array_creation_expression", "class_constant_access_expression",
                    "encapsed_string", "heredoc", "nowdoc", "object_creation_expression",
                    "parenthesized_expression", "relative_scope",
                    "string"} \cup Variable \cup ClassName],
     sequence_expression |-> [none |-> {"sequence_expression"} \cup Expression],
     shell_command_expression |-> [none |-> {"escape_sequence",
                                             "string_content"} \cup Expression],
     simple_parameter |-> [attributes |-> {"attribute_list"}, default_value |-> Expression,
         name |-> {"variable_name"}, reference_modifier |-> {"reference_modifier"},
         type |-> Type],
     static_variable_declaration |-> [name |-> {"variable_name"}, value |-> Expression],
     string |-> [none |-> {"escape_sequence", "string_content"}],
     subscript_expression |-> [none |-> Expression],
     switch_block |-> [none |-> {"case_statement", "default_statement"}],
     switch_statement |-> [body |-> {"switch_block"},
         condition |-> {"parenthesized_expression"}],
     throw_expression |-> [none |-> Expression],
     trait_declaration |-> [attributes |-> {"attribute_list"},
         body |-> {"declaration_list"}, name |-> {"name"}],
     try_statement |-> [body |-> {"compound_statement"},
         none |-> {"catch_clause", "finally_clause"}],
     type_list |-> [none |-> {"named_type"}],
     unary_op_expression |-> [argument |-> Expression, operator |-> {"token"},
         none |-> {"integer"}],
     union_type |-> [none |-> {"named_type", "optional_type", "primitive_type"}],
     unset_statement |-> [none |-> Variable],
     update_expression |-> [argument |-> Variable, operator |-> {"token"}],
     use_as_clause |-> [none |-> {"class_constant_access_expression", "name",
                                  "visibility_modifier"}],
     use_declaration |-> [none |-> {"use_list"} \cup ClassName],
     use_instead_of_clause |-> [none |-> {"class_constant_access_expression", "name"}],
     use_list |-> [none |-> {"use_as_clause", "use_instead_of_clause"}],
     variable_name |-> [none |-> {"name"}],
     variadic_parameter |-> [attributes |-> {"attribute_list"}, name |-> {"variable_name"},
         reference_modifier |-> {"reference_modifier"}, type |-> Type],
     variadic_unpacking |-> [none |-> Expression],
     visibility_modifier |-> [none |-> {"operation"}],
     while_statement |-> [body |-> {"colon_block"} \cup Statement,
         condition |-> {"parenthesized_expression"}],
     yield_expression |-> [none |-> {"array_element_initializer"} \cup Expression]]

=============================================================================
