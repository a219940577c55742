---------------------------- MODULE PhpVisitors ----------------------------
(***************************************************************************)
(* The visit methods of CompleteIndexer.java: what each of them does with  *)
(* a child in one of its slots.                                            *)
(*                                                                         *)
(* A method for a node with children is a row: it gives to each field a    *)
(* function from the type of the child to the visitor that is called for   *)
(* it.  A visitor has the name of the type of node it is written for,      *)
(* visitClassDeclaration is "class_declaration".  A child whose field or   *)
(* type is not there is reported to unexpected or unknown, which no        *)
(* listener of the program overrides, and is not visited; the two are not  *)
(* told apart.  Children in no field are under `none`.  The rows stand in  *)
(* the order of the methods, in groups named for the first and the last.   *)
(***************************************************************************)
EXTENDS TLC

TOKEN == "token"   \* the type of punctuation and keywords, and the callback for it
ANY == "any"       \* stands for every type that is not named beside it

\* the methods that only report a leaf
LeafTypes ==
    {"abstract_modifier", "argument_placeholder", "boolean", "bottom_type", "cast_type",
     "comment", "empty_statement", "escape_sequence", "final_modifier", "float",
     "heredoc_end", "heredoc_start", "integer", "name", "nowdoc_string", "null",
     "operation", "php_end_tag", "php_tag", "primitive_type", "readonly_modifier",
     "reference_modifier", "relative_scope", "static_modifier", "string_content",
     "var_modifier", "variadic_placeholder"}

\* the switch of visit: the visitor of the type
OneOf(types) == [type \in types |-> type]

\* one visitor for whatever stands there
As(visitor) == ANY :> visitor
Token == As(TOKEN)

Literal == OneOf({"boolean", "encapsed_string", "float", "heredoc", "integer", "nowdoc",
                   "null", "string"})

PrimaryExpression ==
    OneOf({"anonymous_function", "array_creation_expression", "arrow_function",
           "cast_expression", "class_constant_access_expression", "dynamic_variable_name",
           "function_call_expression", "member_access_expression", "member_call_expression",
           "name", "nullsafe_member_access_expression", "nullsafe_member_call_expression",
           "object_creation_expression", "parenthesized_expression", "print_intrinsic",
           "qualified_name", "relative_name", "scoped_call_expression",
           "scoped_property_access_expression", "shell_command_expression",
           "subscript_expression", "throw_expression", "update_expression", "variable_name"})
    @@ Literal

Expression ==
    OneOf({"assignment_expression", "augmented_assignment_expression", "binary_expression",
           "cast_expression", "clone_expression", "conditional_expression",
           "error_suppression_expression", "include_expression", "include_once_expression",
           "match_expression", "reference_assignment_expression", "require_expression",
           "require_once_expression", "unary_op_expression", "yield_expression"})
    @@ PrimaryExpression

Statement ==
    OneOf({"break_statement", "class_declaration", "compound_statement",
           "const_declaration", "continue_statement", "declare_statement", "do_statement",
           "echo_statement", "empty_statement", "enum_declaration", "exit_statement",
           "expression_statement", "for_statement", "foreach_statement",
           "function_definition", "function_static_declaration", "global_declaration",
           "goto_statement", "if_statement", "interface_declaration",
           "named_label_statement", "namespace_definition", "namespace_use_declaration",
           "return_statement", "switch_statement", "trait_declaration", "try_statement",
           "unset_statement", "while_statement"})

Type ==
    OneOf({"disjunctive_normal_form_type", "intersection_type", "named_type",
           "optional_type", "primitive_type", "union_type"})

BlockOrStatement == OneOf({"colon_block"}) @@ Statement
ClassName == OneOf({"name", "qualified_name", "relative_name"})

\* Mutant: never is no type.
TypeAlone == Type

ReturnType == OneOf({"bottom_type"}) @@ Type

MemberName == Expression
Scope == OneOf({"relative_scope"}) @@ PrimaryExpression
AssignmentTarget == OneOf({"list_literal"}) @@ PrimaryExpression
VariableTarget == PrimaryExpression
Interpolated == OneOf({"escape_sequence", "string_content"}) @@ Expression

Modifiers ==
    {"abstract_modifier", "final_modifier", "readonly_modifier", "static_modifier",
     "var_modifier", "visibility_modifier"}

FromAbstractModifierToArrayElementInitializer ==
    [anonymous_class |-> [attributes |-> As("attribute_list"),
         body |-> As("declaration_list"),
         none |-> OneOf({"arguments", "base_clause",
                         "class_interface_clause"} \cup Modifiers)],
     anonymous_function |-> [attributes |-> As("attribute_list"),
         body |-> As("compound_statement"), parameters |-> As("formal_parameters"),
         reference_modifier |-> As("reference_modifier"), return_type |-> ReturnType,
         static_modifier |-> As("static_modifier"),
         none |-> OneOf({"anonymous_function_use_clause"})],
     anonymous_function_use_clause |-> [none |-> OneOf({"by_ref", "variable_name"})],
     argument |-> [name |-> As("name"), reference_modifier |-> As("reference_modifier"),
         none |-> OneOf({"argument_placeholder", "variadic_unpacking"}) @@ Expression],
     arguments |-> [none |-> OneOf({"argument", "variadic_placeholder"})],
     array_creation_expression |-> [none |-> OneOf({"array_element_initializer"})],
     array_element_initializer |-> [none |-> OneOf({"by_ref",
                                                    "variadic_unpacking"}) @@ Expression]]

FromArrowFunctionToBreakStatement ==
    [arrow_function |-> [attributes |-> As("attribute_list"), body |-> Expression,
         parameters |-> As("formal_parameters"),
         reference_modifier |-> As("reference_modifier"), return_type |-> ReturnType,
         static_modifier |-> As("static_modifier")],
     assignment_expression |-> [left |-> AssignmentTarget, right |-> Expression],
     attribute |-> [parameters |-> As("arguments"), none |-> ClassName],
     attribute_group |-> [none |-> OneOf({"attribute"})],
     attribute_list |-> [none |-> OneOf({"attribute_group"})],
     augmented_assignment_expression |-> [left |-> AssignmentTarget, operator |-> Token,
         right |-> Expression],
     base_clause |-> [none |-> ClassName],
     binary_expression |-> [left |-> Expression, operator |-> Token, right |-> Expression],
     break_statement |-> [none |-> Expression]]

FromByRefToComment ==
    [by_ref |-> [none |-> VariableTarget],
     case_statement |-> [value |-> Expression, none |-> Statement],
     cast_expression |-> [type |-> As("cast_type"),
         value |-> OneOf({"clone_expression", "error_suppression_expression",
                          "include_expression", "include_once_expression",
                          "unary_op_expression"}) @@ PrimaryExpression],
     catch_clause |-> [body |-> As("compound_statement"), name |-> As("variable_name"),
         type |-> As("type_list")],
     class_constant_access_expression |-> [none |-> OneOf({"relative_scope"}) @@ PrimaryExpression],
     class_declaration |-> [attributes |-> As("attribute_list"),
         body |-> As("declaration_list"), name |-> As("name"),
         none |-> OneOf({"base_clause", "class_interface_clause"} \cup Modifiers)],
     class_interface_clause |-> [none |-> ClassName],
     clone_expression |-> [none |-> PrimaryExpression],
     colon_block |-> [none |-> Statement]]

FromCompoundStatementToDisjunctiveNormalFormType ==
    [compound_statement |-> [none |-> Statement],
     conditional_expression |-> [alternative |-> Expression, body |-> Expression,
         condition |-> Expression],
     const_declaration |-> [attributes |-> As("attribute_list"), type |-> Type,
         none |-> OneOf({"const_element"} \cup Modifiers)],
     const_element |-> [none |-> Expression],
     continue_statement |-> [none |-> Expression],
     declaration_list |-> [none |-> OneOf({"const_declaration", "method_declaration",
                                           "property_declaration", "use_declaration"})],
     declare_directive |-> [none |-> Literal],
     declare_statement |-> [none |-> OneOf({"declare_directive"}) @@ Statement],
     default_statement |-> [none |-> Statement],
     disjunctive_normal_form_type |-> [none |-> OneOf({"intersection_type", "named_type",
                                                       "optional_type", "primitive_type"})]]

FromDoStatementToEscapeSequence ==
    [do_statement |-> [body |-> Statement, condition |-> As("parenthesized_expression")],
     dynamic_variable_name |-> [none |-> Expression],
     echo_statement |-> [none |-> OneOf({"sequence_expression"}) @@ Expression],
     else_clause |-> [body |-> BlockOrStatement],
     else_if_clause |-> [body |-> BlockOrStatement,
         condition |-> As("parenthesized_expression")],
     encapsed_string |-> [none |-> Interpolated],
     enum_case |-> [attributes |-> As("attribute_list"), name |-> As("name"),
         value |-> Expression],
     enum_declaration |-> [attributes |-> As("attribute_list"),
         body |-> As("enum_declaration_list"), name |-> As("name"),
         none |-> OneOf({"class_interface_clause", "primitive_type"})],
     enum_declaration_list |-> [none |-> OneOf({"const_declaration", "enum_case",
                                                "method_declaration", "use_declaration"})],
     error_suppression_expression |-> [none |-> Expression]]

FromExitStatementToFunctionStaticDeclaration ==
    [exit_statement |-> [none |-> Expression],
     expression_statement |-> [none |-> Expression],
     finally_clause |-> [body |-> As("compound_statement")],
     for_statement |-> [body |-> Statement,
         condition |-> OneOf({"sequence_expression"}) @@ Expression,
         initialize |-> OneOf({"sequence_expression"}) @@ Expression,
         update |-> OneOf({"sequence_expression"}) @@ Expression],
     foreach_statement |-> [body |-> BlockOrStatement,
         none |-> OneOf({"by_ref", "list_literal", "pair"}) @@ Expression],
     formal_parameters |-> [none |-> OneOf({"property_promotion_parameter",
                                            "simple_parameter", "variadic_parameter"})],
     function_call_expression |-> [arguments |-> As("arguments"),
         function |-> PrimaryExpression],
     function_definition |-> [attributes |-> As("attribute_list"),
         body |-> As("compound_statement"), name |-> As("name"),
         parameters |-> As("formal_parameters"), return_type |-> ReturnType,
         none |-> OneOf({"reference_modifier"})],
     function_static_declaration |-> [none |-> OneOf({"static_variable_declaration"})]]

FromGlobalDeclarationToIntersectionType ==
    [global_declaration |-> [none |-> OneOf({"dynamic_variable_name", "variable_name"})],
     goto_statement |-> [none |-> As("name")],
     heredoc |-> [end_tag |-> As("heredoc_end"), identifier |-> As("heredoc_start"),
         value |-> As("heredoc_body")],
     heredoc_body |-> [none |-> Interpolated],
     if_statement |-> [alternative |-> OneOf({"else_clause", "else_if_clause"}),
         body |-> BlockOrStatement, condition |-> As("parenthesized_expression")],
     include_expression |-> [none |-> Expression],
     include_once_expression |-> [none |-> Expression],
     interface_declaration |-> [attributes |-> As("attribute_list"),
         body |-> As("declaration_list"), name |-> As("name"),
         none |-> OneOf({"base_clause"})],
     intersection_type |-> [none |-> OneOf({"named_type", "optional_type",
                                            "primitive_type"})]]

FromListLiteralToNamedLabelStatement ==
    [list_literal |-> [none |-> OneOf({"by_ref", "list_literal"}) @@ Expression],
     match_block |-> [none |-> OneOf({"match_conditional_expression",
                                      "match_default_expression"})],
     match_condition_list |-> [none |-> Expression],
     match_conditional_expression |-> [conditional_expressions |-> As("match_condition_list"),
         return_expression |-> Expression],
     match_default_expression |-> [return_expression |-> Expression],
     match_expression |-> [body |-> As("match_block"),
         condition |-> As("parenthesized_expression")],
     member_access_expression |-> [name |-> MemberName, object |-> PrimaryExpression],
     member_call_expression |-> [arguments |-> As("arguments"), name |-> MemberName,
         object |-> PrimaryExpression],
     method_declaration |-> [attributes |-> As("attribute_list"),
         body |-> As("compound_statement"), name |-> As("name"),
         parameters |-> As("formal_parameters"), return_type |-> ReturnType,
         none |-> OneOf({"reference_modifier"} \cup Modifiers)],
     named_label_statement |-> [none |-> As("name")]]

FromNamedTypeToNullsafeMemberCallExpression ==
    [named_type |-> [none |-> ClassName],
     namespace_definition |-> [body |-> As("compound_statement"),
         name |-> As("namespace_name")],
     namespace_name |-> [none |-> As("name")],
     namespace_use_clause |-> [alias |-> As("name"), type |-> Token,
         none |-> OneOf({"name", "qualified_name"})],
     namespace_use_declaration |-> [body |-> As("namespace_use_group"), type |-> Token,
         none |-> OneOf({"namespace_name", "namespace_use_clause"})],
     namespace_use_group |-> [none |-> OneOf({"namespace_use_clause"})],
     nowdoc |-> [end_tag |-> As("heredoc_end"), identifier |-> As("heredoc_start"),
         value |-> As("nowdoc_body")],
     nowdoc_body |-> [none |-> OneOf({"nowdoc_string"})],
     nullsafe_member_access_expression |-> [name |-> MemberName,
         object |-> PrimaryExpression],
     nullsafe_member_call_expression |-> [arguments |-> As("arguments"),
         name |-> MemberName, object |-> PrimaryExpression]]

FromObjectCreationExpressionToPropertyElement ==
    [object_creation_expression |-> [none |-> OneOf({"anonymous_class",
                                                     "arguments"}) @@ PrimaryExpression],
     optional_type |-> [none |-> OneOf({"named_type", "primitive_type"})],
     pair |-> [none |-> OneOf({"by_ref", "list_literal"}) @@ Expression],
     parenthesized_expression |-> [none |-> Expression],
     print_intrinsic |-> [none |-> Expression],
     program |-> [none |-> OneOf({"php_end_tag", "php_tag"}) @@ Statement],
     property_declaration |-> [attributes |-> As("attribute_list"), type |-> Type,
         none |-> OneOf({"property_element", "property_hook_list"} \cup Modifiers)],
     property_element |-> [default_value |-> Expression, name |-> As("variable_name")]]

FromPropertyHookToRequireOnceExpression ==
    [property_hook |-> [attributes |-> As("attribute_list"),
         body |-> OneOf({"compound_statement"}) @@ Expression,
         final |-> As("final_modifier"), parameters |-> As("formal_parameters"),
         reference_modifier |-> As("reference_modifier"), none |-> As("name")],
     property_hook_list |-> [none |-> OneOf({"property_hook"})],
     property_promotion_parameter |-> [attributes |-> As("attribute_list"),
         default_value |-> Expression, name |-> OneOf({"by_ref", "variable_name"}),
         readonly |-> As("readonly_modifier"), type |-> Type,
         visibility |-> As("visibility_modifier"), none |-> OneOf({"property_hook_list"})],
     qualified_name |-> [prefix |-> OneOf({"namespace_name"}) @@ Token,
                                           none |-> As("name")],
     reference_assignment_expression |-> [left |-> AssignmentTarget, right |-> Expression],
     relative_name |-> [prefix |-> OneOf({"namespace_name"}) @@ Token, none |-> As("name")],
     require_expression |-> [none |-> Expression],
     require_once_expression |-> [none |-> Expression]]

FromReturnStatementToSwitchBlock ==
    [return_statement |-> [none |-> Expression],
     scoped_call_expression |-> [arguments |-> As("arguments"), name |-> MemberName,
         scope |-> Scope],
     scoped_property_access_expression |-> [name |-> OneOf({"dynamic_variable_name",
                                                            "variable_name"}),
         scope |-> Scope],
     sequence_expression |-> [none |-> OneOf({"sequence_expression"}) @@ Expression],
     shell_command_expression |-> [none |-> Interpolated],
     simple_parameter |-> [attributes |-> As("attribute_list"),
         default_value |-> Expression, name |-> As("variable_name"),
         reference_modifier |-> As("reference_modifier"), type |-> Type],
     static_variable_declaration |-> [name |-> As("variable_name"), value |-> Expression],
     string |-> [none |-> OneOf({"escape_sequence", "string_content"})],
     subscript_expression |-> [none |-> Expression],
     switch_block |-> [none |-> OneOf({"case_statement", "default_statement"})]]

FromSwitchStatementToUseAsClause ==
    [switch_statement |-> [body |-> As("switch_block"),
         condition |-> As("parenthesized_expression")],
     throw_expression |-> [none |-> Expression],
     trait_declaration |-> [attributes |-> As("attribute_list"),
         body |-> As("declaration_list"), name |-> As("name")],
     try_statement |-> [body |-> As("compound_statement"),
         none |-> OneOf({"catch_clause", "finally_clause"})],
     type_list |-> [none |-> OneOf({"named_type"})],
     unary_op_expression |-> [argument |-> Expression, operator |-> Token,
         none |-> OneOf({"integer"})],
     union_type |-> [none |-> OneOf({"named_type", "optional_type", "primitive_type"})],
     unset_statement |-> [none |-> VariableTarget],
     update_expression |-> [argument |-> VariableTarget, operator |-> Token],
     use_as_clause |-> [none |-> OneOf({"class_constant_access_expression", "name",
                                        "visibility_modifier"})]]

FromUseDeclarationToYieldExpression ==
    [use_declaration |-> [none |-> OneOf({"use_list"}) @@ ClassName],
     use_instead_of_clause |-> [none |-> OneOf({"class_constant_access_expression",
                                                "name"})],
     use_list |-> [none |-> OneOf({"use_as_clause", "use_instead_of_clause"})],
     variable_name |-> [none |-> As("name")],
     variadic_parameter |-> [attributes |-> As("attribute_list"),
         name |-> As("variable_name"), reference_modifier |-> As("reference_modifier"),
         type |-> Type],
     variadic_unpacking |-> [none |-> Expression],
     visibility_modifier |-> [none |-> OneOf({"operation"})],
     while_statement |-> [body |-> BlockOrStatement,
         condition |-> As("parenthesized_expression")],
     yield_expression |-> [none |-> OneOf({"array_element_initializer"}) @@ Expression]]

Rows ==
    FromAbstractModifierToArrayElementInitializer
    @@ FromArrowFunctionToBreakStatement
    @@ FromByRefToComment
    @@ FromCompoundStatementToDisjunctiveNormalFormType
    @@ FromDoStatementToEscapeSequence
    @@ FromExitStatementToFunctionStaticDeclaration
    @@ FromGlobalDeclarationToIntersectionType
    @@ FromListLiteralToNamedLabelStatement
    @@ FromNamedTypeToNullsafeMemberCallExpression
    @@ FromObjectCreationExpressionToPropertyElement
    @@ FromPropertyHookToRequireOnceExpression
    @@ FromReturnStatementToSwitchBlock
    @@ FromSwitchStatementToUseAsClause
    @@ FromUseDeclarationToYieldExpression

InnerTypes == DOMAIN Rows
NodeTypes == LeafTypes \cup InnerTypes

\* visit, which the walk begins with
Visit == OneOf(NodeTypes)

\* The function of the slot a child in this field of a node stands in, when the
\* node is visited as `visitor`.
Slot(visitor, field) == IF field \in DOMAIN Rows[visitor] THEN Rows[visitor][field] ELSE OneOf({})

Accepts(slot, type) == type \in DOMAIN slot \/ ANY \in DOMAIN slot
VisitorIn(slot, type) == IF type \in DOMAIN slot THEN slot[type] ELSE slot[ANY]
=============================================================================
