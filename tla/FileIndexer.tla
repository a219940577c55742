----------------------------- MODULE FileIndexer -----------------------------
(***************************************************************************)
(* What the index learns of one file: Workspace.indexInto, with the twelve *)
(* listeners it walks the tree with, one after the other, and the passes   *)
(* that follow.                                                            *)
(*                                                                         *)
(* A node of the tree has a text.  The text of a name is the sequence of   *)
(* its segments, a leading backslash and the dollar of a variable being    *)
(* segments of their own: \A\B is <<"\\", "A", "B">> and $a is <<"$", "a">>. *)
(* The text of a type is the sequence of the members of the union, each    *)
(* [name, optional, array]; the text of a comment is the sequence of the   *)
(* tags that PhpDoc.parse keeps of it, [tag, type, name], empty for a      *)
(* comment that is no phpdoc.                                              *)
(*                                                                         *)
(* A symbol is known by its node, the one whose range it has.  A range is  *)
(* the interval of the nodes in it: tree.last[n] is the last node below n. *)
(***************************************************************************)
EXTENDS PhpTree, PhpType

ASSUME NoneAssumption == NONE \notin Nat

ASSUME TextsAssumption ==
    \A t \in PhpTrees :
      /\ DOMAIN t.text = Nodes(t)
      /\ \A n \in Nodes(t) : t.text[n] # NONE /\ (t.type[n] = "name" => t.text[n] \in Seq(STRING))
      /\ \A n \in Nodes(t) : /\ t.last[n] \in Nodes(t) /\ n \in Up(t)[t.last[n]]
                             /\ \A m \in Nodes(t) : n \in Up(t)[m] => m <= t.last[n]

VARIABLES
    tree,
    walk,     \* what CompleteIndexer.walk tells a listener of the tree
    listener, \* the position in the list of listeners of the one that walks
    coming,   \* the positions in walk of what it has yet to be told
    opened,   \* its stack of the declarations it is in, the innermost first
    members,  \* PhpReferenceListener.members: the reference that names an expression
    symbols,  \* the collection: the list of each kind, and the imports of the name scopes
    pc        \* "walking", "filling", "typing", "returning", "propagating" or "indexed"

vars == <<tree, walk, listener, coming, opened, members, symbols, pc>>

-----------------------------------------------------------------------------
\* Nodes and ranges
HeadOrNone(list) == IF list = << >> THEN NONE ELSE Head(list)
First(list, places) == IF places = {} THEN NONE ELSE list[Min(places)]
FirstOf(nodes) == IF nodes = {} THEN NONE ELSE Min(nodes)
LastOf(nodes) == IF nodes = {} THEN NONE ELSE Max(nodes)
NodeType(n) == IF n = NONE THEN "nothing" ELSE tree.type[n]
Text(n) == tree.text[n]
Parent(n) == IF n = ROOT THEN NONE ELSE tree.parent[n]

InField(t, n, field) == FirstOf({c \in Below(t, n) : t.field[c] = field})
ChildInField(n, field) == InField(tree, n, field)

\* comments are named nodes, too
NamedChildren(n) == {c \in Below(tree, n) : tree.flag[c] # "token"}
FirstNamed(n) == FirstOf(NamedChildren(n))

PrevSibling(n) ==
    IF n = ROOT THEN NONE
    ELSE LastOf({c \in Below(tree, tree.parent[n]) : c < n})

Span(from, to) == [from |-> from, to |-> to]
RangeOf(n) == Span(n, tree.last[n])
IsWithin(range, other) == other.from <= range.from /\ range.to <= other.to

\* Mutant: the last owner around the range, however large.
OutermostWins(range, owners, found) ==
    LET in[i \in 0..Len(owners)] ==
          IF i = 0 THEN found
          ELSE IF IsWithin(range, owners[i].scope) /\ (in[i - 1] = NONE \/ IsWithin(in[i - 1].scope, owners[i].scope))
               THEN owners[i] ELSE in[i - 1]
    IN  in[Len(owners)]

\* of the owners whose scope the range is in, the one with the smallest scope
Innermost(range, owners, found) ==
    LET in[i \in 0..Len(owners)] ==
          IF i = 0 THEN found
          ELSE IF IsWithin(range, owners[i].scope) /\ (in[i - 1] = NONE \/ IsWithin(owners[i].scope, in[i - 1].scope))
               THEN owners[i] ELSE in[i - 1]
    IN  in[Len(owners)]

NamespaceOf(range) == Innermost(range, symbols.namespaces, NONE)
ClassOf(range) == Innermost(range, symbols.classes, NONE)
FunctionLikeOf(range) == Innermost(range, symbols.functions, Innermost(range, symbols.methods, NONE))
OwnerOf(range) == Innermost(range, symbols.classes, FunctionLikeOf(range))

Id(symbol) == IF symbol = NONE THEN NONE ELSE symbol.node

-----------------------------------------------------------------------------
\* Names: PhpNameScope, a namespace and what is imported into it
ImportedInto(namespace, imports) == SelectSeq(imports, LAMBDA i : i.scope = Id(namespace))
NameScopeOf(range) ==
    LET namespace == NamespaceOf(range)
    IN  [namespace |-> namespace, imports |-> ImportedInto(namespace, symbols.imports)]
IsRelative(name) == name \in {<<"self">>, <<"static">>, <<"parent">>}

Qualify(namespace, name) == IF namespace = NONE THEN name ELSE namespace.name \o name

Fqn(scope, name) ==
    LET imported == HeadOrNone(SelectSeq(scope.imports, LAMBDA i : i.alias = name[1]))
    IN  IF name[1] = "\\" THEN Tail(name)
        ELSE IF name[1] = "namespace" /\ Len(name) > 1 THEN Qualify(scope.namespace, Tail(name))
        ELSE IF IsRelative(name) THEN name
        ELSE IF imported # NONE THEN imported.name \o Tail(name)
        ELSE Qualify(scope.namespace, name)

\* Types: PhpType.parse
Unmapped == {<<n>> : n \in {"void", "never", "false", "true", "resource", "scalar", "numeric", "number"}}
BuiltinNames == {"int", "float", "string", "bool", "array", "null", "callable", "iterable", "object", "mixed"}

ParsedName(name, scope) ==
    IF name \in Unmapped THEN NONE
    ELSE IF name = <<"$", "this">> THEN Named(<<"static">>)
    ELSE IF Len(name) = 1 /\ name[1] \in BuiltinNames THEN Builtin(name[1])
    ELSE ClassType(Fqn(scope, name))

ParsedMember(member, scope) ==
    LET type == ParsedName(member.name, scope)
    IN  IF ~member.array THEN type
        ELSE IF type = NONE THEN Builtin("array") ELSE ArrayType(type)

Union(types) ==
    LET distinct == FoldLeft(LAMBDA kept, t : IF Contains(kept, t) THEN kept ELSE Append(kept, t), << >>, types)
    IN  IF Len(distinct) = 1 THEN distinct[1] ELSE UnionType(distinct)

Parsed(text, scope) ==
    LET types == FoldLeft(LAMBDA kept, m : kept \o (IF m.optional THEN <<ParsedMember(m, scope), Null>>
                                                    ELSE <<ParsedMember(m, scope)>>),
                          << >>, text)
    IN  IF types = << >> \/ Contains(types, NONE) THEN NONE ELSE Union(types)

\* the type written in a field of the node, if there is one
TypeInField(n, field) ==
    LET type == ChildInField(n, field)
    IN  IF type = NONE THEN NONE ELSE Parsed(Text(type), NameScopeOf(RangeOf(type)))

\* PhpDoc.of: the tags of the comment right before the node
DocTags(n, tag) ==
    LET comment == PrevSibling(n)
    IN  IF NodeType(comment) # "comment" THEN << >> ELSE SelectSeq(Text(comment), LAMBDA d : d.tag = tag)

-----------------------------------------------------------------------------
\* The listeners, in the order they walk, and of each the calls it overrides
\* with the types it looks at: all it is told but these it passes over.
Hears(enter, leaf, extra, exit) == [enter |-> enter, leaf |-> leaf, extra |-> extra, exit |-> exit]

Listeners == <<
    [of |-> "namespace",
     hears |-> Hears({"namespace_definition", "namespace_name"}, {}, {}, {"namespace_definition"})],
    [of |-> "import", hears |-> Hears({"namespace_use_clause"}, {}, {}, {})],
    [of |-> "class", hears |-> Hears({"class_declaration"}, {}, {}, {})],
    [of |-> "property", hears |-> Hears({"property_element", "property_promotion_parameter"}, {}, {}, {})],
    [of |-> "varDoc", hears |-> Hears({}, {}, {}, {"property_declaration"})],
    [of |-> "docReference", hears |-> Hears({}, {}, {"comment"}, {})],
    [of |-> "method", hears |-> Hears({"method_declaration"}, {"name"}, {}, {"method_declaration"})],
    [of |-> "function", hears |-> Hears({"function_definition"}, {"name"}, {}, {"function_definition"})],
    [of |-> "parameter",
     hears |-> Hears({"simple_parameter", "property_promotion_parameter", "variable_name"}, {}, {},
                     {"simple_parameter", "property_promotion_parameter"})],
    [of |-> "variable", hears |-> Hears({"variable_name"}, {}, {}, {})],
    [of |-> "reference", hears |-> Hears({}, {"name"}, {}, {})],
    [of |-> "classReference",
     hears |-> Hears({"qualified_name", "relative_name"}, {"name", "relative_scope"}, {}, {})] >>

Heard(l, calls, t) == {i \in DOMAIN calls : t.type[calls[i].node] \in Listeners[l].hears[calls[i].call]}

Init ==
    /\ tree \in PhpTrees
    /\ walk = Telling(tree)
    /\ listener = 1 /\ coming = Heard(1, walk, tree) /\ opened = << >> /\ members = << >>
    /\ symbols = [namespaces |-> << >>, imports |-> << >>, classes |-> << >>, properties |-> << >>,
                  methods |-> << >>, functions |-> << >>, parameters |-> << >>, locals |-> << >>,
                  usages |-> << >>, references |-> << >>]
    /\ pc = "walking"

At == walk[Min(coming)]

\* the listener is told, by this call, of a node of one of the types
Told(of, call, types) ==
    /\ pc = "walking" /\ Listeners[listener].of = of
    /\ coming # {} /\ At.call = call /\ tree.type[At.node] \in types
    /\ coming' = coming \ {Min(coming)}
    /\ UNCHANGED <<tree, walk, listener, pc>>

With(list, symbol) == [symbols EXCEPT ![list] = Append(@, symbol)]

\* A declaration is opened without a name, named by the first node of its kind
\* of name one level below it, and left.
Open(declaration) == opened' = <<declaration>> \o opened /\ UNCHANGED <<members, symbols>>
Poll == opened' = Tail(opened) /\ UNCHANGED <<members, symbols>>

WithItsName(declaration) == [declaration EXCEPT !.node = At.node, !.name = Text(At.node)]

\* Mutant: the first name, on whatever level.
IsAnyName == opened # << >> /\ Head(opened).name = NONE

IsItsName ==
    /\ opened # << >> /\ Head(opened).name = NONE
    /\ At.depth = Head(opened).depth + 1

NameAndAdd(list) ==
    IF IsItsName
    THEN /\ opened' = <<WithItsName(Head(opened))>> \o Tail(opened)
         /\ symbols' = With(list, WithItsName(Head(opened)))
         /\ UNCHANGED members
    ELSE UNCHANGED <<opened, members, symbols>>

-----------------------------------------------------------------------------
\* PhpNamespaceDefinitionListener.  Without a body the namespace ends where the
\* next one begins, or with its parent.
NamespaceScope(n) ==
    LET later == {c \in NamedChildren(tree.parent[n]) : c > n /\ tree.type[c] = "namespace_definition"}
    IN  IF ChildInField(n, "body") # NONE THEN RangeOf(n)
        ELSE IF later = {} THEN Span(n, tree.last[tree.parent[n]])
        ELSE Span(n, Min(later) - 1)

OpenNamespace ==
    /\ Told("namespace", "enter", {"namespace_definition"})
    /\ Open([kind |-> "namespace", node |-> NONE, name |-> NONE, depth |-> At.depth,
             scope |-> NamespaceScope(At.node)])

NameNamespace == Told("namespace", "enter", {"namespace_name"}) /\ NameAndAdd("namespaces")
CloseNamespace == Told("namespace", "exit", {"namespace_definition"}) /\ Poll

\* PhpImportListener.  A clause of a group is below the prefix of the group; a
\* clause, or a declaration, that says `function` or `const` imports no class.
Declaration(clause) ==
    IF tree.type[tree.parent[clause]] = "namespace_use_group"
    THEN tree.parent[tree.parent[clause]] ELSE tree.parent[clause]

ImportedName(clause) ==
    LET name == FirstOf({c \in NamedChildren(clause) : tree.type[c] \in {"name", "qualified_name"}})
        text == IF Text(name)[1] = "\\" THEN Tail(Text(name)) ELSE Text(name)
        prefix == FirstOf({c \in NamedChildren(Declaration(clause)) : tree.type[c] = "namespace_name"})
    IN  IF name = NONE THEN NONE
        ELSE IF Declaration(clause) = tree.parent[clause] \/ prefix = NONE THEN text
        ELSE Text(prefix) \o text

ImportsClass(clause) ==
    ChildInField(clause, "type") = NONE /\ ChildInField(Declaration(clause), "type") = NONE

Import ==
    LET name == ImportedName(At.node)
        alias == ChildInField(At.node, "alias")
    IN  /\ Told("import", "enter", {"namespace_use_clause"})
        /\ symbols' =
             IF name # NONE /\ ImportsClass(At.node)
             THEN With("imports", [node |-> At.node, name |-> name,
                                   alias |-> IF alias = NONE THEN Last(name) ELSE Text(alias)[1],
                                   scope |-> Id(NamespaceOf(RangeOf(At.node)))])
             ELSE symbols
        /\ UNCHANGED <<opened, members>>

\* PhpClassDeclarationListener
DeclareClass ==
    LET name == ChildInField(At.node, "name")
        namespace == NamespaceOf(RangeOf(At.node))
    IN  /\ Told("class", "enter", {"class_declaration"})
        /\ symbols' =
             IF name # NONE /\ tree.flag[name] # "error"
             THEN With("classes", [kind |-> "class", node |-> name, name |-> Qualify(namespace, Text(name)),
                                   scope |-> RangeOf(At.node)])
             ELSE symbols
        /\ UNCHANGED <<opened, members>>

\* PhpPropertyDeclarationListener
DeclareProperty ==
    LET name == ChildInField(At.node, "name")
        declared == IF tree.type[At.node] = "property_element" THEN tree.parent[At.node] ELSE At.node
    IN  /\ Told("property", "enter", {"property_element", "property_promotion_parameter"})
        /\ symbols' =
             IF NodeType(name) = "variable_name" /\ tree.flag[name] # "error"
             THEN With("properties", [kind |-> "property", node |-> name, name |-> Text(name),
                                      owner |-> Id(ClassOf(RangeOf(At.node))),
                                      type |-> TypeInField(declared, "type")])
             ELSE symbols
        /\ UNCHANGED <<opened, members>>

\* PhpVarDocListener: the first @var without a name or with that of the property
VarType(n, property) ==
    LET tag == HeadOrNone(SelectSeq(DocTags(n, "var"), LAMBDA d : d.name \in {NONE, property.name}))
    IN  IF tag = NONE THEN NONE ELSE Parsed(tag.type, NameScopeOf(RangeOf(n)))

TypeByVarDoc ==
    LET Typed(property) ==
          IF IsWithin(RangeOf(property.node), RangeOf(At.node)) /\ VarType(At.node, property) # NONE
          THEN [property EXCEPT !.type = VarType(At.node, property)] ELSE property
    IN  /\ Told("varDoc", "exit", {"property_declaration"})
        /\ symbols' = [symbols EXCEPT !.properties = [i \in DOMAIN @ |-> Typed(@[i])]]
        /\ UNCHANGED <<opened, members>>

\* A type parameter of the comment is no type, as `void` is not.
WithoutTemplates(type, comment) ==
    LET IsTemplate(name) == \E i \in DOMAIN Text(comment) :
                              Text(comment)[i].tag = "template" /\ Text(comment)[i].name = name
    IN  [i \in DOMAIN type |-> IF IsTemplate(type[i].name) THEN [type[i] EXCEPT !.name = <<"void">>] ELSE type[i]]

\* PhpDocReferenceListener: the classes named in the types of the tags
ClassReference(n, fqn) == [kind |-> "classReference", node |-> n, name |-> fqn]

ReferenceInDoc ==
    LET n == At.node
        named == WithoutTemplates(FoldLeft(LAMBDA all, d : all \o d.type, << >>, Text(n)), n)
        types == [i \in DOMAIN named |-> ParsedName(named[i].name, NameScopeOf(RangeOf(n)))]
        classes == SelectSeq(types, LAMBDA t : ClassFqn(t) # NONE /\ ~IsRelative(ClassFqn(t)))
    IN  /\ Told("docReference", "extra", {"comment"})
        /\ symbols' = [symbols EXCEPT !.references =
                         @ \o [i \in 1..Len(classes) |-> ClassReference(n, ClassFqn(classes[i]))]]
        /\ UNCHANGED <<opened, members>>

\* PhpMethodDeclarationListener, PhpFunctionDefinitionListener, and what
\* PhpSignatureReader reads of the declaration for both
\* Mutant: a return type is declared only by a hint.
HasHint(n) == ChildInField(n, "return_type") # NONE

HasDeclaredReturn(n) == ChildInField(n, "return_type") # NONE \/ DocTags(n, "return") # << >>

DeclaredReturn(n) ==
    LET hint == ChildInField(n, "return_type")
        scope == NameScopeOf(RangeOf(n))
    IN  IF ~HasDeclaredReturn(n) THEN NONE
        ELSE IF hint # NONE THEN Parsed(Text(hint), scope)
        ELSE Parsed(WithoutTemplates(Last(DocTags(n, "return")).type, PrevSibling(n)), scope)

FunctionLike(kind, owner) ==
    [kind |-> kind, node |-> NONE, name |-> NONE, owner |-> owner, depth |-> At.depth,
     scope |-> RangeOf(At.node), declared |-> HasDeclaredReturn(At.node), type |-> DeclaredReturn(At.node)]

OpenMethod ==
    /\ Told("method", "enter", {"method_declaration"})
    /\ Open(FunctionLike("method", Id(ClassOf(RangeOf(At.node)))))

NameMethod == Told("method", "leaf", {"name"}) /\ NameAndAdd("methods")
CloseMethod == Told("method", "exit", {"method_declaration"}) /\ Poll

OpenFunction ==
    /\ Told("function", "enter", {"function_definition"})
    /\ Open(FunctionLike("function", NONE))

NameFunction == Told("function", "leaf", {"name"}) /\ NameAndAdd("functions")
CloseFunction == Told("function", "exit", {"function_definition"}) /\ Poll

\* PhpParameterDeclarationListener: added when it is left, if it has got a name
Parameters == {"simple_parameter", "property_promotion_parameter"}

OpenParameter ==
    /\ Told("parameter", "enter", Parameters)
    /\ Open([kind |-> "parameter", node |-> NONE, name |-> NONE, depth |-> At.depth,
             owner |-> Id(OwnerOf(RangeOf(At.node))), type |-> TypeInField(At.node, "type")])

NameParameter ==
    /\ Told("parameter", "enter", {"variable_name"})
    /\ opened' = IF IsItsName THEN <<WithItsName(Head(opened))>> \o Tail(opened) ELSE opened
    /\ UNCHANGED <<members, symbols>>

CommitParameter ==
    /\ Told("parameter", "exit", Parameters)
    /\ opened' = Tail(opened)
    /\ symbols' = IF Head(opened).name = NONE THEN symbols ELSE With("parameters", Head(opened))
    /\ UNCHANGED members

-----------------------------------------------------------------------------
\* VarInsideFunctionLikeListener
IsAssigned(n) ==
    /\ tree.type[tree.parent[n]] = "assignment_expression"
    /\ n = ChildInField(tree.parent[n], "left")

IsIterated(n) ==
    \/ tree.type[tree.parent[n]] = "foreach_statement" /\ n # FirstNamed(tree.parent[n])
    \/ tree.type[tree.parent[n]] = "pair" /\ NodeType(Parent(tree.parent[n])) = "foreach_statement"

\* the class of `new` on the right of the assignment
CreatedType(n) ==
    LET right == ChildInField(tree.parent[n], "right")
        class == FirstOf({c \in NamedChildren(right) : tree.type[c] \in {"name", "qualified_name"}})
    IN  IF NodeType(right) # "object_creation_expression" \/ class = NONE THEN NONE
        ELSE ClassType(Fqn(NameScopeOf(RangeOf(n)), Text(class)))

Variable(n, owner) ==
    IF IsAssigned(n) \/ IsIterated(n)
    THEN With("locals", [kind |-> "local", node |-> n, name |-> Text(n), owner |-> owner,
                         type |-> CreatedType(n), source |-> NONE, element |-> FALSE])
    ELSE With("usages", [kind |-> "usage", node |-> n, name |-> Text(n), owner |-> owner,
                         definition |-> NONE, type |-> NONE])

DeclareOrUse ==
    LET n == At.node
        owner == OwnerOf(RangeOf(n))
    IN  /\ Told("variable", "enter", {"variable_name"})
        /\ symbols' =
             IF /\ owner # NONE /\ owner.kind \in {"method", "function"}
                /\ tree.type[tree.parent[n]] \notin Parameters \cup {"variadic_parameter"}
             THEN Variable(n, owner.node)
             ELSE symbols
        /\ UNCHANGED <<opened, members>>

\* PhpReferenceListener.  A member that is the object of another one is its
\* receiver, once.
Accesses == {"member_access_expression", "nullsafe_member_access_expression"}
Calls == {"member_call_expression", "nullsafe_member_call_expression"}

\* Mutant: the member last begun.
LastMember(object) == IF DOMAIN members = {} THEN NONE ELSE members[Max(DOMAIN members)]

Receiver(object) == IF object \in DOMAIN members THEN members[object] ELSE NONE

MemberReference(n, expression) ==
    LET object == ChildInField(expression, "object")
    IN  [kind |-> IF tree.type[expression] \in Calls THEN "methodCall" ELSE "propertyAccess",
         node |-> n, name |-> Text(n), owner |-> Id(OwnerOf(RangeOf(n))),
         variable |-> IF NodeType(object) = "variable_name" THEN Text(object) ELSE NONE,
         receiver |-> Receiver(object)]

StaticCall(n, scope) ==
    [kind |-> "staticCall", node |-> n, name |-> Text(n), owner |-> Id(OwnerOf(RangeOf(n))),
     scope |-> Fqn(NameScopeOf(RangeOf(scope)), Text(scope))]

ReferToFunction ==
    /\ Told("reference", "leaf", {"name"})
    /\ tree.type[At.parent] = "function_call_expression"
    /\ symbols' = With("references", [kind |-> "functionCall", node |-> At.node, name |-> Text(At.node)])
    /\ UNCHANGED <<opened, members>>

ReferToMember ==
    LET object == ChildInField(At.parent, "object")
    IN  /\ Told("reference", "leaf", {"name"})
        /\ tree.type[At.parent] \in Accesses \cup Calls
        /\ symbols' = With("references", MemberReference(At.node, At.parent))
        /\ members' = [e \in (DOMAIN members \ {object}) \cup {At.parent} |->
                         IF e = At.parent THEN At.node ELSE members[e]]
        /\ UNCHANGED opened

ReferToStatic ==
    /\ Told("reference", "leaf", {"name"})
    /\ tree.type[At.parent] = "scoped_call_expression"
    /\ LET scope == ChildInField(At.parent, "scope")
       IN  symbols' = IF scope # NONE /\ At.node = ChildInField(At.parent, "name")
                      THEN With("references", StaticCall(At.node, scope)) ELSE symbols
    /\ UNCHANGED <<opened, members>>

OtherName ==
    /\ Told("reference", "leaf", {"name"})
    /\ tree.type[At.parent] \notin Accesses \cup Calls \cup {"function_call_expression", "scoped_call_expression"}
    /\ UNCHANGED <<opened, members, symbols>>

\* PhpClassReferenceListener
IsSelf(n) == Text(n) \in {<<"self">>, <<"static">>}

ImportOf(clause) ==
    HeadOrNone(SelectSeq(NameScopeOf(RangeOf(clause)).imports, LAMBDA i : i.node = clause))

IsClassName(n, parent) ==
    CASE tree.type[parent] \in {"named_type", "object_creation_expression", "base_clause",
                                "class_interface_clause"} -> TRUE
      [] tree.type[parent] \in {"scoped_call_expression", "scoped_property_access_expression"} ->
           n = ChildInField(parent, "scope")
      [] tree.type[parent] = "class_constant_access_expression" -> n = FirstNamed(parent)
      [] tree.type[parent] = "binary_expression" ->
           n = ChildInField(parent, "right") /\ Text(ChildInField(parent, "operator")) = <<"instanceof">>
      [] tree.type[parent] = "namespace_use_clause" ->
           n # ChildInField(parent, "alias") /\ ImportOf(parent) # NONE
      [] OTHER -> FALSE

ReferredClass(n, parent) ==
    LET class == ClassOf(RangeOf(n))
    IN  IF IsSelf(n) THEN IF class = NONE THEN NONE ELSE class.name
        ELSE IF tree.type[parent] = "namespace_use_clause" THEN ImportOf(parent).name
        ELSE Fqn(NameScopeOf(RangeOf(n)), Text(n))

AddClassReference ==
    symbols' = IF IsClassName(At.node, At.parent) /\ ReferredClass(At.node, At.parent) # NONE
               THEN With("references", ClassReference(At.node, ReferredClass(At.node, At.parent)))
               ELSE symbols

EnterClassName ==
    /\ Told("classReference", "enter", {"qualified_name", "relative_name"})
    /\ AddClassReference
    /\ UNCHANGED <<opened, members>>

LeafClassName ==
    /\ Told("classReference", "leaf", {"name", "relative_scope"})
    /\ IF tree.type[At.node] = "relative_scope" => IsSelf(At.node) THEN AddClassReference ELSE UNCHANGED symbols
    /\ UNCHANGED <<opened, members>>

\* walk of the listener has returned
NextListener ==
    /\ pc = "walking" /\ coming = {} /\ listener < Len(Listeners)
    /\ listener' = listener + 1
    /\ coming' = Heard(listener', walk, tree) /\ opened' = << >> /\ members' = << >>
    /\ UNCHANGED <<tree, walk, symbols, pc>>

EndWalks ==
    /\ pc = "walking" /\ coming = {} /\ listener = Len(Listeners)
    /\ pc' = "filling"
    /\ UNCHANGED <<tree, walk, listener, coming, opened, members, symbols>>

-----------------------------------------------------------------------------
\* DefinitionFiller
OfScope(list, owner, name) == {i \in DOMAIN list : list[i].owner = owner /\ list[i].name = name}
Above(usage, locals) == {i \in OfScope(locals, usage.owner, usage.name) : locals[i].node <= usage.node}

\* Mutant: the first of them.
FirstAbove(usage, locals) == First(locals, Above(usage, locals))

\* the last to begin of the locals that do not begin after the usage
AssignedAbove(usage, locals) ==
    LET above == Above(usage, locals)
    IN  First(locals, {i \in above : \A j \in above : locals[j].node <= locals[i].node})

DefinitionOf(usage) ==
    LET assigned == AssignedAbove(usage, symbols.locals)
    IN  IF assigned # NONE THEN assigned
        ELSE First(symbols.parameters, OfScope(symbols.parameters, usage.owner, usage.name))

Pass(from, to) == pc = from /\ pc' = to /\ UNCHANGED <<tree, walk, listener, coming, opened, members>>

FillDefinitions ==
    /\ Pass("filling", "typing")
    /\ symbols' = [symbols EXCEPT !.usages =
                     [i \in DOMAIN @ |-> [@[i] EXCEPT !.definition = Id(DefinitionOf(symbols.usages[i]))]]]

-----------------------------------------------------------------------------
\* PhpTypeInferer
BuiltinOf ==
    [integer |-> "int", float |-> "float", string |-> "string", encapsed_string |-> "string",
     heredoc |-> "string", nowdoc |-> "string", boolean |-> "bool",
     array_creation_expression |-> "array", null |-> "null"]

ClassNamed(fqn) == HeadOrNone(SelectSeq(symbols.classes, LAMBDA c : c.name = fqn))
MethodOf(id) == HeadOrNone(SelectSeq(symbols.methods, LAMBDA m : m.node = id))
ClassById(id) == HeadOrNone(SelectSeq(symbols.classes, LAMBDA c : c.node = id))

\* the object of a method, or the first variable of the name: a parameter, a local
VariableType(name, owner, locals) ==
    LET class == IF MethodOf(owner) = NONE THEN NONE ELSE ClassById(MethodOf(owner).owner)
        parameter == First(symbols.parameters, OfScope(symbols.parameters, owner, name))
        declared == IF parameter # NONE THEN parameter ELSE First(locals, OfScope(locals, owner, name))
    IN  IF name = <<"$", "this">> THEN IF class = NONE THEN NONE ELSE Named(class.name)
        ELSE IF declared = NONE THEN NONE ELSE declared.type

\* the class reference in a `new`
CreatedClass(n) ==
    LET class == FirstOf({c \in NamedChildren(n) : tree.type[c] \in {"name", "qualified_name", "relative_name"}})
        reference == HeadOrNone(SelectSeq(symbols.references,
                                          LAMBDA r : r.kind = "classReference" /\ r.node = class))
    IN  IF reference = NONE THEN NONE ELSE Named(reference.name)

MemberType(class, name) ==
    LET declared == SelectSeq(symbols.properties, LAMBDA p : p.owner = class.node /\ Tail(p.name) = Text(name))
    IN  IF class = NONE \/ name = NONE \/ declared = << >> THEN NONE ELSE declared[1].type

\* the types of the expressions of a function-like
ExpressionType(owner, locals) ==
    LET typeOf[n \in Nodes(tree) \cup {NONE}] ==
          CASE NodeType(n) \in DOMAIN BuiltinOf -> Builtin(BuiltinOf[NodeType(n)])
            [] NodeType(n) = "variable_name" -> VariableType(Text(n), owner, locals)
            [] NodeType(n) = "member_access_expression" ->
                 MemberType(ClassNamed(ClassFqn(typeOf[ChildInField(n, "object")])), ChildInField(n, "name"))
            [] NodeType(n) = "object_creation_expression" -> CreatedClass(n)
            [] NodeType(n) = "parenthesized_expression" -> typeOf[FirstNamed(n)]
            [] OTHER -> NONE
    IN  typeOf

MemberReferenceOf(n) ==
    LET name == ChildInField(n, "name")
    IN  IF NodeType(n) \notin Accesses \cup Calls THEN NONE
        ELSE HeadOrNone(SelectSeq(symbols.references,
                                  LAMBDA r : r.kind \in {"propertyAccess", "methodCall"} /\ r.node = name))

\* what the local gets from the expression, or from its elements
InferredFrom(local, expression, element, locals) ==
    LET whole == ExpressionType(local.owner, locals)[expression]
        type == IF element THEN ElementOf(whole) ELSE whole
        source == MemberReferenceOf(expression)
    IN  IF type # NONE THEN [local EXCEPT !.type = type]
        ELSE IF source # NONE THEN [local EXCEPT !.source = source.node, !.element = element]
        ELSE local

Inferred(local, locals) ==
    LET parent == tree.parent[local.node]
        above == Parent(parent)
    IN  IF local.type # NONE THEN local
        ELSE IF tree.type[parent] = "assignment_expression"
             THEN InferredFrom(local, ChildInField(parent, "right"), FALSE, locals)
        ELSE IF tree.type[parent] = "foreach_statement" /\ local.node # FirstNamed(parent)
             THEN InferredFrom(local, FirstNamed(parent), TRUE, locals)
        ELSE IF tree.type[parent] = "pair" /\ NodeType(above) = "foreach_statement" /\ local.node = FirstOf(NamedChildren(parent) \ {FirstNamed(parent)})
             THEN InferredFrom(local, FirstNamed(above), TRUE, locals)
        ELSE local

\* one local after the other, in the order of the list
InferTypes ==
    LET inferred[i \in 0..Len(symbols.locals)] ==
          IF i = 0 THEN symbols.locals ELSE [inferred[i - 1] EXCEPT ![i] = Inferred(@, inferred[i - 1])]
    IN  /\ Pass("typing", "returning")
        /\ symbols' = [symbols EXCEPT !.locals = inferred[Len(symbols.locals)]]

\* PhpReturnTypeInferer
OwnScopes == {"anonymous_function", "arrow_function", "function_definition", "class_declaration", "anonymous_class"}

ReturnsNothing(body) ==
    LET nothing[n \in Nodes(tree)] ==
          \A c \in NamedChildren(n) :
            CASE tree.type[c] = "return_statement" -> NamedChildren(c) = {}
              [] tree.type[c] = "yield_expression" -> FALSE
              [] tree.type[c] \in OwnScopes -> TRUE
              [] OTHER -> nothing[c]
    IN  nothing[body]

\* the last `return` below the body that is in no function or class of its own
LastReturn(body) ==
    LastOf({n \in Nodes(tree) :
      /\ tree.type[n] = "return_statement" /\ n # body /\ body \in Up(tree)[n]
      /\ \A m \in Up(tree)[n] \ Up(tree)[body] : tree.type[m] \notin OwnScopes})

InferredReturn(function) ==
    LET body == ChildInField(function.scope.from, "body")
        statement == LastReturn(body)
        type == ExpressionType(function.node, symbols.locals)[FirstNamed(statement)]
    IN  IF function.declared \/ body = NONE THEN function
        ELSE IF ReturnsNothing(body) THEN [function EXCEPT !.type = Builtin("void")]
        ELSE IF statement = NONE \/ type = NONE THEN function
        ELSE [function EXCEPT !.type = type]

InferReturnTypes ==
    /\ Pass("returning", "propagating")
    /\ symbols' = [symbols EXCEPT !.methods = [i \in DOMAIN @ |-> InferredReturn(@[i])],
                                  !.functions = [i \in DOMAIN @ |-> InferredReturn(@[i])]]

\* VarUsageTypePropagator
PropagateTypes ==
    LET OfNode(list, id) == First(list, {i \in DOMAIN list : list[i].node = id})
        Declared(id) == IF OfNode(symbols.parameters, id) # NONE THEN OfNode(symbols.parameters, id)
                        ELSE OfNode(symbols.locals, id)
        Typed(usage) == IF usage.definition = NONE \/ Declared(usage.definition).type = NONE THEN usage
                        ELSE [usage EXCEPT !.type = Declared(usage.definition).type]
    IN  /\ Pass("propagating", "indexed")
        /\ symbols' = [symbols EXCEPT !.usages = [i \in DOMAIN @ |-> Typed(@[i])]]

Indexed == pc = "indexed" /\ UNCHANGED vars

Listen ==
    \/ OpenNamespace \/ NameNamespace \/ CloseNamespace
    \/ Import
    \/ DeclareClass
    \/ DeclareProperty \/ TypeByVarDoc
    \/ ReferenceInDoc
    \/ OpenMethod \/ NameMethod \/ CloseMethod
    \/ OpenFunction \/ NameFunction \/ CloseFunction
    \/ OpenParameter \/ NameParameter \/ CommitParameter
    \/ DeclareOrUse
    \/ ReferToFunction \/ ReferToMember \/ ReferToStatic \/ OtherName
    \/ EnterClassName \/ LeafClassName
    \/ NextListener

Next ==
    \/ Listen
    \/ EndWalks
    \/ FillDefinitions
    \/ InferTypes
    \/ InferReturnTypes
    \/ PropagateTypes
    \/ Indexed

Spec == Init /\ [][Next]_vars

-----------------------------------------------------------------------------
\* What addAll appends of the file, as PhpSymbolCollection of the workspace has
\* it: the lists one after the other, links as positions.
Contribution ==
    LET all == symbols.classes \o symbols.properties \o symbols.methods \o symbols.functions
               \o symbols.parameters \o symbols.locals \o symbols.usages \o symbols.references
        Place(id, kinds) ==
          IF id = NONE THEN NONE ELSE CHOOSE i \in DOMAIN all : all[i].node = id /\ all[i].kind \in kinds
        Owner(s) == Place(s.owner, {"class", "method", "function"})
        Member(id) == Place(id, {"propertyAccess", "methodCall"})
        Entry(s) ==
          CASE s.kind \in {"class", "function", "functionCall", "classReference"} ->
                 [kind |-> s.kind, name |-> s.name]
            [] s.kind = "property" ->
                 [kind |-> s.kind, name |-> Tail(s.name), owner |-> Owner(s), type |-> s.type]
            [] s.kind \in {"method", "parameter"} ->
                 [kind |-> s.kind, name |-> s.name, owner |-> Owner(s), type |-> s.type]
            [] s.kind = "local" ->
                 [kind |-> s.kind, name |-> s.name, owner |-> Owner(s), type |-> s.type,
                  source |-> Member(s.source), element |-> s.element]
            [] s.kind = "usage" ->
                 [kind |-> s.kind, definition |-> Place(s.definition, {"parameter", "local"})]
            [] s.kind \in {"propertyAccess", "methodCall"} ->
                 [kind |-> s.kind, name |-> s.name, owner |-> Owner(s), variable |-> s.variable,
                  receiver |-> Member(s.receiver)]
            [] s.kind = "staticCall" ->
                 [kind |-> s.kind, name |-> s.name, owner |-> Owner(s), scope |-> s.scope]
    IN  [i \in DOMAIN all |-> Entry(all[i])]

-----------------------------------------------------------------------------
HasName(t, n) ==
    LET name == InField(t, n, "name")
    IN  name # NONE /\ t.flag[name] = "named" /\ t.type[name] \in {"name", "namespace_name", "variable_name"}

\* what may be the name of a declaration: a name of its kind right below it
NameKind(type) ==
    CASE type = "namespace_definition" -> "namespace_name"
      [] type \in Parameters -> "variable_name"
      [] OTHER -> "name"
Names(t, n) == {c \in Below(t, n) : t.flag[c] = "named" /\ t.type[c] = NameKind(t.type[n])}

\* The first of them is the name: the grammar has it before the default value of a
\* parameter, and no other name beside it.
Declarations == {"namespace_definition", "class_declaration", "method_declaration", "function_definition"} \cup Parameters
NamesAreFirst(t) ==
    \A n \in InPlace(t) : t.type[n] \in Declarations =>
      IF Names(t, n) = {} THEN ~HasName(t, n) ELSE InField(t, n, "name") = Min(Names(t, n))

\* The name of a class in place is one, or wanting; a namespace is in no class, and one
\* without a body is followed beside it by such ones only, and that have a name.
ClassesAreNamed(t) ==
    \A n \in InPlace(t) : t.type[n] = "class_declaration" =>
      LET name == InField(t, n, "name") IN name # NONE /\ t.flag[name] # "error" => HasName(t, n)

NamespacesIn(t) == {m \in Nodes(t) : t.type[m] = "namespace_definition" /\ t.parent[m] \in InPlace(t)}
NamespacesDoNotMix(t) ==
    /\ t.type[ROOT] # "namespace_definition"
    /\ \A m \in NamespacesIn(t) : t.flag[m] = "named" /\ t.type[t.parent[m]] # "class_declaration"
    /\ \A m, k \in NamespacesIn(t) : m < k /\ t.parent[m] = t.parent[k] /\ InField(t, m, "body") = NONE =>
         HasName(t, k) /\ InField(t, k, "body") = NONE

\* the name of the innermost named declaration of the types that the node is in
Around(n, types) ==
    LET around == {m \in Up(tree)[n] : tree.type[m] \in types /\ HasName(tree, m)}
    IN  IF around = {} THEN NONE ELSE ChildInField(Max(around), "name")

\* the namespace a node is in: one with a body around it, or the last one begun
\* before it beside it or beside a node around it
Governing(n) ==
    LET governing == {m \in 1..n : /\ tree.type[m] = "namespace_definition" /\ HasName(tree, m)
                                   /\ IF ChildInField(m, "body") # NONE THEN m \in Up(tree)[n]
                                      ELSE tree.parent[m] \in Up(tree)[n]}
    IN  IF governing = {} THEN << >> ELSE Text(ChildInField(Max(governing), "name"))

OwnerTypes == {"class_declaration", "method_declaration", "function_definition"}

\* Every symbol belongs to the innermost declaration around it, from the moment it
\* is in the collection: the owner is looked up by ranges, among the declarations
\* that the listeners before have put there, so a listener that came too early, or
\* a scope of the wrong node, would leave it with an outer one.
Entries(lists) == UNION {ToSet(symbols[l]) : l \in lists}

OwnersEnclose ==
    /\ \A s \in Entries({"properties", "methods"}) : s.owner = Around(s.node, {"class_declaration"})
    /\ \A s \in Entries({"parameters", "locals", "usages", "references"}) :
         s.kind \notin {"classReference", "functionCall"} => s.owner = Around(s.node, OwnerTypes)
    /\ \A s \in ToSet(symbols.classes) : s.name = Governing(s.node) \o Text(s.node)

\* The stacks pair each name with the declaration it is the name of: when the walks
\* are over, exactly the declarations with a name are there, each under its own
\* name and with its own scope or type, however deep they are nested in each other.
NamedNodes(types) == {n \in InPlace(tree) : tree.type[n] \in types /\ HasName(tree, n)}
Own(symbol) == tree.parent[symbol.node]

NamesAreOwn ==
    pc # "walking" =>
      /\ {Own(s) : s \in ToSet(symbols.methods)} = NamedNodes({"method_declaration"})
      /\ {Own(s) : s \in ToSet(symbols.functions)} = NamedNodes({"function_definition"})
      /\ {Own(s) : s \in ToSet(symbols.parameters)} = NamedNodes(Parameters)
      /\ \A s \in Entries({"methods", "functions"}) : s.scope = RangeOf(Own(s))
      /\ \A s \in Entries({"methods", "functions", "parameters", "namespaces"}) :
           s.node = ChildInField(Own(s), "name")
      /\ \A s \in ToSet(symbols.parameters) : s.type = TypeInField(Own(s), "type")

\* "the nearest assignment above wins: a later one has not run yet": a usage is
\* defined by a variable of its own function and name, the last that is assigned
\* before it in the text, or else a parameter; it has the type that this one has got
\* in the end, and goes without a definition only where there is none.
UsagesFollowDefinitions ==
    LET SameVariable(d, u) == Text(d.node) = Text(u.node) /\ Around(d.node, OwnerTypes) = Around(u.node, OwnerTypes)
        Assigned(u) == {d \in ToSet(symbols.locals) : SameVariable(d, u) /\ d.node < u.node}
        Passed(u) == {d \in ToSet(symbols.parameters) : SameVariable(d, u)}
        Defining(u) == IF Assigned(u) # {} THEN {d \in Assigned(u) : \A o \in Assigned(u) : o.node <= d.node}
                       ELSE Passed(u)
    IN  pc = "indexed" =>
          \A u \in ToSet(symbols.usages) :
            IF Defining(u) = {} THEN u.definition = NONE
            ELSE \E d \in Defining(u) : d.node = u.definition /\ d.type = u.type

\* What the grammar has of a member: an object before the name, and right below no
\* other name, which the listener would take for that of the member.
MemberKinds == {"propertyAccess", "methodCall"}
Expressions(t) == {n \in InPlace(t) : t.type[n] \in Accesses \cup Calls}
MemberNames(t) == {c \in InPlace(t) : c # ROOT /\ t.type[c] = "name" /\ t.parent[c] \in Expressions(t)}
IsMember(t, o) ==
    o # NONE /\ t.type[o] \in Accesses \cup Calls /\ HasName(t, o) /\ t.type[InField(t, o, "name")] = "name"

MembersAreWhole(t) ==
    /\ t.type[ROOT] # "name"
    /\ \A c \in MemberNames(t) :
         LET object == InField(t, t.parent[c], "object")
         IN  /\ c = InField(t, t.parent[c], "name")
             /\ object # NONE => object < c /\ (IsMember(t, object) => t.flag[object] = "named")

\* The chain $a->b()->c is whole, and ends: the receiver of a member is the member
\* that its object is, where that is one, found before it, and no member is the
\* receiver of two.  The resolver follows receivers by recursion, which only this
\* makes end, and the listener keeps them in a map it takes them out of.
ChainsAreWhole ==
    LET member == {r \in ToSet(symbols.references) : r.kind \in MemberKinds}
        Object(r) == ChildInField(Own(r), "object")
    IN  /\ \A r \in member : r.receiver = IF IsMember(tree, Object(r)) THEN ChildInField(Object(r), "name") ELSE NONE
        /\ \A r \in member : r.receiver # NONE =>
             /\ r.receiver < r.node /\ r.variable = NONE
             /\ \E s \in member : s.node = r.receiver
             /\ \A s \in member \ {r} : s.receiver # r.receiver

\* "everyVariableUsagePointsAtItsAssignmentOrParameter", a test says.  The parameter
\* of a usage is that of the innermost function or closure around it which has one
\* of the name.
UsagesPointAtTheirParameter ==
    LET FunctionOf(d) == tree.parent[tree.parent[Own(d)]]
        Passed(u) == {d \in ToSet(symbols.parameters) : Text(d.node) = Text(u.node) /\ FunctionOf(d) \in Up(tree)[u.node]}
    IN  pc = "indexed" =>
          \A u \in ToSet(symbols.usages) : \A d \in ToSet(symbols.parameters) :
            u.definition = d.node => \A other \in Passed(u) : FunctionOf(other) <= FunctionOf(d)
=============================================================================
