--------------------------- MODULE MCFileIndexer ---------------------------
(***************************************************************************)
(* Files for FileIndexer: the sources of PhpTexts, declarations nested in  *)
(* each other in all ways, and files with namespaces, phpdoc and loops.    *)
(* Punctuation and keywords are left out of the trees, but for the         *)
(* operator and the kind of an import, which the listeners look at.        *)
(***************************************************************************)
EXTENDS FileIndexer

Source == INSTANCE PhpTexts

\* The tree of a term [type, field, flag, text, children].
RECURSIVE Flattened(_, _, _)
Flattened(term, parent, at) ==
    LET below == FoldLeft(LAMBDA rows, c : rows \o Flattened(c, at, at + 1 + Len(rows)), << >>, term.children)
    IN  <<[type |-> term.type, field |-> term.field, flag |-> term.flag, text |-> term.text,
           parent |-> parent, last |-> at + Len(below)]>> \o below

Tree(term) ==
    LET rows == Flattened(term, 0, 1)
    IN  [type |-> [i \in DOMAIN rows |-> rows[i].type], field |-> [i \in DOMAIN rows |-> rows[i].field],
         flag |-> [i \in DOMAIN rows |-> rows[i].flag], text |-> [i \in DOMAIN rows |-> rows[i].text],
         parent |-> [i \in DOMAIN rows |-> rows[i].parent], last |-> [i \in DOMAIN rows |-> rows[i].last]]

N(type, children) ==
    [type |-> type, field |-> NO_FIELD, flag |-> "named", text |-> << >>, children |-> children]
In(field, term) == [term EXCEPT !.field = field]
WithText(text, term) == [term EXCEPT !.text = text]
Word(word) == WithText(<<word>>, [N(TOKEN, << >>) EXCEPT !.flag = "token"])
Comment(tags) == WithText(tags, [N("comment", << >>) EXCEPT !.flag = "extra"])
Broken(term) == [term EXCEPT !.flag = "error"]

Program(statements) == Tree(N("program", statements))
Id1(name) == WithText(<<name>>, N("name", << >>))
NameOf(name) == In("name", Id1(name))
Var(name) == WithText(<<"$", name>>, N("variable_name", <<Id1(name)>>))
Body(statements) == In("body", N("compound_statement", statements))
Members1(members1) == In("body", N("declaration_list", members1))
Formal(parameters) == In("parameters", N("formal_parameters", parameters))

\* class names: a name, A\B, \A\B, namespace\B
Qualified(segments) ==
    WithText(segments, N("qualified_name", <<In("prefix", N("namespace_name", << >>)), Id1(Last(segments))>>))
Relative(segments) ==
    WithText(segments, N("relative_name", <<In("prefix", Word("namespace")), Id1(Last(segments))>>))

Member1(name) == <<[name |-> <<name>>, optional |-> FALSE, array |-> FALSE]>>
Array1(name) == <<[name |-> <<name>>, optional |-> FALSE, array |-> TRUE]>>
NamedType(class) ==
    WithText(<<[name |-> class.text, optional |-> FALSE, array |-> FALSE]>>, N("named_type", <<class>>))
Nullable(class) ==
    WithText(<<[name |-> class.text, optional |-> TRUE, array |-> FALSE]>>, N("optional_type", <<NamedType(class)>>))
Tag(tag, type) == [tag |-> tag, type |-> type, name |-> NONE]

ClassDecl(name, members1) == N("class_declaration", <<NameOf(name), Members1(members1)>>)
MethodDecl(name, parameters, body) == N("method_declaration", <<NameOf(name), Formal(parameters), Body(body)>>)
MethodOfType(name, type, body) ==
    N("method_declaration", <<NameOf(name), Formal(<< >>), In("return_type", NamedType(type)), Body(body)>>)
FunctionDecl(name, parameters, body) == N("function_definition", <<NameOf(name), Formal(parameters), Body(body)>>)
PropertyDecl(type, name) ==
    N("property_declaration", <<In("type", type), N("property_element", <<In("name", Var(name))>>)>>)
Untyped(name) == N("property_declaration", <<N("property_element", <<In("name", Var(name))>>)>>)
Param(type, name) == N("simple_parameter", <<In("type", type), In("name", Var(name))>>)
Promoted(type, name) == N("property_promotion_parameter",
                          <<In("visibility", N("visibility_modifier", << >>)), In("type", type), In("name", Var(name))>>)
Closure(parameters, body) == N("anonymous_function", <<Formal(parameters), Body(body)>>)

Do(expression) == N("expression_statement", <<expression>>)
Assign(target, value) == N("assignment_expression", <<In("left", target), In("right", value)>>)
Return(value) == N("return_statement", <<value>>)
Args(values) == In("arguments", N("arguments", [i \in DOMAIN values |-> N("argument", <<values[i]>>)]))
New(class) == N("object_creation_expression", <<class, N("arguments", << >>)>>)
Get1(object, name) == N("member_access_expression", <<In("object", object), NameOf(name)>>)
Call(object, name) == N("member_call_expression", <<In("object", object), NameOf(name), Args(<< >>)>>)
CallStatic(scope, name) == N("scoped_call_expression", <<In("scope", scope), NameOf(name), Args(<< >>)>>)
CallFunction(name, values) == N("function_call_expression", <<In("function", Id1(name)), Args(values)>>)
InstanceOf(value, class) ==
    N("binary_expression", <<In("left", value), In("operator", Word("instanceof")), In("right", class)>>)
Foreach(head, body) == N("foreach_statement", Append(head, Body(body)))
Pair(key, value) == N("pair", <<key, value>>)
Parenthesized(value) == N("parenthesized_expression", <<value>>)
Static1 == WithText(<<"static">>, N("relative_scope", << >>))
Self1 == WithText(<<"self">>, N("relative_scope", << >>))

Use1(clauses) == N("namespace_use_declaration", clauses)
Clause(name, more) == N("namespace_use_clause", <<name>> \o more)
Alias1(alias) == In("alias", Id1(alias))
Group(clauses) == In("body", N("namespace_use_group", clauses))
NamespaceName(segments) == WithText(segments, N("namespace_name", [i \in DOMAIN segments |-> Id1(segments[i])]))
Namespace(segments, more) == N("namespace_definition", <<In("name", NamespaceName(segments))>> \o more)

-----------------------------------------------------------------------------
\* The sources that PhpTexts quotes
This == Var("this")

TreeA == Program(<<
    ClassDecl("A", <<
        PropertyDecl(Nullable(Id1("B")), "b"),
        MethodOfType("next", Id1("self"), << >>),
        Comment(<<Tag("return", Array1("B"))>>),
        MethodDecl("all", << >>, << >>)>>)>>)

TreeA2 == Program(<<
    ClassDecl("A", <<
        MethodDecl("next", << >>, << >>),
        MethodDecl("again", << >>, <<Return(CallStatic(Self1, "next"))>>)>>)>>)

TreeB == Program(<<
    ClassDecl("B", <<
        MethodOfType("run", Id1("B"), << >>),
        MethodDecl("twice", << >>, <<Do(Call(Call(This, "run"), "run"))>>)>>)>>)

ParamA == Param(NamedType(Id1("A")), "p")

TreeUse == Program(<<
    FunctionDecl("f", <<ParamA>>, <<
        Do(Assign(Var("x"), Call(Var("p"), "next"))),
        Foreach(<<Call(Var("x"), "all"), Var("y")>>, <<Do(Call(Var("y"), "run"))>>)>>),
    Do(Assign(Var("handler"), Closure(<<ParamA>>, << >>))),
    Do(CallFunction("f", <<Get1(Var("p"), "b")>>))>>)

TreeLoop == Program(<<
    FunctionDecl("g", << >>, <<
        Do(Assign(Var("a"), Call(Var("b"), "next"))),
        Do(Assign(Var("b"), Call(Var("a"), "next"))),
        Do(CallStatic(Id1("A"), "next"))>>),
    Do(Call(Var("p"), "next"))>>)

TreeOf == [A |-> TreeA, A2 |-> TreeA2, B |-> TreeB, use |-> TreeUse, loop |-> TreeLoop]

-----------------------------------------------------------------------------
\* Declarations nested in each other to a depth of three, with the same variable
\* before and after each
Kinds == {"function", "class", "closure", "anonymous class"}
AnyParam == Param(NamedType(Id1("C")), "a")
With2(inner) == <<Do(Assign(Var("b"), Call(Var("a"), "m")))>> \o inner \o <<Do(Get1(Var("b"), "c"))>>
AnyMethod(inner) == MethodDecl("m", <<AnyParam>>, With2(inner))

Declared(kind, inner) ==
    CASE kind = "function" -> FunctionDecl("f", <<AnyParam>>, With2(inner))
      [] kind = "class" -> ClassDecl("C", <<AnyMethod(inner)>>)
      [] kind = "closure" -> Do(Assign(Var("f"), Closure(<<AnyParam>>, With2(inner))))
      [] kind = "anonymous class" ->
           Do(N("object_creation_expression", <<N("anonymous_class", <<Members1(<<AnyMethod(inner)>>)>>)>>))

Nested ==
    {Program(With2(FoldRight(LAMBDA kind, inner : <<Declared(kind, inner)>>, kinds, << >>))) : kinds \in SeqOf(Kinds, 3)}

\* The same with the name of a declaration missing
Unnamed(declaration) ==
    [declaration EXCEPT !.children = [i \in DOMAIN @ |-> IF @[i].field = "name" THEN Broken(@[i]) ELSE @[i]]]

Nameless ==
    LET Inner == <<FunctionDecl("f", <<Unnamed(AnyParam), AnyParam>>, With2(<< >>)), Declared("class", << >>)>>
        M == AnyMethod(Inner)
    IN  { Program(<<Unnamed(ClassDecl("C", <<M>>))>>),
          Program(<<ClassDecl("C", <<Unnamed(M), PropertyDecl(NamedType(Id1("C")), "p")>>)>>),
          Program(<<ClassDecl("C", <<M, Unnamed(M), M>>)>>),
          Program(<<Unnamed(FunctionDecl("f", <<AnyParam>>, <<Declared("class", Inner)>> \o Inner))>>) }

-----------------------------------------------------------------------------
\* namespace App;
\* use Lib\Thing;
\* use Lib\{Other as Alias, Deep\Inner};
\* use function Lib\helper;
\* class K extends Thing {
\*     /** @var Alias|null */
\*     public $one;
\*     /** @var Inner[] $two */
\*     public $two;
\*     /** @template T @return T */
\*     function any() {}
\*     function __construct(private ?Inner $t) { $u = $this->two; foreach ($u as $k => $v) { $v; } }
\* }
\* namespace Other;
\* function helper(\Lib\Thing $p, namespace\Q $q) { return $q instanceof Thing; }
\* class K { function m() { return (static::of($this)); } }
Namespaces == Program(<<
    Namespace(<<"App">>, << >>),
    Use1(<<Clause(Qualified(<<"Lib", "Thing">>), << >>)>>),
    Use1(<<NamespaceName(<<"Lib">>),
           Group(<<Clause(Id1("Other"), <<Alias1("Alias")>>), Clause(Qualified(<<"Deep", "Inner">>), << >>)>>)>>),
    Use1(<<In("type", Word("function")), Clause(Qualified(<<"Lib", "helper">>), << >>)>>),
    N("class_declaration", <<NameOf("K"), N("base_clause", <<Id1("Thing")>>), Members1(<<
        Comment(<<Tag("var", Member1("Alias") \o Member1("null"))>>),
        Untyped("one"),
        Comment(<<[Tag("var", Array1("Inner")) EXCEPT !.name = <<"$", "two">>]>>),
        Untyped("two"),
        Comment(<<[Tag("template", << >>) EXCEPT !.name = <<"T">>], Tag("return", Member1("T"))>>),
        MethodDecl("any", << >>, << >>),
        MethodDecl("__construct", <<Promoted(Nullable(Id1("Inner")), "t")>>, <<
            Do(Assign(Var("u"), Get1(This, "two"))),
            Foreach(<<Var("u"), Pair(Var("k"), Var("v"))>>, <<Do(Var("v"))>>)>>)>>)>>),
    Namespace(<<"Other">>, << >>),
    FunctionDecl("helper", <<Param(NamedType(Qualified(<<"\\", "Lib", "Thing">>)), "p"),
                             Param(NamedType(Relative(<<"namespace", "Q">>)), "q")>>,
                 <<Return(InstanceOf(Var("q"), Id1("Thing")))>>),
    ClassDecl("K", <<MethodDecl("m", << >>, <<Return(Parenthesized(CallStatic(Static1, "of")))>>)>>)>>)

\* namespace A {
\*     function each(X $x) {
\*         foreach ($x->all() as $i) { if ($i instanceof X) return; }
\*         $y = new X(); $y?->b($x->c)->d; yield $y;
\*     }
\* }
\* namespace {
\*     /** @return X|null */
\*     function none() {}
\*     class X { /** @var Y */ public X $x;
\*               function all() { $a = $this->x; $b = $a; return $b; } }
\*     none(X::class);
\* }
Braces == Program(<<
    Namespace(<<"A">>, <<Body(<<
        FunctionDecl("each", <<Param(NamedType(Id1("X")), "x")>>, <<
            Foreach(<<Call(Var("x"), "all"), Var("i")>>,
                    <<N("if_statement", <<In("condition", Parenthesized(InstanceOf(Var("i"), Id1("X")))),
                                          In("body", N("return_statement", << >>))>>)>>),
            Do(Assign(Var("y"), New(Id1("X")))),
            Do(Get1(N("nullsafe_member_call_expression",
                      <<In("object", Var("y")), NameOf("b"), Args(<<Get1(Var("x"), "c")>>)>>), "d")),
            Do(N("yield_expression", <<Var("y")>>))>>)>>)>>),
    N("namespace_definition", <<Body(<<
        Comment(<<Tag("return", Member1("X") \o Member1("null"))>>),
        FunctionDecl("none", << >>, << >>),
        ClassDecl("X", <<
            Comment(<<Tag("var", Member1("Y"))>>),
            PropertyDecl(NamedType(Id1("X")), "x"),
            MethodDecl("all", << >>, <<
                Do(Assign(Var("a"), Get1(This, "x"))), Do(Assign(Var("b"), Var("a"))), Return(Var("b"))>>)>>),
        Do(CallFunction("none", <<N("class_constant_access_expression", <<Id1("X"), Id1("class")>>)>>))>>)>>)>>)

MCTrees == {TreeOf[t] : t \in DOMAIN TreeOf} \cup Nested \cup Nameless \cup {Namespaces, Braces}

\* function f(C $a) { ... $f = function (C $a) { $b = $a->m(); ... }; ... }
Shadowed == Program(<<Declared("function", <<Declared("closure", << >>)>>)>>)
ShadowedTrees == {Shadowed, TreeUse}

ASSUME TreesAreGrammatical == \A t \in MCTrees \cup ShadowedTrees : Grammatical(t)
ASSUME GrammarIsFollowed == VisitorsFollowGrammar
ASSUME NamesComeFirst == \A t \in MCTrees \cup ShadowedTrees : NamesAreFirst(t)
ASSUME DeclarationsAreRegular == \A t \in MCTrees \cup ShadowedTrees : ClassesAreNamed(t) /\ NamespacesDoNotMix(t)
ASSUME MembersAreNamed == \A t \in MCTrees \cup ShadowedTrees : MembersAreWhole(t)

-----------------------------------------------------------------------------
\* The names and types of FileIndexer as PhpTexts writes them
Written(name) == IF name = NONE THEN NONE ELSE FoldLeft(LAMBDA text, segment : text \o segment, "", name)

RECURSIVE WrittenType(_)
WrittenType(type) ==
    IF type = NONE THEN NONE
    ELSE CASE type[1] = "builtin" -> type
           [] type[1] = "class" -> <<"class", Written(type[2])>>
           [] type[1] = "array" -> <<"array", WrittenType(type[2])>>
           [] type[1] = "union" -> <<"union", [i \in DOMAIN type[2] |-> WrittenType(type[2][i])]>>

WrittenSymbol(s) ==
    [f \in DOMAIN s |-> CASE f \in {"name", "variable", "scope"} -> Written(s[f])
                         [] f = "type" -> WrittenType(s[f])
                         [] OTHER -> s[f]]

\* The symbols that the model of the workspace takes for granted of its texts are
\* what indexInto finds in their sources, links and types included.
TextsAreTheirSymbols ==
    pc = "indexed" =>
      \A t \in DOMAIN TreeOf :
        tree = TreeOf[t] => [i \in DOMAIN Contribution |-> WrittenSymbol(Contribution[i])] = Source!Symbols[t]
=============================================================================
