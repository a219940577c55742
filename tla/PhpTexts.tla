------------------------------ MODULE PhpTexts ------------------------------
(***************************************************************************)
(* The files of a small PHP project and the symbols indexInto finds in     *)
(* them.  Every text is given with the PHP source it stands for; positions *)
(* in its sequence of symbols are the in-file links.                       *)
(***************************************************************************)
EXTENDS PhpType

Class(name) == [kind |-> "class", name |-> name]
Function(name) == [kind |-> "function", name |-> name]
Method(name, owner, t) == [kind |-> "method", name |-> name, owner |-> owner, type |-> t]
Property(name, owner, t) ==
    [kind |-> "property", name |-> name, owner |-> owner, type |-> t]
Parameter(name, owner, t) ==
    [kind |-> "parameter", name |-> name, owner |-> owner, type |-> t]
Local(name, owner, t, source, element) ==
    [kind |-> "local", name |-> name, owner |-> owner, type |-> t, source |-> source, element |-> element]
Usage(defined) == [kind |-> "usage", definition |-> defined]
ClassReference(name) == [kind |-> "classReference", name |-> name]
FunctionCall(name) == [kind |-> "functionCall", name |-> name]
Access(name, owner, variable, receiver) ==
    [kind |-> "propertyAccess", name |-> name, owner |-> owner, variable |-> variable, receiver |-> receiver]
Call(name, owner, variable, receiver) ==
    [kind |-> "methodCall", name |-> name, owner |-> owner, variable |-> variable, receiver |-> receiver]
StaticCall(name, owner, scope) ==
    [kind |-> "staticCall", name |-> name, owner |-> owner, scope |-> scope]

\* class A {
\*     public ?B $b;
\*     function next(): self {}
\*     /** @return array<B> */
\*     function all() {}
\* }
TextA == <<
    Class("A"),
    Property("b", 1, UnionType(<<ClassType("B"), Null>>)),
    Method("next", 1, ClassType("self")),
    Method("all", 1, ArrayType(ClassType("B"))),
    ClassReference("B"),
    ClassReference("B"),
    ClassReference("A") >>

\* class A { function next() {} function again() { return self::next(); } }
TextA2 == <<
    Class("A"),
    Method("next", 1, Builtin("void")),
    Method("again", 1, NONE),
    StaticCall("next", 3, "self"),
    ClassReference("A") >>

\* class B { function run(): B {} function twice() { $this->run()->run(); } }
TextB == <<
    Class("B"),
    Method("run", 1, ClassType("B")),
    Method("twice", 1, Builtin("void")),
    Usage(NONE),
    Call("run", 3, "$this", NONE),
    Call("run", 3, NONE, 5),
    ClassReference("B") >>

\* function f(A $p) { $x = $p->next(); foreach ($x->all() as $y) { $y->run(); } }
\* $handler = function (A $p) {};
\* f($p->b);
TextUse == <<
    Function("f"),
    Parameter("$p", 1, ClassType("A")),
    Parameter("$p", NONE, ClassType("A")),
    Local("$x", 1, NONE, 9, FALSE),
    Local("$y", 1, NONE, 10, TRUE),
    Usage(2),
    Usage(4),
    Usage(5),
    Call("next", 1, "$p", NONE),
    Call("all", 1, "$x", NONE),
    Call("run", 1, "$y", NONE),
    FunctionCall("f"),
    Access("b", NONE, "$p", NONE),
    ClassReference("A"),
    ClassReference("A") >>

\* function g() { $a = $b->next(); $b = $a->next(); A::next(); }
\* $p->next();
TextLoop == <<
    Function("g"),
    Local("$a", 1, NONE, 6, FALSE),
    Local("$b", 1, NONE, 7, FALSE),
    Usage(NONE),
    Usage(2),
    Call("next", 1, "$b", NONE),
    Call("next", 1, "$a", NONE),
    StaticCall("next", 1, "A"),
    Call("next", NONE, "$p", NONE),
    ClassReference("A") >>

SomeTexts == {"", "A", "A2", "B", "use", "loop"}
Symbols == [ t \in SomeTexts |->
    CASE t = "" -> << >>
      [] t = "A" -> TextA
      [] t = "A2" -> TextA2
      [] t = "B" -> TextB
      [] t = "use" -> TextUse
      [] t = "loop" -> TextLoop ]
=============================================================================
