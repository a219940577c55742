-------------------------- MODULE MCLanguageServer -------------------------
(***************************************************************************)
(* Two files and an editor that changes and queries them.  A text here is  *)
(* one of three PHP files:                                                 *)
(*   "A"      class A { function next(): self {} }                         *)
(*   "two"    function g() {} before the same class                       *)
(*   "use"    function f(A $p) { $x = $p->next(); $x->next(); }            *)
(***************************************************************************)
EXTENDS LanguageServer

\* a class type, as in PhpType
ClassNamed(fqn) == <<"class", fqn>>

Class == [kind |-> "class", name |-> "A"]
Next1(class) ==
    [kind |-> "method", name |-> "next", owner |-> class, type |-> ClassNamed("self")]
Call(variable) ==
    [kind |-> "methodCall", name |-> "next", owner |-> 1, variable |-> variable, receiver |-> NONE]
Function(name) == [kind |-> "function", name |-> name]

SomeTexts == {"", "A", "two", "use"}
Symbols == [ t \in SomeTexts |->
    CASE t = "" -> << >>
      [] t = "A" -> <<Class, Next1(1)>>
      [] t = "two" -> <<Function("g"), Class, Next1(2)>>
      [] t = "use" -> <<
           Function("f"),
           [kind |-> "parameter", name |-> "$p", owner |-> 1, type |-> ClassNamed("A")],
           [kind |-> "local", name |-> "$x", owner |-> 1, type |-> NONE, source |-> 7, element |-> FALSE],
           [kind |-> "usage", definition |-> 2],
           [kind |-> "usage", definition |-> 3],
           [kind |-> "classReference", name |-> "A"],
           Call("$p"),
           Call("$x")>> ]
=============================================================================
