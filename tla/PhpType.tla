------------------------------ MODULE PhpType ------------------------------
(***************************************************************************)
(* The types php-magik gives to values: PhpType.java.  A type is a tuple   *)
(* whose first element says which record of the sealed interface it is:    *)
(*                                                                         *)
(*   <<"builtin", b>>   an enum constant of Builtin                        *)
(*   <<"class", fqn>>   a ClassType, identified by its fully qualified     *)
(*                      name, as ClassType.equals does                     *)
(*   <<"array", t>>     an ArrayType                                       *)
(*   <<"union", ts>>    a UnionType of the sequence ts                     *)
(*                                                                         *)
(* A missing type (Java null) is the constant NONE.                        *)
(***************************************************************************)
EXTENDS Sequences

CONSTANT NONE  \* Java's null

Builtin(b) == <<"builtin", b>>
ClassType(fqn) == <<"class", fqn>>
ArrayType(element) == <<"array", element>>
UnionType(types) == <<"union", types>>

Null == Builtin("null")

\* named: a class named by its FQN, independent of any name scope
Named(fqn) == ClassType(fqn)

\* ?A is the union of A and null: dropping the null leaves A.  A union that
\* has several other members is left as it is.
WithoutNull(type) ==
    IF type = NONE \/ type[1] # "union" THEN type
    ELSE LET present == SelectSeq(type[2], LAMBDA t : t # Null)
         IN  IF Len(present) = 1 THEN present[1] ELSE type

\* the name of the class a value of this type belongs to, NONE if the type is
\* not (a nullable) class
ClassFqn(type) ==
    LET present == WithoutNull(type)
    IN  IF present # NONE /\ present[1] = "class" THEN present[2] ELSE NONE

\* the type of the elements of a (nullable) array
ElementOf(type) ==
    LET present == WithoutNull(type)
    IN  IF present # NONE /\ present[1] = "array" THEN present[2] ELSE NONE
=============================================================================
