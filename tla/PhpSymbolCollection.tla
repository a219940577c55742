------------------------ MODULE PhpSymbolCollection ------------------------
(***************************************************************************)
(* The symbol table of a workspace: PhpSymbolCollection.java.              *)
(*                                                                         *)
(* The Java class keeps nine lists, one per kind of symbol.  They change   *)
(* in two ways only: addAll appends, kind by kind, the symbols that one    *)
(* run of Workspace.indexInto made for one file, and removeSymbolsOfFile   *)
(* takes all symbols of a file out of all lists.  Every list is therefore  *)
(* a concatenation of the contributions of the files, and all the lists    *)
(* have these contributions in the same order.  A collection is modelled   *)
(* as the set of its contributions, called blocks:                         *)
(*                                                                         *)
(*   [file, at, text]   what indexInto made of `text`, the content that    *)
(*                      `file` had at the time; appended by the at-th      *)
(*                      addAll of the workspace.                           *)
(*                                                                         *)
(* Parse[text] is the sequence of symbols of the text, in the order of the *)
(* lists, with the in-file links (owner, receiver, source, definition of a *)
(* variable) given as positions in the same sequence.  A symbol object is  *)
(* the pair <<block, i>>: parsing a file again makes new objects, which    *)
(* are different from the old ones even where the text has not changed.    *)
(*                                                                         *)
(* The fields of a symbol depend on its kind:                              *)
(*   class            name                                                 *)
(*   function         name                                                 *)
(*   method           name, owner, type (of what it returns)               *)
(*   property         name, owner, type                                    *)
(*   parameter        name, owner, type                                    *)
(*   local            name, owner, type (found in the file), source (the   *)
(*                    member reference assigned to it), element (TRUE for  *)
(*                    the variable of a foreach over the source)           *)
(*   usage            definition (a parameter or local, in the file)       *)
(*   classReference   name                                                 *)
(*   functionCall     name                                                 *)
(*   propertyAccess   name, owner, variable, receiver                      *)
(*   methodCall       name, owner, variable, receiver                      *)
(*   staticCall       name, owner, scope                                   *)
(* Any of owner, type, source, definition, variable and receiver may be    *)
(* NONE.                                                                   *)
(***************************************************************************)
EXTENDS Naturals, PhpType

CONSTANTS
    NumFiles,  \* the number of .php files under the root
    Texts,     \* the contents a file can have
    Parse      \* the symbols indexInto finds in a text, by text

\* the files, numbered in path order
Files == 1..NumFiles

MemberKinds == {"propertyAccess", "methodCall"}
ReferenceKinds == MemberKinds \cup {"classReference", "functionCall", "staticCall"}
\* the kinds whose objects have an owner
OwnedKinds == MemberKinds \cup {"method", "property", "parameter", "local", "staticCall"}
\* the kinds whose objects carry a type that changes after indexInto
TypedKinds == {"local", "usage"}

ASSUME NumFilesAssumption == NumFiles \in Nat
ASSUME ParseAssumption ==
    \A text \in Texts : Len(Parse[text]) \in Nat /\ DOMAIN Parse[text] = 1..Len(Parse[text])
\* null is no object, no position and no name
ASSUME NoneAssumption ==
    /\ NONE \notin [file : Files, at : Nat, text : Texts] \X Nat
    /\ NONE \notin Nat
    /\ NONE # "$this"
\* a class without a name is not added
ASSUME NamesAssumption ==
    \A text \in Texts : \A i \in DOMAIN Parse[text] :
      Parse[text][i].kind = "class" => Parse[text][i].name # NONE
\* DefinitionFiller links a usage to a parameter or local of the same file
ASSUME LinksAssumption ==
    \A text \in Texts : \A i \in DOMAIN Parse[text] :
      Parse[text][i].kind = "usage" /\ Parse[text][i].definition # NONE =>
        /\ Parse[text][i].definition \in DOMAIN Parse[text]
        /\ Parse[text][Parse[text][i].definition].kind \in {"parameter", "local"}
\* an owner is a symbol the same run has added
ASSUME ScopesAssumption ==
    \A text \in Texts : \A i \in DOMAIN Parse[text] :
      Parse[text][i].kind \in OwnedKinds => Parse[text][i].owner \in DOMAIN Parse[text] \cup {NONE}
\* PhpReferenceListener meets the object of a member expression before the
\* expression, and a receiver is what it has made of the object, unless this is
\* a variable.  (How symbols of two kinds follow each other in Parse[text] means
\* nothing else, but where they share a place: see Queries.)
ASSUME ReceiversAssumption ==
    \A text \in Texts : \A i \in DOMAIN Parse[text] :
      Parse[text][i].kind \in MemberKinds /\ Parse[text][i].receiver # NONE =>
        /\ Parse[text][i].receiver \in 1..(i - 1)
        /\ Parse[text][Parse[text][i].receiver].kind \in MemberKinds
        /\ Parse[text][i].variable = NONE
\* VarInsideFunctionLikeListener adds locals of methods and functions only, and
\* PhpTypeInferer gives a local a type or, where it finds none, a source.
ASSUME LocalsAssumption ==
    \A text \in Texts : \A i \in DOMAIN Parse[text] :
      Parse[text][i].kind = "local" =>
        /\ Parse[text][i].owner # NONE
        /\ Parse[text][i].source # NONE =>
             /\ Parse[text][i].source \in DOMAIN Parse[text]
             /\ Parse[text][Parse[text][i].source].kind \in MemberKinds
             /\ Parse[text][i].type = NONE

-----------------------------------------------------------------------------
\* The objects of a collection, and what one of them says.
Objects(symbols) == UNION {{<<b, i>> : i \in DOMAIN Parse[b.text]} : b \in symbols}
Sym(o) == Parse[o[1].text][o[2]]

OfKind(symbols, kind) == {o \in Objects(symbols) : Sym(o).kind = kind}
References(symbols) == {o \in Objects(symbols) : Sym(o).kind \in ReferenceKinds}
Typed(symbols) == {o \in Objects(symbols) : Sym(o).kind \in TypedKinds}

\* the object an in-file link of o leads to
Linked(o, i) == IF i = NONE THEN NONE ELSE <<o[1], i>>
OwnerOf(o) == Linked(o, Sym(o).owner)

\* The order of the lists: blocks as they were appended, symbols as parsed.
Before(o, p) ==
    \/ o[1].at < p[1].at
    \/ o[1].at = p[1].at /\ o[2] < p[2]

IsFirst(o, objects) == o \in objects /\ \A p \in objects \ {o} : Before(o, p)

FirstOf(objects) ==
    IF \E o \in objects : IsFirst(o, objects)
    THEN CHOOSE o \in objects : IsFirst(o, objects)
    ELSE NONE

-----------------------------------------------------------------------------
\* Mutant: the old symbols of the file stay.
KeepSymbolsOfFile(symbols, file) == symbols

RemoveSymbolsOfFile(symbols, file) == {b \in symbols : b.file # file}

AddAll(symbols, block) == symbols \cup {block}
=============================================================================
