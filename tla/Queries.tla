------------------------------ MODULE Queries ------------------------------
(***************************************************************************)
(* What the server answers to the four requests about a place in a file:   *)
(* SymbolFinder.java and the handlers of definition, references, hover and *)
(* completion.  The answers are functions of the state of the workspace: a *)
(* request changes nothing.                                                *)
(*                                                                         *)
(* A place in a text is the number of a token.  Every symbol of Parse has, *)
(* besides the fields listed in PhpSymbolCollection, a span, the range of  *)
(* its name; classes, methods and functions have a scope, the range of the *)
(* whole declaration.                                                      *)
(*                                                                         *)
(* Completion does not look at the tree but at the line before the cursor, *)
(* with a regular expression, so that the text itself is needed there:     *)
(* Tokens[text] is the sequence of its tokens, the one at place p with the *)
(* number p + 1,                                                           *)
(*                                                                         *)
(*   [kind, text, joined]   `joined` if nothing, not even a space or the   *)
(*                          end of a line, is between it and the token     *)
(*                          before it.                                     *)
(*                                                                         *)
(* The kinds are what the expression tells apart: "arrow" is `->`, also in *)
(* `?->`, where it is joined to the token `?`; "scope" is `::`; a "name"   *)
(* is a longest run of \w, a "variable" a `$` with the \w behind it.       *)
(***************************************************************************)
EXTENDS Workspace

CONSTANT Tokens

Contains(range, at) == range.start <= at /\ at < range.end
IsWithin(range, other) == other.start <= range.start /\ range.end <= other.end

OwnerKinds == {"class", "method", "function"}
FunctionLikes == {"method", "function"}
Variables == {"parameter", "local"}

\* Names are tokens, not empty, and one name makes one symbol, but for three cases:
\* a promoted parameter is a property first, the two with the type written
\* there; the property of an anonymous class in a function, the owner of which
\* is the function, is taken for a usage of a variable, too; and a class in a
\* tag of a comment that is part of another tag is found with both.
ASSUME PlacesAssumption ==
    \A t \in Texts : \A i \in DOMAIN Parse[t] :
      /\ Parse[t][i].span \in [start : Nat, end : Nat]
      /\ Parse[t][i].span.start < Parse[t][i].span.end
      /\ \A j \in (i + 1)..Len(Parse[t]) :
           LET first == Parse[t][i]
               second == Parse[t][j]
           IN  \/ first.span.end <= second.span.start \/ second.span.end <= first.span.start
               \/ /\ first.span = second.span
                  /\ \/ first.kind = "property" /\ second.kind = "parameter" /\ first.type = second.type
                     \/ first.kind = "property" /\ second.kind = "usage"
                     \/ /\ first.kind = "classReference" /\ second.kind = "classReference"
                        /\ first.name = second.name

\* The scopes are ranges of nodes, of which no two declarations have the same; a
\* name is in such a node or outside of it.
ASSUME NestingAssumption ==
    \A t \in Texts : \A i, j \in DOMAIN Parse[t] :
      Parse[t][j].kind \in OwnerKinds =>
        LET span == Parse[t][i].span
            scope == Parse[t][j].scope
        IN  /\ scope \in [start : Nat, end : Nat]
            /\ IsWithin(span, scope) \/ span.end <= scope.start \/ scope.end <= span.start
            /\ i # j /\ Parse[t][i].kind \in OwnerKinds => scope # Parse[t][i].scope

\* the declarations around a symbol, and the innermost of them
Around(t, i) ==
    {j \in DOMAIN Parse[t] : Parse[t][j].kind \in OwnerKinds /\ IsWithin(Parse[t][i].span, Parse[t][j].scope)}
Innermost(t, i) ==
    {j \in Around(t, i) : \A k \in Around(t, i) : IsWithin(Parse[t][j].scope, Parse[t][k].scope)}

\* The listeners ask PhpSymbolCollection for the owner of a symbol: the innermost
\* declaration around it, or the innermost class around a member.
\* VarInsideFunctionLikeListener finds usages in functions, and DefinitionFiller
\* links them to variables of the same owner.
ASSUME OwnersAssumption ==
    \A t \in Texts : \A i \in DOMAIN Parse[t] :
      LET sym == Parse[t][i]
      IN  /\ sym.kind \in Variables \cup MemberKinds =>
               sym.owner \in IF Around(t, i) = {} THEN {NONE} ELSE Innermost(t, i)
          /\ sym.kind \in {"property", "method"} /\ sym.owner # NONE =>
               Parse[t][sym.owner].kind = "class"
          /\ sym.kind = "usage" /\ sym.definition # NONE =>
               /\ Parse[t][sym.definition].owner \in Innermost(t, i)
               /\ Parse[t][Parse[t][sym.definition].owner].kind \in FunctionLikes

Location(o) == [file |-> o[1].file, range |-> Sym(o).span]

-----------------------------------------------------------------------------
\* The line before the cursor.  The cursor is at a token of which `part` is
\* before it: "none", "some" or, if no declaration ends there, "all".  The
\* expression is
\*     ([$\w]*)(->|::)\w*$
Parts == {"none", "some", "all"}

Token(t, p) == Tokens[t][p + 1]
IsBehind(t, p, kinds) == p > 0 /\ Token(t, p).joined /\ Token(t, p - 1).kind \in kinds

Operators == {"arrow", "scope"}
Words == {"name", "variable"}

\* Mutant: [$\w]* at the end, too.
OperatorBeforeWord(t, p, whole) ==
    {q \in {p} : whole /\ Token(t, q).kind \in Operators}
    \cup {q - 1 : q \in {n \in {p} : Token(t, n).kind \in Words /\ IsBehind(t, n, Operators)}}

\* the place of the operator that is found in a line that ends with the token at
\* p, or in it: what has been typed of a variable is no \w*
OperatorAtEnd(t, p, whole) ==
    {q \in {p} : whole /\ Token(t, q).kind \in Operators}
    \cup {q - 1 : q \in {n \in {p} : Token(t, n).kind = "name" /\ IsBehind(t, n, Operators)}}

OperatorFound(t, at, part) ==
    CASE part = "all" -> OperatorAtEnd(t, at, TRUE)
      [] part = "some" -> OperatorAtEnd(t, at, FALSE)
      [] part = "none" /\ at > 0 /\ Token(t, at).joined -> OperatorAtEnd(t, at - 1, TRUE)
      [] OTHER -> {}

\* the first group, the longest run of [$\w] before the operator at p, for which
\* NONE stands where it is not one token: no variable has such a name
ReceiverBefore(t, p) ==
    IF IsBehind(t, p, Words) /\ ~IsBehind(t, p - 1, Words) THEN Token(t, p - 1).text ELSE NONE

\* `$v->` is right before the token at p, on the same line ...
FollowsVariable(t, p) ==
    IsBehind(t, p, {"arrow"}) /\ IsBehind(t, p - 1, {"variable"}) /\ ~IsBehind(t, p - 2, Words)

\* ... though this $v is no variable, but a member of something else, as in
\* `C::$v->` and `$o->$v->`
FollowsMember(t, p) ==
    FollowsVariable(t, p) /\ p > 2 /\ Token(t, p - 3).kind \in Operators

VariableNames == {"$this"} \cup
    UNION {{Parse[t][i].name : i \in {j \in DOMAIN Parse[t] : Parse[t][j].kind \in Variables}} : t \in Texts}

\* The tokens go with the symbols.  A name is not cut in two, and no variable has
\* such a name; a member has one, and where `$v->` is before it, has the variable
\* $v for its object, which is in the same declarations; the usage of a variable
\* is a variable.
ASSUME TokensAssumption ==
    /\ NONE \notin VariableNames
    /\ \A t \in Texts :
         /\ Len(Tokens[t]) \in Nat /\ DOMAIN Tokens[t] = 1..Len(Tokens[t])
         /\ \A n \in DOMAIN Tokens[t] :
              Tokens[t][n].kind = "name" =>
                Tokens[t][n].text \notin VariableNames /\ ~IsBehind(t, n - 1, Words)
         /\ \A i \in DOMAIN Parse[t] :
              LET sym == Parse[t][i]
                  at == sym.span.start
              IN  /\ at + 1 \in DOMAIN Tokens[t]
                  /\ sym.kind \in MemberKinds => Token(t, at).kind = "name"
                  /\ sym.kind = "usage" /\ sym.definition # NONE => Token(t, at).kind = "variable"
                  /\ sym.kind \in MemberKinds /\ FollowsVariable(t, at) /\ ~FollowsMember(t, at) =>
                       /\ sym.variable = Token(t, at - 2).text /\ sym.variable # NONE
                       /\ \A j \in DOMAIN Parse[t] :
                            Parse[t][j].kind \in OwnerKinds =>
                              (Contains(Parse[t][j].scope, at - 2) <=> Contains(Parse[t][j].scope, at))

-----------------------------------------------------------------------------
\* An answer that may be null is a set of at most one element.

\* the symbol with the smallest range around the place; the first in the order
\* of the lists where several have it
ResolveAt(file, at) ==
    LET hits == {o \in Objects(symbols) : o[1].file = file /\ Contains(Sym(o).span, at)}
    IN  {o \in hits : \A p \in hits \ {o} : /\ IsWithin(Sym(o).span, Sym(p).span)
                                            /\ IsWithin(Sym(p).span, Sym(o).span) => Before(o, p)}

\* where the definition handler goes from a symbol
DefinitionFrom(o) ==
    {d \in (CASE Sym(o).kind = "usage" -> {Linked(o, Sym(o).definition)}
              [] Sym(o).kind \in ReferenceKinds -> {definition[o]}
              [] Sym(o).kind = "property" -> {o}
              [] OTHER -> {}) : d # NONE}

\* textDocument/definition
DefinitionAnswer(file, at) ==
    {Location(d) : d \in UNION {DefinitionFrom(o) : o \in ResolveAt(file, at)}}

\* textDocument/hover: the symbol whose text is shown, and the type in it
TypeShown(o) ==
    IF Sym(o).kind \in TypedKinds THEN type[o]
    ELSE IF Sym(o).kind \in {"property", "parameter", "method"} THEN Sym(o).type
    ELSE NONE

HoverAnswer(file, at) ==
    {[symbol |-> Location(o), type |-> TypeShown(o)] : o \in ResolveAt(file, at)}

\* definitionAt: a declaration stands for itself
DeclarationOf(o) ==
    IF Sym(o).kind \in OwnerKinds \cup Variables THEN {o} ELSE DefinitionFrom(o)

\* Mutant: all uses are looked for among the references.
ReferencesOnly(o) == {r \in References(symbols) : definition[r] = o}

\* the symbols that use a declaration
UsesOf(o) ==
    IF Sym(o).kind \in Variables
    THEN {u \in OfKind(symbols, "usage") : Linked(u, Sym(u).definition) = o}
    ELSE {r \in References(symbols) : definition[r] = o}

\* textDocument/references
ReferencesAnswer(file, at, includeDeclaration) ==
    LET declared == UNION {DeclarationOf(o) : o \in ResolveAt(file, at)}
    IN  {Location(o) : o \in (UNION {UsesOf(d) : d \in declared})
                               \cup IF includeDeclaration THEN declared ELSE {}}

-----------------------------------------------------------------------------
\* enclosingOwner: the innermost method or function around the place
EnclosingOwner(file, at) ==
    LET around == {o \in Objects(symbols) : /\ o[1].file = file /\ Sym(o).kind \in FunctionLikes
                                            /\ Contains(Sym(o).scope, at)}
        innermost == {o \in around : \A p \in around : IsWithin(Sym(o).scope, Sym(p).scope)}
    IN  IF innermost = {} THEN NONE ELSE CHOOSE o \in innermost : TRUE

\* the first class of the name a type has; NONE names no class
ClassNamed(t) ==
    FirstOf({o \in OfKind(symbols, "class") : Sym(o).name = ClassFqn(t)})

\* Mutant: a local hides the parameter of the same name.
LocalsFirst(receiver, owner) ==
    LET Declared(kind) == {o \in OfKind(symbols, kind) : OwnerOf(o) = owner /\ Sym(o).name = receiver}
    IN  CASE receiver = "$this" -> EnclosingClass(owner)
          [] receiver # "$this" /\ Declared("local") # {} -> ClassNamed(type[FirstOf(Declared("local"))])
          [] receiver # "$this" /\ Declared("local") = {} /\ Declared("parameter") # {} ->
               ClassNamed(Sym(FirstOf(Declared("parameter"))).type)
          [] OTHER -> NONE

\* the class whose members are offered after `receiver->`
ReceiverClass(receiver, owner) ==
    LET Declared(kind) == {o \in OfKind(symbols, kind) : OwnerOf(o) = owner /\ Sym(o).name = receiver}
    IN  CASE receiver = "$this" -> EnclosingClass(owner)
          [] receiver # "$this" /\ Declared("parameter") # {} ->
               ClassNamed(Sym(FirstOf(Declared("parameter"))).type)
          [] receiver # "$this" /\ Declared("parameter") = {} /\ Declared("local") # {} ->
               ClassNamed(type[FirstOf(Declared("local"))])
          [] OTHER -> NONE

\* what is offered behind `receiver->`
MembersOffered(owner, receiver) ==
    UNION {{o \in OfKind(symbols, "property") \cup OfKind(symbols, "method") : OwnerOf(o) = class}
             : class \in {ReceiverClass(receiver, owner)} \ {NONE}}

\* what is offered elsewhere: $this, for which its class stands here, in the
\* methods of a class, and the variables
ThisOffered(owner) == {EnclosingClass(owner)} \ {NONE}
VariablesOffered(owner) ==
    {o \in OfKind(symbols, "parameter") \cup OfKind(symbols, "local") : OwnerOf(o) = owner}

\* textDocument/completion: the text is the present one, the symbols are those
\* of the collection
CompletionAnswer(file, at, part) ==
    LET t == text[file]
        found == OperatorFound(t, at, part)
        owner == EnclosingOwner(file, at)
    IN  IF found = {}
        THEN ThisOffered(owner) \cup VariablesOffered(owner)
        ELSE UNION {MembersOffered(owner, ReceiverBefore(t, p)) : p \in {q \in found : Token(t, q).kind = "arrow"}}

-----------------------------------------------------------------------------
\* The symbols of the indexed files that one can ask about: of two at one place
\* only one answers.
Asked ==
    UNION {UNION {ResolveAt(f, Parse[text[f]][i].span.start) : i \in DOMAIN Parse[text[f]]} : f \in files}

Declares(kind) == kind \in OwnerKinds \cup Variables \cup {"property"}

\* Go to definition leads to a place where, in the present text of the file that
\* is answered, the name that was asked about is declared.  The texts of the two
\* files have been sent at different times.
DefinitionLeadsToTheName ==
    \A o \in Asked : \A d \in DefinitionFrom(o) :
      LET answer == Location(d)
      IN  \E i \in DOMAIN Parse[text[answer.file]] :
            LET found == Parse[text[answer.file]][i]
            IN  /\ found.span = answer.range
                /\ Declares(found.kind)
                /\ Sym(o).kind # "usage" => found.name = Sym(o).name

\* A promoted parameter is declared where a property is, which comes first: its
\* uses cannot be asked for at the declaration.
Promoted(o) ==
    Sym(o).kind = "parameter" /\ \E p \in OfKind(symbols, "property") : Location(p) = Location(o)

\* The property of an anonymous class in a function is listed among the uses of
\* the variable of its name, but it is a property that one asks about there.
DeclaresProperty(place) == \E p \in OfKind(symbols, "property") : Location(p) = place

\* Definition and references are inverse to each other, though each searches the
\* collection in its own way: what references lists leads back, and at the place
\* go to definition leads to, references lists where one came from.
ReferencesAndDefinitionAgree ==
    \A o \in Asked : \A declared \in DeclarationOf(o) :
      /\ \A use \in ReferencesAnswer(o[1].file, Sym(o).span.start, FALSE) :
           ~DeclaresProperty(use) =>
             DefinitionAnswer(use.file, use.range.start) = {Location(declared)}
      /\ ~Promoted(declared) =>
           Location(o) \in ReferencesAnswer(declared[1].file, Sym(declared).span.start, TRUE)

\* Hover over a variable shows the type that hover over its declaration shows,
\* if it shows one.
HoverFollowsDeclaration ==
    \A u \in Asked \cap OfKind(symbols, "usage") :
      \A there \in DefinitionAnswer(u[1].file, Sym(u).span.start) :
        \A declared \in HoverAnswer(there.file, there.range.start) :
          declared.type # NONE =>
            \A hover \in HoverAnswer(u[1].file, Sym(u).span.start) : hover.type = declared.type

\* Completion and the resolver look for the class of a variable each in its own
\* way, the one in the line, the other in the tree, and at different times.
\* Wherever a member stands, and however much of its name has been typed,
\* completion offers its name only if the resolver has linked the member, and
\* then what it is linked to: behind `$v?->`, or where the arrow is on a line
\* of its own, it may offer nothing, but nothing wrong.  Behind `$v->` it does
\* offer what the member is linked to.  (Two exceptions: the regular expression
\* takes the $v of `C::$v->` and `$o->$v->` for the variable; and the owner of
\* what stands in a class but in none of its methods is the class, to which
\* completion is blind.)
CompletionOffersWhatResolves ==
    \A m \in References(symbols), part \in Parts :
      LET t == text[m[1].file]
          at == Sym(m).span.start
          kind == IF Sym(m).kind = "methodCall" THEN "method" ELSE "property"
          SameName == {o \in OfKind(symbols, kind) : Sym(o).name = Sym(m).name}
          offered == SameName \cap CompletionAnswer(m[1].file, at, part)
      IN  /\ Sym(m).kind \in MemberKinds /\ ~FollowsMember(t, at)
          /\ OwnerOf(m) # NONE => Sym(OwnerOf(m)).kind \in FunctionLikes
          =>
          /\ offered # {} => definition[m] \in offered
          /\ FollowsVariable(t, at) /\ definition[m] # NONE => definition[m] \in offered

\* Wherever a variable stands that has a definition, completion offers it once
\* its `$` has been typed, also behind an operator as in `$o->$v`; and before
\* that, unless it is right behind an operator or a name, for which it may be
\* the rest of one.  And where a member of $this is linked to a declaration, it
\* offers $this of the class that declares it in the place of this $this.
CompletionOffersVariablesInUse ==
    /\ \A u \in OfKind(symbols, "usage"), part \in Parts :
         /\ Sym(u).definition # NONE
         /\ part # "none" \/ ~IsBehind(text[u[1].file], Sym(u).span.start, Operators \cup {"name"})
         => Linked(u, Sym(u).definition) \in CompletionAnswer(u[1].file, Sym(u).span.start, part)
    /\ \A m \in References(symbols), part \in Parts :
         LET t == text[m[1].file]
             at == Sym(m).span.start
         IN  /\ Sym(m).kind \in MemberKinds /\ Sym(m).variable = "$this" /\ definition[m] # NONE
             /\ FollowsVariable(t, at) /\ ~FollowsMember(t, at)
             =>
             \E class \in CompletionAnswer(m[1].file, at - 2, part) :
               Sym(class).kind = "class" /\ OwnerOf(definition[m]) = class
=============================================================================
