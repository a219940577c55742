------------------------- MODULE ReferenceResolver -------------------------
(***************************************************************************)
(* The workspace-wide pass that links every reference to its declaration   *)
(* and gives types to the locals whose type depends on other files:        *)
(* ReferenceResolver.java.  It reads the collection of symbols and the     *)
(* types the objects have when it starts; `types` is that function from    *)
(* typed objects to types.                                                 *)
(***************************************************************************)
EXTENDS PhpSymbolCollection

\* A HashMap filled with putIfAbsent: to each key, the first of the objects
\* that have it.
FirstBy(objects, Key(_)) ==
    [k \in {Key(o) : o \in objects} |-> FirstOf({o \in objects : Key(o) = k})]

Get(map, key) == IF key \in DOMAIN map THEN map[key] ELSE NONE

\* The maps of the class Index.  Members are looked up by their class and name,
\* variables by their method or function and name.  NONE, the owner of the
\* parameters of a closure outside functions, is one scope for all the files:
\* Scoped(null, name) is the same key whatever the file.
Index(symbols) ==
    LET Name(o) == Sym(o).name
        Scoped(o) == <<OwnerOf(o), Sym(o).name>>
        Owned(kind) == {o \in OfKind(symbols, kind) : OwnerOf(o) # NONE}
    IN  [functions |-> FirstBy(OfKind(symbols, "function"), Name),
         classes |-> FirstBy(OfKind(symbols, "class"), Name),
         methods |-> FirstBy(Owned("method"), Scoped),
         properties |-> FirstBy(Owned("property"), Scoped),
         parameters |-> FirstBy(OfKind(symbols, "parameter"), Scoped),
         locals |-> FirstBy(OfKind(symbols, "local"), Scoped)]

\* The names of a block that are keys of these maps for all the files.
Exported(b) ==
    {<<Parse[b.text][i].kind, Parse[b.text][i].name>> : i \in
       {j \in DOMAIN Parse[b.text] :
          \/ Parse[b.text][j].kind \in {"class", "function"}
          \/ Parse[b.text][j].kind = "parameter" /\ Parse[b.text][j].owner = NONE}}

ClassOf(type, index) == Get(index.classes, ClassFqn(type))

\* methodOf or propertyOf a class, as the kind of the reference asks
DeclaredMember(class, member, index) ==
    LET declared == IF Sym(member).kind = "propertyAccess" THEN index.properties ELSE index.methods
    IN  Get(declared, <<class, Sym(member).name>>)

\* the class of the method whose body the owner is, if it is one
EnclosingClass(owner) ==
    IF owner # NONE /\ Sym(owner).kind = "method" THEN OwnerOf(owner) ELSE NONE

Self == {"self", "static"}

ScopeClass(owner, scope, index) ==
    IF scope \in Self THEN EnclosingClass(owner) ELSE Get(index.classes, scope)

\* What a member of this class is declared to be; self and static are the class
\* the member was looked up in.
TypeInClass(class, member, index) ==
    LET declared == DeclaredMember(class, member, index)
    IN  IF class = NONE \/ declared = NONE THEN NONE
        ELSE IF ClassFqn(Sym(declared).type) \in Self THEN Named(Sym(class).name)
        ELSE Sym(declared).type

\* the type of a local whose source has this type
FromSource(local, type) == IF Sym(local).element THEN ElementOf(type) ELSE type

SourceOf(local) == Linked(local, Sym(local).source)

\* For a member reference, the class of the object whose member is used and the
\* type of the member.  receiverClass, memberType, variableType and sourceType
\* of the Java class call each other; the state of that recursion is the member
\* and the set `resolving` of the locals whose source is being followed.
Members(symbols, types, index) ==
    LET member[call \in {o \in Objects(symbols) : Sym(o).kind \in MemberKinds}
                          \X SUBSET OfKind(symbols, "local")] ==
          LET m == call[1]
              resolving == call[2]
              receiver == Linked(m, Sym(m).receiver)
              variable == <<OwnerOf(m), Sym(m).variable>>
              local == Get(index.locals, variable)
              VariableType ==
                IF variable \in DOMAIN index.parameters THEN Sym(index.parameters[variable]).type
                ELSE IF local = NONE THEN NONE
                ELSE IF Sym(local).source = NONE \/ local \in resolving THEN types[local]
                ELSE FromSource(local, member[<<SourceOf(local), resolving \cup {local}>>].type)
              class ==
                IF receiver # NONE THEN ClassOf(member[<<receiver, resolving>>].type, index)
                ELSE IF Sym(m).variable = "$this" THEN EnclosingClass(OwnerOf(m))
                ELSE ClassOf(VariableType, index)
          IN  [class |-> class, type |-> TypeInClass(class, m, index)]
    IN  member

-----------------------------------------------------------------------------
\* The first loop of resolve: what each reference is linked to.
DefinitionOf(reference, members, index) ==
    LET sym == Sym(reference)
    IN  CASE sym.kind = "classReference" -> Get(index.classes, sym.name)
          [] sym.kind = "functionCall" -> Get(index.functions, sym.name)
          [] sym.kind = "staticCall" ->
               DeclaredMember(ScopeClass(OwnerOf(reference), sym.scope, index), reference, index)
          [] sym.kind \in MemberKinds ->
               DeclaredMember(members[<<reference, {}>>].class, reference, index)

Definitions(symbols, types) ==
    LET index == Index(symbols)
        members == Members(symbols, types, index)
    IN  [o \in References(symbols) |-> DefinitionOf(o, members, index)]

\* Mutant: a local that has got a type keeps it.
ResolvedOnce(symbols, types) ==
    LET index == Index(symbols)
        member == Members(symbols, types, index)
    IN  [o \in DOMAIN types |->
           IF Sym(o).kind = "local" /\ types[o] = NONE /\ Sym(o).source # NONE
           THEN FromSource(o, member[<<SourceOf(o), {}>>].type)
           ELSE types[o]]

\* The second loop: a local that is assigned a member of something takes the
\* type of the member, or of its elements.  The types are assigned one by one,
\* in the order of the list: what a local gets may depend on what the locals
\* before it have just got.
ResolvedTypes(symbols, types) ==
    LET index == Index(symbols)
        Sourced == {o \in OfKind(symbols, "local") : Sym(o).source # NONE}
        resolved[local \in Sourced] ==
          LET now == [o \in DOMAIN types |->
                        IF o \in Sourced /\ Before(o, local) THEN resolved[o] ELSE types[o]]
          IN  FromSource(local, Members(symbols, now, index)[<<SourceOf(local), {}>>].type)
    IN  [o \in DOMAIN types |-> IF o \in Sourced THEN resolved[o] ELSE types[o]]
=============================================================================
