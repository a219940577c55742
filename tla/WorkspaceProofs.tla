-------------------------- MODULE WorkspaceProofs ---------------------------
(***************************************************************************)
(* Theorems about the index of a project of any size, for any edits: what  *)
(* the resolver makes of the collection, whatever it has made of it        *)
(* before.  Members calls itself along chains of members; the lemmas say   *)
(* that this recursion has one meaning, that the types left by an earlier  *)
(* resolution do not show in its result, and that the order in which the   *)
(* blocks were appended does not show either where no name is declared in  *)
(* two of them.                                                            *)
(***************************************************************************)
EXTENDS Workspace, Integers, WellFoundedInduction, FiniteSetTheorems, TLAPS

-----------------------------------------------------------------------------
(* Smallest elements, and recursion.                                       *)

\* A nonempty set of naturals has a least element.
LEMMA LeastExists ==
  ASSUME NEW S \in SUBSET Nat, S # {}
  PROVE  \E x \in S : \A y \in S : x <= y
<1>1. PICK x \in S : \A y \in S : ~ (<<y, x>> \in OpToRel(<, Nat))
  BY NatLessThanWellFounded, WFMin
<1>2. \A y \in S : x <= y
  <2>1. TAKE y \in S
  <2>2. ~ (<<y, x>> \in OpToRel(<, Nat))
    BY <1>1
  <2>3. ~ (<<y, x>> \in {ss \in Nat \X Nat : ss[1] < ss[2]})
    BY <2>2 DEF OpToRel
  <2>4. ~ (y < x)
    BY <2>3, Zenon
  <2> QED
    BY <2>4
<1> QED
  BY <1>2

\* So a property that some element of a set lacks, is lacked by one of least size.
LEMMA SmallestExists ==
  ASSUME NEW D, NEW size \in [D -> Nat], NEW X \in SUBSET D, X # {}
  PROVE  \E x \in X : \A y \in X : size[x] <= size[y]
<1> DEFINE sizes == {size[x] : x \in X}
<1>1. sizes \in SUBSET Nat /\ sizes # {}
  OBVIOUS
<1>2. PICK n \in sizes : \A k \in sizes : n <= k
  BY <1>1, LeastExists
<1> QED
  BY <1>2

\* Body computes the value at an element of D from a function of values, which
\* it reads only where the size is smaller than that of the element.
IsRecursion(D, V, size, Body) ==
    /\ V # {}
    /\ size \in [D -> Nat]
    /\ Body \in [[D -> V] \X D -> V]
    /\ \A x \in D : \A f, g \in [D -> V] :
         (\A y \in D : size[y] < size[x] => f[y] = g[y]) => Body[<<f, x>>] = Body[<<g, x>>]

IsSolution(f, D, V, Body) == f \in [D -> V] /\ \A x \in D : f[x] = Body[<<f, x>>]

\* A recursion has a solution: the values of the elements up to a size are
\* computed from those of the smaller ones.
LEMMA RecursionExists ==
  ASSUME NEW D, NEW V, NEW size, NEW Body, IsRecursion(D, V, size, Body)
  PROVE  \E f : IsSolution(f, D, V, Body)
<1> USE DEF IsRecursion, IsSolution
<1> PICK v \in V : TRUE
  OBVIOUS
<1> DEFINE Upto(k, f) == f \in [D -> V] /\ \A x \in D : size[x] < k => f[x] = Body[<<f, x>>]
<1>1. \A k \in Nat : \E f : Upto(k, f)
  <2> DEFINE bad == {k \in Nat : ~ \E f : Upto(k, f)}
  <2> SUFFICES ASSUME bad # {} PROVE FALSE
    OBVIOUS
  <2>1. PICK k \in bad : \A j \in bad : k <= j
    BY LeastExists
  <2>2. CASE k = 0
    <3>1. PICK f : f \in [D -> V]
      <4>1. [x \in D |-> v] \in [D -> V]
        OBVIOUS
      <4> QED
        BY <4>1
    <3>2. \A x \in D : ~ (size[x] < 0)
      OBVIOUS
    <3>3. Upto(k, f)
      BY <2>2, <3>1, <3>2
    <3> QED
      BY <2>1, <3>3
  <2>3. CASE k # 0
    <3>0. k - 1 \in Nat /\ ~ (k <= k - 1)
      BY <2>3
    <3>1. ~ (k - 1 \in bad)
      <4> HIDE DEF bad
      <4> QED
        BY <2>1, <3>0
    <3>2. PICK f : Upto(k - 1, f)
      BY <3>0, <3>1
    <3> DEFINE g == [x \in D |-> Body[<<f, x>>]]
    <3>3. f \in [D -> V] /\ g \in [D -> V]
      BY <3>2
    <3>4. ASSUME NEW x \in D, size[x] < k PROVE g[x] = Body[<<g, x>>]
      <4>1. ASSUME NEW y \in D, size[y] < size[x] PROVE f[y] = g[y]
        <5>1. size[y] < k - 1
          BY <3>4, <4>1
        <5> QED
          BY <3>2, <5>1
      <4> HIDE DEF g
      <4>2. Body[<<f, x>>] = Body[<<g, x>>]
        BY <3>3, <4>1
      <4> QED
        BY <4>2 DEF g
    <3>5. Upto(k, g)
      BY <3>3, <3>4
    <3> QED
      BY <3>5
  <2> QED
    BY <2>2, <2>3
<1>2. ASSUME NEW j \in Nat, NEW k \in Nat, NEW f, NEW g, Upto(j, f), Upto(k, g),
             NEW x \in D, size[x] < j, size[x] < k
      PROVE  f[x] = g[x]
  <2> DEFINE bad == {y \in D : size[y] < j /\ size[y] < k /\ f[y] # g[y]}
  <2> SUFFICES ASSUME bad # {} PROVE FALSE
    BY <1>2
  <2>1. PICK y \in bad : \A z \in bad : size[y] <= size[z]
    BY SmallestExists
  <2>2. \A z \in D : size[z] < size[y] => f[z] = g[z]
    BY <1>2, <2>1
  <2>3. Body[<<f, y>>] = Body[<<g, y>>]
    BY <1>2, <2>2
  <2> QED
    BY <1>2, <2>1, <2>3
<1> DEFINE upto(x) == CHOOSE f : Upto(size[x] + 1, f)
           h == [x \in D |-> upto(x)[x]]
<1>3. ASSUME NEW x \in D PROVE Upto(size[x] + 1, upto(x))
  <2>1. size[x] + 1 \in Nat
    OBVIOUS
  <2> HIDE DEF Upto
  <2>2. \E f : Upto(size[x] + 1, f)
    BY <1>1, <2>1
  <2> QED
    BY <2>2
<1> HIDE DEF upto
<1>4. h \in [D -> V] /\ \A x \in D : size[x] \in Nat /\ size[x] + 1 \in Nat
  BY <1>3
<1>5. ASSUME NEW x \in D PROVE h[x] = Body[<<h, x>>]
  <2>1. ASSUME NEW y \in D, size[y] < size[x] PROVE upto(x)[y] = h[y]
    <3> HIDE DEF Upto
    <3>1. size[y] < size[x] + 1 /\ size[y] < size[y] + 1
      BY <1>4, <2>1
    <3>2. Upto(size[x] + 1, upto(x)) /\ Upto(size[y] + 1, upto(y))
      BY <1>3
    <3>3. upto(x)[y] = upto(y)[y]
      BY <1>2, <1>4, <3>1, <3>2
    <3> QED
      BY <3>3
  <2> HIDE DEF h
  <2>2. Body[<<upto(x), x>>] = Body[<<h, x>>]
    BY <1>3, <1>4, <2>1
  <2>3. upto(x)[x] = Body[<<upto(x), x>>]
    <3>1. size[x] < size[x] + 1
      BY <1>4
    <3>2. Upto(size[x] + 1, upto(x))
      BY <1>3
    <3> QED
      BY <3>1, <3>2
  <2> QED
    BY <2>2, <2>3 DEF h
<1> QED
  BY <1>4, <1>5

-----------------------------------------------------------------------------
(* Looking up.                                                             *)

\* The blocks of a collection are runs of indexInto over files of the project.
WellFormed(S) == S \subseteq [file : Files, at : Nat, text : Texts]

\* The first of some objects is one of them.
LEMMA FirstOfIn ==
  ASSUME NEW X
  PROVE  FirstOf(X) \in X \cup {NONE}
BY DEF FirstOf, IsFirst

\* Every map of the index leads to objects of the collection, or to null.
LEMMA IndexLeadsToObjects ==
  ASSUME NEW S, NEW key
  PROVE  /\ Get(Index(S).classes, key) \in Objects(S) \cup {NONE}
         /\ Get(Index(S).functions, key) \in Objects(S) \cup {NONE}
         /\ Get(Index(S).methods, key) \in Objects(S) \cup {NONE}
         /\ Get(Index(S).properties, key) \in Objects(S) \cup {NONE}
<1>1. Get(Index(S).classes, key) \in Objects(S) \cup {NONE}
  BY FirstOfIn DEF Index, Get, FirstBy, OfKind
<1>2. Get(Index(S).functions, key) \in Objects(S) \cup {NONE}
  BY FirstOfIn DEF Index, Get, FirstBy, OfKind
<1>3. Get(Index(S).methods, key) \in Objects(S) \cup {NONE}
  BY FirstOfIn DEF Index, Get, FirstBy, OfKind
<1>4. Get(Index(S).properties, key) \in Objects(S) \cup {NONE}
  BY FirstOfIn DEF Index, Get, FirstBy, OfKind
<1> QED
  BY <1>1, <1>2, <1>3, <1>4

\* What the resolver links a reference to is in the collection it resolves,
\* whatever the types are.
LEMMA DefinitionsInCollection ==
  ASSUME NEW S, NEW types, NEW o \in References(S)
  PROVE  Definitions(S, types)[o] \in Objects(S) \cup {NONE}
<1> DEFINE index == Index(S)
           members == Members(S, types, index)
<1>1. Definitions(S, types)[o] = DefinitionOf(o, members, index)
  BY DEF Definitions
<1>2. \A class : DeclaredMember(class, o, index) \in Objects(S) \cup {NONE}
  BY IndexLeadsToObjects DEF DeclaredMember
<1>3. Sym(o).kind \in ReferenceKinds
  BY DEF References
<1>4. CASE Sym(o).kind = "classReference"
  BY <1>1, <1>4, IndexLeadsToObjects DEF DefinitionOf, MemberKinds
<1>5. CASE Sym(o).kind = "functionCall"
  BY <1>1, <1>5, IndexLeadsToObjects DEF DefinitionOf, MemberKinds
<1>6. CASE Sym(o).kind = "staticCall"
  BY <1>1, <1>2, <1>6 DEF DefinitionOf, MemberKinds
<1>7. CASE Sym(o).kind \in MemberKinds
  BY <1>1, <1>2, <1>7 DEF DefinitionOf, MemberKinds
<1> QED
  BY <1>3, <1>4, <1>5, <1>6, <1>7 DEF ReferenceKinds

\* Objects of a collection are pairs of a block of it and a position.
LEMMA ObjectParts ==
  ASSUME NEW S, NEW o \in Objects(S)
  PROVE  o[1] \in S /\ o[2] \in DOMAIN Parse[o[1].text] /\ o = <<o[1], o[2]>>
BY DEF Objects

\* There is one first object.
LEMMA FirstIsUnique ==
  ASSUME NEW S, WellFormed(S), NEW X \in SUBSET Objects(S),
         NEW o, IsFirst(o, X)
  PROVE  FirstOf(X) = o
<1>1. \A p \in X : p[1].at \in Nat /\ p[2] \in Nat
  <2> SUFFICES ASSUME NEW p \in X PROVE p[1].at \in Nat /\ p[2] \in Nat
    OBVIOUS
  <2>1. p[1] \in S /\ p[2] \in DOMAIN Parse[p[1].text]
    BY ObjectParts
  <2>2. p[1].at \in Nat /\ p[1].text \in Texts
    BY <2>1 DEF WellFormed
  <2> QED
    BY <2>1, <2>2, ParseAssumption
<1>2. ASSUME NEW p, IsFirst(p, X), p # o PROVE FALSE
  <2>1. o \in X /\ p \in X /\ Before(o, p) /\ Before(p, o)
    BY <1>2 DEF IsFirst
  <2> QED
    BY <1>1, <2>1 DEF Before
<1>3. o \in X
  BY DEF IsFirst
<1>4. IsFirst(CHOOSE p \in X : IsFirst(p, X), X)
  BY <1>3
<1>5. FirstOf(X) = CHOOSE p \in X : IsFirst(p, X)
  BY <1>3 DEF FirstOf
<1> QED
  BY <1>2, <1>4, <1>5

\* The objects of one kind that have a name.
Declared(S, kind, name) == {o \in OfKind(S, kind) : Sym(o).name = name}

\* The maps of the index by name hold the first declarations.
LEMMA LookupIsFirst ==
  ASSUME NEW S, NEW name
  PROVE  /\ Get(Index(S).classes, name) = FirstOf(Declared(S, "class", name))
         /\ Get(Index(S).functions, name) = FirstOf(Declared(S, "function", name))
<1>1. ASSUME NEW kind
      PROVE  Get(FirstBy(OfKind(S, kind), LAMBDA o : Sym(o).name), name)
               = FirstOf(Declared(S, kind, name))
  <2>1. CASE \E o \in OfKind(S, kind) : Sym(o).name = name
    BY <2>1 DEF Get, FirstBy, Declared
  <2>2. CASE ~ \E o \in OfKind(S, kind) : Sym(o).name = name
    <3>1. Declared(S, kind, name) = {}
      BY <2>2 DEF Declared
    <3>2. FirstOf({}) = NONE
      BY DEF FirstOf, IsFirst
    <3> QED
      BY <2>2, <3>1, <3>2 DEF Get, FirstBy
  <2> QED
    BY <2>1, <2>2
<1> QED
  BY <1>1 DEF Index

\* What is known of an object of a collection.
LEMMA ObjectFacts ==
  ASSUME NEW S, WellFormed(S), NEW o \in Objects(S)
  PROVE  /\ o[1] \in S /\ o = <<o[1], o[2]>>
         /\ o[1].text \in Texts /\ o[1].at \in Nat
         /\ o[2] \in DOMAIN Parse[o[1].text] /\ o[2] \in Nat
         /\ o[2] \in 1..Len(Parse[o[1].text]) /\ Len(Parse[o[1].text]) \in Nat
         /\ Sym(o) = Parse[o[1].text][o[2]]
         /\ o # NONE
<1>1. o[1] \in S /\ o[2] \in DOMAIN Parse[o[1].text] /\ o = <<o[1], o[2]>>
  BY ObjectParts
<1>2. o[1] \in [file : Files, at : Nat, text : Texts] /\ o[1].text \in Texts /\ o[1].at \in Nat
  BY <1>1 DEF WellFormed
<1>3. o[2] \in 1..Len(Parse[o[1].text]) /\ o[2] \in Nat /\ Len(Parse[o[1].text]) \in Nat
  BY <1>1, <1>2, ParseAssumption
<1>5. o # NONE
  BY <1>1, <1>2, <1>3, NoneAssumption
<1> QED
  BY <1>1, <1>2, <1>3, <1>5 DEF Sym

\* The symbols of the text of a block are objects of the collection it is in.
LEMMA ObjectsOfBlocks ==
  ASSUME NEW S, NEW b \in S, NEW i \in DOMAIN Parse[b.text]
  PROVE  <<b, i>> \in Objects(S)
BY DEF Objects

\* Where the links of a symbol lead.
LEMMA OwnersArePresent ==
  ASSUME NEW S, WellFormed(S), NEW o \in Objects(S), Sym(o).kind \in OwnedKinds
  PROVE  /\ OwnerOf(o) \in Objects(S) \cup {NONE}
         /\ OwnerOf(o) = NONE <=> Sym(o).owner = NONE
         /\ OwnerOf(o) # NONE => OwnerOf(o)[1] = o[1]
<1>1. Sym(o).owner \in DOMAIN Parse[o[1].text] \cup {NONE} /\ o[1] \in S
  BY ObjectFacts, ScopesAssumption
<1>2. CASE Sym(o).owner = NONE
  BY <1>2 DEF OwnerOf, Linked
<1>3. CASE Sym(o).owner # NONE
  <2>1. OwnerOf(o) = <<o[1], Sym(o).owner>>
    BY <1>3 DEF OwnerOf, Linked
  <2>2. OwnerOf(o) \in Objects(S)
    BY <1>1, <1>3, <2>1, ObjectsOfBlocks
  <2> QED
    BY <1>3, <2>1, <2>2, ObjectFacts
<1> QED
  BY <1>2, <1>3

MemberObjects(S) == {o \in Objects(S) : Sym(o).kind \in MemberKinds}

\* A member is parsed after its receiver, in the same file.
LEMMA ReceiversComeBefore ==
  ASSUME NEW S, WellFormed(S), NEW m \in MemberObjects(S), Sym(m).receiver # NONE
  PROVE  LET receiver == Linked(m, Sym(m).receiver)
         IN  /\ receiver \in MemberObjects(S) /\ receiver # NONE
             /\ receiver[1] = m[1] /\ receiver[2] < m[2]
<1> DEFINE receiver == Linked(m, Sym(m).receiver)
<1>1. m \in Objects(S) /\ Sym(m).kind \in MemberKinds
  BY DEF MemberObjects
<1>2. /\ Sym(m).receiver \in 1..(m[2] - 1)
      /\ Parse[m[1].text][Sym(m).receiver].kind \in MemberKinds
      /\ m[1] \in S /\ m[2] \in Nat
  BY <1>1, ObjectFacts, ReceiversAssumption
<1>3. Sym(m).receiver \in DOMAIN Parse[m[1].text]
  BY <1>1, <1>2, ObjectFacts, ParseAssumption
<1>4. receiver = <<m[1], Sym(m).receiver>>
  BY DEF Linked
<1>5. receiver \in Objects(S)
  BY <1>2, <1>3, <1>4, ObjectsOfBlocks
<1> HIDE DEF receiver
<1>6. Sym(receiver).kind \in MemberKinds
  BY <1>2, <1>4, <1>5, ObjectFacts
<1>7. receiver \in MemberObjects(S)
  BY <1>5, <1>6 DEF MemberObjects
<1>8. receiver # NONE /\ receiver[1] = m[1] /\ receiver[2] < m[2]
  BY <1>2, <1>4, <1>5, ObjectFacts
<1> QED
  BY <1>7, <1>8 DEF receiver

\* The source of a local is in its file, and the local has no type of its own.
LEMMA SourcesArePresent ==
  ASSUME NEW S, WellFormed(S), NEW local \in OfKind(S, "local"), Sym(local).source # NONE
  PROVE  /\ SourceOf(local) \in MemberObjects(S)
         /\ SourceOf(local)[1] = local[1]
         /\ Sym(local).type = NONE
<1>1. local \in Objects(S) /\ Sym(local).kind = "local"
  BY DEF OfKind
<1>2. /\ Sym(local).source \in DOMAIN Parse[local[1].text]
      /\ Parse[local[1].text][Sym(local).source].kind \in MemberKinds
      /\ Sym(local).type = NONE
      /\ local[1] \in S
  BY <1>1, ObjectFacts, LocalsAssumption
<1>3. SourceOf(local) = <<local[1], Sym(local).source>>
  BY DEF SourceOf, Linked
<1>4. SourceOf(local) \in Objects(S)
  BY <1>2, <1>3, ObjectsOfBlocks
<1>5. Sym(SourceOf(local)).kind \in MemberKinds
  BY <1>2, <1>3, <1>4, ObjectFacts
<1>6. SourceOf(local) \in MemberObjects(S)
  BY <1>4, <1>5 DEF MemberObjects
<1> QED
  BY <1>2, <1>3, <1>6

-----------------------------------------------------------------------------
(* The maps by owner and name hold the first declarations.                 *)

\* The objects of one kind that one owner has under a name.
Scoped(S, kind, owner, name) ==
    {o \in OfKind(S, kind) : OwnerOf(o) = owner /\ Sym(o).name = name}

\* There is no first of none.
LEMMA FirstOfNone == FirstOf({}) = NONE
BY DEF FirstOf, IsFirst

\* The maps keyed by an owner and a name give the first object of the scope with
\* the name; a member with no class is never found.
LEMMA ScopedLookupIsFirst ==
  ASSUME NEW S, NEW owner, NEW name
  PROVE  /\ Get(Index(S).locals, <<owner, name>>) = FirstOf(Scoped(S, "local", owner, name))
         /\ owner # NONE => Get(Index(S).methods, <<owner, name>>) = FirstOf(Scoped(S, "method", owner, name))
         /\ owner # NONE => Get(Index(S).properties, <<owner, name>>) = FirstOf(Scoped(S, "property", owner, name))
         /\ Get(Index(S).methods, <<NONE, name>>) = NONE
         /\ Get(Index(S).properties, <<NONE, name>>) = NONE
         /\ <<owner, name>> \in DOMAIN Index(S).parameters <=> Scoped(S, "parameter", owner, name) # {}
         /\ Scoped(S, "parameter", owner, name) # {} =>
              Index(S).parameters[<<owner, name>>] = FirstOf(Scoped(S, "parameter", owner, name))
<1> DEFINE Key(o) == <<OwnerOf(o), Sym(o).name>>
           Map(X) == FirstBy(X, Key)
           Under(X, w) == {o \in X : OwnerOf(o) = w /\ Sym(o).name = name}
           Owned(kind) == {o \in OfKind(S, kind) : OwnerOf(o) # NONE}
<1>1. ASSUME NEW X, NEW w
      PROVE  /\ <<w, name>> \in DOMAIN Map(X) <=> Under(X, w) # {}
             /\ Under(X, w) # {} => Map(X)[<<w, name>>] = FirstOf(Under(X, w))
             /\ Get(Map(X), <<w, name>>) = FirstOf(Under(X, w))
  <2>1. {o \in X : Key(o) = <<w, name>>} = Under(X, w)
    OBVIOUS
  <2>2. <<w, name>> \in DOMAIN Map(X) <=> Under(X, w) # {}
    BY DEF FirstBy
  <2>3. <<w, name>> \in DOMAIN Map(X) => Map(X)[<<w, name>>] = FirstOf(Under(X, w))
    BY <2>1 DEF FirstBy
  <2> HIDE DEF Map, Under
  <2> QED
    BY <2>2, <2>3, FirstOfNone DEF Get
<1>2. /\ Index(S).locals = Map(OfKind(S, "local"))
      /\ Index(S).parameters = Map(OfKind(S, "parameter"))
      /\ Index(S).methods = Map(Owned("method"))
      /\ Index(S).properties = Map(Owned("property"))
  BY DEF Index
<1>3. ASSUME NEW kind
      PROVE  /\ Under(OfKind(S, kind), owner) = Scoped(S, kind, owner, name)
             /\ owner # NONE => Under(Owned(kind), owner) = Scoped(S, kind, owner, name)
             /\ Under(Owned(kind), NONE) = {}
  BY DEF Scoped
<1> HIDE DEF Map, Under, Owned
<1>4. Get(Index(S).locals, <<owner, name>>) = FirstOf(Scoped(S, "local", owner, name))
  BY <1>1, <1>2, <1>3
<1>5. owner # NONE => Get(Index(S).methods, <<owner, name>>) = FirstOf(Scoped(S, "method", owner, name))
  BY <1>1, <1>2, <1>3
<1>6. owner # NONE => Get(Index(S).properties, <<owner, name>>) = FirstOf(Scoped(S, "property", owner, name))
  BY <1>1, <1>2, <1>3
<1>7. Get(Index(S).methods, <<NONE, name>>) = NONE /\ Get(Index(S).properties, <<NONE, name>>) = NONE
  BY <1>1, <1>2, <1>3, FirstOfNone
<1>8. /\ <<owner, name>> \in DOMAIN Index(S).parameters <=> Scoped(S, "parameter", owner, name) # {}
      /\ Scoped(S, "parameter", owner, name) # {} =>
           Index(S).parameters[<<owner, name>>] = FirstOf(Scoped(S, "parameter", owner, name))
  BY <1>1, <1>2, <1>3
<1> QED
  BY <1>4, <1>5, <1>6, <1>7, <1>8

-----------------------------------------------------------------------------
(* The recursion over chains of members.                                   *)

\* The local the variable of a member is, in the method or function around it.
LocalOf(m, index) == Get(index.locals, <<OwnerOf(m), Sym(m).variable>>)

\* It is in the file of the member, and in the same method or function.
LEMMA LocalsAreNear ==
  ASSUME NEW S, WellFormed(S), NEW m \in MemberObjects(S), LocalOf(m, Index(S)) # NONE
  PROVE  LET local == LocalOf(m, Index(S))
         IN  /\ local \in OfKind(S, "local") /\ local[1] = m[1]
             /\ OwnerOf(local) = OwnerOf(m) /\ OwnerOf(m) # NONE
<1> DEFINE local == LocalOf(m, Index(S))
<1>1. local = FirstOf(Scoped(S, "local", OwnerOf(m), Sym(m).variable))
  <2>1. \A owner, name : Get(Index(S).locals, <<owner, name>>) = FirstOf(Scoped(S, "local", owner, name))
    BY ScopedLookupIsFirst
  <2> QED
    BY <2>1 DEF LocalOf
<1>2. local \in Scoped(S, "local", OwnerOf(m), Sym(m).variable)
  BY <1>1, FirstOfIn
<1> HIDE DEF local
<1>3. /\ local \in OfKind(S, "local") /\ OwnerOf(local) = OwnerOf(m)
      /\ local \in Objects(S) /\ Sym(local).kind = "local"
  BY <1>2 DEF Scoped, OfKind
<1>4. m \in Objects(S) /\ Sym(m).kind \in MemberKinds
  BY DEF MemberObjects
<1>5. Sym(local).owner # NONE
  BY <1>3, ObjectFacts, LocalsAssumption
<1>6. /\ OwnerOf(local) # NONE /\ OwnerOf(local)[1] = local[1]
      /\ OwnerOf(m) # NONE => OwnerOf(m)[1] = m[1]
  BY <1>3, <1>4, <1>5, OwnersArePresent DEF OwnedKinds
<1>7. local[1] = m[1] /\ OwnerOf(m) # NONE
  BY <1>3, <1>6
<1> QED
  BY <1>3, <1>7 DEF local

Calls(S) == MemberObjects(S) \X SUBSET OfKind(S, "local")

\* The type of the variable of a member.
VariableType(call, member, types, index) ==
    LET m == call[1]
        variable == <<OwnerOf(m), Sym(m).variable>>
        local == LocalOf(m, index)
    IN  IF variable \in DOMAIN index.parameters THEN Sym(index.parameters[variable]).type
        ELSE IF local = NONE THEN NONE
        ELSE IF Sym(local).source = NONE \/ local \in call[2] THEN types[local]
        ELSE FromSource(local, member[<<SourceOf(local), call[2] \cup {local}>>].type)

\* The class of a member, by the values of the calls it makes.
MemberClass(call, member, types, index) ==
    LET m == call[1]
    IN  IF Linked(m, Sym(m).receiver) # NONE
        THEN ClassOf(member[<<Linked(m, Sym(m).receiver), call[2]>>].type, index)
        ELSE IF Sym(m).variable = "$this" THEN EnclosingClass(OwnerOf(m))
        ELSE ClassOf(VariableType(call, member, types, index), index)

\* One step of the recursion.
MemberValue(call, member, types, index) ==
    LET class == MemberClass(call, member, types, index)
    IN  [class |-> class, type |-> TypeInClass(class, call[1], index)]

\* The calls get smaller: a call that follows the source of a local has one
\* more local in resolving, any other goes to an earlier symbol.
LocalsIn(S, b) == {o \in OfKind(S, "local") : o[1] = b}
SizeOf(S, call) ==
    (Len(Parse[call[1][1].text]) + 1) * Cardinality(LocalsIn(S, call[1][1]) \ call[2]) + call[1][2]

\* A file has finitely many locals.
LEMMA LocalsAreFinite ==
  ASSUME NEW S, WellFormed(S), NEW b \in S
  PROVE  IsFiniteSet(LocalsIn(S, b))
<1> DEFINE n == Len(Parse[b.text])
           At == [o \in LocalsIn(S, b) |-> o[2]]
<1>1. b.text \in Texts
  BY DEF WellFormed
<1>2. n \in Nat
  BY <1>1, ParseAssumption
<1>3. IsFiniteSet(1..n)
  BY <1>2, FS_Interval
<1>4. ASSUME NEW o \in LocalsIn(S, b) PROVE o[2] \in 1..n /\ o = <<b, o[2]>>
  BY ObjectFacts DEF LocalsIn, OfKind
<1>5. At \in Injection(LocalsIn(S, b), 1..n)
  <2>1. At \in [LocalsIn(S, b) -> 1..n]
    BY <1>4
  <2>2. \A o, p \in LocalsIn(S, b) : At[o] = At[p] => o = p
    BY <1>4
  <2> QED
    BY <2>1, <2>2 DEF Injection, IsInjective
<1> QED
  BY <1>3, <1>5, FS_Injection DEF ExistsInjection

\* The size of a call, on which the recursion goes down, is a number.
LEMMA SizesAreNumbers ==
  ASSUME NEW S, WellFormed(S), NEW call \in Calls(S)
  PROVE  /\ SizeOf(S, call) \in Nat
         /\ Cardinality(LocalsIn(S, call[1][1]) \ call[2]) \in Nat
         /\ IsFiniteSet(LocalsIn(S, call[1][1]) \ call[2])
<1>1. call[1] \in Objects(S)
  BY DEF Calls, MemberObjects
<1>2. /\ call[1][1] \in S /\ Len(Parse[call[1][1].text]) \in Nat
      /\ call[1][2] \in Nat
  BY <1>1, ObjectFacts
<1>3. IsFiniteSet(LocalsIn(S, call[1][1]) \ call[2])
  BY <1>2, LocalsAreFinite, FS_Subset
<1>4. Cardinality(LocalsIn(S, call[1][1]) \ call[2]) \in Nat
  BY <1>3, FS_CardinalityType
<1> DEFINE n == Len(Parse[call[1][1].text])
           c == Cardinality(LocalsIn(S, call[1][1]) \ call[2])
<1>5. SizeOf(S, call) = (n + 1) * c + call[1][2]
  BY DEF SizeOf
<1> HIDE DEF n, c
<1>6. n \in Nat /\ c \in Nat
  BY <1>2, <1>4 DEF n, c
<1>7. (n + 1) * c \in Nat
  BY <1>6
<1>8. SizeOf(S, call) \in Nat
  BY <1>2, <1>5, <1>7
<1> QED
  BY <1>3, <1>4, <1>8

\* receiverClass and variableType call memberType with less left to visit.
LEMMA CallsGetSmaller ==
  ASSUME NEW S, WellFormed(S), NEW call \in Calls(S)
  PROVE  /\ Sym(call[1]).receiver # NONE =>
              LET next == <<Linked(call[1], Sym(call[1]).receiver), call[2]>>
              IN  next \in Calls(S) /\ SizeOf(S, next) < SizeOf(S, call)
         /\ LET local == LocalOf(call[1], Index(S))
                next == <<SourceOf(local), call[2] \cup {local}>>
            IN  local # NONE /\ Sym(local).source # NONE /\ local \notin call[2] =>
                  next \in Calls(S) /\ SizeOf(S, next) < SizeOf(S, call)
<1> DEFINE m == call[1]
           R == call[2]
           b == m[1]
           n == Len(Parse[b.text])
<1>1. m \in MemberObjects(S) /\ m \in Objects(S) /\ R \in SUBSET OfKind(S, "local") /\ call = <<m, R>>
  BY DEF Calls, MemberObjects
<1>2. b \in S /\ n \in Nat /\ m[2] \in Nat /\ m[2] \in 1..n
  BY <1>1, ObjectFacts
<1> HIDE DEF m, R
<1>3. ASSUME Sym(m).receiver # NONE
      PROVE  LET next == <<Linked(m, Sym(m).receiver), R>>
             IN  next \in Calls(S) /\ SizeOf(S, next) < SizeOf(S, call)
  <2> DEFINE receiver == Linked(m, Sym(m).receiver)
             c == Cardinality(LocalsIn(S, b) \ R)
  <2>1. receiver \in MemberObjects(S) /\ receiver[1] = b /\ receiver[2] < m[2]
    BY <1>1, <1>3, ReceiversComeBefore
  <2>2. <<receiver, R>> \in Calls(S)
    BY <1>1, <2>1 DEF Calls
  <2>3. receiver[2] \in Nat
    BY <2>1, ObjectFacts DEF MemberObjects
  <2>4. c \in Nat
    BY <1>1, SizesAreNumbers
  <2>5. SizeOf(S, call) = (n + 1) * c + m[2]
    BY <1>1 DEF SizeOf
  <2> HIDE DEF receiver
  <2>6. SizeOf(S, <<receiver, R>>) = (n + 1) * c + receiver[2]
    BY <2>1 DEF SizeOf
  <2> HIDE DEF c, n
  <2>7. (n + 1) * c \in Nat
    BY <1>2, <2>4
  <2> QED
    BY <1>2, <2>1, <2>2, <2>3, <2>5, <2>6, <2>7 DEF receiver
<1>4. ASSUME LocalOf(m, Index(S)) # NONE, Sym(LocalOf(m, Index(S))).source # NONE,
             LocalOf(m, Index(S)) \notin R
      PROVE  LET local == LocalOf(m, Index(S))
                 next == <<SourceOf(local), R \cup {local}>>
             IN  next \in Calls(S) /\ SizeOf(S, next) < SizeOf(S, call)
  <2> DEFINE local == LocalOf(m, Index(S))
             c == Cardinality(LocalsIn(S, b) \ R)
             d == Cardinality(LocalsIn(S, b) \ (R \cup {local}))
             s == SourceOf(local)
  <2>1. local \in OfKind(S, "local") /\ local[1] = b
    BY <1>1, <1>4, LocalsAreNear
  <2>2. s \in MemberObjects(S) /\ s[1] = b
    BY <1>4, <2>1, SourcesArePresent
  <2>3. <<s, R \cup {local}>> \in Calls(S)
    BY <1>1, <2>1, <2>2 DEF Calls
  <2>4. s[2] \in Nat /\ s[2] <= n
    BY <2>2, ObjectFacts DEF MemberObjects
  <2>5. c \in Nat /\ IsFiniteSet(LocalsIn(S, b) \ R)
    BY <1>1, SizesAreNumbers
  <2>6. local \in LocalsIn(S, b) \ R
    BY <1>4, <2>1 DEF LocalsIn
  <2>7. LocalsIn(S, b) \ (R \cup {local}) = (LocalsIn(S, b) \ R) \ {local}
    OBVIOUS
  <2>8. d = c - 1
    <3> DEFINE X == LocalsIn(S, b) \ R
    <3>1. IsFiniteSet(X) /\ local \in X /\ d = Cardinality(X \ {local}) /\ c = Cardinality(X)
      BY <2>5, <2>6, <2>7
    <3> HIDE DEF X, local, c, d
    <3> QED
      BY <3>1, FS_RemoveElement
  <2>9. SizeOf(S, call) = (n + 1) * c + m[2]
    BY <1>1 DEF SizeOf
  <2> HIDE DEF local, s
  <2>10. SizeOf(S, <<s, R \cup {local}>>) = (n + 1) * d + s[2]
    BY <2>2 DEF SizeOf
  <2>11. d \in Nat
    BY <2>5, <2>8, SizesAreNumbers, <2>3, <2>2
  <2> HIDE DEF c, d, n
  <2>12. (n + 1) * c = (n + 1) * d + (n + 1) /\ (n + 1) * d \in Nat
    BY <1>2, <2>5, <2>8, <2>11
  <2> QED
    BY <1>2, <2>3, <2>4, <2>9, <2>10, <2>12 DEF local, s
<1> QED
  BY <1>3, <1>4 DEF m, R

\* What one step of the recursion reads of the values of other calls.
LEMMA ValueDependsOnSmaller ==
  ASSUME NEW S, WellFormed(S), NEW types, NEW call \in Calls(S), NEW f, NEW g,
         \A next \in Calls(S) : SizeOf(S, next) < SizeOf(S, call) => f[next] = g[next]
  PROVE  MemberValue(call, f, types, Index(S)) = MemberValue(call, g, types, Index(S))
<1> DEFINE m == call[1]
           index == Index(S)
           local == LocalOf(m, index)
<1>1. /\ Linked(m, Sym(m).receiver) # NONE => Sym(m).receiver # NONE
  BY DEF Linked
<1>2. ASSUME Linked(m, Sym(m).receiver) # NONE
      PROVE  f[<<Linked(m, Sym(m).receiver), call[2]>>] = g[<<Linked(m, Sym(m).receiver), call[2]>>]
  BY <1>1, <1>2, CallsGetSmaller
<1>3. VariableType(call, f, types, index) = VariableType(call, g, types, index)
  <2>1. ASSUME local # NONE, Sym(local).source # NONE, local \notin call[2]
        PROVE  f[<<SourceOf(local), call[2] \cup {local}>>] = g[<<SourceOf(local), call[2] \cup {local}>>]
    BY <2>1, CallsGetSmaller
  <2> HIDE DEF local, m, index
  <2> QED
    BY <2>1 DEF VariableType, local, m
<1>4. MemberClass(call, f, types, index) = MemberClass(call, g, types, index)
  BY <1>2, <1>3 DEF MemberClass
<1> QED
  BY <1>4 DEF MemberValue

MemberTypes(S) ==
    {NONE} \cup {Sym(o).type : o \in Objects(S)} \cup {Named(Sym(o).name) : o \in Objects(S)}
MemberValues(S) == [class : Objects(S) \cup {NONE}, type : MemberTypes(S)]

\* What one call returns is a class of the collection, or null, and a type.
LEMMA ValuesAreTyped ==
  ASSUME NEW S, WellFormed(S), NEW types, NEW call \in Calls(S), NEW f
  PROVE  MemberValue(call, f, types, Index(S)) \in MemberValues(S)
<1> DEFINE m == call[1]
           index == Index(S)
           class == MemberClass(call, f, types, index)
<1>1. m \in Objects(S) /\ Sym(m).kind \in MemberKinds
  BY DEF Calls, MemberObjects
<1>2. EnclosingClass(OwnerOf(m)) \in Objects(S) \cup {NONE}
  <2> SUFFICES ASSUME OwnerOf(m) # NONE, Sym(OwnerOf(m)).kind = "method"
               PROVE  OwnerOf(OwnerOf(m)) \in Objects(S) \cup {NONE}
    BY DEF EnclosingClass
  <2>1. OwnerOf(m) \in Objects(S)
    BY <1>1, OwnersArePresent DEF OwnedKinds
  <2> QED
    BY <2>1, OwnersArePresent DEF OwnedKinds
<1>3. \A t : ClassOf(t, index) \in Objects(S) \cup {NONE}
  BY IndexLeadsToObjects DEF ClassOf
<1>4. class \in Objects(S) \cup {NONE}
  BY <1>2, <1>3 DEF MemberClass
<1>5. DeclaredMember(class, m, index) \in Objects(S) \cup {NONE}
  BY IndexLeadsToObjects DEF DeclaredMember
<1>6. TypeInClass(class, m, index) \in MemberTypes(S)
  BY <1>4, <1>5 DEF TypeInClass, MemberTypes
<1> QED
  BY <1>4, <1>6 DEF MemberValue, MemberValues

\* The function Members is a solution of its equation.
LEMMA MembersUnfold ==
  ASSUME NEW S, WellFormed(S), NEW types
  PROVE  /\ Members(S, types, Index(S)) \in [Calls(S) -> MemberValues(S)]
         /\ \A call \in Calls(S) :
              Members(S, types, Index(S))[call]
                = MemberValue(call, Members(S, types, Index(S)), types, Index(S))
<1> DEFINE D == Calls(S)
           V == MemberValues(S)
           Value(call, f) == MemberValue(call, f, types, Index(S))
           Body == [p \in [D -> V] \X D |-> Value(p[2], p[1])]
           size == [call \in D |-> SizeOf(S, call)]
           Solves(f) == f = [call \in D |-> Value(call, f)]
<1>1. size \in [D -> Nat]
  BY SizesAreNumbers
<1>2. \A f : \A call \in D : Value(call, f) \in V
  BY ValuesAreTyped
<1>3. V # {}
  <2>1. [class |-> NONE, type |-> NONE] \in V
    BY DEF MemberValues, MemberTypes
  <2> QED
    BY <2>1
<1>4. Body \in [[D -> V] \X D -> V]
  BY <1>2
<1>5. ASSUME NEW x \in D, NEW f \in [D -> V], NEW g \in [D -> V],
             \A y \in D : size[y] < size[x] => f[y] = g[y]
      PROVE  Body[<<f, x>>] = Body[<<g, x>>]
  <2>1. Value(x, f) = Value(x, g)
    BY <1>5, ValueDependsOnSmaller
  <2> QED
    BY <2>1
<1>6. PICK f : IsSolution(f, D, V, Body)
  <2> HIDE DEF D, V, Body, size
  <2>1. IsRecursion(D, V, size, Body)
    BY <1>1, <1>3, <1>4, <1>5 DEF IsRecursion
  <2> QED
    BY <2>1, RecursionExists
<1>7. Solves(f)
  <2>1. \A x \in D : f[x] = Value(x, f)
    BY <1>6 DEF IsSolution
  <2> QED
    BY <1>6, <2>1 DEF IsSolution
<1>8. Members(S, types, Index(S)) = CHOOSE h : Solves(h)
  BY DEF Members, Calls, MemberValue, MemberClass, VariableType, LocalOf, MemberObjects
<1> DEFINE members == CHOOSE h : Solves(h)
<1>9. Solves(members)
  BY <1>7
<1>10. members \in [D -> V] /\ \A call \in D : members[call] = Value(call, members)
  <2> HIDE DEF members, D, V
  <2> QED
    BY <1>2, <1>9
<1> QED
  BY <1>8, <1>10

-----------------------------------------------------------------------------
(* The member whose type gives the class of another one: the chain the     *)
(* resolver follows is a path, which ends or runs in a circle.             *)

MembersOf(S, types) == Members(S, types, Index(S))

\* The local whose source is followed to know the class of a member, and the
\* member that is followed.
FollowsLocal(S, m) ==
    /\ Sym(m).receiver = NONE
    /\ Sym(m).variable # "$this"
    /\ <<OwnerOf(m), Sym(m).variable>> \notin DOMAIN Index(S).parameters
    /\ LocalOf(m, Index(S)) # NONE
    /\ Sym(LocalOf(m, Index(S))).source # NONE

Followed(S, m) ==
    IF Sym(m).receiver # NONE THEN Linked(m, Sym(m).receiver)
    ELSE IF FollowsLocal(S, m) THEN SourceOf(LocalOf(m, Index(S)))
    ELSE NONE

\* The next member of a chain is in the same file.
LEMMA FollowedStaysInBlock ==
  ASSUME NEW S, WellFormed(S), NEW m \in MemberObjects(S), Followed(S, m) # NONE
  PROVE  Followed(S, m) \in MemberObjects(S) /\ Followed(S, m)[1] = m[1]
<1>1. CASE Sym(m).receiver # NONE
  BY <1>1, ReceiversComeBefore DEF Followed
<1>2. CASE Sym(m).receiver = NONE
  <2>1. FollowsLocal(S, m) /\ Followed(S, m) = SourceOf(LocalOf(m, Index(S)))
    BY <1>2 DEF Followed
  <2>2. LocalOf(m, Index(S)) # NONE /\ Sym(LocalOf(m, Index(S))).source # NONE
    BY <2>1 DEF FollowsLocal
  <2>3. LocalOf(m, Index(S)) \in OfKind(S, "local") /\ LocalOf(m, Index(S))[1] = m[1]
    BY <2>2, LocalsAreNear
  <2> QED
    BY <2>1, <2>2, <2>3, SourcesArePresent
<1> QED
  BY <1>1, <1>2

\* What the value of a call is made of.
Unfolds(S, types, m, R) ==
    LET V == MembersOf(S, types)
        class == V[<<m, R>>].class
        local == LocalOf(m, Index(S))
        parameter == <<OwnerOf(m), Sym(m).variable>>
    IN  /\ V[<<m, R>>] = [class |-> class, type |-> TypeInClass(class, m, Index(S))]
        /\ V[<<m, R>>].type = TypeInClass(class, m, Index(S))
        /\ Sym(m).receiver # NONE =>
             class = ClassOf(V[<<Followed(S, m), R>>].type, Index(S))
        /\ Sym(m).receiver = NONE /\ Sym(m).variable = "$this" => class = EnclosingClass(OwnerOf(m))
        /\ Sym(m).receiver = NONE /\ Sym(m).variable # "$this" =>
             /\ parameter \in DOMAIN Index(S).parameters =>
                  class = ClassOf(Sym(Index(S).parameters[parameter]).type, Index(S))
             /\ parameter \notin DOMAIN Index(S).parameters =>
                  /\ local = NONE => class = ClassOf(NONE, Index(S))
                  /\ local # NONE =>
                       IF Sym(local).source = NONE \/ local \in R
                       THEN class = ClassOf(types[local], Index(S))
                       ELSE class = ClassOf(FromSource(local, V[<<Followed(S, m), R \cup {local}>>].type),
                                            Index(S))

\* Each call gives what its body says of the calls it makes.
LEMMA CallsUnfold ==
  ASSUME NEW S, WellFormed(S), NEW types, NEW m \in MemberObjects(S),
         NEW R \in SUBSET OfKind(S, "local")
  PROVE  Unfolds(S, types, m, R)
<1> DEFINE V == MembersOf(S, types)
           call == <<m, R>>
<1>1. call \in Calls(S) /\ call[1] = m /\ call[2] = R
  BY DEF Calls
<1>2. V[call] = MemberValue(call, V, types, Index(S))
  BY <1>1, MembersUnfold DEF MembersOf
<1>3. V[call].class = MemberClass(call, V, types, Index(S))
  BY <1>2 DEF MemberValue
<1>4. V[call] = [class |-> V[call].class, type |-> TypeInClass(V[call].class, m, Index(S))]
  BY <1>1, <1>2, <1>3 DEF MemberValue
<1>5. ASSUME Sym(m).receiver # NONE
      PROVE  V[call].class = ClassOf(V[<<Followed(S, m), R>>].type, Index(S))
  <2>1. Linked(m, Sym(m).receiver) # NONE
    BY <1>5, ReceiversComeBefore
  <2> QED
    BY <1>3, <1>5, <2>1 DEF MemberClass, Followed
<1>6. ASSUME Sym(m).receiver = NONE
      PROVE  V[call].class = IF Sym(m).variable = "$this" THEN EnclosingClass(OwnerOf(m))
                             ELSE ClassOf(VariableType(call, V, types, Index(S)), Index(S))
  <2>1. Linked(m, Sym(m).receiver) = NONE
    BY <1>6 DEF Linked
  <2> QED
    BY <1>3, <2>1 DEF MemberClass
<1> DEFINE local == LocalOf(m, Index(S))
           parameter == <<OwnerOf(m), Sym(m).variable>>
<1>7. VariableType(call, V, types, Index(S)) =
        IF parameter \in DOMAIN Index(S).parameters THEN Sym(Index(S).parameters[parameter]).type
        ELSE IF local = NONE THEN NONE
        ELSE IF Sym(local).source = NONE \/ local \in R THEN types[local]
        ELSE FromSource(local, V[<<SourceOf(local), R \cup {local}>>].type)
  BY DEF VariableType
<1>8. ASSUME Sym(m).receiver = NONE, Sym(m).variable # "$this",
             parameter \notin DOMAIN Index(S).parameters, local # NONE, Sym(local).source # NONE
      PROVE  Followed(S, m) = SourceOf(local)
  BY <1>8 DEF Followed, FollowsLocal
<1> HIDE DEF V, call, local, parameter
<1>9. /\ Sym(m).receiver = NONE /\ Sym(m).variable = "$this" => V[call].class = EnclosingClass(OwnerOf(m))
      /\ Sym(m).receiver = NONE /\ Sym(m).variable # "$this" =>
           /\ parameter \in DOMAIN Index(S).parameters =>
                V[call].class = ClassOf(Sym(Index(S).parameters[parameter]).type, Index(S))
           /\ parameter \notin DOMAIN Index(S).parameters =>
                /\ local = NONE => V[call].class = ClassOf(NONE, Index(S))
                /\ local # NONE =>
                     IF Sym(local).source = NONE \/ local \in R
                     THEN V[call].class = ClassOf(types[local], Index(S))
                     ELSE V[call].class = ClassOf(FromSource(local, V[<<Followed(S, m), R \cup {local}>>].type),
                                                  Index(S))
  BY <1>6, <1>7, <1>8
<1>10. V[call].type = TypeInClass(V[call].class, m, Index(S))
  BY <1>4
<1> QED
  BY <1>4, <1>5, <1>9, <1>10 DEF Unfolds, V, call, local, parameter

\* The members whose chain runs in a circle.
Endless(S) ==
    {m \in MemberObjects(S) :
       \E E \in SUBSET MemberObjects(S) : m \in E /\ \A x \in E : Followed(S, x) \in E}

\* Their locals have no type.
CirclesUntyped(S, types) ==
    \A o \in OfKind(S, "local") :
      Sym(o).source # NONE /\ SourceOf(o) \in Endless(S) => types[o] = NONE

\* A chain that goes on for ever does so after its first step.
LEMMA EndlessGoesOn ==
  ASSUME NEW S, NEW m \in Endless(S)
  PROVE  Followed(S, m) \in Endless(S)
BY DEF Endless

\* No class is called null.
LEMMA NoClassOfNone ==
  ASSUME NEW S, WellFormed(S)
  PROVE  ClassOf(NONE, Index(S)) = NONE
<1>1. Declared(S, "class", NONE) = {}
  <2> SUFFICES ASSUME NEW o \in Objects(S), Sym(o).kind = "class", Sym(o).name = NONE
               PROVE  FALSE
    BY DEF Declared, OfKind
  <2> QED
    BY ObjectFacts, NamesAssumption
<1>2. ClassFqn(NONE) = NONE
  BY DEF ClassFqn, WithoutNull
<1> QED
  BY <1>1, <1>2, LookupIsFirst, FirstOfNone DEF ClassOf

\* A chain that runs in a circle gives neither a class nor a type.
LEMMA NothingFromCircles ==
  ASSUME NEW S, WellFormed(S), NEW types, CirclesUntyped(S, types),
         NEW m \in Endless(S), NEW R \in SUBSET OfKind(S, "local")
  PROVE  /\ MembersOf(S, types)[<<m, R>>].class = NONE
         /\ MembersOf(S, types)[<<m, R>>].type = NONE
<1> DEFINE V == MembersOf(S, types)
           D == Calls(S)
           size == [call \in D |-> SizeOf(S, call)]
           bad == {call \in D : call[1] \in Endless(S) /\ ~ (V[call].class = NONE /\ V[call].type = NONE)}
<1>1. size \in [D -> Nat] /\ bad \in SUBSET D
  BY SizesAreNumbers
<1>2. Endless(S) \subseteq MemberObjects(S)
  BY DEF Endless
<1> SUFFICES ASSUME bad # {} PROVE FALSE
  <2>1. <<m, R>> \in D
    BY <1>2 DEF Calls
  <2> HIDE DEF V
  <2> QED
    BY <2>1 DEF V
<1>3. PICK call \in bad : \A other \in bad : size[call] <= size[other]
  <2> HIDE DEF bad, size, D
  <2> QED
    BY <1>1, SmallestExists
<1>4. /\ call \in Calls(S) /\ call[1] \in Endless(S)
      /\ ~ (V[call].class = NONE /\ V[call].type = NONE)
  BY <1>3
<1>5. ASSUME NEW next \in Calls(S), next[1] \in Endless(S), SizeOf(S, next) < SizeOf(S, call)
      PROVE  V[next].type = NONE
  <2>1. size[next] = SizeOf(S, next) /\ size[call] = SizeOf(S, call)
    BY <1>4
  <2>2. SizeOf(S, next) \in Nat /\ SizeOf(S, call) \in Nat
    BY <1>4, SizesAreNumbers
  <2>3. next \notin bad
    <3> HIDE DEF bad, size
    <3> QED
      BY <1>3, <1>5, <2>1, <2>2
  <2> QED
    BY <1>5, <2>3
<1> DEFINE x == call[1]
           X == call[2]
           local == LocalOf(x, Index(S))
<1> HIDE DEF V, bad, size, D
<1>6. /\ x \in MemberObjects(S) /\ X \in SUBSET OfKind(S, "local") /\ call = <<x, X>>
      /\ x \in Endless(S)
  BY <1>4 DEF Calls
<1>u. Unfolds(S, types, x, X)
  BY <1>6, CallsUnfold
<1>7. Followed(S, x) \in Endless(S) /\ Followed(S, x) # NONE
  <2>1. Followed(S, x) \in Endless(S)
    BY <1>6, EndlessGoesOn
  <2> QED
    BY <1>2, <2>1, ObjectFacts DEF MemberObjects
<1>8. V[call].class = ClassOf(NONE, Index(S))
  <2>1. CASE Sym(x).receiver # NONE
    <3>1. Followed(S, x) = Linked(x, Sym(x).receiver)
      BY <2>1 DEF Followed
    <3>2. <<Followed(S, x), X>> \in Calls(S) /\ SizeOf(S, <<Followed(S, x), X>>) < SizeOf(S, call)
      BY <1>4, <2>1, <3>1, CallsGetSmaller
    <3>3. V[<<Followed(S, x), X>>].type = NONE
      BY <1>5, <1>7, <3>2
    <3> QED
      BY <1>u, <1>6, <2>1, <3>3 DEF Unfolds, V
  <2>2. CASE Sym(x).receiver = NONE
    <3>1. FollowsLocal(S, x) /\ Followed(S, x) = SourceOf(local)
      BY <1>7, <2>2 DEF Followed
    <3>2. /\ Sym(x).variable # "$this"
          /\ <<OwnerOf(x), Sym(x).variable>> \notin DOMAIN Index(S).parameters
          /\ local # NONE /\ Sym(local).source # NONE
      BY <3>1 DEF FollowsLocal
    <3>3. local \in OfKind(S, "local")
      BY <1>6, <3>2, LocalsAreNear
    <3>4. CASE local \in X
      <4>1. types[local] = NONE
        BY <1>7, <3>1, <3>2, <3>3 DEF CirclesUntyped
      <4> QED
        BY <1>u, <1>6, <2>2, <3>2, <3>4, <4>1 DEF Unfolds, V
    <3>5. CASE local \notin X
      <4> DEFINE next == <<SourceOf(local), X \cup {local}>>
      <4>1. next \in Calls(S) /\ SizeOf(S, next) < SizeOf(S, call)
        BY <1>4, <3>2, <3>5, CallsGetSmaller
      <4>2. V[next].type = NONE
        BY <1>5, <1>7, <3>1, <4>1
      <4>3. FromSource(local, NONE) = NONE
        BY DEF FromSource, ElementOf, WithoutNull
      <4>4. V[call].class = ClassOf(FromSource(local, V[next].type), Index(S))
        BY <1>u, <1>6, <2>2, <3>1, <3>2, <3>5 DEF Unfolds, V
      <4> QED
        BY <4>2, <4>3, <4>4
    <3> QED
      BY <3>4, <3>5
  <2> QED
    BY <2>1, <2>2
<1>9. V[call].class = NONE
  BY <1>8, NoClassOfNone
<1>10. V[call].type = NONE
  <2>1. V[call].type = TypeInClass(V[call].class, x, Index(S))
    BY <1>u, <1>6 DEF Unfolds, V
  <2> QED
    BY <1>9, <2>1 DEF TypeInClass
<1> QED
  BY <1>4, <1>9, <1>10

\* The members on the chain of a member.
GoesOn(S, G) == \A x \in G : Followed(S, x) \in G \cup {NONE}
Ahead(S, a) == {y \in MemberObjects(S) : \A G \in SUBSET MemberObjects(S) : a \in G /\ GoesOn(S, G) => y \in G}

\* What is ahead of a member contains it and is closed under the next step.
LEMMA AheadGoesOn ==
  ASSUME NEW S, WellFormed(S), NEW a \in MemberObjects(S)
  PROVE  /\ a \in Ahead(S, a)
         /\ \A y \in Ahead(S, a) : Followed(S, y) # NONE => Followed(S, y) \in Ahead(S, a)
<1>1. a \in Ahead(S, a)
  BY DEF Ahead
<1>2. ASSUME NEW y \in Ahead(S, a), Followed(S, y) # NONE PROVE Followed(S, y) \in Ahead(S, a)
  <2>1. y \in MemberObjects(S)
    BY DEF Ahead
  <2>2. Followed(S, y) \in MemberObjects(S)
    BY <1>2, <2>1, FollowedStaysInBlock
  <2>3. ASSUME NEW G \in SUBSET MemberObjects(S), a \in G, GoesOn(S, G) PROVE Followed(S, y) \in G
    <3>1. y \in G
      BY <2>3 DEF Ahead
    <3> QED
      BY <1>2, <2>3, <3>1 DEF GoesOn
  <2> QED
    BY <2>2, <2>3 DEF Ahead
<1> QED
  BY <1>1, <1>2

\* A chain that comes back to where it was is endless.
LEMMA BackIsEndless ==
  ASSUME NEW S, WellFormed(S), NEW a \in MemberObjects(S), NEW m \in Ahead(S, a),
         Followed(S, m) = a
  PROVE  a \in Endless(S)
<1> DEFINE E == {y \in Ahead(S, a) : m \in Ahead(S, y)}
<1>1. E \in SUBSET MemberObjects(S) /\ a \in E
  BY AheadGoesOn DEF Ahead
<1>2. ASSUME NEW y \in E PROVE Followed(S, y) \in E
  <2>1. y \in MemberObjects(S) /\ y \in Ahead(S, a) /\ m \in Ahead(S, y) /\ a # NONE
    BY ObjectFacts DEF Ahead, MemberObjects
  <2> DEFINE next == Followed(S, y)
             G == {y} \cup (IF next = NONE THEN {} ELSE Ahead(S, next))
  <2>2. next # NONE => next \in MemberObjects(S)
    BY <2>1, FollowedStaysInBlock
  <2>3. G \in SUBSET MemberObjects(S)
    BY <2>1 DEF Ahead
  <2>4. GoesOn(S, G)
    <3> SUFFICES ASSUME NEW x \in G PROVE Followed(S, x) \in G \cup {NONE}
      BY DEF GoesOn
    <3> HIDE DEF next
    <3>1. CASE x = y
      <4>1. next # NONE => next \in G
        BY <2>2, AheadGoesOn
      <4> QED
        BY <3>1, <4>1 DEF next
    <3>2. CASE x # y
      <4>1. next # NONE /\ x \in Ahead(S, next)
        BY <3>2
      <4> QED
        BY <2>2, <4>1, AheadGoesOn
    <3> QED
      BY <3>1, <3>2
  <2>5. m \in G
    BY <2>1, <2>3, <2>4 DEF Ahead
  <2>6. CASE m = y
    <3>1. next = a
      BY <2>6
    <3> QED
      BY <1>1, <3>1
  <2>7. CASE m # y
    <3>1. next # NONE /\ m \in Ahead(S, next)
      BY <2>5, <2>7
    <3>2. next \in Ahead(S, a)
      BY <2>1, <3>1, AheadGoesOn
    <3> QED
      BY <3>1, <3>2
  <2> QED
    BY <2>6, <2>7
<1> HIDE DEF E
<1> QED
  BY <1>1, <1>2 DEF Endless

\* So is what leads back to it.
LEMMA ComesBackIsEndless ==
  ASSUME NEW S, WellFormed(S), NEW a \in MemberObjects(S), NEW m \in Ahead(S, a),
         Followed(S, m) = a
  PROVE  m \in Endless(S)
<1>1. a \in Endless(S)
  BY BackIsEndless
<1>2. PICK E \in SUBSET MemberObjects(S) : a \in E /\ \A x \in E : Followed(S, x) \in E
  BY <1>1 DEF Endless
<1> DEFINE F == E \cup {m}
<1>3. F \in SUBSET MemberObjects(S) /\ m \in F
  BY DEF Ahead
<1>4. \A x \in F : Followed(S, x) \in F
  BY <1>2
<1> HIDE DEF F
<1> QED
  BY <1>3, <1>4 DEF Endless

-----------------------------------------------------------------------------
(* What the types of the locals that depend on other files mean to the     *)
(* resolver: nothing.                                                      *)

\* These types give the locals that have a type of their own the same.
SameOwnTypes(S, types, others) ==
    \A o \in OfKind(S, "local") : Sym(o).source = NONE => types[o] = others[o]

\* Two assignments of types that agree on the locals without a source give every
\* member the same class and type: the types that the resolver has assigned to
\* the others are not read where they would make a difference.
LEMMA SourcedTypesDoNotMatter ==
  ASSUME NEW S, WellFormed(S), NEW types, NEW others,
         CirclesUntyped(S, types), CirclesUntyped(S, others), SameOwnTypes(S, types, others),
         NEW m \in MemberObjects(S)
  PROVE  MembersOf(S, types)[<<m, {}>>] = MembersOf(S, others)[<<m, {}>>]
<1> DEFINE V == MembersOf(S, types)
           W == MembersOf(S, others)
           D == Calls(S)
           size == [call \in D |-> SizeOf(S, call)]
           \* resolving holds locals that led here
           Led(call) == \A o \in call[2] : Sym(o).source # NONE /\ call[1] \in Ahead(S, SourceOf(o))
           bad == {call \in D : Led(call) /\ V[call] # W[call]}
<1>1. size \in [D -> Nat] /\ bad \in SUBSET D
  BY SizesAreNumbers
<1> SUFFICES ASSUME bad # {} PROVE FALSE
  <2>1. <<m, {}>> \in D /\ Led(<<m, {}>>)
    BY DEF Calls
  <2> HIDE DEF V, W, Led
  <2> QED
    BY <2>1 DEF V, W
<1>2. PICK call \in bad : \A other \in bad : size[call] <= size[other]
  <2> HIDE DEF bad, size, D
  <2> QED
    BY <1>1, SmallestExists
<1>3. call \in Calls(S) /\ Led(call) /\ V[call] # W[call]
  BY <1>2
<1>4. ASSUME NEW next \in Calls(S), Led(next), SizeOf(S, next) < SizeOf(S, call)
      PROVE  V[next] = W[next]
  <2>1. size[next] = SizeOf(S, next) /\ size[call] = SizeOf(S, call)
    BY <1>3
  <2>2. SizeOf(S, next) \in Nat /\ SizeOf(S, call) \in Nat
    BY <1>3, SizesAreNumbers
  <2>3. next \notin bad
    <3> HIDE DEF bad, size
    <3> QED
      BY <1>2, <1>4, <2>1, <2>2
  <2> HIDE DEF V, W, Led
  <2> QED
    BY <1>4, <2>3
<1> DEFINE x == call[1]
           X == call[2]
           local == LocalOf(x, Index(S))
           parameter == <<OwnerOf(x), Sym(x).variable>>
<1>5. /\ x \in MemberObjects(S) /\ X \in SUBSET OfKind(S, "local") /\ call = <<x, X>>
  BY <1>3 DEF Calls
<1>6. Unfolds(S, types, x, X) /\ Unfolds(S, others, x, X)
  BY <1>5, CallsUnfold
<1>7. \A o \in X : /\ o \in OfKind(S, "local") /\ Sym(o).source # NONE
                   /\ x \in Ahead(S, SourceOf(o)) /\ SourceOf(o) \in MemberObjects(S)
  BY <1>3, <1>5, SourcesArePresent
<1> HIDE DEF V, W, bad, size, D, x, X, local, parameter
<1>8. V[call].class = W[call].class
  <2>1. CASE Sym(x).receiver # NONE
    <3> DEFINE next == <<Followed(S, x), X>>
    <3>1. Followed(S, x) = Linked(x, Sym(x).receiver) /\ Followed(S, x) # NONE
      BY <1>5, <2>1, ReceiversComeBefore DEF Followed
    <3>2. next \in Calls(S) /\ SizeOf(S, next) < SizeOf(S, call)
      BY <1>3, <2>1, <3>1, CallsGetSmaller DEF x, X
    <3>3. Led(next)
      BY <1>7, <3>1, AheadGoesOn
    <3>4. V[next].type = W[next].type
      BY <1>4, <3>2, <3>3
    <3> QED
      BY <1>5, <1>6, <2>1, <3>4 DEF Unfolds, V, W
  <2>2. CASE Sym(x).receiver = NONE /\ ~ FollowsLocal(S, x)
    <3>1. CASE Sym(x).variable = "$this" \/ parameter \in DOMAIN Index(S).parameters \/ local = NONE
      BY <1>5, <1>6, <2>2, <3>1 DEF Unfolds, V, W, parameter, local
    <3>2. CASE ~ (Sym(x).variable = "$this" \/ parameter \in DOMAIN Index(S).parameters \/ local = NONE)
      <4>1. Sym(local).source = NONE
        BY <2>2, <3>2 DEF FollowsLocal, parameter, local
      <4>2. types[local] = others[local]
        BY <1>5, <3>2, <4>1, LocalsAreNear DEF SameOwnTypes, local
      <4> QED
        BY <1>5, <1>6, <2>2, <3>2, <4>1, <4>2 DEF Unfolds, V, W, parameter, local
    <3> QED
      BY <3>1, <3>2
  <2>3. CASE Sym(x).receiver = NONE /\ FollowsLocal(S, x)
    <3>1. /\ Sym(x).variable # "$this" /\ parameter \notin DOMAIN Index(S).parameters
          /\ local # NONE /\ Sym(local).source # NONE
          /\ Followed(S, x) = SourceOf(local)
      BY <2>3 DEF FollowsLocal, Followed, local, parameter
    <3>2. local \in OfKind(S, "local")
      BY <1>5, <3>1, LocalsAreNear DEF local
    <3>3. SourceOf(local) \in MemberObjects(S) /\ SourceOf(local) # NONE
      BY <3>1, <3>2, SourcesArePresent, ObjectFacts DEF MemberObjects
    <3>4. CASE local \in X
      <4>1. SourceOf(local) \in Endless(S)
        BY <1>7, <3>1, <3>3, <3>4, BackIsEndless
      <4>2. types[local] = NONE /\ others[local] = NONE
        BY <3>1, <3>2, <4>1 DEF CirclesUntyped
      <4> QED
        BY <1>5, <1>6, <2>3, <3>1, <3>4, <4>2 DEF Unfolds, V, W, parameter, local
    <3>5. CASE local \notin X
      <4> DEFINE next == <<SourceOf(local), X \cup {local}>>
      <4>1. next \in Calls(S) /\ SizeOf(S, next) < SizeOf(S, call)
        BY <1>3, <3>1, <3>5, CallsGetSmaller DEF x, X, local
      <4>2. Led(next)
        <5>1. \A o \in X : SourceOf(local) \in Ahead(S, SourceOf(o))
          BY <1>7, <3>1, <3>3, AheadGoesOn
        <5>2. SourceOf(local) \in Ahead(S, SourceOf(local))
          BY <3>3, AheadGoesOn
        <5> QED
          BY <1>7, <3>1, <5>1, <5>2
      <4>3. V[next] = W[next]
        <5> HIDE DEF Led
        <5> QED
          BY <1>4, <4>1, <4>2
      <4> QED
        BY <1>5, <1>6, <2>3, <3>1, <3>5, <4>3 DEF Unfolds, V, W, parameter, local
    <3> QED
      BY <3>4, <3>5
  <2> QED
    BY <2>1, <2>2, <2>3
<1>9. V[call] = W[call]
  BY <1>5, <1>6, <1>8 DEF Unfolds, V, W
<1> QED
  BY <1>3, <1>9

\* The members that are met when a call follows the sources of these locals.
LedBy(S, call) == \A o \in call[2] : Sym(o).source # NONE /\ call[1] \in Ahead(S, SourceOf(o))

\* The locals that led to a member do not change what it is: where the recursion
\* would come to one of them again there is nothing to be found.
LEMMA ResolvingDoesNotMatter ==
  ASSUME NEW S, WellFormed(S), NEW types, CirclesUntyped(S, types),
         NEW m \in MemberObjects(S), NEW R \in SUBSET OfKind(S, "local"), LedBy(S, <<m, R>>)
  PROVE  MembersOf(S, types)[<<m, R>>] = MembersOf(S, types)[<<m, {}>>]
<1> DEFINE V == MembersOf(S, types)
           D == Calls(S)
           size == [call \in D |-> SizeOf(S, call)]
           bad == {call \in D : /\ LedBy(S, call)
                                /\ \E Q \in SUBSET OfKind(S, "local") :
                                     LedBy(S, <<call[1], Q>>) /\ V[call] # V[<<call[1], Q>>]}
<1>1. size \in [D -> Nat] /\ bad \in SUBSET D
  BY SizesAreNumbers
<1> SUFFICES ASSUME bad # {} PROVE FALSE
  <2>1. <<m, R>> \in D /\ LedBy(S, <<m, {}>>)
    BY DEF Calls, LedBy
  <2> HIDE DEF V
  <2> QED
    BY <2>1 DEF V
<1>2. PICK call \in bad : \A other \in bad : size[call] <= size[other]
  <2> HIDE DEF bad, size, D
  <2> QED
    BY <1>1, SmallestExists
<1> DEFINE x == call[1]
           X == call[2]
           local == LocalOf(x, Index(S))
           parameter == <<OwnerOf(x), Sym(x).variable>>
<1>3. /\ call \in Calls(S) /\ LedBy(S, call)
      /\ \E Q \in SUBSET OfKind(S, "local") : LedBy(S, <<x, Q>>) /\ V[call] # V[<<x, Q>>]
  BY <1>2
<1>q. PICK Q \in SUBSET OfKind(S, "local") : LedBy(S, <<x, Q>>) /\ V[call] # V[<<x, Q>>]
  BY <1>3
<1>5. /\ x \in MemberObjects(S) /\ X \in SUBSET OfKind(S, "local") /\ call = <<x, X>>
  BY <1>3 DEF Calls
<1>4. ASSUME NEW y, NEW Y, <<y, Y>> \in Calls(S), LedBy(S, <<y, Y>>),
             SizeOf(S, <<y, Y>>) < SizeOf(S, call),
             NEW P \in SUBSET OfKind(S, "local"), LedBy(S, <<y, P>>)
      PROVE  V[<<y, Y>>] = V[<<y, P>>]
  <2> DEFINE next == <<y, Y>>
  <2>1. size[next] = SizeOf(S, next) /\ size[call] = SizeOf(S, call)
    BY <1>3, <1>4
  <2>2. SizeOf(S, next) \in Nat /\ SizeOf(S, call) \in Nat
    BY <1>3, <1>4, SizesAreNumbers
  <2>3. next \notin bad
    <3> HIDE DEF bad, size
    <3> QED
      BY <1>2, <1>4, <2>1, <2>2
  <2>4. next[1] = y /\ next \in D
    BY <1>4
  <2> HIDE DEF V
  <2> QED
    BY <1>4, <2>3, <2>4
<1>6. Unfolds(S, types, x, X) /\ Unfolds(S, types, x, Q)
  BY <1>5, CallsUnfold
<1>7. \A o \in X \cup Q : /\ o \in OfKind(S, "local") /\ Sym(o).source # NONE
                          /\ x \in Ahead(S, SourceOf(o)) /\ SourceOf(o) \in MemberObjects(S)
  BY <1>3, <1>5, <1>q, SourcesArePresent DEF LedBy
<1>8. x \notin Endless(S)
  <2> SUFFICES ASSUME x \in Endless(S) PROVE FALSE
    OBVIOUS
  <2>1. /\ V[<<x, X>>].class = NONE /\ V[<<x, X>>].type = NONE
        /\ V[<<x, Q>>].class = NONE /\ V[<<x, Q>>].type = NONE
    BY <1>5, NothingFromCircles
  <2> HIDE DEF V
  <2>2. V[<<x, X>>] = V[<<x, Q>>]
    BY <1>6, <2>1 DEF Unfolds, V
  <2> QED
    BY <1>5, <1>q, <2>2
<1> HIDE DEF V, bad, size, D, x, X, local, parameter
<1>9. V[<<x, X>>].class = V[<<x, Q>>].class
  <2>1. CASE Sym(x).receiver # NONE
    <3>1. Followed(S, x) = Linked(x, Sym(x).receiver) /\ Followed(S, x) # NONE
      BY <1>5, <2>1, ReceiversComeBefore DEF Followed
    <3>2. /\ <<Followed(S, x), X>> \in Calls(S)
          /\ SizeOf(S, <<Followed(S, x), X>>) < SizeOf(S, call)
      BY <1>3, <2>1, <3>1, CallsGetSmaller DEF x, X
    <3>3. LedBy(S, <<Followed(S, x), X>>) /\ LedBy(S, <<Followed(S, x), Q>>)
      BY <1>7, <3>1, AheadGoesOn DEF LedBy
    <3>4. V[<<Followed(S, x), X>>] = V[<<Followed(S, x), Q>>]
      BY <1>4, <3>2, <3>3
    <3> QED
      BY <1>6, <2>1, <3>4 DEF Unfolds, V
  <2>2. CASE Sym(x).receiver = NONE /\ ~ FollowsLocal(S, x)
    BY <1>6, <2>2 DEF Unfolds, FollowsLocal, V
  <2>3. CASE Sym(x).receiver = NONE /\ FollowsLocal(S, x)
    <3>1. /\ Sym(x).variable # "$this" /\ parameter \notin DOMAIN Index(S).parameters
          /\ local # NONE /\ Sym(local).source # NONE
          /\ Followed(S, x) = SourceOf(local)
      BY <2>3 DEF FollowsLocal, Followed, local, parameter
    <3>2. local \in OfKind(S, "local")
      BY <1>5, <3>1, LocalsAreNear DEF local
    <3>3. SourceOf(local) \in MemberObjects(S) /\ SourceOf(local) # NONE
      BY <3>1, <3>2, SourcesArePresent, ObjectFacts DEF MemberObjects
    <3>4. local \notin X \cup Q
      <4> SUFFICES ASSUME local \in X \cup Q PROVE FALSE
        OBVIOUS
      <4>1. x \in Ahead(S, SourceOf(local))
        BY <1>7
      <4>2. x \in Endless(S)
        BY <1>5, <3>1, <3>3, <4>1, ComesBackIsEndless
      <4> QED
        BY <1>8, <4>2
    <3>5. /\ <<SourceOf(local), X \cup {local}>> \in Calls(S)
          /\ SizeOf(S, <<SourceOf(local), X \cup {local}>>) < SizeOf(S, call)
      BY <1>3, <3>1, <3>4, CallsGetSmaller DEF x, X, local
    <3>6. /\ LedBy(S, <<SourceOf(local), X \cup {local}>>)
          /\ LedBy(S, <<SourceOf(local), Q \cup {local}>>)
      <4>1. \A o \in X \cup Q : SourceOf(local) \in Ahead(S, SourceOf(o))
        BY <1>7, <3>1, <3>3, AheadGoesOn
      <4>2. SourceOf(local) \in Ahead(S, SourceOf(local))
        BY <3>3, AheadGoesOn
      <4> QED
        BY <1>7, <3>1, <4>1, <4>2 DEF LedBy
    <3>7. V[<<SourceOf(local), X \cup {local}>>] = V[<<SourceOf(local), Q \cup {local}>>]
      BY <1>4, <3>2, <3>5, <3>6
    <3>8. /\ V[<<x, X>>].class = ClassOf(FromSource(local, V[<<SourceOf(local), X \cup {local}>>].type), Index(S))
          /\ V[<<x, Q>>].class = ClassOf(FromSource(local, V[<<SourceOf(local), Q \cup {local}>>].type), Index(S))
      BY <1>6, <2>3, <3>1, <3>4 DEF Unfolds, V, parameter, local
    <3> QED
      BY <3>7, <3>8
  <2> QED
    BY <2>1, <2>2, <2>3
<1>10. V[<<x, X>>] = V[<<x, Q>>]
  BY <1>6, <1>9 DEF Unfolds, V
<1> QED
  BY <1>5, <1>q, <1>10

-----------------------------------------------------------------------------
(* What is around a symbol in its block is all that its chain depends on.  *)

\* What the scope of an owner declares depends on the file of the owner alone.
LEMMA ScopedInBlock ==
  ASSUME NEW S, NEW T, WellFormed(S), WellFormed(T),
         NEW kind \in OwnedKinds, NEW owner, owner # NONE, owner[1] \in S, owner[1] \in T, NEW name
  PROVE  Scoped(S, kind, owner, name) = Scoped(T, kind, owner, name)
<1>1. ASSUME NEW U, NEW W, WellFormed(U), owner[1] \in W, NEW o \in Scoped(U, kind, owner, name)
      PROVE  o \in Scoped(W, kind, owner, name)
  <2>1. o \in Objects(U) /\ Sym(o).kind = kind /\ OwnerOf(o) = owner /\ Sym(o).name = name
    BY DEF Scoped, OfKind
  <2>2. o[1] = owner[1] /\ o = <<o[1], o[2]>> /\ o[2] \in DOMAIN Parse[o[1].text]
    BY <1>1, <2>1, OwnersArePresent, ObjectFacts
  <2>3. o \in Objects(W)
    BY <1>1, <2>2, ObjectsOfBlocks
  <2> QED
    BY <2>1, <2>3 DEF Scoped, OfKind
<1>2. Scoped(S, kind, owner, name) \subseteq Scoped(T, kind, owner, name)
  BY <1>1
<1>3. Scoped(T, kind, owner, name) \subseteq Scoped(S, kind, owner, name)
  BY <1>1
<1> QED
  BY <1>2, <1>3

\* So does the next member of a chain,
LEMMA FollowedInBlock ==
  ASSUME NEW S, NEW T, WellFormed(S), WellFormed(T), NEW m \in MemberObjects(S), m[1] \in T
  PROVE  m \in MemberObjects(T) /\ Followed(S, m) = Followed(T, m)
<1>1. m \in Objects(S) /\ Sym(m).kind \in MemberKinds /\ m[1] \in S
  BY ObjectFacts DEF MemberObjects
<1>2. m \in MemberObjects(T)
  BY <1>1, ObjectFacts, ObjectsOfBlocks DEF MemberObjects
<1>3. \A U : LocalOf(m, Index(U)) = FirstOf(Scoped(U, "local", OwnerOf(m), Sym(m).variable))
  <2>1. \A U, owner, name : Get(Index(U).locals, <<owner, name>>) = FirstOf(Scoped(U, "local", owner, name))
    BY ScopedLookupIsFirst
  <2> QED
    BY <2>1 DEF LocalOf
<1>4. \A U : <<OwnerOf(m), Sym(m).variable>> \in DOMAIN Index(U).parameters
               <=> Scoped(U, "parameter", OwnerOf(m), Sym(m).variable) # {}
  BY ScopedLookupIsFirst
<1>5. OwnerOf(m) # NONE => OwnerOf(m)[1] = m[1]
  BY <1>1, OwnersArePresent DEF OwnedKinds
<1>6. CASE OwnerOf(m) = NONE
  <2>1. LocalOf(m, Index(S)) = NONE /\ LocalOf(m, Index(T)) = NONE
    BY <1>2, <1>6, LocalsAreNear
  <2>2. ~ FollowsLocal(S, m) /\ ~ FollowsLocal(T, m)
    BY <2>1 DEF FollowsLocal
  <2> QED
    BY <1>2, <2>2 DEF Followed
<1>7. CASE OwnerOf(m) # NONE
  <2>1. /\ Scoped(S, "local", OwnerOf(m), Sym(m).variable) = Scoped(T, "local", OwnerOf(m), Sym(m).variable)
        /\ Scoped(S, "parameter", OwnerOf(m), Sym(m).variable)
             = Scoped(T, "parameter", OwnerOf(m), Sym(m).variable)
    BY <1>1, <1>5, <1>7, ScopedInBlock DEF OwnedKinds
  <2>2. LocalOf(m, Index(S)) = LocalOf(m, Index(T))
    BY <1>3, <2>1
  <2>3. FollowsLocal(S, m) <=> FollowsLocal(T, m)
    BY <1>4, <2>1, <2>2 DEF FollowsLocal
  <2> QED
    BY <1>2, <2>2, <2>3 DEF Followed
<1> QED
  BY <1>6, <1>7

\* and whether the chain goes on for ever.
LEMMA EndlessInBlock ==
  ASSUME NEW S, NEW T, WellFormed(S), WellFormed(T), NEW m \in Endless(S), m[1] \in T
  PROVE  m \in Endless(T)
<1>1. PICK E \in SUBSET MemberObjects(S) : m \in E /\ \A x \in E : Followed(S, x) \in E
  BY DEF Endless
<1> DEFINE F == {x \in E : x[1] = m[1]}
<1>2. ASSUME NEW x \in F PROVE x \in MemberObjects(T) /\ Followed(T, x) \in F
  <2>1. x \in MemberObjects(S) /\ x[1] = m[1] /\ Followed(S, x) \in E
    BY <1>1
  <2>2. x \in MemberObjects(T) /\ Followed(T, x) = Followed(S, x)
    BY <2>1, FollowedInBlock
  <2>3. Followed(S, x) # NONE
    BY <1>1, <2>1, ObjectFacts DEF MemberObjects
  <2>4. Followed(S, x)[1] = x[1]
    BY <2>1, <2>3, FollowedStaysInBlock
  <2> QED
    BY <2>1, <2>2, <2>4
<1>3. m \in F /\ F \in SUBSET MemberObjects(T)
  BY <1>1, <1>2
<1> HIDE DEF F
<1> QED
  BY <1>2, <1>3 DEF Endless

-----------------------------------------------------------------------------
(* The types the resolver gives.                                           *)

\* Among some objects there is one that no other comes before.
LEMMA EarliestExists ==
  ASSUME NEW S, WellFormed(S), NEW X \in SUBSET Objects(S), X # {}
  PROVE  \E o \in X : \A p \in X : ~ Before(p, o)
<1>1. \A o \in X : o[1].at \in Nat /\ o[2] \in Nat
  BY ObjectFacts
<1> DEFINE ats == {o[1].at : o \in X}
<1>2. ats \in SUBSET Nat /\ ats # {}
  BY <1>1
<1>3. PICK at \in ats : \A k \in ats : at <= k
  BY <1>2, LeastExists
<1> DEFINE places == {o[2] : o \in {p \in X : p[1].at = at}}
<1>4. places \in SUBSET Nat /\ places # {}
  BY <1>1, <1>3
<1>5. PICK i \in places : \A j \in places : i <= j
  BY <1>4, LeastExists
<1>6. PICK o \in X : o[1].at = at /\ o[2] = i
  BY <1>5
<1>7. ASSUME NEW p \in X PROVE ~ Before(p, o)
  <2>1. at <= p[1].at /\ (p[1].at = at => i <= p[2])
    BY <1>3, <1>5
  <2> QED
    BY <1>1, <1>6, <2>1 DEF Before
<1> QED
  BY <1>6, <1>7

\* The types that the locals have of their own: those found in the file.
OwnTypes(S) == [o \in OfKind(S, "local") |-> Sym(o).type]

\* The types a resolution of the collection may start from: the locals that
\* have a type of their own have it, and those of circles have none.
MayStart(S, types) ==
    /\ OfKind(S, "local") \subseteq DOMAIN types
    /\ CirclesUntyped(S, types)
    /\ \A o \in OfKind(S, "local") : Sym(o).source = NONE => types[o] = Sym(o).type

\* The resolver may start from the types that were found in the files.
LEMMA OwnTypesMayStart ==
  ASSUME NEW S, WellFormed(S)
  PROVE  MayStart(S, OwnTypes(S))
<1>1. \A o \in OfKind(S, "local") : Sym(o).source # NONE => Sym(o).type = NONE
  BY SourcesArePresent
<1> QED
  BY <1>1 DEF MayStart, OwnTypes, CirclesUntyped

\* The type that a local takes from its source.
SourceType(S, local) ==
    FromSource(local, MembersOf(S, OwnTypes(S))[<<SourceOf(local), {}>>].type)

\* A local whose source leads back to it for ever gets no type.
LEMMA CirclesGiveNothing ==
  ASSUME NEW S, WellFormed(S), NEW o \in OfKind(S, "local"), SourceOf(o) \in Endless(S)
  PROVE  SourceType(S, o) = NONE
<1>1. CirclesUntyped(S, OwnTypes(S)) /\ {} \in SUBSET OfKind(S, "local")
  BY OwnTypesMayStart DEF MayStart
<1>2. MembersOf(S, OwnTypes(S))[<<SourceOf(o), {}>>].type = NONE
  BY <1>1, NothingFromCircles
<1> QED
  BY <1>2 DEF SourceType, FromSource, ElementOf, WithoutNull

\* Each local that is assigned from a source gets the same type whatever the
\* types were, and whatever the locals before it have just got.
LEMMA ResolvedLocals ==
  ASSUME NEW S, WellFormed(S), NEW types, MayStart(S, types), NEW o \in OfKind(S, "local")
  PROVE  ResolvedTypes(S, types)[o] =
           IF Sym(o).source = NONE THEN Sym(o).type ELSE SourceType(S, o)
<1> DEFINE Sourced == {p \in OfKind(S, "local") : Sym(p).source # NONE}
           Now(h, local) == [p \in DOMAIN types |->
                               IF p \in Sourced /\ Before(p, local) THEN h[p] ELSE types[p]]
           Given(h, local) == FromSource(local, MembersOf(S, Now(h, local))[<<SourceOf(local), {}>>].type)
           Solves(h) == h = [local \in Sourced |-> Given(h, local)]
           resolved == CHOOSE h : Solves(h)
           final == [p \in Sourced |-> SourceType(S, p)]
<1>1. ResolvedTypes(S, types) = [p \in DOMAIN types |-> IF p \in Sourced THEN resolved[p] ELSE types[p]]
  BY DEF ResolvedTypes, MembersOf
<1>2. /\ OfKind(S, "local") \subseteq DOMAIN types /\ CirclesUntyped(S, types)
      /\ \A p \in OfKind(S, "local") : Sym(p).source = NONE => types[p] = Sym(p).type
  BY DEF MayStart
<1>3. \A p \in Sourced : p \in OfKind(S, "local") /\ Sym(p).source # NONE /\ p \in DOMAIN types
  BY <1>2
\* what is assigned up to some local are the final types
<1>4. ASSUME NEW h, NEW local \in Sourced, \A p \in Sourced : Before(p, local) => h[p] = final[p]
      PROVE  Given(h, local) = SourceType(S, local)
  <2> DEFINE now == Now(h, local)
  <2>1. \A p \in DOMAIN types : now[p] = IF p \in Sourced /\ Before(p, local) THEN final[p] ELSE types[p]
    BY <1>4
  <2>2. \A p \in OfKind(S, "local") : p \in DOMAIN types
    BY <1>2
  <2> HIDE DEF now
  <2>3. CirclesUntyped(S, now)
    <3> SUFFICES ASSUME NEW p \in OfKind(S, "local"), Sym(p).source # NONE, SourceOf(p) \in Endless(S)
                 PROVE  now[p] = NONE
      BY DEF CirclesUntyped
    <3>1. types[p] = NONE
      BY <1>2 DEF CirclesUntyped
    <3>2. final[p] = NONE
      BY CirclesGiveNothing
    <3> QED
      BY <2>1, <2>2, <3>1, <3>2
  <2>4. SameOwnTypes(S, now, OwnTypes(S))
    <3> SUFFICES ASSUME NEW p \in OfKind(S, "local"), Sym(p).source = NONE
                 PROVE  now[p] = Sym(p).type
      BY DEF SameOwnTypes, OwnTypes
    <3>1. p \notin Sourced
      OBVIOUS
    <3> HIDE DEF Sourced
    <3> QED
      BY <1>2, <2>1, <2>2, <3>1
  <2>5. CirclesUntyped(S, OwnTypes(S))
    BY OwnTypesMayStart DEF MayStart
  <2>6. SourceOf(local) \in MemberObjects(S)
    BY <1>3, SourcesArePresent
  <2>7. MembersOf(S, now)[<<SourceOf(local), {}>>] = MembersOf(S, OwnTypes(S))[<<SourceOf(local), {}>>]
    BY <2>3, <2>4, <2>5, <2>6, SourcedTypesDoNotMatter
  <2> QED
    BY <2>7 DEF now, SourceType
<1> HIDE DEF Given
<1>5. Solves(final)
  BY <1>4
<1>6. Solves(resolved)
  <2> HIDE DEF Solves, final
  <2> QED
    BY <1>5
<1>7. \A p \in Sourced : resolved[p] = Given(resolved, p)
  <2> HIDE DEF resolved, Sourced
  <2> QED
    BY <1>6
<1>8. \A p \in Sourced : resolved[p] = final[p]
  <2> DEFINE bad == {p \in Sourced : resolved[p] # final[p]}
  <2> SUFFICES ASSUME bad # {} PROVE FALSE
    OBVIOUS
  <2>1. bad \in SUBSET Objects(S)
    BY DEF OfKind
  <2>2. PICK p \in bad : \A q \in bad : ~ Before(q, p)
    <3> HIDE DEF bad
    <3> QED
      BY <2>1, EarliestExists
  <2> HIDE DEF resolved, final, Sourced
  <2>3. p \in Sourced /\ resolved[p] # final[p]
    BY <2>2
  <2>4. \A q \in Sourced : Before(q, p) => resolved[q] = final[q]
    BY <2>2
  <2>5. resolved[p] = SourceType(S, p)
    BY <1>4, <1>7, <2>3, <2>4
  <2> QED
    BY <2>3, <2>5 DEF final
<1> HIDE DEF resolved
<1>9. CASE Sym(o).source = NONE
  <2>1. ResolvedTypes(S, types)[o] = types[o]
    BY <1>1, <1>2, <1>9
  <2> QED
    BY <1>2, <1>9, <2>1
<1>10. CASE Sym(o).source # NONE
  <2>1. o \in Sourced /\ o \in DOMAIN types
    BY <1>3, <1>10
  <2>2. ResolvedTypes(S, types)[o] = resolved[o]
    BY <1>1, <2>1
  <2> QED
    BY <1>8, <1>10, <2>1, <2>2
<1> QED
  BY <1>9, <1>10

\* References are linked as from the types found in the files.
LEMMA DefinitionsFromAnywhere ==
  ASSUME NEW S, WellFormed(S), NEW types, MayStart(S, types)
  PROVE  Definitions(S, types) = Definitions(S, OwnTypes(S))
<1> DEFINE V == MembersOf(S, types)
           W == MembersOf(S, OwnTypes(S))
<1>1. ASSUME NEW o \in References(S) PROVE DefinitionOf(o, V, Index(S)) = DefinitionOf(o, W, Index(S))
  <2>1. CASE Sym(o).kind \in MemberKinds
    <3>1. o \in MemberObjects(S)
      BY <2>1 DEF References, MemberObjects
    <3>2. V[<<o, {}>>] = W[<<o, {}>>]
      <4>1. MayStart(S, OwnTypes(S)) /\ SameOwnTypes(S, types, OwnTypes(S))
        BY OwnTypesMayStart DEF MayStart, SameOwnTypes, OwnTypes
      <4> QED
        BY <3>1, <4>1, SourcedTypesDoNotMatter DEF MayStart
    <3> HIDE DEF V, W
    <3> QED
      BY <3>2 DEF DefinitionOf
  <2>2. CASE Sym(o).kind \notin MemberKinds
    BY <2>2 DEF DefinitionOf
  <2> QED
    BY <2>1, <2>2
<1>2. /\ Definitions(S, types) = [o \in References(S) |-> DefinitionOf(o, V, Index(S))]
      /\ Definitions(S, OwnTypes(S)) = [o \in References(S) |-> DefinitionOf(o, W, Index(S))]
  BY DEF Definitions, MembersOf
<1> HIDE DEF V, W
<1> QED
  BY <1>1, <1>2

-----------------------------------------------------------------------------
(* Two collections of the same contents.                                   *)

\* A least element in the order of the lists, of objects of one block.
LEMMA FirstInBlock ==
  ASSUME NEW S, WellFormed(S), NEW X \in SUBSET Objects(S), X # {},
         \A o, p \in X : o[1] = p[1]
  PROVE  FirstOf(X) \in X /\ \A o \in X : FirstOf(X)[2] <= o[2]
<1>1. \A o \in X : o[2] \in Nat /\ o = <<o[1], o[2]>> /\ o[1].at \in Nat
  BY ObjectFacts
<1>2. PICK o \in X : \A p \in X : o[2] <= p[2]
  <2> DEFINE places == {o[2] : o \in X}
  <2>1. places \in SUBSET Nat /\ places # {}
    BY <1>1
  <2>2. PICK i \in places : \A j \in places : i <= j
    BY <2>1, LeastExists
  <2> QED
    BY <2>2
<1>3. ASSUME NEW p \in X, p # o PROVE Before(o, p)
  <2>1. o[1] = p[1] /\ o[2] <= p[2] /\ o[2] # p[2]
    BY <1>1, <1>2, <1>3
  <2> QED
    BY <1>1, <2>1 DEF Before
<1>4. IsFirst(o, X)
  BY <1>3 DEF IsFirst
<1>5. FirstOf(X) = o
  BY <1>4, FirstIsUnique
<1> QED
  BY <1>2, <1>5

\* T has the contents of S, file by file, whenever its blocks were appended.
Twins(S, T) ==
    /\ WellFormed(S) /\ WellFormed(T)
    /\ \A b, c \in S : b.file = c.file => b = c
    /\ \A b, c \in T : b.file = c.file => b = c
    /\ \A b \in S : \E c \in T : c.file = b.file /\ c.text = b.text
    /\ \A c \in T : \E b \in S : c.file = b.file /\ c.text = b.text

\* The block of the same file, and the object at the same place in it.
TwinBlock(T, b) == CHOOSE c \in T : c.file = b.file
Twin(T, o) == IF o = NONE THEN NONE ELSE <<TwinBlock(T, o[1]), o[2]>>

\* Each block has one twin, and each is the twin of one.
LEMMA TwinBlocks ==
  ASSUME NEW S, NEW T, Twins(S, T)
  PROVE  /\ \A b \in S : /\ TwinBlock(T, b) \in T
                         /\ TwinBlock(T, b).file = b.file
                         /\ TwinBlock(T, b).text = b.text
         /\ \A b, c \in S : TwinBlock(T, b) = TwinBlock(T, c) => b = c
         /\ \A c \in T : \E b \in S : TwinBlock(T, b) = c
<1>1. ASSUME NEW b \in S
      PROVE  /\ TwinBlock(T, b) \in T
             /\ TwinBlock(T, b).file = b.file
             /\ TwinBlock(T, b).text = b.text
  <2>1. PICK c \in T : c.file = b.file /\ c.text = b.text
    BY DEF Twins
  <2>2. TwinBlock(T, b) \in T /\ TwinBlock(T, b).file = b.file
    BY <2>1 DEF TwinBlock
  <2>3. TwinBlock(T, b) = c
    BY <2>1, <2>2 DEF Twins
  <2> QED
    BY <2>1, <2>3
<1>2. \A b, c \in S : TwinBlock(T, b) = TwinBlock(T, c) => b = c
  BY <1>1 DEF Twins
<1>3. ASSUME NEW c \in T PROVE \E b \in S : TwinBlock(T, b) = c
  <2>1. PICK b \in S : c.file = b.file
    BY DEF Twins
  <2>2. TwinBlock(T, b) \in T /\ TwinBlock(T, b).file = c.file
    BY <1>1, <2>1
  <2>3. TwinBlock(T, b) = c
    BY <2>2 DEF Twins
  <2> QED
    BY <2>3
<1> QED
  BY <1>1, <1>2, <1>3

\* Twins say the same.
LEMMA TwinObjects ==
  ASSUME NEW S, NEW T, Twins(S, T)
  PROVE  /\ \A o \in Objects(S) : /\ Twin(T, o) \in Objects(T)
                                  /\ Twin(T, o) = <<TwinBlock(T, o[1]), o[2]>>
                                  /\ Sym(Twin(T, o)) = Sym(o)
                                  /\ Twin(T, o) # NONE
         /\ \A o, p \in Objects(S) \cup {NONE} : Twin(T, o) = Twin(T, p) => o = p
         /\ \A p \in Objects(T) : \E o \in Objects(S) : Twin(T, o) = p
<1>0. WellFormed(S) /\ WellFormed(T)
  BY DEF Twins
<1>1. ASSUME NEW o \in Objects(S)
      PROVE  /\ Twin(T, o) \in Objects(T)
             /\ Twin(T, o) = <<TwinBlock(T, o[1]), o[2]>>
             /\ Sym(Twin(T, o)) = Sym(o)
             /\ Twin(T, o) # NONE
  <2> DEFINE c == TwinBlock(T, o[1])
  <2>1. Twin(T, o) = <<c, o[2]>> /\ o[1] \in S /\ o[2] \in DOMAIN Parse[o[1].text]
    BY <1>0, ObjectFacts DEF Twin
  <2>2. c \in T /\ c.text = o[1].text
    BY <2>1, TwinBlocks
  <2> HIDE DEF c
  <2>3. Twin(T, o) \in Objects(T)
    BY <2>1, <2>2, ObjectsOfBlocks
  <2>4. Sym(Twin(T, o)) = Sym(o)
    BY <2>1, <2>2 DEF Sym
  <2> QED
    BY <1>0, <2>1, <2>3, <2>4, ObjectFacts DEF c
<1>2. ASSUME NEW o \in Objects(S) \cup {NONE}, NEW p \in Objects(S) \cup {NONE}, Twin(T, o) = Twin(T, p)
      PROVE  o = p
  <2>1. CASE o = NONE \/ p = NONE
    BY <1>1, <1>2, <2>1 DEF Twin
  <2>2. CASE o # NONE /\ p # NONE
    <3>1. o \in Objects(S) /\ p \in Objects(S)
      BY <2>2
    <3>2. TwinBlock(T, o[1]) = TwinBlock(T, p[1]) /\ o[2] = p[2]
      BY <1>1, <1>2, <3>1
    <3>3. o[1] \in S /\ p[1] \in S /\ o = <<o[1], o[2]>> /\ p = <<p[1], p[2]>>
      BY <1>0, <3>1, ObjectFacts
    <3> QED
      BY <3>2, <3>3, TwinBlocks
  <2> QED
    BY <2>1, <2>2
<1>3. ASSUME NEW p \in Objects(T) PROVE \E o \in Objects(S) : Twin(T, o) = p
  <2>1. p[1] \in T /\ p[2] \in DOMAIN Parse[p[1].text] /\ p = <<p[1], p[2]>>
    BY <1>0, ObjectFacts
  <2>2. PICK b \in S : TwinBlock(T, b) = p[1]
    BY <2>1, TwinBlocks
  <2>3. b.text = p[1].text
    BY <2>2, TwinBlocks
  <2>4. <<b, p[2]>> \in Objects(S)
    BY <2>1, <2>3, ObjectsOfBlocks
  <2>5. Twin(T, <<b, p[2]>>) = p
    BY <1>1, <2>1, <2>2, <2>4
  <2> QED
    BY <2>4, <2>5
<1> QED
  BY <1>1, <1>2, <1>3

\* Nothing is the twin of nothing.
LEMMA TwinOfNone == \A T : Twin(T, NONE) = NONE
BY DEF Twin

\* The links of twins lead to twins.
LEMMA TwinLinks ==
  ASSUME NEW S, NEW T, Twins(S, T), NEW o \in Objects(S)
  PROVE  /\ \A i : i = NONE \/ Linked(o, i) \in Objects(S) =>
                     Linked(Twin(T, o), i) = Twin(T, Linked(o, i))
         /\ Sym(o).kind \in OwnedKinds => OwnerOf(Twin(T, o)) = Twin(T, OwnerOf(o))
<1>0. WellFormed(S) /\ WellFormed(T)
  BY DEF Twins
<1>1. ASSUME NEW i, i = NONE \/ Linked(o, i) \in Objects(S)
      PROVE  Linked(Twin(T, o), i) = Twin(T, Linked(o, i))
  <2>1. CASE i = NONE
    BY <2>1 DEF Linked, Twin
  <2>2. CASE i # NONE
    <3>1. Linked(o, i) = <<o[1], i>> /\ Linked(Twin(T, o), i) = <<Twin(T, o)[1], i>>
      BY <2>2 DEF Linked
    <3>2. Twin(T, o)[1] = TwinBlock(T, o[1])
      BY TwinObjects
    <3> QED
      BY <1>1, <2>2, <3>1, <3>2, TwinObjects
  <2> QED
    BY <2>1, <2>2
<1>2. ASSUME Sym(o).kind \in OwnedKinds PROVE OwnerOf(Twin(T, o)) = Twin(T, OwnerOf(o))
  <2>1. Sym(o).owner = NONE \/ OwnerOf(o) \in Objects(S)
    BY <1>0, <1>2, OwnersArePresent
  <2>2. OwnerOf(Twin(T, o)) = Linked(Twin(T, o), Sym(o).owner)
    BY TwinObjects DEF OwnerOf
  <2> QED
    BY <1>1, <2>1, <2>2 DEF OwnerOf
<1> QED
  BY <1>1, <1>2

\* The first of some objects of one block has its twin as the first of theirs.
LEMMA TwinFirst ==
  ASSUME NEW S, NEW T, Twins(S, T), NEW X \in SUBSET Objects(S),
         \A o, p \in X : o[1] = p[1]
  PROVE  FirstOf({Twin(T, o) : o \in X}) = Twin(T, FirstOf(X))
<1> DEFINE Y == {Twin(T, o) : o \in X}
<1>0. WellFormed(S) /\ WellFormed(T)
  BY DEF Twins
<1>1. CASE X = {}
  BY <1>1, FirstOfNone, TwinOfNone
<1>2. CASE X # {}
  <2> DEFINE d == FirstOf(X)
  <2>1. d \in X /\ \A o \in X : d[2] <= o[2]
    BY <1>0, <1>2, FirstInBlock
  <2>2. \A o \in X : /\ Twin(T, o) = <<TwinBlock(T, o[1]), o[2]>> /\ Twin(T, o) \in Objects(T)
                     /\ o[1] = d[1] /\ o = <<o[1], o[2]>> /\ o[2] \in Nat
    BY <1>0, <2>1, TwinObjects, ObjectFacts
  <2> HIDE DEF d
  <2>3. Y \in SUBSET Objects(T) /\ Twin(T, d) \in Y
    BY <2>1, <2>2
  <2>4. \A p, q \in Y : p[1] = q[1]
    BY <2>2
  <2>5. FirstOf(Y) \in Y /\ \A p \in Y : FirstOf(Y)[2] <= p[2]
    <3> HIDE DEF Y
    <3> QED
      BY <1>0, <2>3, <2>4, FirstInBlock
  <2>6. PICK o \in X : FirstOf(Y) = Twin(T, o)
    BY <2>5
  <2>7. o[2] <= d[2] /\ d[2] <= o[2]
    BY <2>1, <2>2, <2>3, <2>5, <2>6
  <2>8. o = d
    BY <2>1, <2>2, <2>7
  <2> QED
    BY <2>6, <2>8 DEF d
<1> QED
  BY <1>1, <1>2

\* No name is declared in two blocks of a collection.
Unique(S) == \A b, c \in S : b = c \/ Exported(b) \cap Exported(c) = {}

\* The declarations of one name are in one block.
LEMMA DeclaredInOneBlock ==
  ASSUME NEW S, WellFormed(S), Unique(S), NEW kind \in {"class", "function"}, NEW name,
         NEW o \in Declared(S, kind, name), NEW p \in Declared(S, kind, name)
  PROVE  o[1] = p[1]
<1>1. ASSUME NEW q \in Declared(S, kind, name) PROVE q[1] \in S /\ <<kind, name>> \in Exported(q[1])
  <2>1. q \in Objects(S) /\ Sym(q).kind = kind /\ Sym(q).name = name
    BY DEF Declared, OfKind
  <2>2. /\ q[1] \in S /\ q[2] \in DOMAIN Parse[q[1].text]
        /\ Parse[q[1].text][q[2]].kind = kind /\ Parse[q[1].text][q[2]].name = name
    BY <2>1, ObjectFacts
  <2> QED
    BY <2>2 DEF Exported
<1> QED
  BY <1>1 DEF Unique

\* So are those of one owner.
LEMMA ScopedInOneBlock ==
  ASSUME NEW S, WellFormed(S), NEW kind \in OwnedKinds, NEW owner, NEW name,
         owner # NONE \/ kind = "local" \/ (kind = "parameter" /\ Unique(S)),
         NEW o \in Scoped(S, kind, owner, name), NEW p \in Scoped(S, kind, owner, name)
  PROVE  o[1] = p[1]
<1>1. ASSUME NEW q \in Scoped(S, kind, owner, name)
      PROVE  /\ q \in Objects(S) /\ Sym(q).kind = kind /\ Sym(q).name = name /\ OwnerOf(q) = owner
             /\ owner = NONE <=> Sym(q).owner = NONE
             /\ owner # NONE => owner[1] = q[1]
             /\ q[1] \in S /\ q[2] \in DOMAIN Parse[q[1].text] /\ q[1].text \in Texts
             /\ Sym(q) = Parse[q[1].text][q[2]]
  <2>1. q \in Objects(S) /\ Sym(q).kind = kind /\ Sym(q).name = name /\ OwnerOf(q) = owner
    BY DEF Scoped, OfKind
  <2> QED
    BY <2>1, ObjectFacts, OwnersArePresent
<1>2. CASE owner # NONE
  BY <1>1, <1>2
<1>3. CASE owner = NONE /\ kind = "local"
  BY <1>1, <1>3, LocalsAssumption
<1>4. CASE owner = NONE /\ kind = "parameter" /\ Unique(S)
  <2>1. ASSUME NEW q \in Scoped(S, kind, owner, name)
        PROVE  q[1] \in S /\ <<"parameter", name>> \in Exported(q[1])
    BY <1>1, <1>4 DEF Exported
  <2> QED
    BY <1>4, <2>1 DEF Unique
<1> QED
  BY <1>2, <1>3, <1>4

\* The declarations of the twin are the twins of the declarations.
LEMMA TwinDeclared ==
  ASSUME NEW S, NEW T, Twins(S, T), NEW kind, NEW name
  PROVE  Declared(T, kind, name) = {Twin(T, o) : o \in Declared(S, kind, name)}
<1>1. ASSUME NEW o \in Declared(S, kind, name) PROVE Twin(T, o) \in Declared(T, kind, name)
  BY TwinObjects DEF Declared, OfKind
<1>2. ASSUME NEW p \in Declared(T, kind, name)
      PROVE  \E o \in Declared(S, kind, name) : p = Twin(T, o)
  <2>1. p \in Objects(T) /\ Sym(p).kind = kind /\ Sym(p).name = name
    BY DEF Declared, OfKind
  <2>2. PICK o \in Objects(S) : Twin(T, o) = p
    BY <2>1, TwinObjects
  <2>3. Sym(o) = Sym(p)
    BY <2>2, TwinObjects
  <2>4. o \in Declared(S, kind, name)
    BY <2>1, <2>2, <2>3 DEF Declared, OfKind
  <2> QED
    BY <2>2, <2>4
<1> QED
  BY <1>1, <1>2

\* Twins are declared in the scopes of twins.
LEMMA TwinScoped ==
  ASSUME NEW S, NEW T, Twins(S, T), NEW kind \in OwnedKinds, NEW name,
         NEW owner \in Objects(S) \cup {NONE}
  PROVE  Scoped(T, kind, Twin(T, owner), name) = {Twin(T, o) : o \in Scoped(S, kind, owner, name)}
<1>0. WellFormed(S)
  BY DEF Twins
<1>1. ASSUME NEW o \in Scoped(S, kind, owner, name)
      PROVE  Twin(T, o) \in Scoped(T, kind, Twin(T, owner), name)
  <2>1. o \in Objects(S) /\ Sym(o).kind = kind /\ Sym(o).name = name /\ OwnerOf(o) = owner
    BY DEF Scoped, OfKind
  <2>2. OwnerOf(Twin(T, o)) = Twin(T, owner)
    BY <2>1, TwinLinks
  <2> QED
    BY <2>1, <2>2, TwinObjects DEF Scoped, OfKind
<1>2. ASSUME NEW p \in Scoped(T, kind, Twin(T, owner), name)
      PROVE  \E o \in Scoped(S, kind, owner, name) : p = Twin(T, o)
  <2>1. p \in Objects(T) /\ Sym(p).kind = kind /\ Sym(p).name = name /\ OwnerOf(p) = Twin(T, owner)
    BY DEF Scoped, OfKind
  <2>2. PICK o \in Objects(S) : Twin(T, o) = p
    BY <2>1, TwinObjects
  <2>3. Sym(o) = Sym(p)
    BY <2>2, TwinObjects
  <2>4. Twin(T, OwnerOf(o)) = Twin(T, owner) /\ OwnerOf(o) \in Objects(S) \cup {NONE}
    BY <1>0, <2>1, <2>2, <2>3, TwinLinks, OwnersArePresent
  <2>5. OwnerOf(o) = owner
    BY <2>4, TwinObjects
  <2>6. o \in Scoped(S, kind, owner, name)
    BY <2>1, <2>2, <2>3, <2>5 DEF Scoped, OfKind
  <2> QED
    BY <2>2, <2>6
<1> QED
  BY <1>1, <1>2

\* Every lookup in the twin gives the twin of what it gives in the collection,
\* whatever the order the blocks were appended in: a name leads into one block.
LEMMA TwinLookups ==
  ASSUME NEW S, NEW T, Twins(S, T), Unique(S)
  PROVE  /\ \A name : Get(Index(T).classes, name) = Twin(T, Get(Index(S).classes, name))
         /\ \A name : Get(Index(T).functions, name) = Twin(T, Get(Index(S).functions, name))
         /\ \A name : \A owner \in Objects(S) \cup {NONE} :
              /\ Get(Index(T).methods, <<Twin(T, owner), name>>)
                   = Twin(T, Get(Index(S).methods, <<owner, name>>))
              /\ Get(Index(T).properties, <<Twin(T, owner), name>>)
                   = Twin(T, Get(Index(S).properties, <<owner, name>>))
              /\ Get(Index(T).locals, <<Twin(T, owner), name>>)
                   = Twin(T, Get(Index(S).locals, <<owner, name>>))
              /\ <<Twin(T, owner), name>> \in DOMAIN Index(T).parameters
                   <=> <<owner, name>> \in DOMAIN Index(S).parameters
              /\ <<owner, name>> \in DOMAIN Index(S).parameters =>
                   /\ Index(S).parameters[<<owner, name>>] \in Objects(S)
                   /\ Index(T).parameters[<<Twin(T, owner), name>>]
                        = Twin(T, Index(S).parameters[<<owner, name>>])
<1>0. WellFormed(S)
  BY DEF Twins
<1>1. ASSUME NEW kind \in {"class", "function"}, NEW name
      PROVE  FirstOf(Declared(T, kind, name)) = Twin(T, FirstOf(Declared(S, kind, name)))
  <2>1. Declared(S, kind, name) \in SUBSET Objects(S)
    BY DEF Declared, OfKind
  <2>2. \A o, p \in Declared(S, kind, name) : o[1] = p[1]
    BY <1>0, DeclaredInOneBlock
  <2> QED
    BY <2>1, <2>2, TwinDeclared, TwinFirst
<1>2. \A name : Get(Index(T).classes, name) = Twin(T, Get(Index(S).classes, name))
  BY <1>1, LookupIsFirst
<1>3. \A name : Get(Index(T).functions, name) = Twin(T, Get(Index(S).functions, name))
  BY <1>1, LookupIsFirst
<1>4. ASSUME NEW kind \in OwnedKinds, NEW owner \in Objects(S) \cup {NONE}, NEW name,
             owner # NONE \/ kind \in {"local", "parameter"}
      PROVE  /\ FirstOf(Scoped(T, kind, Twin(T, owner), name)) = Twin(T, FirstOf(Scoped(S, kind, owner, name)))
             /\ Scoped(S, kind, owner, name) # {} => FirstOf(Scoped(S, kind, owner, name)) \in Objects(S)
             /\ Scoped(T, kind, Twin(T, owner), name) = {} <=> Scoped(S, kind, owner, name) = {}
  <2>1. Scoped(S, kind, owner, name) \in SUBSET Objects(S)
    BY DEF Scoped, OfKind
  <2>2. \A o, p \in Scoped(S, kind, owner, name) : o[1] = p[1]
    BY <1>0, <1>4, ScopedInOneBlock
  <2>3. Scoped(T, kind, Twin(T, owner), name) = {Twin(T, o) : o \in Scoped(S, kind, owner, name)}
    BY TwinScoped
  <2>4. FirstOf(Scoped(T, kind, Twin(T, owner), name)) = Twin(T, FirstOf(Scoped(S, kind, owner, name)))
    BY <2>1, <2>2, <2>3, TwinFirst
  <2>5. Scoped(S, kind, owner, name) # {} => FirstOf(Scoped(S, kind, owner, name)) \in Objects(S)
    BY <1>0, <2>1, <2>2, FirstInBlock
  <2> QED
    BY <2>3, <2>4, <2>5
<1>5. ASSUME NEW owner \in Objects(S) \cup {NONE}, NEW name
      PROVE  /\ Get(Index(T).methods, <<Twin(T, owner), name>>)
                  = Twin(T, Get(Index(S).methods, <<owner, name>>))
             /\ Get(Index(T).properties, <<Twin(T, owner), name>>)
                  = Twin(T, Get(Index(S).properties, <<owner, name>>))
  <2>1. CASE owner = NONE
    BY <2>1, TwinOfNone, ScopedLookupIsFirst
  <2>2. CASE owner # NONE
    <3>1. Twin(T, owner) # NONE
      BY <2>2, TwinObjects
    <3>2. \A U, w : w # NONE =>
            /\ Get(Index(U).methods, <<w, name>>) = FirstOf(Scoped(U, "method", w, name))
            /\ Get(Index(U).properties, <<w, name>>) = FirstOf(Scoped(U, "property", w, name))
      BY ScopedLookupIsFirst
    <3> QED
      BY <1>4, <2>2, <3>1, <3>2 DEF OwnedKinds
  <2> QED
    BY <2>1, <2>2
<1>6. ASSUME NEW owner \in Objects(S) \cup {NONE}, NEW name
      PROVE  Get(Index(T).locals, <<Twin(T, owner), name>>)
               = Twin(T, Get(Index(S).locals, <<owner, name>>))
  <2>1. \A U, w : Get(Index(U).locals, <<w, name>>) = FirstOf(Scoped(U, "local", w, name))
    BY ScopedLookupIsFirst
  <2> QED
    BY <1>4, <2>1 DEF OwnedKinds
<1>7. ASSUME NEW owner \in Objects(S) \cup {NONE}, NEW name
      PROVE  /\ <<Twin(T, owner), name>> \in DOMAIN Index(T).parameters
                  <=> <<owner, name>> \in DOMAIN Index(S).parameters
             /\ <<owner, name>> \in DOMAIN Index(S).parameters =>
                  /\ Index(S).parameters[<<owner, name>>] \in Objects(S)
                  /\ Index(T).parameters[<<Twin(T, owner), name>>]
                       = Twin(T, Index(S).parameters[<<owner, name>>])
  <2>1. \A U, w :
          /\ <<w, name>> \in DOMAIN Index(U).parameters <=> Scoped(U, "parameter", w, name) # {}
          /\ Scoped(U, "parameter", w, name) # {} =>
               Index(U).parameters[<<w, name>>] = FirstOf(Scoped(U, "parameter", w, name))
    BY ScopedLookupIsFirst
  <2>2. /\ "parameter" \in OwnedKinds
        /\ Scoped(T, "parameter", Twin(T, owner), name) = {} <=> Scoped(S, "parameter", owner, name) = {}
        /\ FirstOf(Scoped(T, "parameter", Twin(T, owner), name))
             = Twin(T, FirstOf(Scoped(S, "parameter", owner, name)))
        /\ Scoped(S, "parameter", owner, name) # {} =>
             FirstOf(Scoped(S, "parameter", owner, name)) \in Objects(S)
    BY <1>4 DEF OwnedKinds
  <2>3. /\ <<owner, name>> \in DOMAIN Index(S).parameters <=> Scoped(S, "parameter", owner, name) # {}
        /\ Scoped(S, "parameter", owner, name) # {} =>
             Index(S).parameters[<<owner, name>>] = FirstOf(Scoped(S, "parameter", owner, name))
    BY <2>1
  <2>4. /\ <<Twin(T, owner), name>> \in DOMAIN Index(T).parameters
             <=> Scoped(T, "parameter", Twin(T, owner), name) # {}
        /\ Scoped(T, "parameter", Twin(T, owner), name) # {} =>
             Index(T).parameters[<<Twin(T, owner), name>>]
               = FirstOf(Scoped(T, "parameter", Twin(T, owner), name))
    BY <2>1
  <2> QED
    BY <2>2, <2>3, <2>4
<1> QED
  BY <1>2, <1>3, <1>5, <1>6, <1>7

-----------------------------------------------------------------------------
(* Resolving a twin gives the twin of the result.                          *)

\* The two collections give the same types to the locals at the same places.
TwinTypes(S, T, types, others) == \A o \in OfKind(S, "local") : others[Twin(T, o)] = types[o]

\* The lookups of a member in a class, and the class around it, lead to twins.
LEMMA TwinPieces ==
  ASSUME NEW S, NEW T, Twins(S, T), Unique(S)
  PROVE  /\ \A t : ClassOf(t, Index(T)) = Twin(T, ClassOf(t, Index(S)))
         /\ \A c \in Objects(S) \cup {NONE}, m \in Objects(S) :
              /\ DeclaredMember(Twin(T, c), Twin(T, m), Index(T)) = Twin(T, DeclaredMember(c, m, Index(S)))
              /\ TypeInClass(Twin(T, c), Twin(T, m), Index(T)) = TypeInClass(c, m, Index(S))
         /\ \A w \in Objects(S) \cup {NONE} : EnclosingClass(Twin(T, w)) = Twin(T, EnclosingClass(w))
<1>0. WellFormed(S)
  BY DEF Twins
<1>1. \A t : ClassOf(t, Index(T)) = Twin(T, ClassOf(t, Index(S)))
  <2>1. \A name : Get(Index(T).classes, name) = Twin(T, Get(Index(S).classes, name))
    BY TwinLookups
  <2> QED
    BY <2>1 DEF ClassOf
<1>2. ASSUME NEW c \in Objects(S) \cup {NONE}, NEW m \in Objects(S)
      PROVE  /\ DeclaredMember(Twin(T, c), Twin(T, m), Index(T)) = Twin(T, DeclaredMember(c, m, Index(S)))
             /\ TypeInClass(Twin(T, c), Twin(T, m), Index(T)) = TypeInClass(c, m, Index(S))
  <2>1. Sym(Twin(T, m)) = Sym(m)
    BY TwinObjects
  <2>2. \A name : /\ Get(Index(T).methods, <<Twin(T, c), name>>) = Twin(T, Get(Index(S).methods, <<c, name>>))
                  /\ Get(Index(T).properties, <<Twin(T, c), name>>) = Twin(T, Get(Index(S).properties, <<c, name>>))
    BY TwinLookups
  <2>3. DeclaredMember(Twin(T, c), Twin(T, m), Index(T)) = Twin(T, DeclaredMember(c, m, Index(S)))
    BY <2>1, <2>2 DEF DeclaredMember
  <2> DEFINE d == DeclaredMember(c, m, Index(S))
             e == DeclaredMember(Twin(T, c), Twin(T, m), Index(T))
  <2>4. d \in Objects(S) \cup {NONE}
    BY IndexLeadsToObjects DEF DeclaredMember
  <2>5. /\ d = NONE <=> e = NONE
        /\ d # NONE => Sym(e) = Sym(d)
        /\ c = NONE <=> Twin(T, c) = NONE
        /\ c # NONE => Sym(Twin(T, c)) = Sym(c)
    BY <2>3, <2>4, TwinObjects, TwinOfNone
  <2>6. TypeInClass(Twin(T, c), Twin(T, m), Index(T)) = TypeInClass(c, m, Index(S))
    <3> HIDE DEF d, e
    <3> QED
      BY <2>5 DEF TypeInClass, d, e
  <2> QED
    BY <2>3, <2>6
<1>3. ASSUME NEW w \in Objects(S) \cup {NONE} PROVE EnclosingClass(Twin(T, w)) = Twin(T, EnclosingClass(w))
  <2>1. CASE w = NONE
    BY <2>1, TwinOfNone DEF EnclosingClass
  <2>2. CASE w # NONE
    <3>1. Twin(T, w) # NONE /\ Sym(Twin(T, w)) = Sym(w)
      BY <2>2, TwinObjects
    <3>2. Sym(w).kind = "method" => OwnerOf(Twin(T, w)) = Twin(T, OwnerOf(w))
      BY <2>2, TwinLinks DEF OwnedKinds
    <3> QED
      BY <2>2, <3>1, <3>2, TwinOfNone DEF EnclosingClass
  <2> QED
    BY <2>1, <2>2
<1> QED
  BY <1>1, <1>2, <1>3

\* The chains of twins go the same way.
LEMMA TwinChains ==
  ASSUME NEW S, NEW T, Twins(S, T), Unique(S), NEW m \in MemberObjects(S)
  PROVE  /\ Twin(T, m) \in MemberObjects(T) /\ Sym(Twin(T, m)) = Sym(m)
         /\ OwnerOf(Twin(T, m)) = Twin(T, OwnerOf(m))
         /\ OwnerOf(m) \in Objects(S) \cup {NONE}
         /\ LocalOf(Twin(T, m), Index(T)) = Twin(T, LocalOf(m, Index(S)))
         /\ FollowsLocal(T, Twin(T, m)) <=> FollowsLocal(S, m)
         /\ Followed(T, Twin(T, m)) = Twin(T, Followed(S, m))
<1>0. WellFormed(S) /\ WellFormed(T)
  BY DEF Twins
<1>1. m \in Objects(S) /\ Sym(m).kind \in MemberKinds /\ Sym(m).kind \in OwnedKinds
  BY DEF MemberObjects, OwnedKinds
<1>2. Twin(T, m) \in MemberObjects(T) /\ Sym(Twin(T, m)) = Sym(m)
  BY <1>1, TwinObjects DEF MemberObjects
<1>3. OwnerOf(Twin(T, m)) = Twin(T, OwnerOf(m)) /\ OwnerOf(m) \in Objects(S) \cup {NONE}
  BY <1>0, <1>1, TwinLinks, OwnersArePresent
<1>4. LocalOf(Twin(T, m), Index(T)) = Twin(T, LocalOf(m, Index(S)))
  <2>1. \A name : Get(Index(T).locals, <<Twin(T, OwnerOf(m)), name>>)
                    = Twin(T, Get(Index(S).locals, <<OwnerOf(m), name>>))
    BY <1>3, TwinLookups
  <2> QED
    BY <1>2, <1>3, <2>1 DEF LocalOf
<1>5. <<OwnerOf(Twin(T, m)), Sym(m).variable>> \in DOMAIN Index(T).parameters
        <=> <<OwnerOf(m), Sym(m).variable>> \in DOMAIN Index(S).parameters
  <2>1. \A name : <<Twin(T, OwnerOf(m)), name>> \in DOMAIN Index(T).parameters
                    <=> <<OwnerOf(m), name>> \in DOMAIN Index(S).parameters
    BY <1>3, TwinLookups
  <2> QED
    BY <1>3, <2>1
<1> DEFINE local == LocalOf(m, Index(S))
           other == LocalOf(Twin(T, m), Index(T))
<1>6. /\ local = NONE <=> other = NONE
      /\ local # NONE => local \in OfKind(S, "local") /\ local \in Objects(S) /\ Sym(other) = Sym(local)
  <2>1. local # NONE => local \in OfKind(S, "local") /\ local \in Objects(S)
    BY <1>0, LocalsAreNear DEF OfKind
  <2> QED
    BY <1>4, <2>1, TwinObjects, TwinOfNone
<1>7. FollowsLocal(T, Twin(T, m)) <=> FollowsLocal(S, m)
  <2> HIDE DEF local, other
  <2> QED
    BY <1>2, <1>5, <1>6 DEF FollowsLocal, local, other
<1>8. Followed(T, Twin(T, m)) = Twin(T, Followed(S, m))
  <2>1. CASE Sym(m).receiver # NONE
    <3>1. Linked(m, Sym(m).receiver) \in Objects(S)
      BY <1>0, <2>1, ReceiversComeBefore DEF MemberObjects
    <3>2. Linked(Twin(T, m), Sym(m).receiver) = Twin(T, Linked(m, Sym(m).receiver))
      BY <1>1, <3>1, TwinLinks
    <3> QED
      BY <1>2, <2>1, <3>2 DEF Followed
  <2>2. CASE Sym(m).receiver = NONE /\ FollowsLocal(S, m)
    <3>1. local # NONE /\ Sym(local).source # NONE
      BY <2>2 DEF FollowsLocal
    <3>2. SourceOf(local) \in Objects(S)
      BY <1>0, <1>6, <3>1, SourcesArePresent DEF MemberObjects
    <3>3. SourceOf(other) = Twin(T, SourceOf(local))
      BY <1>4, <1>6, <3>1, <3>2, TwinLinks DEF SourceOf
    <3> QED
      BY <1>2, <1>7, <2>2, <3>3 DEF Followed
  <2>3. CASE Sym(m).receiver = NONE /\ ~ FollowsLocal(S, m)
    BY <1>2, <1>7, <2>3, TwinOfNone DEF Followed
  <2> QED
    BY <2>1, <2>2, <2>3
<1> QED
  BY <1>2, <1>3, <1>4, <1>7, <1>8

\* A call in the twin has the twin of the value.
LEMMA TwinCalls ==
  ASSUME NEW S, NEW T, Twins(S, T), Unique(S), NEW types, NEW others, TwinTypes(S, T, types, others),
         NEW m \in MemberObjects(S)
  PROVE  /\ MembersOf(T, others)[<<Twin(T, m), {}>>].class = Twin(T, MembersOf(S, types)[<<m, {}>>].class)
         /\ MembersOf(T, others)[<<Twin(T, m), {}>>].type = MembersOf(S, types)[<<m, {}>>].type
         /\ MembersOf(S, types)[<<m, {}>>].class \in Objects(S) \cup {NONE}
<1> DEFINE V == MembersOf(S, types)
           W == MembersOf(T, others)
           D == Calls(S)
           size == [call \in D |-> SizeOf(S, call)]
           Set(R) == {Twin(T, o) : o \in R}
           twin(call) == <<Twin(T, call[1]), Set(call[2])>>
           Agree(call) == /\ W[twin(call)].class = Twin(T, V[call].class)
                          /\ W[twin(call)].type = V[call].type
           bad == {call \in D : ~ Agree(call)}
<1>0. WellFormed(S) /\ WellFormed(T)
  BY DEF Twins
<1>1. size \in [D -> Nat] /\ bad \in SUBSET D
  BY <1>0, SizesAreNumbers
<1>v. ASSUME NEW call \in D PROVE V[call].class \in Objects(S) \cup {NONE}
  <2>1. V \in [D -> MemberValues(S)]
    BY <1>0, MembersUnfold DEF MembersOf
  <2> QED
    BY <2>1 DEF MemberValues
<1> SUFFICES ASSUME bad # {} PROVE FALSE
  <2>1. <<m, {}>> \in D /\ twin(<<m, {}>>) = <<Twin(T, m), {}>>
    BY DEF Calls
  <2>2. Agree(<<m, {}>>) => /\ W[<<Twin(T, m), {}>>].class = Twin(T, V[<<m, {}>>].class)
                            /\ W[<<Twin(T, m), {}>>].type = V[<<m, {}>>].type
    BY <2>1
  <2> HIDE DEF V, W, twin, Agree
  <2> QED
    BY <1>v, <2>1, <2>2 DEF V, W
<1>2. PICK call \in bad : \A other \in bad : size[call] <= size[other]
  <2> HIDE DEF bad, size, D
  <2> QED
    BY <1>1, SmallestExists
<1>3. call \in Calls(S) /\ ~ Agree(call)
  BY <1>2
<1>4. ASSUME NEW next \in Calls(S), SizeOf(S, next) < SizeOf(S, call)
      PROVE  Agree(next)
  <2>1. size[next] = SizeOf(S, next) /\ size[call] = SizeOf(S, call)
    BY <1>3
  <2>2. SizeOf(S, next) \in Nat /\ SizeOf(S, call) \in Nat
    BY <1>0, <1>3, SizesAreNumbers
  <2>3. next \notin bad
    <3> HIDE DEF bad, size
    <3> QED
      BY <1>2, <1>4, <2>1, <2>2
  <2> HIDE DEF Agree
  <2> QED
    BY <1>4, <2>3
<1> DEFINE x == call[1]
           X == call[2]
           y == Twin(T, x)
           local == LocalOf(x, Index(S))
           parameter == <<OwnerOf(x), Sym(x).variable>>
           localT == LocalOf(y, Index(T))
           parameterT == <<OwnerOf(y), Sym(y).variable>>
<1>5. /\ x \in MemberObjects(S) /\ X \in SUBSET OfKind(S, "local") /\ call = <<x, X>>
      /\ x \in Objects(S)
  BY <1>3 DEF Calls, MemberObjects
<1>6. \A o \in OfKind(S, "local") : o \in Objects(S) /\ Twin(T, o) \in OfKind(T, "local")
  BY TwinObjects DEF OfKind
<1>7. ASSUME NEW o \in OfKind(S, "local")
      PROVE  /\ Twin(T, o) \in Set(X) <=> o \in X
             /\ Set(X \cup {o}) = Set(X) \cup {Twin(T, o)}
  BY <1>5, <1>6, TwinObjects
<1>8. /\ y \in MemberObjects(T) /\ Sym(y) = Sym(x)
      /\ OwnerOf(y) = Twin(T, OwnerOf(x)) /\ OwnerOf(x) \in Objects(S) \cup {NONE}
      /\ localT = Twin(T, local)
      /\ Followed(T, y) = Twin(T, Followed(S, x))
      /\ FollowsLocal(T, y) <=> FollowsLocal(S, x)
  BY <1>5, TwinChains
<1>9. Unfolds(S, types, x, X) /\ Unfolds(T, others, y, Set(X))
  <2>1. Set(X) \in SUBSET OfKind(T, "local")
    BY <1>5, <1>6
  <2> HIDE DEF Set, y
  <2> QED
    BY <1>0, <1>5, <1>8, <2>1, CallsUnfold
<1>10. \A t : ClassOf(t, Index(T)) = Twin(T, ClassOf(t, Index(S)))
  BY TwinPieces
<1>11. twin(call) = <<y, Set(X)>>
  OBVIOUS
<1> HIDE DEF V, W, bad, size, D, x, X, y, local, localT, parameter, parameterT, Set, twin
<1>12. W[<<y, Set(X)>>].class = Twin(T, V[call].class)
  <2>1. CASE Sym(x).receiver # NONE
    <3> DEFINE next == <<Followed(S, x), X>>
    <3>1. Followed(S, x) = Linked(x, Sym(x).receiver)
      BY <2>1 DEF Followed
    <3>2. next \in Calls(S) /\ SizeOf(S, next) < SizeOf(S, call)
      BY <1>0, <1>3, <2>1, <3>1, CallsGetSmaller DEF x, X
    <3>3. Agree(next)
      BY <1>4, <3>2
    <3>4. W[<<Followed(T, y), Set(X)>>].type = V[next].type
      BY <1>8, <3>3 DEF twin
    <3>5. V[call].class = ClassOf(V[next].type, Index(S))
      BY <1>5, <1>9, <2>1 DEF Unfolds, V
    <3>6. W[<<y, Set(X)>>].class = ClassOf(W[<<Followed(T, y), Set(X)>>].type, Index(T))
      BY <1>8, <1>9, <2>1 DEF Unfolds, W
    <3> QED
      BY <1>10, <3>4, <3>5, <3>6
  <2>2. CASE Sym(x).receiver = NONE /\ Sym(x).variable = "$this"
    <3>1. V[call].class = EnclosingClass(OwnerOf(x))
      BY <1>5, <1>9, <2>2 DEF Unfolds, V
    <3>2. W[<<y, Set(X)>>].class = EnclosingClass(OwnerOf(y))
      BY <1>8, <1>9, <2>2 DEF Unfolds, W
    <3>3. EnclosingClass(Twin(T, OwnerOf(x))) = Twin(T, EnclosingClass(OwnerOf(x)))
      BY <1>8, TwinPieces
    <3> QED
      BY <1>8, <3>1, <3>2, <3>3
  <2>3. CASE /\ Sym(x).receiver = NONE /\ Sym(x).variable # "$this"
             /\ parameter \in DOMAIN Index(S).parameters
    <3>1. /\ parameterT \in DOMAIN Index(T).parameters
          /\ Sym(Index(T).parameters[parameterT]) = Sym(Index(S).parameters[parameter])
      <4>1. \A name : <<OwnerOf(x), name>> \in DOMAIN Index(S).parameters =>
              /\ <<Twin(T, OwnerOf(x)), name>> \in DOMAIN Index(T).parameters
              /\ Index(S).parameters[<<OwnerOf(x), name>>] \in Objects(S)
              /\ Index(T).parameters[<<Twin(T, OwnerOf(x)), name>>]
                   = Twin(T, Index(S).parameters[<<OwnerOf(x), name>>])
        BY <1>8, TwinLookups
      <4>2. parameter = <<OwnerOf(x), Sym(x).variable>>
              /\ parameterT = <<Twin(T, OwnerOf(x)), Sym(x).variable>>
        BY <1>8 DEF parameter, parameterT
      <4> QED
        BY <2>3, <4>1, <4>2, TwinObjects
    <3>2. V[call].class = ClassOf(Sym(Index(S).parameters[parameter]).type, Index(S))
      BY <1>5, <1>9, <2>3 DEF Unfolds, V, parameter
    <3>3. W[<<y, Set(X)>>].class = ClassOf(Sym(Index(T).parameters[parameterT]).type, Index(T))
      BY <1>8, <1>9, <2>3, <3>1 DEF Unfolds, W, parameterT
    <3> QED
      BY <1>10, <3>1, <3>2, <3>3
  <2>4. CASE /\ Sym(x).receiver = NONE /\ Sym(x).variable # "$this"
             /\ parameter \notin DOMAIN Index(S).parameters
    <3>1. parameterT \notin DOMAIN Index(T).parameters
      <4>1. \A name : <<Twin(T, OwnerOf(x)), name>> \in DOMAIN Index(T).parameters =>
              <<OwnerOf(x), name>> \in DOMAIN Index(S).parameters
        BY <1>8, TwinLookups
      <4> QED
        BY <1>8, <2>4, <4>1 DEF parameter, parameterT
    <3>2. local # NONE => local \in OfKind(S, "local") /\ Sym(localT) = Sym(local)
      <4>1. local # NONE => local \in OfKind(S, "local")
        BY <1>0, <1>5, LocalsAreNear DEF local
      <4> QED
        BY <1>6, <1>8, <4>1, TwinObjects
    <3>3. local = NONE <=> localT = NONE
      BY <1>6, <1>8, <3>2, TwinObjects, TwinOfNone
    <3>4. CASE local = NONE
      <4>1. V[call].class = ClassOf(NONE, Index(S))
        BY <1>5, <1>9, <2>4, <3>4 DEF Unfolds, V, parameter, local
      <4>2. W[<<y, Set(X)>>].class = ClassOf(NONE, Index(T))
        BY <1>8, <1>9, <2>4, <3>1, <3>3, <3>4 DEF Unfolds, W, parameterT, localT
      <4> QED
        BY <1>10, <4>1, <4>2
    <3>5. CASE local # NONE /\ (Sym(local).source = NONE \/ local \in X)
      <4>1. V[call].class = ClassOf(types[local], Index(S))
        BY <1>5, <1>9, <2>4, <3>5 DEF Unfolds, V, parameter, local
      <4>2. Sym(localT).source = NONE \/ localT \in Set(X)
        BY <1>7, <1>8, <3>2, <3>5
      <4>3. W[<<y, Set(X)>>].class = ClassOf(others[localT], Index(T))
        BY <1>8, <1>9, <2>4, <3>1, <3>3, <3>5, <4>2 DEF Unfolds, W, parameterT, localT
      <4>4. others[localT] = types[local]
        BY <1>8, <3>2, <3>5 DEF TwinTypes
      <4> QED
        BY <1>10, <4>1, <4>3, <4>4
    <3>6. CASE local # NONE /\ Sym(local).source # NONE /\ local \notin X
      <4> DEFINE next == <<Followed(S, x), X \cup {local}>>
      <4>1. Followed(S, x) = SourceOf(local)
        BY <2>4, <3>6 DEF Followed, FollowsLocal, parameter, local
      <4>2. next \in Calls(S) /\ SizeOf(S, next) < SizeOf(S, call)
        BY <1>0, <1>3, <3>6, <4>1, CallsGetSmaller DEF x, X, local
      <4>3. Agree(next)
        BY <1>4, <4>2
      <4>4. twin(next) = <<Followed(T, y), Set(X) \cup {localT}>>
        <5>1. Set(X \cup {local}) = Set(X) \cup {localT}
          BY <1>7, <1>8, <3>2, <3>6
        <5> QED
          BY <1>8, <5>1 DEF twin
      <4>5. W[<<Followed(T, y), Set(X) \cup {localT}>>].type = V[next].type
        BY <4>3, <4>4
      <4>6. V[call].class = ClassOf(FromSource(local, V[next].type), Index(S))
        BY <1>5, <1>9, <2>4, <3>6 DEF Unfolds, V, parameter, local
      <4>7. Sym(localT).source # NONE /\ localT \notin Set(X)
        BY <1>7, <1>8, <3>2, <3>6
      <4>8. W[<<y, Set(X)>>].class =
              ClassOf(FromSource(localT, W[<<Followed(T, y), Set(X) \cup {localT}>>].type), Index(T))
        BY <1>8, <1>9, <2>4, <3>1, <3>3, <3>6, <4>7 DEF Unfolds, W, parameterT, localT
      <4>9. \A t : FromSource(localT, t) = FromSource(local, t)
        BY <3>2, <3>6 DEF FromSource
      <4> QED
        BY <1>10, <4>5, <4>6, <4>8, <4>9
    <3> QED
      BY <3>4, <3>5, <3>6
  <2> QED
    BY <2>1, <2>2, <2>3, <2>4
<1>13. W[<<y, Set(X)>>].type = V[call].type
  <2>1. /\ V[call].type = TypeInClass(V[call].class, x, Index(S))
        /\ W[<<y, Set(X)>>].type = TypeInClass(W[<<y, Set(X)>>].class, y, Index(T))
    BY <1>5, <1>9 DEF Unfolds, V, W
  <2>2. TypeInClass(Twin(T, V[call].class), y, Index(T)) = TypeInClass(V[call].class, x, Index(S))
    <3>1. V[call].class \in Objects(S) \cup {NONE}
      BY <1>3, <1>v DEF D
    <3> QED
      BY <1>5, <3>1, TwinPieces DEF y
  <2> QED
    BY <1>12, <2>1, <2>2
<1> QED
  BY <1>3, <1>11, <1>12, <1>13

\* So references are linked to the twins of what they are linked to.
LEMMA TwinDefinitions ==
  ASSUME NEW S, NEW T, Twins(S, T), Unique(S), NEW types, NEW others, TwinTypes(S, T, types, others),
         NEW o \in References(S)
  PROVE  /\ Twin(T, o) \in References(T)
         /\ Definitions(T, others)[Twin(T, o)] = Twin(T, Definitions(S, types)[o])
<1> DEFINE V == MembersOf(S, types)
           W == MembersOf(T, others)
           p == Twin(T, o)
<1>0. WellFormed(S)
  BY DEF Twins
<1>1. o \in Objects(S) /\ Sym(o).kind \in ReferenceKinds
  BY DEF References
<1>2. p \in References(T) /\ Sym(p) = Sym(o)
  BY <1>1, TwinObjects DEF References
<1>3. /\ Definitions(S, types)[o] = DefinitionOf(o, V, Index(S))
      /\ Definitions(T, others)[p] = DefinitionOf(p, W, Index(T))
  BY <1>2 DEF Definitions, MembersOf
<1> HIDE DEF V, W, p
<1>4. CASE Sym(o).kind = "classReference"
  <2>1. /\ DefinitionOf(o, V, Index(S)) = Get(Index(S).classes, Sym(o).name)
        /\ DefinitionOf(p, W, Index(T)) = Get(Index(T).classes, Sym(o).name)
    BY <1>2, <1>4 DEF DefinitionOf, MemberKinds
  <2>2. \A name : Get(Index(T).classes, name) = Twin(T, Get(Index(S).classes, name))
    BY TwinLookups
  <2> QED
    BY <1>2, <1>3, <2>1, <2>2 DEF p
<1>5. CASE Sym(o).kind = "functionCall"
  <2>1. /\ DefinitionOf(o, V, Index(S)) = Get(Index(S).functions, Sym(o).name)
        /\ DefinitionOf(p, W, Index(T)) = Get(Index(T).functions, Sym(o).name)
    BY <1>2, <1>5 DEF DefinitionOf, MemberKinds
  <2>2. \A name : Get(Index(T).functions, name) = Twin(T, Get(Index(S).functions, name))
    BY TwinLookups
  <2> QED
    BY <1>2, <1>3, <2>1, <2>2 DEF p
<1>6. CASE Sym(o).kind = "staticCall"
  <2> DEFINE c == ScopeClass(OwnerOf(o), Sym(o).scope, Index(S))
             d == ScopeClass(OwnerOf(p), Sym(p).scope, Index(T))
  <2>1. OwnerOf(p) = Twin(T, OwnerOf(o)) /\ OwnerOf(o) \in Objects(S) \cup {NONE}
    BY <1>0, <1>1, <1>6, TwinLinks, OwnersArePresent DEF OwnedKinds, p
  <2>2. EnclosingClass(OwnerOf(p)) = Twin(T, EnclosingClass(OwnerOf(o)))
    BY <2>1, TwinPieces
  <2>3. d = Twin(T, c)
    <3>1. \A name : Get(Index(T).classes, name) = Twin(T, Get(Index(S).classes, name))
      BY TwinLookups
    <3> QED
      BY <1>2, <2>2, <3>1 DEF ScopeClass
  <2>4. c \in Objects(S) \cup {NONE}
    <3>1. EnclosingClass(OwnerOf(o)) \in Objects(S) \cup {NONE}
      <4>1. OwnerOf(o) # NONE /\ Sym(OwnerOf(o)).kind = "method" =>
              OwnerOf(OwnerOf(o)) \in Objects(S) \cup {NONE}
        BY <1>0, <2>1, OwnersArePresent DEF OwnedKinds
      <4> QED
        BY <4>1 DEF EnclosingClass
    <3> QED
      BY <3>1, IndexLeadsToObjects DEF ScopeClass
  <2>5. /\ DefinitionOf(o, V, Index(S)) = DeclaredMember(c, o, Index(S))
        /\ DefinitionOf(p, W, Index(T)) = DeclaredMember(d, p, Index(T))
    BY <1>2, <1>6 DEF DefinitionOf, MemberKinds
  <2> HIDE DEF c, d
  <2>6. DeclaredMember(Twin(T, c), Twin(T, o), Index(T)) = Twin(T, DeclaredMember(c, o, Index(S)))
    BY <1>1, <2>4, TwinPieces
  <2> QED
    BY <1>2, <1>3, <2>3, <2>5, <2>6 DEF p
<1>7. CASE Sym(o).kind \in MemberKinds
  <2> DEFINE c == V[<<o, {}>>].class
             d == W[<<p, {}>>].class
  <2>1. o \in MemberObjects(S)
    BY <1>1, <1>7 DEF MemberObjects
  <2>2. d = Twin(T, c) /\ c \in Objects(S) \cup {NONE}
    BY <2>1, TwinCalls DEF V, W, p
  <2>3. /\ DefinitionOf(o, V, Index(S)) = DeclaredMember(c, o, Index(S))
        /\ DefinitionOf(p, W, Index(T)) = DeclaredMember(d, p, Index(T))
    BY <1>2, <1>7 DEF DefinitionOf, MemberKinds
  <2> HIDE DEF c, d
  <2>4. DeclaredMember(Twin(T, c), Twin(T, o), Index(T)) = Twin(T, DeclaredMember(c, o, Index(S)))
    BY <1>1, <2>2, TwinPieces
  <2> QED
    BY <1>2, <1>3, <2>2, <2>3, <2>4 DEF p
<1> QED
  BY <1>1, <1>2, <1>4, <1>5, <1>6, <1>7 DEF ReferenceKinds, p

\* Twins have the same types in their files,
LEMMA TwinOwnTypes ==
  ASSUME NEW S, NEW T, Twins(S, T)
  PROVE  TwinTypes(S, T, OwnTypes(S), OwnTypes(T))
<1>1. \A o \in OfKind(S, "local") : Twin(T, o) \in OfKind(T, "local") /\ Sym(Twin(T, o)) = Sym(o)
  BY TwinObjects DEF OfKind
<1> QED
  BY <1>1 DEF TwinTypes, OwnTypes

\* and take the same types from their sources.
LEMMA TwinSourceTypes ==
  ASSUME NEW S, NEW T, Twins(S, T), Unique(S), NEW o \in OfKind(S, "local"), Sym(o).source # NONE
  PROVE  SourceType(T, Twin(T, o)) = SourceType(S, o)
<1>0. WellFormed(S)
  BY DEF Twins
<1>1. o \in Objects(S) /\ Sym(Twin(T, o)) = Sym(o)
  BY TwinObjects DEF OfKind
<1>2. SourceOf(o) \in MemberObjects(S) /\ SourceOf(o) \in Objects(S)
  BY <1>0, SourcesArePresent DEF MemberObjects
<1>3. SourceOf(Twin(T, o)) = Twin(T, SourceOf(o))
  BY <1>1, <1>2, TwinLinks DEF SourceOf
<1>4. MembersOf(T, OwnTypes(T))[<<Twin(T, SourceOf(o)), {}>>].type
        = MembersOf(S, OwnTypes(S))[<<SourceOf(o), {}>>].type
  BY <1>2, TwinCalls, TwinOwnTypes
<1> QED
  BY <1>1, <1>3, <1>4 DEF SourceType, FromSource

-----------------------------------------------------------------------------
(* The index.                                                              *)

\* What TypeOK says of the collection is what the resolver needs.
LEMMA BlocksAreWellFormed ==
  ASSUME NEW S, S \subseteq Blocks
  PROVE  WellFormed(S)
BY NumFilesAssumption, MaxReparsesAssumption DEF WellFormed, Blocks

-----------------------------------------------------------------------------
(* What one resolution of the whole collection establishes.                *)

\* Every step of the resolution gives a type to each typed object.
LEMMA TypeDomains ==
  ASSUME NEW S, NEW types
  PROVE  /\ DOMAIN TypesBefore(S, types) = Typed(S)
         /\ DOMAIN ResolvedTypes(S, TypesBefore(S, types)) = Typed(S)
         /\ DOMAIN Propagated(ResolvedTypes(S, TypesBefore(S, types))) = Typed(S)
<1>1. DOMAIN TypesBefore(S, types) = Typed(S)
  BY DEF TypesBefore
<1>2. DOMAIN ResolvedTypes(S, TypesBefore(S, types)) = Typed(S)
  BY <1>1 DEF ResolvedTypes
<1> QED
  BY <1>1, <1>2 DEF Propagated

\* After the propagation every usage whose definition has a type has this type:
\* propagating changes usages only, and no usage is the definition of another.
LEMMA PropagationSettles ==
  ASSUME NEW S, WellFormed(S), NEW types, DOMAIN types = Typed(S),
         NEW o \in OfKind(S, "usage"),
         DefinitionType(Propagated(types), o) # NONE
  PROVE  Propagated(types)[o] = DefinitionType(Propagated(types), o)
<1> DEFINE defined == Linked(o, Sym(o).definition)
<1>a. PICK b \in S : \E j \in DOMAIN Parse[b.text] : o = <<b, j>>
  BY DEF OfKind, Objects
<1>1. PICK i \in DOMAIN Parse[b.text] : o = <<b, i>>
  BY <1>a
<1>2. /\ Sym(o) = Parse[b.text][i]
      /\ Sym(o).kind = "usage"
      /\ o \in Typed(S)
  BY <1>1 DEF OfKind, Sym, Typed, TypedKinds
<1>3. Sym(o).definition # NONE
  BY DEF DefinitionType, Linked
<1>4. /\ defined = <<b, Sym(o).definition>>
      /\ Sym(defined).kind \in {"parameter", "local"}
      /\ defined \in Objects(S)
  BY <1>1, <1>2, <1>3, LinksAssumption DEF WellFormed, Linked, Sym, Objects
<1>5. DefinitionType(Propagated(types), o) = DefinitionType(types, o)
  <2>1. CASE Sym(defined).kind = "parameter"
    BY <2>1 DEF DefinitionType
  <2>2. CASE Sym(defined).kind = "local"
    <3>1. defined \in DOMAIN types
      BY <1>4, <2>2 DEF Typed, TypedKinds
    <3>2. Propagated(types)[defined] = types[defined]
      BY <3>1, <2>2 DEF Propagated
    <3> QED
      BY <3>2 DEF DefinitionType
  <2> QED
    BY <1>4, <2>1, <2>2
<1> QED
  BY <1>2, <1>5 DEF Propagated

\* ResolveAll, run on any well-formed collection with any types, gives all that
\* the invariant asks of definitions and types.
LEMMA ResolvedAll ==
  ASSUME WellFormed(symbols'), NEW types, ResolveAll(symbols', types)
  PROVE  /\ DOMAIN definition' = References(symbols')
         /\ DOMAIN type' = Typed(symbols')
         /\ NoDanglingDefinition'
         /\ LinkedByName'
         /\ UsageTypesFollowDefinitions'
<1> DEFINE S == symbols'
           before == TypesBefore(S, types)
<1>1. /\ definition' = Definitions(S, before)
      /\ type' = Propagated(ResolvedTypes(S, before))
  BY DEF ResolveAll
<1>2. DOMAIN definition' = References(S)
  BY <1>1 DEF Definitions
<1>3. DOMAIN type' = Typed(S)
  BY <1>1, TypeDomains
<1>4. NoDanglingDefinition'
  BY <1>1, <1>2, DefinitionsInCollection DEF NoDanglingDefinition
<1>5. LinkedByName'
  BY <1>1, <1>2 DEF LinkedByName, Definitions, DefinitionOf, MemberKinds
<1>6. UsageTypesFollowDefinitions'
  BY <1>1, TypeDomains, PropagationSettles DEF UsageTypesFollowDefinitions
<1> QED
  BY <1>2, <1>3, <1>4, <1>5, <1>6

-----------------------------------------------------------------------------
(* The invariant is inductive.                                             *)

\* Nothing can be looked up in an empty collection.
LEMMA NothingInNothing == Objects({}) = {} /\ References({}) = {} /\ Typed({}) = {}
BY DEF Objects, References, Typed

\* The empty workspace satisfies the invariant.
LEMMA InitEstablishes == Init => IndInv
<1> SUFFICES ASSUME Init PROVE IndInv
  OBVIOUS
<1>1. DOMAIN definition = {} /\ DOMAIN type = {}
  BY DEF Init
<1>2. TypeOK
  <2>1. parsed \in Seq(Files) /\ clock \in 0..(NumFiles + MaxReparses)
    BY NumFilesAssumption, MaxReparsesAssumption DEF Init
  <2> QED
    BY <1>1, <2>1, NothingInNothing DEF Init, TypeOK
<1>3. NothingBeforeServing /\ CollectionIsCurrent /\ AppendedBeforeNow
  BY DEF Init, NothingBeforeServing, CollectionIsCurrent, AppendedBeforeNow
<1>4. NoDanglingDefinition /\ LinkedByName
  BY <1>1 DEF NoDanglingDefinition, LinkedByName
<1>5. UsageTypesFollowDefinitions
  BY NothingInNothing DEF Init, UsageTypesFollowDefinitions, OfKind
<1> QED
  BY <1>2, <1>3, <1>4, <1>5 DEF IndInv

\* The steps of the startup that come before the first collection, and the
\* failure, leave alone all that the invariant relates.
LEMMA StartupKeeps ==
  ASSUME IndInv, phase = "starting", phase' \in {"starting", "failed"},
         unread' \subseteq Files, parsed' \in Seq(Files),
         UNCHANGED <<text, files, symbols, clock, definition, type>>
  PROVE  IndInv'
<1>1. TypeOK'
  BY DEF IndInv, TypeOK
<1>2. NothingBeforeServing' /\ AppendedBeforeNow' /\ CollectionIsCurrent'
  BY DEF IndInv, NothingBeforeServing, AppendedBeforeNow, CollectionIsCurrent
<1>3. NoDanglingDefinition' /\ LinkedByName' /\ UsageTypesFollowDefinitions'
  BY DEF IndInv, NoDanglingDefinition, LinkedByName, UsageTypesFollowDefinitions
<1> QED
  BY <1>1, <1>2, <1>3 DEF IndInv

\* The end of startup, on the blocks of all the files.
LEMMA CollectKeeps == IndInv /\ Collect => IndInv'
<1> SUFFICES ASSUME IndInv, Collect PROVE IndInv'
  OBVIOUS
<1> DEFINE block(f) == [file |-> f, at |-> f, text |-> text[f]]
<1>1. symbols' = {block(f) : f \in ToParse}
  BY DEF Collect, CanCollect, EncounterOrder
<1>2. /\ phase' = "serving" /\ files' = ToParse /\ clock' = NumFiles
      /\ unread' = unread /\ text' = text /\ parsed' = << >>
  BY DEF Collect, CanCollect
<1>3. /\ ToParse \subseteq Files /\ text \in [Files -> Texts]
      /\ unread \subseteq Files
  BY DEF ToParse, IndInv, TypeOK
<1>4. symbols' \subseteq Blocks
  <2>1. \A f \in Files : f \in 1..(NumFiles + MaxReparses)
    BY NumFilesAssumption, MaxReparsesAssumption DEF Files
  <2>2. \A f \in ToParse : f \in Files /\ text[f] \in Texts
    BY <1>3
  <2>3. \A f \in ToParse : block(f) \in Blocks
    BY <2>1, <2>2 DEF Blocks
  <2> QED
    BY <1>1, <2>3
<1>5. ResolveAll(symbols', << >>)
  BY <1>1 DEF Collect, CanCollect, EncounterOrder
<1>6. WellFormed(symbols')
  BY <1>4, BlocksAreWellFormed
<1>7. /\ DOMAIN definition' = References(symbols')
      /\ DOMAIN type' = Typed(symbols')
      /\ NoDanglingDefinition'
      /\ LinkedByName'
      /\ UsageTypesFollowDefinitions'
  BY <1>5, <1>6, ResolvedAll
<1>8. TypeOK'
  <2>1. clock' \in 0..(NumFiles + MaxReparses) /\ clock' >= NumFiles
    BY <1>2, NumFilesAssumption, MaxReparsesAssumption
  <2> QED
    BY <1>2, <1>3, <1>4, <1>7, <2>1 DEF TypeOK
<1>9. CollectionIsCurrent'
  <2>1. \A f \in ToParse : block(f) \in symbols' /\ block(f).file = f
    BY <1>1
  <2>2. \A b \in symbols' : b.file \in ToParse /\ b = block(b.file)
    BY <1>1
  <2>3. \A f \in files' : \E b \in symbols' : b.file = f
    BY <1>2, <2>1
  <2>4. \A b \in symbols' : b.at = b.file /\ b.text = text[b.file]
    BY <2>2
  <2>5. \A b, c \in symbols' : b.file = c.file \/ b.at = c.at => b = c
    BY <2>2, <2>4
  <2> QED
    BY <1>2, <2>2, <2>3, <2>4, <2>5 DEF CollectionIsCurrent
<1>10. AppendedBeforeNow'
  BY <1>1, <1>2, <1>3, NumFilesAssumption DEF AppendedBeforeNow, Files
<1>11. NothingBeforeServing'
  BY <1>2 DEF NothingBeforeServing
<1> QED
  BY <1>7, <1>8, <1>9, <1>10, <1>11 DEF IndInv

\* The edit of one file.
LEMMA ReparseKeeps ==
  ASSUME IndInv, NEW file \in files, NEW content \in Texts, Reparse(file, content)
  PROVE  IndInv'
<1> DEFINE new == [file |-> file, at |-> clock + 1, text |-> content]
<1>1. symbols' = {b \in symbols : b.file # file} \cup {new}
  BY DEF Reparse, Reindexed, AddAll, RemoveSymbolsOfFile
<1>2. /\ phase = "serving" /\ phase' = "serving"
      /\ files' = files /\ clock' = clock + 1
      /\ unread' = unread /\ parsed' = parsed
      /\ text' = [text EXCEPT ![file] = content]
      /\ clock < NumFiles + MaxReparses
  BY DEF Reparse
<1>3. /\ files \subseteq Files /\ symbols \subseteq Blocks
      /\ text \in [Files -> Texts]
      /\ clock \in Nat /\ clock >= NumFiles
      /\ \A b \in symbols : b.at <= clock /\ b.at \in Nat
  BY <1>2, NumFilesAssumption, MaxReparsesAssumption
  DEF IndInv, TypeOK, AppendedBeforeNow, Blocks
<1>4. symbols' \subseteq Blocks
  <2>1. clock + 1 \in 1..(NumFiles + MaxReparses)
    BY <1>2, <1>3, NumFilesAssumption, MaxReparsesAssumption
  <2>2. new \in Blocks
    BY <1>3, <2>1 DEF Blocks
  <2> QED
    BY <1>1, <1>3, <2>2
<1>5. ResolveAll(symbols', type)
  BY DEF Reparse
<1>6. WellFormed(symbols')
  BY <1>4, BlocksAreWellFormed
<1>7. /\ DOMAIN definition' = References(symbols')
      /\ DOMAIN type' = Typed(symbols')
      /\ NoDanglingDefinition'
      /\ LinkedByName'
      /\ UsageTypesFollowDefinitions'
  BY <1>5, <1>6, ResolvedAll
<1>8. TypeOK'
  <2>1. clock' \in 0..(NumFiles + MaxReparses) /\ clock' >= NumFiles
    BY <1>2, <1>3, NumFilesAssumption, MaxReparsesAssumption
  <2>2. text' \in [Files -> Texts]
    BY <1>2, <1>3
  <2>3. unread' \subseteq Files /\ parsed' \in Seq(Files)
    BY <1>2 DEF IndInv, TypeOK
  <2> QED
    BY <1>2, <1>3, <1>4, <1>7, <2>1, <2>2, <2>3 DEF TypeOK
<1>9. CollectionIsCurrent'
  <2>1. /\ \A f \in files : \E b \in symbols : b.file = f
        /\ \A b \in symbols : b.file \in files /\ b.text = text[b.file]
        /\ \A b, c \in symbols : b.file = c.file \/ b.at = c.at => b = c
    BY <1>2 DEF IndInv, CollectionIsCurrent
  <2>2. ASSUME NEW f \in files PROVE \E b \in symbols' : b.file = f
    <3>1. CASE f = file
      <4>1. new \in symbols' /\ new.file = file
        BY <1>1
      <4> QED
        BY <3>1, <4>1
    <3>2. CASE f # file
      <4>1. PICK b \in symbols : b.file = f
        BY <2>1
      <4>2. b \in symbols'
        BY <1>1, <3>2, <4>1
      <4> QED
        BY <4>1, <4>2
    <3> QED
      BY <3>1, <3>2
  <2>3. \A b \in symbols' : b.file \in files /\ b.text = text'[b.file]
    BY <1>1, <1>2, <1>3, <2>1
  <2>4. \A b, c \in symbols' : b.file = c.file \/ b.at = c.at => b = c
    BY <1>1, <1>3, <2>1
  <2> QED
    BY <1>2, <2>2, <2>3, <2>4 DEF CollectionIsCurrent
<1>10. AppendedBeforeNow'
  BY <1>1, <1>2, <1>3 DEF AppendedBeforeNow
<1>11. NothingBeforeServing'
  BY <1>2 DEF NothingBeforeServing
<1> QED
  BY <1>7, <1>8, <1>9, <1>10, <1>11 DEF IndInv

\* Every step keeps the invariant.
LEMMA StepKeeps == IndInv /\ [Next]_vars => IndInv'
<1> SUFFICES ASSUME IndInv, [Next]_vars PROVE IndInv'
  OBVIOUS
<1>1. unread \subseteq Files /\ parsed \in Seq(Files)
  BY DEF IndInv, TypeOK
<1>2. CASE ReadFile
  BY <1>1, <1>2, StartupKeeps DEF ReadFile
<1>3. CASE ScanFails
  BY <1>1, <1>3, StartupKeeps DEF ScanFails
<1>4. ASSUME NEW file \in Files, ParseFile(file) PROVE IndInv'
  <2>1. parsed' \in Seq(Files)
    BY <1>1, <1>4 DEF ParseFile
  <2> QED
    BY <1>1, <1>4, <2>1, StartupKeeps DEF ParseFile
<1>5. CASE Collect
  BY <1>5, CollectKeeps
<1>6. ASSUME NEW file \in files, NEW content \in Texts, Reparse(file, content) PROVE IndInv'
  BY <1>6, ReparseKeeps
<1>7. CASE UNCHANGED vars
  BY <1>7 DEF vars, IndInv, TypeOK, NothingBeforeServing, AppendedBeforeNow,
     CollectionIsCurrent, NoDanglingDefinition, LinkedByName, UsageTypesFollowDefinitions
<1> QED
  BY <1>2, <1>3, <1>4, <1>5, <1>6, <1>7 DEF Next

\* The invariant holds throughout.
LEMMA IndInvHolds == Spec => []IndInv
BY InitEstablishes, StepKeeps, PTL DEF Spec

-----------------------------------------------------------------------------
(* What holds in every state.                                              *)

\* Every field keeps a value its declaration and the code allow.
THEOREM TypeCorrectness == Spec => []TypeOK
<1>1. IndInv => TypeOK
  BY DEF IndInv
<1> QED
  BY <1>1, IndInvHolds, PTL

\* After startup and after every reparse, the collection holds the symbols of
\* the present content of every indexed file, once.
THEOREM CollectionStaysCurrent == Spec => []CollectionIsCurrent
<1>1. IndInv => CollectionIsCurrent
  BY DEF IndInv
<1> QED
  BY <1>1, IndInvHolds, PTL

\* No definition is ever left leading to an object that a reparse of its file
\* took out of the collection.
THEOREM DefinitionsNeverDangle == Spec => []NoDanglingDefinition
<1>1. IndInv => NoDanglingDefinition
  BY DEF IndInv
<1> QED
  BY <1>1, IndInvHolds, PTL

\* A usage has the type of its definition whenever the definition has one.
THEOREM UsagesFollow == Spec => []UsageTypesFollowDefinitions
<1>1. IndInv => UsageTypesFollowDefinitions
  BY DEF IndInv
<1> QED
  BY <1>1, IndInvHolds, PTL

\* What the server has after startup is a function of the contents of the
\* files: the order in which the parallel workers finish does not show.
THEOREM StartupDeterminism == Spec => []StartupIsDeterministic
<1>1. Init => StartupIsDeterministic
  BY DEF Init, StartupIsDeterministic
<1>2. IndInv /\ StartupIsDeterministic /\ [Next]_vars => StartupIsDeterministic'
  <2> SUFFICES ASSUME IndInv, StartupIsDeterministic, [Next]_vars
               PROVE  StartupIsDeterministic'
    OBVIOUS
  <2>1. CASE ReadFile \/ ScanFails \/ \E file \in Files : ParseFile(file)
    BY <2>1 DEF ReadFile, ScanFails, ParseFile, StartupIsDeterministic
  <2>2. CASE Collect
    <3>1. /\ DOMAIN Contents' = ToParse
          /\ \A f \in ToParse : Contents'[f] = text[f]
      BY <2>2 DEF Collect, CanCollect, Contents
    <3>2. FreshSymbols(Contents)' = {[file |-> f, at |-> f, text |-> text[f]] : f \in ToParse}
      BY <3>1 DEF FreshSymbols, FreshBlock
    <3>3. symbols' = FreshSymbols(Contents)'
      BY <2>2, <3>2 DEF Collect, CanCollect, EncounterOrder
    <3>4. ResolveAll(symbols', << >>)
      BY <2>2 DEF Collect, CanCollect, EncounterOrder
    <3>5. /\ definition' = FreshDefinitions(Contents)'
          /\ type' = Propagated(FreshTypes(Contents))'
      BY <3>3, <3>4 DEF ResolveAll, FreshDefinitions, FreshTypes
    <3> QED
      BY <3>3, <3>5 DEF StartupIsDeterministic
  <2>3. ASSUME NEW file \in files, NEW content \in Texts, Reparse(file, content)
        PROVE  StartupIsDeterministic'
    <3>1. clock \in Nat /\ clock >= NumFiles /\ clock' = clock + 1
      BY <2>3, NumFilesAssumption, MaxReparsesAssumption DEF Reparse, IndInv, TypeOK
    <3>2. clock' # NumFiles
      BY <3>1, NumFilesAssumption
    <3> QED
      BY <3>2 DEF StartupIsDeterministic
  <2>4. CASE UNCHANGED vars
    BY <2>4 DEF vars, StartupIsDeterministic, Contents
  <2> QED
    BY <2>1, <2>2, <2>3, <2>4 DEF Next
<1> QED
  BY <1>1, <1>2, IndInvHolds, PTL DEF Spec

-----------------------------------------------------------------------------
(* What no step does.                                                      *)

\* The first declaration of a name stays the first when another file is parsed
\* again: the new symbols are appended after it.
LEMMA FirstStays ==
  ASSUME IndInv, NEW file \in files, NEW content \in Texts, Reparse(file, content),
         NEW kind, NEW name,
         FirstOf(Declared(symbols, kind, name)) # NONE,
         FirstOf(Declared(symbols, kind, name)) \in Objects(symbols')
  PROVE  FirstOf(Declared(symbols', kind, name)) = FirstOf(Declared(symbols, kind, name))
<1> DEFINE d == FirstOf(Declared(symbols, kind, name))
           new == [file |-> file, at |-> clock + 1, text |-> content]
<1>1. symbols' = {b \in symbols : b.file # file} \cup {new}
  BY DEF Reparse, Reindexed, AddAll, RemoveSymbolsOfFile
<1>2. IsFirst(d, Declared(symbols, kind, name))
  BY DEF FirstOf
<1>3. d \in Objects(symbols) /\ Sym(d).kind = kind /\ Sym(d).name = name
  BY <1>2 DEF IsFirst, Declared, OfKind
<1>4. d \in Declared(symbols', kind, name)
  BY <1>3 DEF Declared, OfKind
<1>5. d[1].at <= clock /\ d[1].at \in Nat /\ clock \in Nat
  BY <1>3, ObjectParts, NumFilesAssumption, MaxReparsesAssumption
  DEF IndInv, AppendedBeforeNow, TypeOK, Blocks
<1>6. ASSUME NEW p \in Declared(symbols', kind, name), p # d
      PROVE  Before(d, p)
  <2>1. p \in Objects(symbols') /\ Sym(p).kind = kind /\ Sym(p).name = name
    BY <1>6 DEF Declared, OfKind
  <2>2. p[1] \in symbols' /\ p[2] \in DOMAIN Parse[p[1].text] /\ p = <<p[1], p[2]>>
    BY <2>1, ObjectParts
  <2>3. CASE p[1] = new
    BY <1>5, <2>3 DEF Before
  <2>4. CASE p[1] \in symbols
    <3>1. p \in Declared(symbols, kind, name)
      BY <2>1, <2>2, <2>4 DEF Declared, OfKind, Objects
    <3> QED
      BY <1>2, <1>6, <3>1 DEF IsFirst
  <2> QED
    BY <1>1, <2>2, <2>3, <2>4
<1>7. IsFirst(d, Declared(symbols', kind, name))
  BY <1>4, <1>6 DEF IsFirst
<1>8. WellFormed(symbols')
  BY ReparseKeeps, BlocksAreWellFormed DEF IndInv, TypeOK
<1>9. Declared(symbols', kind, name) \in SUBSET Objects(symbols')
  BY DEF Declared, OfKind
<1> QED
  BY <1>7, <1>8, <1>9, FirstIsUnique

\* Editing a file never takes a reference over from a declaration in a file
\* that was not edited.
THEOREM NoTheft == Spec => NoStolenDefinition
<1> DEFINE Kept ==
      \A o \in DOMAIN definition \cap DOMAIN definition' :
        /\ Sym(o).kind \in {"classReference", "functionCall"}
        /\ definition[o] # NONE
        /\ definition[o] \in Objects(symbols')
        => definition'[o] = definition[o]
<1>1. IndInv /\ [Next]_vars => [Kept]_vars
  <2> SUFFICES ASSUME IndInv, Next PROVE Kept
    OBVIOUS
  <2>1. CASE ReadFile \/ ScanFails \/ \E file \in Files : ParseFile(file)
    BY <2>1 DEF ReadFile, ScanFails, ParseFile
  <2>2. CASE Collect
    <3>1. DOMAIN definition = {}
      BY <2>2 DEF Collect, CanCollect, IndInv, NothingBeforeServing
    <3> QED
      BY <3>1
  <2>3. ASSUME NEW file \in files, NEW content \in Texts, Reparse(file, content)
        PROVE  Kept
    <3>1. LinkedByName /\ LinkedByName'
      BY <2>3, ReparseKeeps DEF IndInv
    <3> SUFFICES ASSUME NEW o \in DOMAIN definition \cap DOMAIN definition',
                        Sym(o).kind \in {"classReference", "functionCall"},
                        definition[o] # NONE,
                        definition[o] \in Objects(symbols')
                 PROVE  definition'[o] = definition[o]
      OBVIOUS
    <3> DEFINE kind == IF Sym(o).kind = "classReference" THEN "class" ELSE "function"
    <3>2. definition[o] = FirstOf(Declared(symbols, kind, Sym(o).name))
      BY <3>1, LookupIsFirst DEF LinkedByName
    <3>3. definition'[o] = FirstOf(Declared(symbols', kind, Sym(o).name))
      BY <3>1, LookupIsFirst DEF LinkedByName
    <3> HIDE DEF kind
    <3> QED
      BY <2>3, <3>2, <3>3, FirstStays
  <2> QED
    BY <2>1, <2>2, <2>3 DEF Next
<1> QED
  BY <1>1, IndInvHolds, PTL DEF Spec, NoStolenDefinition

-----------------------------------------------------------------------------
(* What is resolved is settled: resolving again from what has been         *)
(* resolved gives what resolving from nothing gives.                       *)

Settled ==
    /\ definition = Definitions(symbols, OwnTypes(symbols))
    /\ \A o \in OfKind(symbols, "local") :
         type[o] = IF Sym(o).source = NONE THEN Sym(o).type ELSE SourceType(symbols, o)

\* ResolveAll settles the collection if it starts from types it may start from.
LEMMA ResolvedSettles ==
  ASSUME WellFormed(symbols'), NEW types, ResolveAll(symbols', types),
         MayStart(symbols', TypesBefore(symbols', types))
  PROVE  Settled'
<1> DEFINE S == symbols'
           before == TypesBefore(S, types)
<1>1. /\ definition' = Definitions(S, before)
      /\ type' = Propagated(ResolvedTypes(S, before))
  BY DEF ResolveAll
<1>2. definition' = Definitions(S, OwnTypes(S))
  BY <1>1, DefinitionsFromAnywhere
<1>3. ASSUME NEW o \in OfKind(S, "local")
      PROVE  type'[o] = IF Sym(o).source = NONE THEN Sym(o).type ELSE SourceType(S, o)
  <2>1. o \in Typed(S) /\ Sym(o).kind = "local"
    BY DEF OfKind, Typed, TypedKinds
  <2>2. Propagated(ResolvedTypes(S, before))[o] = ResolvedTypes(S, before)[o]
    BY <2>1, TypeDomains DEF Propagated
  <2> QED
    BY <1>1, <2>2, ResolvedLocals
<1> QED
  BY <1>2, <1>3 DEF Settled

\* A local leaves the parsing of its file with the type found there.
LEMMA InFileTypesOfLocals ==
  ASSUME NEW S, NEW o \in OfKind(S, "local")
  PROVE  InFileTypes(o[1])[o] = Sym(o).type
<1>1. o \in Objects(S) /\ Sym(o).kind = "local"
  BY DEF OfKind
<1>2. o[2] \in DOMAIN Parse[o[1].text] /\ o = <<o[1], o[2]>>
  BY <1>1, ObjectParts
<1>3. o \in Objects({o[1]})
  BY <1>2, ObjectsOfBlocks
<1>4. o \in Typed({o[1]})
  BY <1>1, <1>3 DEF Typed, TypedKinds
<1> QED
  BY <1>1, <1>4 DEF InFileTypes, Propagated

\* The types left by the last resolution are types the next one may start from:
\* the chains of the old symbols have not changed with the edit.
LEMMA OldTypesMayStart ==
  ASSUME IndInv, Settled, NEW T, WellFormed(T)
  PROVE  MayStart(T, TypesBefore(T, type))
<1> DEFINE S == symbols
           before == TypesBefore(T, type)
<1>1. WellFormed(S) /\ DOMAIN type = Typed(S)
  BY BlocksAreWellFormed DEF IndInv, TypeOK
<1>2. ASSUME NEW o \in OfKind(T, "local")
      PROVE  /\ o \in OfKind(S, "local") => before[o] = type[o]
             /\ o \notin OfKind(S, "local") => before[o] = Sym(o).type
  <2>1. o \in Typed(T) /\ o \in Objects(T) /\ Sym(o).kind = "local"
    BY DEF OfKind, Typed, TypedKinds
  <2>2. before[o] = IF o \in DOMAIN type THEN type[o] ELSE Sym(o).type
    BY <2>1, InFileTypesOfLocals DEF TypesBefore, OfKind
  <2>3. o \in DOMAIN type <=> o \in OfKind(S, "local")
    BY <1>1, <2>1 DEF Typed, TypedKinds, OfKind
  <2> QED
    BY <2>2, <2>3
<1> HIDE DEF before
<1>3. CirclesUntyped(T, before)
  <2> SUFFICES ASSUME NEW o \in OfKind(T, "local"), Sym(o).source # NONE, SourceOf(o) \in Endless(T)
               PROVE  before[o] = NONE
    BY DEF CirclesUntyped
  <2>1. Sym(o).type = NONE /\ SourceOf(o)[1] = o[1]
    BY SourcesArePresent
  <2>2. CASE o \in OfKind(S, "local")
    <3>1. o[1] \in S
      BY <1>1, <2>2, ObjectFacts DEF OfKind
    <3>2. SourceOf(o) \in Endless(S)
      BY <1>1, <2>1, <3>1, EndlessInBlock
    <3>3. type[o] = NONE
      BY <1>1, <2>2, <3>2, CirclesGiveNothing DEF Settled
    <3> QED
      BY <1>2, <2>2, <3>3
  <2>3. CASE o \notin OfKind(S, "local")
    BY <1>2, <2>1, <2>3
  <2> QED
    BY <2>2, <2>3
<1>4. ASSUME NEW o \in OfKind(T, "local"), Sym(o).source = NONE
      PROVE  before[o] = Sym(o).type
  <2>1. o \in OfKind(S, "local") => type[o] = Sym(o).type
    BY <1>4 DEF Settled
  <2> QED
    BY <1>2, <2>1
<1>5. OfKind(T, "local") \subseteq DOMAIN before
  BY DEF before, TypesBefore, OfKind, Typed, TypedKinds
<1> QED
  BY <1>3, <1>4, <1>5 DEF MayStart, before

\* So are the types found in the files alone.
LEMMA FreshMayStart ==
  ASSUME NEW S, WellFormed(S)
  PROVE  MayStart(S, TypesBefore(S, << >>))
<1> DEFINE before == TypesBefore(S, << >>)
<1>1. ASSUME NEW o \in OfKind(S, "local") PROVE o \in DOMAIN before /\ before[o] = Sym(o).type
  <2>1. o \in Typed(S)
    BY DEF OfKind, Typed, TypedKinds
  <2> QED
    BY <2>1, InFileTypesOfLocals DEF TypesBefore
<1>2. \A o \in OfKind(S, "local") : Sym(o).source # NONE => Sym(o).type = NONE
  BY SourcesArePresent
<1> HIDE DEF before
<1> QED
  BY <1>1, <1>2 DEF MayStart, CirclesUntyped, before

\* After every resolution the collection is settled.
LEMMA SettledHolds == Spec => []Settled
<1>1. Init => Settled
  <2> SUFFICES ASSUME Init PROVE Settled
    OBVIOUS
  <2>1. symbols = {} /\ definition = << >>
    BY DEF Init
  <2>2. OfKind({}, "local") = {} /\ References({}) = {}
    BY NothingInNothing DEF OfKind
  <2>3. definition = Definitions(symbols, OwnTypes(symbols))
    BY <2>1, <2>2 DEF Definitions
  <2> QED
    BY <2>1, <2>2, <2>3 DEF Settled
<1>2. IndInv /\ IndInv' /\ Settled /\ [Next]_vars => Settled'
  <2> SUFFICES ASSUME IndInv, IndInv', Settled, [Next]_vars PROVE Settled'
    OBVIOUS
  <2>0. WellFormed(symbols')
    BY BlocksAreWellFormed DEF IndInv, TypeOK
  <2>1. CASE ReadFile \/ ScanFails \/ (\E file \in Files : ParseFile(file)) \/ UNCHANGED vars
    BY <2>1 DEF ReadFile, ScanFails, ParseFile, vars, Settled
  <2>2. CASE Collect
    <3>1. ResolveAll(symbols', << >>)
      BY <2>2 DEF Collect, CanCollect
    <3> QED
      BY <2>0, <3>1, ResolvedSettles, FreshMayStart
  <2>3. ASSUME NEW file \in files, NEW content \in Texts, Reparse(file, content)
        PROVE  Settled'
    <3>1. ResolveAll(symbols', type)
      BY <2>3 DEF Reparse
    <3> QED
      BY <2>0, <3>1, ResolvedSettles, OldTypesMayStart
  <2> QED
    BY <2>1, <2>2, <2>3 DEF Next
<1> QED
  BY <1>1, <1>2, IndInvHolds, PTL DEF Spec

\* The collection is the twin of one made on the present contents.
LEMMA FreshIsTwin ==
  ASSUME IndInv, phase = "serving"
  PROVE  Twins(symbols, FreshSymbols(Contents))
<1> DEFINE T == FreshSymbols(Contents)
<1>0. WellFormed(symbols)
  BY BlocksAreWellFormed DEF IndInv, TypeOK
<1>1. /\ files \subseteq Files /\ text \in [Files -> Texts]
      /\ \A f \in files : \E b \in symbols : b.file = f
      /\ \A b \in symbols : b.file \in files /\ b.text = text[b.file]
      /\ \A b, c \in symbols : b.file = c.file => b = c
  BY DEF IndInv, TypeOK, CollectionIsCurrent
<1>2. T = {[file |-> f, at |-> f, text |-> text[f]] : f \in files}
  BY DEF FreshSymbols, FreshBlock, Contents
<1>3. \A c \in T : /\ c.file \in files /\ c.at = c.file /\ c.text = text[c.file]
                   /\ c = [file |-> c.file, at |-> c.file, text |-> text[c.file]]
  BY <1>2
<1>4. \A f \in files : [file |-> f, at |-> f, text |-> text[f]] \in T
  BY <1>2
<1> HIDE DEF T
<1>5. WellFormed(T)
  <2>1. \A c \in T : c.file \in Files /\ c.at \in Nat /\ c.text \in Texts
    BY <1>1, <1>3 DEF Files
  <2> QED
    BY <1>3, <2>1 DEF WellFormed
<1>6. \A b \in symbols : \E c \in T : c.file = b.file /\ c.text = b.text
  BY <1>1, <1>4
<1>7. \A c \in T : \E b \in symbols : c.file = b.file /\ c.text = b.text
  BY <1>1, <1>3
<1>8. \A b, c \in T : b.file = c.file => b = c
  BY <1>3
<1> QED
  BY <1>0, <1>1, <1>5, <1>6, <1>7, <1>8 DEF Twins, T

\* Twins are at the same place of the same file.
LEMMA TwinPlaces ==
  ASSUME NEW S, NEW T, Twins(S, T), NEW o \in Objects(S) \cup {NONE}
  PROVE  Place(Twin(T, o)) = Place(o)
<1>1. CASE o = NONE
  BY <1>1, TwinOfNone
<1>2. CASE o # NONE
  <2>1. Twin(T, o) = <<TwinBlock(T, o[1]), o[2]>> /\ Twin(T, o) # NONE
    BY <1>2, TwinObjects
  <2>2. o[1] \in S
    BY <1>2, ObjectFacts DEF Twins
  <2>3. TwinBlock(T, o[1]).file = o[1].file
    BY <2>2, TwinBlocks
  <2> QED
    BY <1>2, <2>1, <2>3 DEF Place
<1> QED
  BY <1>1, <1>2

\* Resolving again after each edit forgets the past: every reference of every
\* file is linked as in an index built from nothing on the present contents.
THEOREM DefinitionsStayFresh == Spec => []DefinitionsAreFresh
<1>1. IndInv /\ Settled => DefinitionsAreFresh
  <2> SUFFICES ASSUME IndInv, Settled, phase = "serving", UniqueNames
               PROVE  Links(definition) = Links(FreshDefinitions(Contents))
    BY DEF DefinitionsAreFresh
  <2> DEFINE S == symbols
             T == FreshSymbols(Contents)
             fresh == Definitions(T, OwnTypes(T))
  <2>1. Twins(S, T) /\ Unique(S)
    BY FreshIsTwin DEF UniqueNames, Unique
  <2>0. FreshDefinitions(Contents) = fresh
    BY <2>1, FreshMayStart, DefinitionsFromAnywhere DEF FreshDefinitions, Twins
  <2>2. /\ FreshDefinitions(Contents) = fresh
        /\ DOMAIN fresh = References(T)
        /\ DOMAIN definition = References(S)
    BY <2>0 DEF Definitions, Settled
  <2> HIDE DEF T, fresh
  <2>3. ASSUME NEW o \in References(S)
        PROVE  /\ Twin(T, o) \in References(T)
               /\ <<Place(Twin(T, o)), Place(fresh[Twin(T, o)])>> = <<Place(o), Place(definition[o])>>
    <3>1. Twin(T, o) \in References(T) /\ fresh[Twin(T, o)] = Twin(T, definition[o])
      BY <2>1, TwinDefinitions, TwinOwnTypes DEF Settled, fresh
    <3>2. o \in Objects(S) /\ definition[o] \in Objects(S) \cup {NONE}
      BY <2>2 DEF References, IndInv, NoDanglingDefinition
    <3> QED
      BY <2>1, <3>1, <3>2, TwinPlaces
  <2>4. \A p \in References(T) : \E o \in References(S) : Twin(T, o) = p
    <3> SUFFICES ASSUME NEW p \in References(T) PROVE \E o \in References(S) : Twin(T, o) = p
      OBVIOUS
    <3>1. p \in Objects(T) /\ Sym(p).kind \in ReferenceKinds
      BY DEF References
    <3>2. PICK o \in Objects(S) : Twin(T, o) = p
      BY <2>1, <3>1, TwinObjects
    <3> QED
      BY <2>1, <3>1, <3>2, TwinObjects DEF References
  <2>5. Links(definition) = {<<Place(o), Place(definition[o])>> : o \in References(S)}
    BY <2>2 DEF Links
  <2>6. Links(fresh) = {<<Place(p), Place(fresh[p])>> : p \in References(T)}
    BY <2>2 DEF Links
  <2>7. Links(definition) \subseteq Links(fresh)
    BY <2>3, <2>5, <2>6
  <2>8. Links(fresh) \subseteq Links(definition)
    BY <2>3, <2>4, <2>5, <2>6
  <2> QED
    BY <2>2, <2>7, <2>8
<1> QED
  BY <1>1, IndInvHolds, SettledHolds, PTL

\* And so every local has the type it has in an index built from nothing.
THEOREM LocalTypesStayFresh == Spec => []LocalTypesAreFresh
<1>1. IndInv /\ Settled => LocalTypesAreFresh
  <2> SUFFICES ASSUME IndInv, Settled, phase = "serving", UniqueNames
               PROVE  TypesAt(type, OfKind(symbols, "local")) =
                        TypesAt(FreshTypes(Contents), OfKind(FreshSymbols(Contents), "local"))
    BY DEF LocalTypesAreFresh
  <2> DEFINE S == symbols
             T == FreshSymbols(Contents)
             fresh == FreshTypes(Contents)
  <2>1. Twins(S, T) /\ Unique(S)
    BY FreshIsTwin DEF UniqueNames, Unique
  <2>2. WellFormed(T)
    BY <2>1 DEF Twins
  <2>3. \A p \in OfKind(T, "local") :
          fresh[p] = IF Sym(p).source = NONE THEN Sym(p).type ELSE SourceType(T, p)
    BY <2>2, ResolvedLocals, FreshMayStart DEF FreshTypes
  <2> HIDE DEF T, fresh
  <2>4. ASSUME NEW o \in OfKind(S, "local")
        PROVE  /\ Twin(T, o) \in OfKind(T, "local")
               /\ <<Place(Twin(T, o)), fresh[Twin(T, o)]>> = <<Place(o), type[o]>>
    <3>1. o \in Objects(S)
      BY DEF OfKind
    <3>2. Twin(T, o) \in OfKind(T, "local") /\ Sym(Twin(T, o)) = Sym(o)
      BY <2>1, TwinObjects DEF OfKind
    <3>3. fresh[Twin(T, o)] = type[o]
      BY <2>1, <2>3, <3>2, TwinSourceTypes DEF Settled
    <3> QED
      BY <2>1, <3>1, <3>2, <3>3, TwinPlaces
  <2>5. \A p \in OfKind(T, "local") : \E o \in OfKind(S, "local") : Twin(T, o) = p
    <3> SUFFICES ASSUME NEW p \in OfKind(T, "local") PROVE \E o \in OfKind(S, "local") : Twin(T, o) = p
      OBVIOUS
    <3>1. p \in Objects(T) /\ Sym(p).kind = "local"
      BY DEF OfKind
    <3>2. PICK o \in Objects(S) : Twin(T, o) = p
      BY <2>1, <3>1, TwinObjects
    <3> QED
      BY <2>1, <3>1, <3>2, TwinObjects DEF OfKind
  <2> DEFINE here == TypesAt(type, OfKind(S, "local"))
             there == TypesAt(fresh, OfKind(T, "local"))
  <2>6. here \subseteq there
    BY <2>4 DEF TypesAt
  <2>7. there \subseteq here
    BY <2>4, <2>5 DEF TypesAt
  <2> HIDE DEF here, there
  <2> QED
    BY <2>6, <2>7 DEF here, there, T, fresh
<1> QED
  BY <1>1, IndInvHolds, SettledHolds, PTL
=============================================================================
