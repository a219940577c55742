------------------------ MODULE LanguageServerProofs ------------------------
(***************************************************************************)
(* Theorems about the queries and about the whole program, for any         *)
(* project, any texts and any editor that sends whole documents.  The      *)
(* queries agree with the present texts and with each other: go to         *)
(* definition leads to a place where the name is declared, references lead *)
(* back from there, hovers over a use and its declaration show one type,   *)
(* and completion offers what the resolver would link to.  The loop goes   *)
(* through the steps of LspServer and the index through those of           *)
(* Workspace, so that what is proved of each holds of the two together.    *)
(***************************************************************************)
EXTENDS LanguageServer, Queries, WorkspaceProofs

-----------------------------------------------------------------------------
(* Looking up.                                                             *)

\* what a reference can be linked to
LinkedKinds == OwnerKinds \cup {"property"}

\* d declares the name n in the collection B
Names(B, d, n) == d \in Objects(B) /\ Sym(d).name = n /\ Sym(d).kind \in LinkedKinds

\* What the index has under a name has this name.
LEMMA LookedUpByName ==
  ASSUME NEW B, NEW n, NEW class
  PROVE  /\ Get(Index(B).classes, n) # NONE => Names(B, Get(Index(B).classes, n), n)
         /\ Get(Index(B).functions, n) # NONE => Names(B, Get(Index(B).functions, n), n)
         /\ Get(Index(B).methods, <<class, n>>) # NONE =>
              Names(B, Get(Index(B).methods, <<class, n>>), n)
         /\ Get(Index(B).properties, <<class, n>>) # NONE =>
              Names(B, Get(Index(B).properties, <<class, n>>), n)
<1>1. Get(Index(B).classes, n) # NONE => Names(B, Get(Index(B).classes, n), n)
  BY FirstOfIn DEF Index, Get, FirstBy, OfKind, Names, LinkedKinds, OwnerKinds
<1>2. Get(Index(B).functions, n) # NONE => Names(B, Get(Index(B).functions, n), n)
  BY FirstOfIn DEF Index, Get, FirstBy, OfKind, Names, LinkedKinds, OwnerKinds
<1>3. Get(Index(B).methods, <<class, n>>) # NONE =>
        Names(B, Get(Index(B).methods, <<class, n>>), n)
  BY FirstOfIn DEF Index, Get, FirstBy, OfKind, Names, LinkedKinds, OwnerKinds
<1>4. Get(Index(B).properties, <<class, n>>) # NONE =>
        Names(B, Get(Index(B).properties, <<class, n>>), n)
  BY FirstOfIn DEF Index, Get, FirstBy, OfKind, Names, LinkedKinds
<1> QED
  BY <1>1, <1>2, <1>3, <1>4

\* Whatever class the recursion of the resolver comes to, a reference is linked
\* to a declaration of its own name.
LEMMA LinkedToItsName ==
  ASSUME NEW B, NEW types, NEW o \in References(B), Definitions(B, types)[o] # NONE
  PROVE  Names(B, Definitions(B, types)[o], Sym(o).name)
<1> DEFINE index == Index(B)
           members == Members(B, types, index)
<1>1. Definitions(B, types)[o] = DefinitionOf(o, members, index)
  BY DEF Definitions
<1>2. \A class : DeclaredMember(class, o, index) # NONE =>
                   Names(B, DeclaredMember(class, o, index), Sym(o).name)
  BY LookedUpByName DEF DeclaredMember
<1>3. Sym(o).kind \in ReferenceKinds
  BY DEF References
<1>4. CASE Sym(o).kind = "classReference"
  BY <1>1, <1>4, LookedUpByName DEF DefinitionOf, MemberKinds
<1>5. CASE Sym(o).kind = "functionCall"
  BY <1>1, <1>5, LookedUpByName DEF DefinitionOf, MemberKinds
<1>6. CASE Sym(o).kind = "staticCall"
  BY <1>1, <1>2, <1>6 DEF DefinitionOf, MemberKinds
<1>7. CASE Sym(o).kind \in MemberKinds
  BY <1>1, <1>2, <1>7 DEF DefinitionOf, MemberKinds
<1> QED
  BY <1>3, <1>4, <1>5, <1>6, <1>7 DEF ReferenceKinds

-----------------------------------------------------------------------------
(* The invariant.                                                          *)

\* All the references are linked to declarations of their names that are in the
\* collection now.
LinkedToNames ==
    \A o \in References(symbols) : definition[o] # NONE => Names(symbols, definition[o], Sym(o).name)

\* Every definition has the name of its reference, throughout.
LEMMA LinkedToNamesHolds == Spec => []LinkedToNames
<1>1. Init => LinkedToNames
  BY NothingInNothing DEF Init, LinkedToNames
<1>2. LinkedToNames /\ [Next]_vars => LinkedToNames'
  <2> SUFFICES ASSUME LinkedToNames, [Next]_vars PROVE LinkedToNames'
    OBVIOUS
  <2>1. ASSUME NEW types, ResolveAll(symbols', types) PROVE LinkedToNames'
    <3>1. definition' = Definitions(symbols', TypesBefore(symbols', types))
      BY <2>1 DEF ResolveAll
    <3> QED
      BY <3>1, LinkedToItsName DEF LinkedToNames
  <2>2. ASSUME UNCHANGED <<symbols, definition>> PROVE LinkedToNames'
    BY <2>2 DEF LinkedToNames, Names
  <2>3. CASE ReadFile \/ ScanFails \/ UNCHANGED vars
    BY <2>2, <2>3 DEF ReadFile, ScanFails, vars
  <2>4. CASE \E file \in Files : ParseFile(file)
    BY <2>2, <2>4 DEF ParseFile
  <2>5. CASE Collect
    <3>1. ResolveAll(symbols', << >>)
      BY <2>5 DEF Collect, CanCollect
    <3> QED
      BY <3>1, <2>1
  <2>6. CASE \E file \in files, content \in Texts : Reparse(file, content)
    <3>1. ResolveAll(symbols', type)
      BY <2>6 DEF Reparse
    <3> QED
      BY <3>1, <2>1
  <2> QED
    BY <2>3, <2>4, <2>5, <2>6 DEF Next
<1> QED
  BY <1>1, <1>2, PTL DEF Spec

-----------------------------------------------------------------------------
(* The answers.                                                            *)

\* An object of the collection is a symbol of the present text of its file.
LEMMA ObjectsArePresent ==
  ASSUME IndInv, NEW o \in Objects(symbols)
  PROVE  /\ o[2] \in DOMAIN Parse[text[o[1].file]]
         /\ Sym(o) = Parse[text[o[1].file]][o[2]]
<1>1. PICK b \in symbols : \E j \in DOMAIN Parse[b.text] : o = <<b, j>>
  BY DEF Objects
<1>2. PICK j \in DOMAIN Parse[b.text] : o = <<b, j>>
  BY <1>1
<1>3. phase = "serving"
  BY <1>1 DEF IndInv, NothingBeforeServing
<1>4. b.text = text[b.file]
  BY <1>1, <1>3 DEF IndInv, CollectionIsCurrent
<1> QED
  BY <1>2, <1>4 DEF Sym

\* Asking about a usage leads to the variable it is a usage of, in the same text.
LEMMA UsagesLeadToVariables ==
  ASSUME IndInv, NEW o \in Objects(symbols), Sym(o).kind = "usage", Sym(o).definition # NONE
  PROVE  LET d == Linked(o, Sym(o).definition)
         IN  d \in Objects(symbols) /\ Sym(d).kind \in Variables
<1>1. PICK b \in symbols : \E j \in DOMAIN Parse[b.text] : o = <<b, j>>
  BY DEF Objects
<1>2. PICK j \in DOMAIN Parse[b.text] : o = <<b, j>>
  BY <1>1
<1>3. b.text \in Texts
  BY <1>1 DEF IndInv, TypeOK, Blocks
<1>4. /\ Sym(o).definition \in DOMAIN Parse[b.text]
      /\ Parse[b.text][Sym(o).definition].kind \in {"parameter", "local"}
  BY <1>2, <1>3, LinksAssumption DEF Sym
<1> DEFINE d == <<b, Sym(o).definition>>
<1>5. Linked(o, Sym(o).definition) = d
  BY <1>2 DEF Linked
<1>6. d \in Objects(symbols)
  BY <1>1, <1>4 DEF Objects
<1>7. Sym(d) = Parse[b.text][Sym(o).definition]
  BY DEF Sym
<1> QED
  BY <1>4, <1>5, <1>6, <1>7 DEF Variables

\* Where go to definition leads from a symbol.
LEMMA WhereDefinitionsLead ==
  ASSUME IndInv, LinkedToNames, NEW o \in Objects(symbols), NEW d \in DefinitionFrom(o)
  PROVE  /\ d \in Objects(symbols) /\ DefinitionFrom(o) = {d}
         /\ Sym(o).kind = "usage" =>
              /\ Sym(o).definition # NONE /\ d = Linked(o, Sym(o).definition)
              /\ Sym(d).kind \in Variables
         /\ Sym(o).kind # "usage" => Sym(d).kind \in LinkedKinds /\ Sym(d).name = Sym(o).name
         /\ Sym(o).kind \in ReferenceKinds => d = definition[o] /\ o \in References(symbols)
         /\ Sym(o).kind \in ReferenceKinds \cup {"usage", "property"}
         /\ Sym(o).kind = "property" => d = o
<1>1. CASE Sym(o).kind = "usage"
  <2>1. /\ Sym(o).definition # NONE /\ d = Linked(o, Sym(o).definition)
        /\ DefinitionFrom(o) = {d}
    BY <1>1 DEF DefinitionFrom, Linked, ReferenceKinds, MemberKinds
  <2>2. d \in Objects(symbols) /\ Sym(d).kind \in Variables
    BY <1>1, <2>1, UsagesLeadToVariables
  <2> QED
    BY <1>1, <2>1, <2>2 DEF ReferenceKinds, MemberKinds
<1>2. CASE Sym(o).kind \in ReferenceKinds
  <2>1. Sym(o).kind \notin {"usage", "property"}
    BY <1>2 DEF ReferenceKinds, MemberKinds
  <2>2. d = definition[o] /\ d # NONE /\ DefinitionFrom(o) = {d} /\ o \in References(symbols)
    BY <1>2, <2>1 DEF DefinitionFrom, References
  <2>3. Names(symbols, d, Sym(o).name)
    BY <2>2 DEF LinkedToNames
  <2> QED
    BY <1>2, <2>1, <2>2, <2>3 DEF Names
<1>3. CASE Sym(o).kind = "property"
  <2>1. d = o /\ DefinitionFrom(o) = {d}
    BY <1>3 DEF DefinitionFrom, ReferenceKinds, MemberKinds
  <2> QED
    BY <1>3, <2>1 DEF LinkedKinds, ReferenceKinds, MemberKinds
<1>4. CASE Sym(o).kind \notin ReferenceKinds \cup {"usage", "property"}
  BY <1>4 DEF DefinitionFrom
<1> QED
  BY <1>1, <1>2, <1>3, <1>4

\* What can be asked about is in the collection.
LEMMA AskedAreObjects == Asked \subseteq Objects(symbols)
BY DEF Asked, ResolveAt

\* Wherever one asks and whatever has been edited, go to definition leads to a
\* place where the present text declares the name that was asked about.
THEOREM AnswersAreDeclarations == Spec => []DefinitionLeadsToTheName
<1>1. IndInv /\ LinkedToNames => DefinitionLeadsToTheName
  <2> SUFFICES ASSUME IndInv, LinkedToNames, NEW o \in Asked, NEW d \in DefinitionFrom(o)
               PROVE  \E i \in DOMAIN Parse[text[Location(d).file]] :
                        LET found == Parse[text[Location(d).file]][i]
                        IN  /\ found.span = Location(d).range
                            /\ Declares(found.kind)
                            /\ Sym(o).kind # "usage" => found.name = Sym(o).name
    BY DEF DefinitionLeadsToTheName
  <2>1. o \in Objects(symbols)
    BY AskedAreObjects
  <2>2. /\ d \in Objects(symbols) /\ Declares(Sym(d).kind)
        /\ Sym(o).kind # "usage" => Sym(d).name = Sym(o).name
    BY <2>1, WhereDefinitionsLead DEF Declares, LinkedKinds
  <2>3. /\ d[2] \in DOMAIN Parse[text[d[1].file]]
        /\ Sym(d) = Parse[text[d[1].file]][d[2]]
    BY <2>2, ObjectsArePresent
  <2>4. Location(d).file = d[1].file /\ Location(d).range = Sym(d).span
    BY DEF Location
  <2> QED
    BY <2>2, <2>3, <2>4
<1> QED
  BY <1>1, IndInvHolds, LinkedToNamesHolds, PTL

-----------------------------------------------------------------------------
(* Places.                                                                 *)

\* The collection has one version of each file.
LEMMA OneBlockOfFile ==
  ASSUME IndInv, NEW o \in Objects(symbols), NEW p \in Objects(symbols), o[1].file = p[1].file
  PROVE  o[1] = p[1]
<1>1. o[1] \in symbols /\ p[1] \in symbols
  BY ObjectParts
<1> QED
  BY <1>1 DEF IndInv, CollectionIsCurrent, NothingBeforeServing

\* What is known of the place of a symbol.
LEMMA SpanFacts ==
  ASSUME IndInv, NEW o \in Objects(symbols)
  PROVE  /\ Sym(o).span \in [start : Nat, end : Nat]
         /\ Sym(o).span.start \in Nat /\ Sym(o).span.end \in Nat
         /\ Sym(o).span.start < Sym(o).span.end
         /\ Contains(Sym(o).span, Sym(o).span.start)
<1>1. WellFormed(symbols)
  BY BlocksAreWellFormed DEF IndInv, TypeOK
<1>2. /\ o[1].text \in Texts /\ o[2] \in DOMAIN Parse[o[1].text]
      /\ Sym(o) = Parse[o[1].text][o[2]]
  BY <1>1, ObjectFacts
<1>3. Sym(o).span \in [start : Nat, end : Nat] /\ Sym(o).span.start < Sym(o).span.end
  BY <1>2, PlacesAssumption
<1> QED
  BY <1>3 DEF Contains

\* Of two symbols made at one place, which come first and which next.
Shared(first, second) ==
    \/ first.kind = "property" /\ second.kind = "parameter" /\ first.type = second.type
    \/ first.kind = "property" /\ second.kind = "usage"
    \/ /\ first.kind = "classReference" /\ second.kind = "classReference"
       /\ first.name = second.name

\* A symbol where another one starts has the same place.
LEMMA PlacesAreShared ==
  ASSUME IndInv, NEW o \in Objects(symbols), NEW p \in Objects(symbols), o # p,
         p[1].file = o[1].file, Contains(Sym(p).span, Sym(o).span.start)
  PROVE  /\ Sym(p).span = Sym(o).span /\ p[1] = o[1]
         /\ \/ p[2] < o[2] /\ Shared(Sym(p), Sym(o))
            \/ o[2] < p[2] /\ Shared(Sym(o), Sym(p))
<1> DEFINE t == o[1].text
           i == o[2]
           j == p[2]
<1>1. WellFormed(symbols) /\ p[1] = o[1]
  BY OneBlockOfFile, BlocksAreWellFormed DEF IndInv, TypeOK
<1>2. /\ t \in Texts /\ i \in 1..Len(Parse[t]) /\ j \in 1..Len(Parse[t])
      /\ i \in DOMAIN Parse[t] /\ j \in DOMAIN Parse[t] /\ Len(Parse[t]) \in Nat
      /\ Sym(o) = Parse[t][i] /\ Sym(p) = Parse[t][j]
      /\ o = <<o[1], i>> /\ p = <<o[1], j>>
  BY <1>1, ObjectFacts
<1>3. i # j /\ i \in Nat /\ j \in Nat
  BY <1>2
<1>4. /\ Sym(o).span.start \in Nat /\ Sym(o).span.end \in Nat /\ Sym(o).span.start < Sym(o).span.end
      /\ Sym(p).span.start \in Nat /\ Sym(p).span.end \in Nat /\ Sym(p).span.start < Sym(p).span.end
      /\ Sym(p).span.start <= Sym(o).span.start /\ Sym(o).span.start < Sym(p).span.end
  BY SpanFacts DEF Contains
<1>5. ~ (Sym(o).span.end <= Sym(p).span.start) /\ ~ (Sym(p).span.end <= Sym(o).span.start)
  BY <1>4
<1> HIDE DEF t, i, j
<1>6. ASSUME NEW k \in DOMAIN Parse[t], NEW l \in (k + 1)..Len(Parse[t]),
             ~ (Parse[t][k].span.end <= Parse[t][l].span.start),
             ~ (Parse[t][l].span.end <= Parse[t][k].span.start)
      PROVE  Parse[t][k].span = Parse[t][l].span /\ Shared(Parse[t][k], Parse[t][l])
  <2>1. \A x \in Texts : \A k1 \in DOMAIN Parse[x] : \A l1 \in (k1 + 1)..Len(Parse[x]) :
          \/ Parse[x][k1].span.end <= Parse[x][l1].span.start \/ Parse[x][l1].span.end <= Parse[x][k1].span.start
          \/ Parse[x][k1].span = Parse[x][l1].span /\ Shared(Parse[x][k1], Parse[x][l1])
    BY PlacesAssumption DEF Shared
  <2> QED
    BY <1>2, <1>6, <2>1
<1>7. CASE j < i
  <2>1. i \in (j + 1)..Len(Parse[t])
    BY <1>2, <1>3, <1>7
  <2> QED
    BY <1>1, <1>2, <1>5, <1>6, <1>7, <2>1 DEF i, j
<1>8. CASE i < j
  <2>1. j \in (i + 1)..Len(Parse[t])
    BY <1>2, <1>3, <1>8
  <2> QED
    BY <1>1, <1>2, <1>5, <1>6, <1>8, <2>1 DEF i, j
<1> QED
  BY <1>3, <1>7, <1>8

\* Where a symbol stands one symbol answers: it, or one made at the same place
\* before it.
LEMMA OneAnswers ==
  ASSUME IndInv, NEW o \in Objects(symbols)
  PROVE  \E a \in Objects(symbols) :
           /\ ResolveAt(o[1].file, Sym(o).span.start) = {a}
           /\ a[1] = o[1] /\ Sym(a).span = Sym(o).span
           /\ a = o \/ Shared(Sym(a), Sym(o))
<1> DEFINE file == o[1].file
           at == Sym(o).span.start
           hits == {p \in Objects(symbols) : p[1].file = file /\ Contains(Sym(p).span, at)}
<1>1. WellFormed(symbols)
  BY BlocksAreWellFormed DEF IndInv, TypeOK
<1>2. o \in hits
  BY SpanFacts
<1>3. ASSUME NEW p \in hits PROVE p \in Objects(symbols) /\ p[1] = o[1] /\ Sym(p).span = Sym(o).span
  BY PlacesAreShared
<1>4. PICK a \in hits : \A p \in hits : ~ Before(p, a)
  BY <1>1, <1>2, EarliestExists
<1>5. ASSUME NEW p \in hits \ {a} PROVE Before(a, p) /\ IsWithin(Sym(a).span, Sym(p).span)
  <2>1. /\ p[1] = a[1] /\ p[2] \in Nat /\ a[2] \in Nat /\ p[1].at \in Nat
        /\ p = <<p[1], p[2]>> /\ a = <<a[1], a[2]>>
    BY <1>1, <1>3, ObjectFacts
  <2>2. ~ (p[2] < a[2])
    BY <1>4, <2>1 DEF Before
  <2>3. a[2] < p[2]
    BY <2>1, <2>2
  <2>4. Sym(a).span = Sym(p).span /\ Sym(p).span.start \in Nat /\ Sym(p).span.end \in Nat
    BY <1>3, SpanFacts
  <2> QED
    BY <2>1, <2>3, <2>4 DEF Before, IsWithin
<1> DEFINE best(q) == \A p \in hits \ {q} : /\ IsWithin(Sym(q).span, Sym(p).span)
                                            /\ IsWithin(Sym(p).span, Sym(q).span) => Before(q, p)
<1>6. ResolveAt(file, at) = {q \in hits : best(q)}
  BY DEF ResolveAt
<1> HIDE DEF hits
<1>7. a \in ResolveAt(file, at)
  <2>1. best(a)
    BY <1>5
  <2> HIDE DEF best
  <2> QED
    BY <1>4, <1>6, <2>1
<1>8. ASSUME NEW q \in ResolveAt(file, at), q # a PROVE FALSE
  <2>0. q \in hits /\ best(q)
    <3> HIDE DEF best
    <3> QED
      BY <1>6, <1>8
  <2>1. q \in hits \ {a} /\ a \in hits \ {q}
    BY <1>4, <1>8, <2>0
  <2>2. IsWithin(Sym(a).span, Sym(q).span)
    BY <1>5, <2>1
  <2>3. Before(q, a)
    BY <2>0, <2>1, <2>2
  <2> QED
    BY <1>4, <2>1, <2>3
<1>9. ResolveAt(file, at) = {a}
  BY <1>7, <1>8
<1>10. a = o \/ Shared(Sym(a), Sym(o))
  <2>1. ASSUME a # o PROVE Shared(Sym(a), Sym(o))
    <3>1. a \in Objects(symbols) /\ a[1].file = o[1].file /\ Contains(Sym(a).span, Sym(o).span.start)
      BY DEF hits
    <3>2. (a[2] < o[2] /\ Shared(Sym(a), Sym(o))) \/ (o[2] < a[2] /\ Shared(Sym(o), Sym(a)))
      BY <2>1, <3>1, PlacesAreShared
    <3>3. Before(a, o)
      BY <1>2, <1>5, <2>1
    <3>4. a[2] < o[2] /\ a[2] \in Nat /\ o[2] \in Nat /\ a[1].at \in Nat /\ a[1] = o[1]
      BY <1>1, <1>3, <3>1, <3>3, ObjectFacts DEF Before
    <3> QED
      BY <3>2, <3>4
  <2> QED
    BY <2>1
<1> QED
  BY <1>3, <1>9, <1>10

\* What can be asked about answers where it stands.
LEMMA AskedAnswer ==
  ASSUME IndInv, NEW o \in Asked
  PROVE  o \in Objects(symbols) /\ ResolveAt(o[1].file, Sym(o).span.start) = {o}
<1>0. PICK f \in files : \E i \in DOMAIN Parse[text[f]] : o \in ResolveAt(f, Parse[text[f]][i].span.start)
  BY DEF Asked
<1>1. PICK i \in DOMAIN Parse[text[f]] : o \in ResolveAt(f, Parse[text[f]][i].span.start)
  BY <1>0
<1>2. PICK b \in symbols : b.file = f /\ b.text = text[f]
  BY DEF IndInv, CollectionIsCurrent, NothingBeforeServing
<1> DEFINE q == <<b, i>>
<1>3. q \in Objects(symbols) /\ q[1].file = f /\ Sym(q) = Parse[text[f]][i]
  BY <1>2, ObjectsOfBlocks DEF Sym
<1> HIDE DEF q
<1>4. PICK a \in Objects(symbols) :
           /\ ResolveAt(q[1].file, Sym(q).span.start) = {a}
           /\ a[1] = q[1] /\ Sym(a).span = Sym(q).span
  BY <1>3, OneAnswers
<1>5. o = a
  BY <1>1, <1>3, <1>4
<1> QED
  BY <1>4, <1>5

-----------------------------------------------------------------------------
(* Definition, references and hover.                                       *)

\* The declaration a symbol stands for is the only one, and stands for itself.
LEMMA DeclarationFacts ==
  ASSUME IndInv, LinkedToNames, NEW o \in Objects(symbols), NEW d \in DeclarationOf(o)
  PROVE  /\ d \in Objects(symbols) /\ DeclarationOf(o) = {d}
         /\ Sym(d).kind \in LinkedKinds \cup Variables
         /\ DeclarationOf(d) = {d}
         /\ \/ d = o
            \/ /\ Sym(o).kind = "usage" /\ Linked(o, Sym(o).definition) = d
               /\ Sym(d).kind \in Variables
            \/ /\ o \in References(symbols) /\ definition[o] = d
               /\ Sym(d).kind \notin Variables
<1>0. NONE \notin Objects(symbols)
  BY ObjectFacts, BlocksAreWellFormed DEF IndInv, TypeOK
<1>1. CASE Sym(o).kind \in OwnerKinds \cup Variables
  BY <1>1 DEF DeclarationOf, LinkedKinds
<1>2. CASE Sym(o).kind \notin OwnerKinds \cup Variables
  <2>1. DeclarationOf(o) = DefinitionFrom(o) /\ d \in DefinitionFrom(o)
    BY <1>2 DEF DeclarationOf
  <2>2. /\ d \in Objects(symbols) /\ DefinitionFrom(o) = {d}
        /\ Sym(o).kind = "usage" =>
             d = Linked(o, Sym(o).definition) /\ Sym(d).kind \in Variables
        /\ Sym(o).kind # "usage" => Sym(d).kind \in LinkedKinds
        /\ Sym(o).kind \in ReferenceKinds => d = definition[o] /\ o \in References(symbols)
        /\ Sym(o).kind \in ReferenceKinds \cup {"usage", "property"}
        /\ Sym(o).kind = "property" => d = o
    BY <2>1, WhereDefinitionsLead
  <2>3. Sym(d).kind \in LinkedKinds \cup Variables
    BY <2>2
  <2>4. DeclarationOf(d) = {d}
    <3>1. CASE Sym(d).kind = "property"
      <4>1. DefinitionFrom(d) = {d}
        BY <1>0, <2>2, <3>1 DEF DefinitionFrom, ReferenceKinds, MemberKinds
      <4> QED
        BY <3>1, <4>1 DEF DeclarationOf, OwnerKinds, Variables
    <3> QED
      BY <2>3, <3>1 DEF DeclarationOf, LinkedKinds
  <2>5. LinkedKinds \cap Variables = {} /\ "usage" \notin ReferenceKinds
    BY DEF LinkedKinds, OwnerKinds, Variables, ReferenceKinds, MemberKinds
  <2> QED
    BY <2>1, <2>2, <2>3, <2>4, <2>5
<1> QED
  BY <1>1, <1>2

\* From each use of a declaration go to definition leads to it, but where the
\* property of an anonymous class is what one asks about there.
LEMMA UsesLeadBack ==
  ASSUME IndInv, LinkedToNames, NEW d \in Objects(symbols), NEW u \in UsesOf(d),
         ~ DeclaresProperty(Location(u))
  PROVE  DefinitionAnswer(Location(u).file, Location(u).range.start) = {Location(d)}
<1>0. NONE \notin Objects(symbols)
  BY ObjectFacts, BlocksAreWellFormed DEF IndInv, TypeOK
<1>1. Location(u).file = u[1].file /\ Location(u).range = Sym(u).span
  BY DEF Location
<1>2. /\ u \in Objects(symbols)
      /\ \/ Sym(u).kind = "usage" /\ Linked(u, Sym(u).definition) = d
         \/ u \in References(symbols) /\ Sym(u).kind \in ReferenceKinds /\ definition[u] = d
  BY DEF UsesOf, OfKind, References
<1>3. DefinitionFrom(u) = {d}
  BY <1>0, <1>2 DEF DefinitionFrom, ReferenceKinds, MemberKinds
<1>4. PICK a \in Objects(symbols) :
           /\ ResolveAt(u[1].file, Sym(u).span.start) = {a}
           /\ a[1] = u[1] /\ Sym(a).span = Sym(u).span
           /\ a = u \/ Shared(Sym(a), Sym(u))
  BY <1>2, OneAnswers
<1>5. Sym(a).kind # "property" \/ a = u
  <2>1. Location(a) = Location(u)
    BY <1>4 DEF Location
  <2> QED
    BY <1>4, <2>1 DEF DeclaresProperty, OfKind
<1>6. DefinitionFrom(a) = {d}
  <2>1. CASE a = u
    BY <1>3, <2>1
  <2>2. CASE a # u
    <3>1. /\ Sym(a).kind = "classReference" /\ Sym(u).kind = "classReference"
          /\ Sym(a).name = Sym(u).name
      BY <1>4, <1>5, <2>2 DEF Shared
    <3>2. a \in References(symbols) /\ u \in References(symbols)
      BY <1>2, <3>1 DEF References, ReferenceKinds
    <3>3. definition[a] = definition[u]
      <4>1. DOMAIN definition = References(symbols)
        BY DEF IndInv, TypeOK
      <4> QED
        BY <3>1, <3>2, <4>1 DEF IndInv, LinkedByName
    <3>4. definition[u] = d
      BY <1>2, <3>1
    <3> QED
      BY <1>0, <3>1, <3>3, <3>4 DEF DefinitionFrom, ReferenceKinds
  <2> QED
    BY <2>1, <2>2
<1>7. DefinitionAnswer(u[1].file, Sym(u).span.start) = {Location(d)}
  BY <1>4, <1>6 DEF DefinitionAnswer
<1> QED
  BY <1>1, <1>7

\* References and definition, each of which searches the collection in its own
\* way, are inverse to each other wherever one asks and whatever has been edited.
THEOREM ReferencesAgree == Spec => []ReferencesAndDefinitionAgree
<1>1. IndInv /\ LinkedToNames => ReferencesAndDefinitionAgree
  <2> SUFFICES ASSUME IndInv, LinkedToNames, NEW o \in Asked, NEW declared \in DeclarationOf(o)
               PROVE  /\ \A use \in ReferencesAnswer(o[1].file, Sym(o).span.start, FALSE) :
                           ~ DeclaresProperty(use) =>
                             DefinitionAnswer(use.file, use.range.start) = {Location(declared)}
                      /\ ~ Promoted(declared) =>
                           Location(o) \in
                             ReferencesAnswer(declared[1].file, Sym(declared).span.start, TRUE)
    BY DEF ReferencesAndDefinitionAgree
  <2>1. o \in Objects(symbols) /\ ResolveAt(o[1].file, Sym(o).span.start) = {o}
    BY AskedAnswer
  <2>2. /\ declared \in Objects(symbols) /\ DeclarationOf(o) = {declared}
        /\ Sym(declared).kind \in LinkedKinds \cup Variables
        /\ DeclarationOf(declared) = {declared}
        /\ \/ declared = o
           \/ /\ Sym(o).kind = "usage" /\ Linked(o, Sym(o).definition) = declared
              /\ Sym(declared).kind \in Variables
           \/ /\ o \in References(symbols) /\ definition[o] = declared
              /\ Sym(declared).kind \notin Variables
    BY <2>1, DeclarationFacts
  <2>3. ASSUME NEW use \in ReferencesAnswer(o[1].file, Sym(o).span.start, FALSE),
               ~ DeclaresProperty(use)
        PROVE  DefinitionAnswer(use.file, use.range.start) = {Location(declared)}
    <3>1. PICK u \in UsesOf(declared) : use = Location(u)
      BY <2>1, <2>2 DEF ReferencesAnswer
    <3> QED
      BY <2>2, <2>3, <3>1, UsesLeadBack
  <2>4. ASSUME ~ Promoted(declared)
        PROVE  Location(o) \in ReferencesAnswer(declared[1].file, Sym(declared).span.start, TRUE)
    <3>1. PICK a \in Objects(symbols) :
               /\ ResolveAt(declared[1].file, Sym(declared).span.start) = {a}
               /\ a[1] = declared[1] /\ Sym(a).span = Sym(declared).span
               /\ a = declared \/ Shared(Sym(a), Sym(declared))
      BY <2>2, OneAnswers
    <3>2. a = declared
      <4>1. Location(a) = Location(declared)
        BY <3>1 DEF Location
      <4>2. ~ Shared(Sym(a), Sym(declared))
        BY <2>2, <2>4, <4>1 DEF Shared, Promoted, OfKind, LinkedKinds, OwnerKinds, Variables
      <4> QED
        BY <3>1, <4>2
    <3>3. o \in UsesOf(declared) \/ o = declared
      BY <2>1, <2>2 DEF UsesOf, OfKind
    <3> QED
      BY <2>2, <3>1, <3>2, <3>3 DEF ReferencesAnswer
  <2> QED
    BY <2>3, <2>4
<1> QED
  BY <1>1, IndInvHolds, LinkedToNamesHolds, PTL

\* Hover over a variable shows the type that hover over its declaration shows.
THEOREM HoverFollows == Spec => []HoverFollowsDeclaration
<1>1. IndInv /\ LinkedToNames => HoverFollowsDeclaration
  <2> SUFFICES ASSUME IndInv, LinkedToNames, NEW u \in Asked \cap OfKind(symbols, "usage"),
                      NEW there \in DefinitionAnswer(u[1].file, Sym(u).span.start),
                      NEW declared \in HoverAnswer(there.file, there.range.start),
                      declared.type # NONE,
                      NEW hover \in HoverAnswer(u[1].file, Sym(u).span.start)
               PROVE  hover.type = declared.type
    BY DEF HoverFollowsDeclaration
  <2>1. u \in Objects(symbols) /\ ResolveAt(u[1].file, Sym(u).span.start) = {u} /\ Sym(u).kind = "usage"
    BY AskedAnswer DEF OfKind
  <2>2. PICK d \in DefinitionFrom(u) : there = Location(d)
    BY <2>1 DEF DefinitionAnswer
  <2>3. /\ d \in Objects(symbols) /\ d = Linked(u, Sym(u).definition)
        /\ Sym(d).kind \in Variables
    BY <2>1, WhereDefinitionsLead
  <2>4. PICK a \in Objects(symbols) :
             /\ ResolveAt(d[1].file, Sym(d).span.start) = {a}
             /\ a[1] = d[1] /\ Sym(a).span = Sym(d).span
             /\ a = d \/ Shared(Sym(a), Sym(d))
    BY <2>3, OneAnswers
  <2>5. there.file = d[1].file /\ there.range = Sym(d).span
    BY <2>2 DEF Location
  <2>6. declared.type = TypeShown(a)
    BY <2>4, <2>5 DEF HoverAnswer
  <2>7. hover.type = type[u]
    BY <2>1 DEF HoverAnswer, TypeShown, TypedKinds
  <2>8. TypeShown(a) = IF Sym(d).kind = "parameter" THEN Sym(d).type ELSE type[d]
    <3>1. CASE a = d
      BY <2>3, <3>1 DEF TypeShown, TypedKinds, Variables
    <3>2. CASE a # d
      <4>1. Sym(a).kind = "property" /\ Sym(d).kind = "parameter" /\ Sym(a).type = Sym(d).type
        BY <2>3, <2>4, <3>2 DEF Shared, Variables
      <4> QED
        BY <4>1 DEF TypeShown, TypedKinds
    <3> QED
      BY <3>1, <3>2
  <2>9. d # NONE
    BY <2>3, ObjectFacts, BlocksAreWellFormed DEF IndInv, TypeOK
  <2>10. DefinitionType(type, u) = TypeShown(a)
    BY <2>3, <2>8, <2>9 DEF DefinitionType
  <2>11. type[u] = DefinitionType(type, u)
    BY <2>6, <2>10 DEF IndInv, UsageTypesFollowDefinitions
  <2> QED
    BY <2>6, <2>7, <2>10, <2>11
<1> QED
  BY <1>1, IndInvHolds, LinkedToNamesHolds, PTL

-----------------------------------------------------------------------------
(* Completion.                                                             *)

\* What is known of the scope of a declaration and a symbol in its file.
LEMMA ScopeFacts ==
  ASSUME IndInv, NEW o \in Objects(symbols), NEW p \in Objects(symbols), p[1].file = o[1].file,
         Sym(p).kind \in OwnerKinds
  PROVE  /\ p[1] = o[1] /\ p = <<o[1], p[2]>>
         /\ Sym(p).scope \in [start : Nat, end : Nat]
         /\ p[2] \in Around(o[1].text, o[2]) <=> Contains(Sym(p).scope, Sym(o).span.start)
<1> DEFINE span == Sym(o).span
           scope == Sym(p).scope
<1>1. WellFormed(symbols) /\ p[1] = o[1]
  BY OneBlockOfFile, BlocksAreWellFormed DEF IndInv, TypeOK
<1>2. /\ o[1].text \in Texts /\ o[2] \in DOMAIN Parse[o[1].text] /\ p[2] \in DOMAIN Parse[o[1].text]
      /\ Sym(o) = Parse[o[1].text][o[2]] /\ Sym(p) = Parse[o[1].text][p[2]]
      /\ p = <<o[1], p[2]>>
  BY <1>1, ObjectFacts
<1>3. /\ scope \in [start : Nat, end : Nat]
      /\ IsWithin(span, scope) \/ span.end <= scope.start \/ scope.end <= span.start
  BY <1>2, NestingAssumption
<1>4. span.start \in Nat /\ span.end \in Nat /\ span.start < span.end
  BY SpanFacts
<1>5. p[2] \in Around(o[1].text, o[2]) <=> IsWithin(span, scope)
  BY <1>2 DEF Around
<1> HIDE DEF span, scope
<1>6. IsWithin(span, scope) <=> Contains(scope, span.start)
  BY <1>3, <1>4 DEF IsWithin, Contains
<1> QED
  BY <1>1, <1>2, <1>3, <1>5, <1>6 DEF span, scope

\* The functions around a symbol, in the collection.
FunctionsAround(file, at) ==
    {p \in Objects(symbols) : /\ p[1].file = file /\ Sym(p).kind \in FunctionLikes
                              /\ Contains(Sym(p).scope, at)}

\* Two declarations with the same scope are one.
LEMMA ScopesDiffer ==
  ASSUME IndInv, NEW p \in Objects(symbols), NEW q \in Objects(symbols), p[1] = q[1],
         Sym(p).kind \in OwnerKinds, Sym(q).kind \in OwnerKinds,
         IsWithin(Sym(p).scope, Sym(q).scope), IsWithin(Sym(q).scope, Sym(p).scope)
  PROVE  p = q
<1>1. WellFormed(symbols)
  BY BlocksAreWellFormed DEF IndInv, TypeOK
<1>2. /\ p[1].text \in Texts /\ p[2] \in DOMAIN Parse[p[1].text] /\ q[2] \in DOMAIN Parse[p[1].text]
      /\ Sym(p) = Parse[p[1].text][p[2]] /\ Sym(q) = Parse[p[1].text][q[2]]
      /\ p = <<p[1], p[2]>> /\ q = <<p[1], q[2]>>
  BY <1>1, ObjectFacts
<1>3. Sym(p).scope \in [start : Nat, end : Nat] /\ Sym(q).scope \in [start : Nat, end : Nat]
  BY ScopeFacts
<1>4. Sym(p).scope = Sym(q).scope
  BY <1>3 DEF IsWithin
<1>5. p[2] = q[2]
  BY <1>2, <1>4, NestingAssumption
<1> QED
  BY <1>2, <1>5

\* Completion finds the function a symbol stands in, when that is the innermost
\* declaration around the symbol.
LEMMA OwnerIsFound ==
  ASSUME IndInv, NEW o \in Objects(symbols), NEW w \in Innermost(o[1].text, o[2]),
         Parse[o[1].text][w].kind \in FunctionLikes
  PROVE  /\ EnclosingOwner(o[1].file, Sym(o).span.start) = <<o[1], w>>
         /\ <<o[1], w>> \in Objects(symbols)
<1> DEFINE owner == <<o[1], w>>
           around == FunctionsAround(o[1].file, Sym(o).span.start)
           innermost == {q \in around : \A p \in around : IsWithin(Sym(q).scope, Sym(p).scope)}
<1>1. /\ w \in Around(o[1].text, o[2])
      /\ \A k \in Around(o[1].text, o[2]) : IsWithin(Parse[o[1].text][w].scope, Parse[o[1].text][k].scope)
  BY DEF Innermost
<1>2. owner \in Objects(symbols) /\ Sym(owner) = Parse[o[1].text][w]
  <2>1. o[1] \in symbols /\ w \in DOMAIN Parse[o[1].text]
    BY <1>1, ObjectParts DEF Around
  <2> QED
    BY <2>1, ObjectsOfBlocks DEF Sym
<1>3. FunctionLikes \subseteq OwnerKinds
  BY DEF FunctionLikes, OwnerKinds
<1>4. owner[1] = o[1] /\ owner[2] = w
  OBVIOUS
<1> HIDE DEF owner
<1>5. owner \in around
  <2>1. Contains(Sym(owner).scope, Sym(o).span.start)
    BY <1>1, <1>2, <1>3, <1>4, ScopeFacts
  <2> QED
    BY <1>2, <1>4, <2>1 DEF FunctionsAround
<1>6. ASSUME NEW p \in around
      PROVE  /\ p \in Objects(symbols) /\ p[1] = o[1] /\ Sym(p).kind \in OwnerKinds
             /\ IsWithin(Sym(owner).scope, Sym(p).scope)
  <2>1. /\ p \in Objects(symbols) /\ p[1].file = o[1].file /\ Sym(p).kind \in OwnerKinds
        /\ Contains(Sym(p).scope, Sym(o).span.start)
    BY <1>3 DEF FunctionsAround
  <2>2. p[1] = o[1] /\ p[2] \in Around(o[1].text, o[2])
    BY <2>1, ScopeFacts
  <2>3. Sym(p) = Parse[o[1].text][p[2]]
    BY <2>2 DEF Sym
  <2> QED
    BY <1>1, <1>2, <2>1, <2>2, <2>3
<1>7. EnclosingOwner(o[1].file, Sym(o).span.start)
        = IF innermost = {} THEN NONE ELSE CHOOSE q \in innermost : TRUE
  BY DEF EnclosingOwner, FunctionsAround
<1> HIDE DEF around
<1>8. innermost = {owner}
  <2>1. owner \in innermost
    BY <1>5, <1>6
  <2>2. ASSUME NEW q \in innermost PROVE q = owner
    <3>1. q \in around /\ IsWithin(Sym(q).scope, Sym(owner).scope)
      BY <1>5
    <3>2. /\ q \in Objects(symbols) /\ q[1] = o[1] /\ Sym(q).kind \in OwnerKinds
          /\ IsWithin(Sym(owner).scope, Sym(q).scope)
      BY <1>6, <3>1
    <3>3. owner[1] = q[1] /\ Sym(owner).kind \in OwnerKinds
      BY <1>3, <1>4, <1>2, <3>2
    <3> QED
      BY <1>2, <3>1, <3>2, <3>3, ScopesDiffer
  <2> QED
    BY <2>1, <2>2
<1> HIDE DEF innermost
<1>9. EnclosingOwner(o[1].file, Sym(o).span.start) = owner
  BY <1>7, <1>8
<1> QED
  BY <1>2, <1>9 DEF owner

\* It finds none for a symbol that stands in none.
LEMMA NoOwnerIsFound ==
  ASSUME IndInv, NEW o \in Objects(symbols), Around(o[1].text, o[2]) = {}
  PROVE  EnclosingOwner(o[1].file, Sym(o).span.start) = NONE
<1> DEFINE around == FunctionsAround(o[1].file, Sym(o).span.start)
           innermost == {q \in around : \A p \in around : IsWithin(Sym(q).scope, Sym(p).scope)}
<1>1. around = {}
  <2>1. ASSUME NEW p \in around PROVE FALSE
    <3>1. /\ p \in Objects(symbols) /\ p[1].file = o[1].file /\ Sym(p).kind \in OwnerKinds
          /\ Contains(Sym(p).scope, Sym(o).span.start)
      BY DEF FunctionsAround, FunctionLikes, OwnerKinds
    <3>2. p[2] \in Around(o[1].text, o[2])
      BY <3>1, ScopeFacts
    <3> QED
      BY <3>2
  <2> QED
    BY <2>1
<1>2. EnclosingOwner(o[1].file, Sym(o).span.start)
        = IF innermost = {} THEN NONE ELSE CHOOSE q \in innermost : TRUE
  BY DEF EnclosingOwner, FunctionsAround
<1> HIDE DEF around
<1>3. innermost = {}
  BY <1>1
<1> QED
  BY <1>2, <1>3

\* The owner of a member is the function that completion finds where the member
\* stands, if it is no class.
LEMMA MembersOwnerIsFound ==
  ASSUME IndInv, NEW m \in MemberObjects(symbols),
         OwnerOf(m) # NONE => Sym(OwnerOf(m)).kind \in FunctionLikes
  PROVE  EnclosingOwner(m[1].file, Sym(m).span.start) = OwnerOf(m)
<1> DEFINE t == m[1].text
<1>1. m \in Objects(symbols) /\ Sym(m).kind \in MemberKinds /\ WellFormed(symbols)
  BY BlocksAreWellFormed DEF MemberObjects, IndInv, TypeOK
<1>2. t \in Texts /\ m[2] \in DOMAIN Parse[t] /\ Sym(m) = Parse[t][m[2]]
  BY <1>1, ObjectFacts
<1>3. Sym(m).owner \in IF Around(t, m[2]) = {} THEN {NONE} ELSE Innermost(t, m[2])
  BY <1>1, <1>2, OwnersAssumption
<1>4. CASE Around(t, m[2]) = {}
  <2>1. OwnerOf(m) = NONE
    BY <1>3, <1>4 DEF OwnerOf, Linked
  <2> QED
    BY <1>1, <1>4, <2>1, NoOwnerIsFound
<1>5. CASE Around(t, m[2]) # {}
  <2>1. Sym(m).owner \in Innermost(t, m[2])
    BY <1>3, <1>5
  <2>2. Sym(m).owner \in DOMAIN Parse[t]
    BY <2>1 DEF Innermost, Around
  <2>3. Sym(m).owner # NONE
    <3>1. <<m[1], Sym(m).owner>> \in Objects(symbols)
      BY <1>1, <2>2, ObjectParts, ObjectsOfBlocks
    <3>2. Sym(m).owner \in Nat
      BY <1>1, <3>1, ObjectFacts
    <3> QED
      BY <3>2, NoneAssumption
  <2>4. OwnerOf(m) = <<m[1], Sym(m).owner>>
    BY <2>3 DEF OwnerOf, Linked
  <2>5. Sym(OwnerOf(m)) = Parse[t][Sym(m).owner]
    BY <2>4 DEF Sym
  <2>6. OwnerOf(m) # NONE
    BY <1>1, <2>3, OwnersArePresent DEF OwnedKinds
  <2>7. Parse[t][Sym(m).owner].kind \in FunctionLikes
    BY <2>5, <2>6
  <2> QED
    BY <1>1, <2>1, <2>4, <2>7, OwnerIsFound
<1> QED
  BY <1>4, <1>5

\* The objects of the collection are in one order: among some there is a first.
LEMMA FirstExists ==
  ASSUME IndInv, NEW X \in SUBSET Objects(symbols), X # {}
  PROVE  FirstOf(X) \in X /\ FirstOf(X) # NONE
<1>1. WellFormed(symbols)
  BY BlocksAreWellFormed DEF IndInv, TypeOK
<1>2. PICK o \in X : \A p \in X : ~ Before(p, o)
  BY <1>1, EarliestExists
<1>3. ASSUME NEW p \in X \ {o} PROVE Before(o, p)
  <2>1. /\ o[1] \in symbols /\ p[1] \in symbols /\ o = <<o[1], o[2]>> /\ p = <<p[1], p[2]>>
        /\ o[1].at \in Nat /\ p[1].at \in Nat /\ o[2] \in Nat /\ p[2] \in Nat
    BY <1>1, ObjectFacts
  <2>2. o[1].at = p[1].at => o[1] = p[1]
    BY <2>1 DEF IndInv, CollectionIsCurrent, NothingBeforeServing
  <2>3. o[1] # p[1] \/ o[2] # p[2]
    BY <2>1
  <2>4. ~ (p[1].at < o[1].at) /\ ~ (p[1].at = o[1].at /\ p[2] < o[2])
    BY <1>2 DEF Before
  <2> QED
    BY <2>1, <2>2, <2>3, <2>4 DEF Before
<1>4. IsFirst(o, X)
  BY <1>3 DEF IsFirst
<1>5. FirstOf(X) = o
  BY <1>1, <1>4, FirstIsUnique
<1> QED
  BY <1>1, <1>5, ObjectFacts

\* A member whose object is a variable has no receiver.
LEMMA VariablesReceiveNothing ==
  ASSUME IndInv, NEW m \in MemberObjects(symbols), Sym(m).variable # NONE
  PROVE  Sym(m).receiver = NONE
<1>1. /\ m[1].text \in Texts /\ m[2] \in DOMAIN Parse[m[1].text]
      /\ Sym(m) = Parse[m[1].text][m[2]] /\ Sym(m).kind \in MemberKinds
  BY ObjectFacts, BlocksAreWellFormed DEF MemberObjects, IndInv, TypeOK
<1> QED
  BY <1>1, ReceiversAssumption

\* What a member is linked to is declared in the class the resolver has come to.
LEMMA MembersAreDeclared ==
  ASSUME IndInv, Settled, NEW m \in MemberObjects(symbols)
  PROVE  LET class == MembersOf(symbols, OwnTypes(symbols))[<<m, {}>>].class
             kind == IF Sym(m).kind = "methodCall" THEN "method" ELSE "property"
         IN  /\ class = NONE => definition[m] = NONE
             /\ class # NONE => definition[m] = FirstOf(Scoped(symbols, kind, class, Sym(m).name))
<1> DEFINE B == symbols
           class == MembersOf(B, OwnTypes(B))[<<m, {}>>].class
           kind == IF Sym(m).kind = "methodCall" THEN "method" ELSE "property"
<1>1. m \in References(B) /\ Sym(m).kind \in MemberKinds
  BY DEF MemberObjects, References, ReferenceKinds
<1>2. definition[m] = DeclaredMember(class, m, Index(B))
  BY <1>1 DEF Settled, Definitions, DefinitionOf, MembersOf, MemberKinds
<1> HIDE DEF class
<1>3. definition[m] = IF Sym(m).kind = "propertyAccess" THEN Get(Index(B).properties, <<class, Sym(m).name>>)
                      ELSE Get(Index(B).methods, <<class, Sym(m).name>>)
  BY <1>2 DEF DeclaredMember
<1>4. Sym(m).kind = "propertyAccess" \/ Sym(m).kind = "methodCall"
  BY <1>1 DEF MemberKinds
<1>5. \A c, name :
        /\ Get(Index(B).methods, <<NONE, name>>) = NONE
        /\ Get(Index(B).properties, <<NONE, name>>) = NONE
        /\ c # NONE =>
             /\ Get(Index(B).methods, <<c, name>>) = FirstOf(Scoped(B, "method", c, name))
             /\ Get(Index(B).properties, <<c, name>>) = FirstOf(Scoped(B, "property", c, name))
  BY ScopedLookupIsFirst
<1>6. class = NONE => definition[m] = NONE
  BY <1>3, <1>5
<1>7. class # NONE => definition[m] = FirstOf(Scoped(B, kind, class, Sym(m).name))
  BY <1>3, <1>4, <1>5
<1> QED
  BY <1>6, <1>7 DEF class

\* The text completion looks at is the one the symbols of the file are from.
LEMMA TextIsPresent ==
  ASSUME IndInv, NEW o \in Objects(symbols)
  PROVE  text[o[1].file] = o[1].text
<1>1. o[1] \in symbols
  BY ObjectParts
<1> QED
  BY <1>1 DEF IndInv, CollectionIsCurrent, NothingBeforeServing

\* A class is what $this stands for.
LEMMA ThisIsAClass ==
  ASSUME IndInv, NEW owner \in Objects(symbols), EnclosingClass(owner) # NONE
  PROVE  Sym(EnclosingClass(owner)).kind = "class"
<1> DEFINE class == EnclosingClass(owner)
<1>1. Sym(owner).kind = "method" /\ class = OwnerOf(owner)
  BY DEF EnclosingClass
<1>2. /\ owner[1].text \in Texts /\ owner[2] \in DOMAIN Parse[owner[1].text]
      /\ Sym(owner) = Parse[owner[1].text][owner[2]]
  BY ObjectFacts, BlocksAreWellFormed DEF IndInv, TypeOK
<1>3. Sym(owner).owner # NONE /\ class = <<owner[1], Sym(owner).owner>>
  BY <1>1 DEF OwnerOf, Linked
<1>4. Parse[owner[1].text][Sym(owner).owner].kind = "class"
  BY <1>1, <1>2, <1>3, OwnersAssumption
<1> QED
  BY <1>3, <1>4 DEF Sym

\* Before a variable no operator is found once its `$` has been typed, nor when
\* it stands behind no operator and no name.
LEMMA NoOperatorBeforeVariable ==
  ASSUME NEW t, NEW p \in Nat, Token(t, p).kind = "variable", NEW part \in Parts,
         part # "none" \/ ~IsBehind(t, p, Operators \cup {"name"})
  PROVE  OperatorFound(t, p, part) = {}
<1>1. \A whole : OperatorAtEnd(t, p, whole) = {}
  BY DEF OperatorAtEnd, Operators
<1>2. CASE part = "all" \/ part = "some"
  BY <1>1, <1>2 DEF OperatorFound
<1>3. CASE part = "none"
  <2>1. CASE p > 0 /\ Token(t, p).joined
    <3>1. Token(t, p - 1).kind \notin Operators \cup {"name"}
      BY <1>3, <2>1 DEF IsBehind
    <3>2. OperatorAtEnd(t, p - 1, TRUE) = {}
      BY <3>1 DEF OperatorAtEnd
    <3> QED
      BY <1>3, <2>1, <3>2 DEF OperatorFound
  <2>2. CASE ~ (p > 0 /\ Token(t, p).joined)
    BY <1>3, <2>2 DEF OperatorFound
  <2> QED
    BY <2>1, <2>2
<1> QED
  BY <1>2, <1>3 DEF Parts

\* A name is not cut in two and is the name of no variable.
LEMMA NamesAreWhole ==
  ASSUME NEW t \in Texts, NEW n \in DOMAIN Tokens[t], Tokens[t][n].kind = "name"
  PROVE  Tokens[t][n].text \notin VariableNames /\ ~IsBehind(t, n - 1, Words)
<1> HIDE DEF VariableNames
<1> QED
  BY TokensAssumption

\* What is known of the tokens at a member.
LEMMA MemberTokens ==
  ASSUME IndInv, NEW m \in MemberObjects(symbols)
  PROVE  LET t == m[1].text
             at == Sym(m).span.start
         IN  /\ t \in Texts /\ at \in Nat /\ at + 1 \in DOMAIN Tokens[t]
             /\ Token(t, at).kind = "name" /\ ~IsBehind(t, at, Words)
             /\ FollowsVariable(t, at) /\ ~FollowsMember(t, at) =>
                  /\ Sym(m).variable = Token(t, at - 2).text /\ Sym(m).variable # NONE
                  /\ \A j \in DOMAIN Parse[t] :
                       Parse[t][j].kind \in OwnerKinds =>
                         (Contains(Parse[t][j].scope, at - 2) <=> Contains(Parse[t][j].scope, at))
<1> DEFINE t == m[1].text
           at == Sym(m).span.start
<1>1. m \in Objects(symbols) /\ Sym(m).kind \in MemberKinds /\ WellFormed(symbols)
  BY BlocksAreWellFormed DEF MemberObjects, IndInv, TypeOK
<1>2. t \in Texts /\ m[2] \in DOMAIN Parse[t] /\ Sym(m) = Parse[t][m[2]]
  BY <1>1, ObjectFacts
<1>3. at \in Nat
  BY <1>1, SpanFacts
<1>4. /\ at + 1 \in DOMAIN Tokens[t] /\ Token(t, at).kind = "name"
      /\ FollowsVariable(t, at) /\ ~FollowsMember(t, at) =>
           /\ Sym(m).variable = Token(t, at - 2).text /\ Sym(m).variable # NONE
           /\ \A j \in DOMAIN Parse[t] :
                Parse[t][j].kind \in OwnerKinds =>
                  (Contains(Parse[t][j].scope, at - 2) <=> Contains(Parse[t][j].scope, at))
  BY <1>1, <1>2, TokensAssumption
<1>5. ~IsBehind(t, at, Words)
  <2> DEFINE n == at + 1
  <2>1. n \in DOMAIN Tokens[t] /\ Tokens[t][n].kind = "name"
    BY <1>4 DEF Token
  <2>2. ~IsBehind(t, n - 1, Words)
    <3> HIDE DEF n, t
    <3> QED
      BY <1>2, <2>1, NamesAreWhole
  <2>3. n - 1 = at
    BY <1>3
  <2> QED
    BY <2>2, <2>3
<1> QED
  BY <1>2, <1>3, <1>4, <1>5

\* However much of a member has been typed, the operator that is found is the
\* one right before it, if there is one.
LEMMA OperatorOfMember ==
  ASSUME NEW t, NEW at \in Nat, NEW part \in Parts,
         Token(t, at).kind = "name", ~IsBehind(t, at, Words)
  PROVE  OperatorFound(t, at, part) = IF IsBehind(t, at, Operators) THEN {at - 1} ELSE {}
<1>1. \A whole :
        OperatorAtEnd(t, at, whole) = IF IsBehind(t, at, Operators) THEN {at - 1} ELSE {}
  BY DEF OperatorAtEnd, Operators
<1>2. CASE part = "all" \/ part = "some"
  BY <1>1, <1>2 DEF OperatorFound
<1>3. CASE part = "none"
  <2>1. CASE at > 0 /\ Token(t, at).joined
    <3>1. Token(t, at - 1).kind # "name"
      BY <2>1 DEF IsBehind, Words
    <3>2. OperatorAtEnd(t, at - 1, TRUE)
            = IF Token(t, at - 1).kind \in Operators THEN {at - 1} ELSE {}
      BY <3>1 DEF OperatorAtEnd
    <3>3. IsBehind(t, at, Operators) <=> Token(t, at - 1).kind \in Operators
      BY <2>1 DEF IsBehind
    <3> QED
      BY <1>3, <2>1, <3>2, <3>3 DEF OperatorFound
  <2>2. CASE ~ (at > 0 /\ Token(t, at).joined)
    BY <1>3, <2>2 DEF OperatorFound, IsBehind
  <2> QED
    BY <2>1, <2>2
<1> QED
  BY <1>2, <1>3 DEF Parts

\* Behind what is the name of no variable no members are offered.
LEMMA NothingOfNoVariable ==
  ASSUME IndInv, NEW name, name \notin VariableNames, NEW owner
  PROVE  MembersOffered(owner, name) = {}
<1> DEFINE DeclaredHere(kind) == {o \in OfKind(symbols, kind) : OwnerOf(o) = owner /\ Sym(o).name = name}
<1>1. name # "$this"
  BY DEF VariableNames
<1>2. ASSUME NEW kind \in Variables, NEW o \in DeclaredHere(kind) PROVE FALSE
  <2>1. o \in Objects(symbols) /\ Sym(o).kind \in Variables /\ Sym(o).name = name
    BY <1>2 DEF OfKind
  <2>2. /\ o[1].text \in Texts /\ o[2] \in DOMAIN Parse[o[1].text]
        /\ Sym(o) = Parse[o[1].text][o[2]]
    BY <2>1, ObjectFacts, BlocksAreWellFormed DEF IndInv, TypeOK
  <2> QED
    BY <2>1, <2>2 DEF VariableNames
<1>3. DeclaredHere("parameter") = {} /\ DeclaredHere("local") = {}
  BY <1>2 DEF Variables
<1>4. ReceiverClass(name, owner) = NONE
  BY <1>1, <1>3 DEF ReceiverClass
<1> QED
  BY <1>4 DEF MembersOffered

\* What stands before the operator before a member is the variable the resolver
\* has for its object, or no variable.
LEMMA ReceiverOfMember ==
  ASSUME IndInv, NEW m \in MemberObjects(symbols),
         IsBehind(m[1].text, Sym(m).span.start, {"arrow"}),
         ~FollowsMember(m[1].text, Sym(m).span.start)
  PROVE  LET t == m[1].text
             at == Sym(m).span.start
             receiver == ReceiverBefore(t, at - 1)
         IN  IF FollowsVariable(t, at) THEN receiver = Sym(m).variable ELSE receiver \notin VariableNames
<1> DEFINE t == m[1].text
           at == Sym(m).span.start
           receiver == ReceiverBefore(t, at - 1)
<1>1. t \in Texts /\ at \in Nat
  BY MemberTokens
<1>2. at - 1 - 1 = at - 2
  BY <1>1
<1>3. receiver = IF IsBehind(t, at - 1, Words) /\ ~IsBehind(t, at - 2, Words)
                 THEN Token(t, at - 2).text ELSE NONE
  BY <1>2 DEF ReceiverBefore
<1>4. \A kinds : IsBehind(t, at - 1, kinds) <=>
                   at - 1 > 0 /\ Token(t, at - 1).joined /\ Token(t, at - 2).kind \in kinds
  BY <1>2 DEF IsBehind
<1>5. CASE FollowsVariable(t, at)
  <2>1. receiver = Token(t, at - 2).text
    BY <1>3, <1>4, <1>5 DEF FollowsVariable, Words
  <2> QED
    BY <1>5, <2>1, MemberTokens
<1>6. CASE ~FollowsVariable(t, at)
  <2>1. CASE IsBehind(t, at - 1, Words) /\ ~IsBehind(t, at - 2, Words)
    <3>1. Token(t, at - 2) = Tokens[t][at - 1]
      <4>1. at - 2 + 1 = at - 1
        BY <1>1
      <4> QED
        BY <4>1 DEF Token
    <3>2. receiver = Tokens[t][at - 1].text /\ Tokens[t][at - 1].kind = "name"
      <4>1. Token(t, at - 2).kind \in Words /\ receiver = Token(t, at - 2).text
        BY <1>3, <1>4, <2>1
      <4>2. Token(t, at - 2).kind # "variable"
        BY <1>4, <1>6, <2>1 DEF FollowsVariable
      <4> QED
        BY <3>1, <4>1, <4>2 DEF Words
    <3>3. at - 1 \in DOMAIN Tokens[t]
      <4>1. at + 1 \in DOMAIN Tokens[t]
        BY MemberTokens
      <4>2. Len(Tokens[t]) \in Nat /\ DOMAIN Tokens[t] = 1..Len(Tokens[t])
        BY <1>1, TokensAssumption
      <4> QED
        BY <1>1, <1>4, <2>1, <4>1, <4>2
    <3> QED
      BY <1>1, <1>6, <3>2, <3>3, NamesAreWhole
  <2>2. CASE ~ (IsBehind(t, at - 1, Words) /\ ~IsBehind(t, at - 2, Words))
    BY <1>3, <1>6, <2>2, TokensAssumption
  <2> QED
    BY <2>1, <2>2
<1> QED
  BY <1>5, <1>6

\* Completion finds the same function at two places that are in the same
\* declarations.
LEMMA SameOwnerFound ==
  ASSUME IndInv, NEW m \in Objects(symbols), NEW p, NEW q,
         \A j \in DOMAIN Parse[m[1].text] :
           Parse[m[1].text][j].kind \in OwnerKinds =>
             (Contains(Parse[m[1].text][j].scope, p) <=> Contains(Parse[m[1].text][j].scope, q))
  PROVE  EnclosingOwner(m[1].file, p) = EnclosingOwner(m[1].file, q)
<1>1. ASSUME NEW o \in Objects(symbols), o[1].file = m[1].file, Sym(o).kind \in FunctionLikes
      PROVE  Contains(Sym(o).scope, p) <=> Contains(Sym(o).scope, q)
  <2>1. o[1] = m[1] /\ WellFormed(symbols)
    BY <1>1, OneBlockOfFile, BlocksAreWellFormed DEF IndInv, TypeOK
  <2>2. o[2] \in DOMAIN Parse[m[1].text] /\ Sym(o) = Parse[m[1].text][o[2]]
    BY <2>1, ObjectFacts
  <2> QED
    BY <1>1, <2>2 DEF FunctionLikes, OwnerKinds
<1>2. FunctionsAround(m[1].file, p) = FunctionsAround(m[1].file, q)
  BY <1>1 DEF FunctionsAround
<1> DEFINE Found(around) ==
             LET innermost == {o \in around : \A n \in around : IsWithin(Sym(o).scope, Sym(n).scope)}
             IN  IF innermost = {} THEN NONE ELSE CHOOSE o \in innermost : TRUE
<1>3. \A at : EnclosingOwner(m[1].file, at) = Found(FunctionsAround(m[1].file, at))
  BY DEF EnclosingOwner, FunctionsAround
<1> HIDE DEF Found
<1> QED
  BY <1>2, <1>3

\* Wherever a variable stands that has a definition completion offers it, once
\* its `$` has been typed or if no operator and no name is right before it; and
\* where $this is the object of a member that is linked, $this of the class that
\* declares the member.
THEOREM VariablesAreOffered == Spec => []CompletionOffersVariablesInUse
<1>1. ASSUME IndInv, NEW u \in OfKind(symbols, "usage"), NEW part \in Parts,
             Sym(u).definition # NONE,
             part # "none" \/ ~IsBehind(text[u[1].file], Sym(u).span.start, Operators \cup {"name"})
      PROVE  Linked(u, Sym(u).definition) \in CompletionAnswer(u[1].file, Sym(u).span.start, part)
  <2> DEFINE d == Linked(u, Sym(u).definition)
             owner == Parse[u[1].text][Sym(u).definition].owner
  <2>1. u \in Objects(symbols) /\ Sym(u).kind = "usage" /\ WellFormed(symbols)
    BY <1>1, BlocksAreWellFormed DEF OfKind, IndInv, TypeOK
  <2>2. /\ u[1].text \in Texts /\ u[2] \in DOMAIN Parse[u[1].text]
        /\ Sym(u) = Parse[u[1].text][u[2]]
    BY <2>1, ObjectFacts
  <2>3. owner \in Innermost(u[1].text, u[2]) /\ Parse[u[1].text][owner].kind \in FunctionLikes
    BY <1>1, <2>1, <2>2, OwnersAssumption
  <2>4. d \in Objects(symbols) /\ Sym(d).kind \in Variables
    BY <1>1, <2>1, UsagesLeadToVariables
  <2>5. d = <<u[1], Sym(u).definition>> /\ Sym(d).owner = owner
    BY <1>1 DEF Linked, Sym
  <2> HIDE DEF d, owner
  <2>6. /\ EnclosingOwner(u[1].file, Sym(u).span.start) = <<u[1], owner>>
        /\ <<u[1], owner>> \in Objects(symbols)
    BY <1>1, <2>1, <2>3, OwnerIsFound
  <2>7. OwnerOf(d) = <<u[1], owner>>
    <3>1. owner # NONE
      <4>1. owner \in Nat
        BY <2>1, <2>6, ObjectFacts
      <4> QED
        BY <4>1, NoneAssumption
    <3> QED
      BY <2>5, <3>1 DEF OwnerOf, Linked
  <2>8. d \in VariablesOffered(<<u[1], owner>>)
    BY <2>4, <2>7 DEF VariablesOffered, OfKind, Variables
  <2>9. OperatorFound(text[u[1].file], Sym(u).span.start, part) = {}
    <3>1. text[u[1].file] = u[1].text
      BY <1>1, <2>1, TextIsPresent
    <3>2. Sym(u).span.start \in Nat
      BY <1>1, <2>1, SpanFacts
    <3>3. Token(u[1].text, Sym(u).span.start).kind = "variable"
      BY <1>1, <2>1, <2>2, TokensAssumption
    <3> QED
      BY <1>1, <3>1, <3>2, <3>3, NoOperatorBeforeVariable
  <2>10. d \in CompletionAnswer(u[1].file, Sym(u).span.start, part)
    BY <2>6, <2>8, <2>9 DEF CompletionAnswer
  <2> QED
    BY <2>10 DEF d
<1>2. ASSUME IndInv, Settled, NEW m \in References(symbols), NEW part \in Parts,
             Sym(m).kind \in MemberKinds, Sym(m).variable = "$this", definition[m] # NONE,
             FollowsVariable(text[m[1].file], Sym(m).span.start),
             ~FollowsMember(text[m[1].file], Sym(m).span.start)
      PROVE  \E class \in CompletionAnswer(m[1].file, Sym(m).span.start - 2, part) :
               Sym(class).kind = "class" /\ OwnerOf(definition[m]) = class
  <2> DEFINE t == m[1].text
             at == Sym(m).span.start
             owner == OwnerOf(m)
             class == EnclosingClass(owner)
             kind == IF Sym(m).kind = "methodCall" THEN "method" ELSE "property"
  <2>1. m \in MemberObjects(symbols) /\ m \in Objects(symbols) /\ WellFormed(symbols)
    BY <1>2, BlocksAreWellFormed DEF References, MemberObjects, IndInv, TypeOK
  <2>2. Sym(m).receiver = NONE
    BY <1>2, <2>1, VariablesReceiveNothing, NoneAssumption
  <2>3. MembersOf(symbols, OwnTypes(symbols))[<<m, {}>>].class = class
    <3>1. Unfolds(symbols, OwnTypes(symbols), m, {})
      BY <2>1, CallsUnfold
    <3> QED
      BY <1>2, <2>2, <3>1 DEF Unfolds
  <2> HIDE DEF class
  <2>4. class # NONE /\ definition[m] = FirstOf(Scoped(symbols, kind, class, Sym(m).name))
    BY <1>2, <2>1, <2>3, MembersAreDeclared
  <2>5. OwnerOf(definition[m]) = class
    <3>1. definition[m] \in Scoped(symbols, kind, class, Sym(m).name)
      BY <1>2, <2>4, FirstOfIn
    <3> QED
      BY <3>1 DEF Scoped
  <2>6. owner # NONE /\ Sym(owner).kind = "method" /\ class = OwnerOf(owner)
    BY <2>4 DEF EnclosingClass, class
  <2>7. owner \in Objects(symbols)
    BY <1>2, <2>1, <2>6, OwnersArePresent DEF OwnedKinds
  <2>8. Sym(class).kind = "class"
    BY <1>2, <2>4, <2>7, ThisIsAClass DEF class
  <2>9. EnclosingOwner(m[1].file, at) = owner
    BY <1>2, <2>1, <2>6, MembersOwnerIsFound DEF FunctionLikes
  <2>10. class \in ThisOffered(owner)
    BY <2>4 DEF ThisOffered, class
  <2>11. FollowsVariable(t, at) /\ ~FollowsMember(t, at) /\ text[m[1].file] = t
    BY <1>2, <2>1, TextIsPresent
  <2>12. EnclosingOwner(m[1].file, at - 2) = owner
    <3>1. EnclosingOwner(m[1].file, at - 2) = EnclosingOwner(m[1].file, at)
      BY <1>2, <2>1, <2>11, MemberTokens, SameOwnerFound
    <3> QED
      BY <2>9, <3>1
  <2>13. OperatorFound(t, at - 2, part) = {}
    <3>1. at \in Nat
      BY <1>2, <2>1, MemberTokens
    <3>2. at - 2 \in Nat /\ Token(t, at - 2).kind = "variable"
      <4>1. at - 1 - 1 = at - 2
        BY <3>1
      <4> QED
        BY <2>11, <3>1, <4>1 DEF FollowsVariable, IsBehind
    <3>3. ~IsBehind(t, at - 2, Operators \cup {"name"})
      <4>1. at - 2 - 1 = at - 3 /\ (at - 2 > 0 => at > 2)
        BY <3>1
      <4> QED
        BY <2>11, <4>1 DEF FollowsMember, FollowsVariable, IsBehind, Words
    <3> QED
      BY <3>2, <3>3, NoOperatorBeforeVariable
  <2>14. class \in CompletionAnswer(m[1].file, at - 2, part)
    BY <2>10, <2>11, <2>12, <2>13 DEF CompletionAnswer
  <2> QED
    BY <2>5, <2>8, <2>14
<1>3. IndInv /\ Settled => CompletionOffersVariablesInUse
  BY <1>1, <1>2 DEF CompletionOffersVariablesInUse
<1> QED
  BY <1>3, IndInvHolds, SettledHolds, PTL

\* For the variable before an arrow, completion and the resolver come to one
\* class: completion takes the type the variable has now, the resolver follows
\* its source again.
LEMMA OneClassOfVariable ==
  ASSUME IndInv, Settled, NEW m \in MemberObjects(symbols), Sym(m).variable # NONE
  PROVE  ReceiverClass(Sym(m).variable, OwnerOf(m))
           = MembersOf(symbols, OwnTypes(symbols))[<<m, {}>>].class
<1> DEFINE B == symbols
           types == OwnTypes(B)
           V == MembersOf(B, types)
           class == V[<<m, {}>>].class
           owner == OwnerOf(m)
           name == Sym(m).variable
           parameters == Scoped(B, "parameter", owner, name)
           locals == Scoped(B, "local", owner, name)
           local == LocalOf(m, Index(B))
           key == <<owner, name>>
<1>1. WellFormed(B)
  BY BlocksAreWellFormed DEF IndInv, TypeOK
<1>2. Sym(m).receiver = NONE
  BY VariablesReceiveNothing
<1>3. Unfolds(B, types, m, {})
  BY <1>1, CallsUnfold
<1>4. ReceiverClass(name, owner) =
        CASE name = "$this" -> EnclosingClass(owner)
          [] name # "$this" /\ parameters # {} -> ClassNamed(Sym(FirstOf(parameters)).type)
          [] name # "$this" /\ parameters = {} /\ locals # {} -> ClassNamed(type[FirstOf(locals)])
          [] OTHER -> NONE
  BY DEF ReceiverClass, Scoped
<1>5. \A t : ClassNamed(t) = ClassOf(t, Index(B))
  <2>1. \A n : Get(Index(B).classes, n) = FirstOf(Declared(B, "class", n))
    BY LookupIsFirst
  <2> QED
    BY <2>1 DEF ClassNamed, ClassOf, Declared
<1>6. /\ local = FirstOf(locals)
      /\ key \in DOMAIN Index(B).parameters <=> parameters # {}
      /\ parameters # {} => Index(B).parameters[key] = FirstOf(parameters)
  <2>1. \A w, n :
          /\ Get(Index(B).locals, <<w, n>>) = FirstOf(Scoped(B, "local", w, n))
          /\ <<w, n>> \in DOMAIN Index(B).parameters <=> Scoped(B, "parameter", w, n) # {}
          /\ Scoped(B, "parameter", w, n) # {} =>
               Index(B).parameters[<<w, n>>] = FirstOf(Scoped(B, "parameter", w, n))
    BY ScopedLookupIsFirst
  <2> QED
    BY <2>1 DEF LocalOf
<1>7. /\ name = "$this" => class = EnclosingClass(owner)
      /\ name # "$this" =>
           /\ key \in DOMAIN Index(B).parameters =>
                class = ClassOf(Sym(Index(B).parameters[key]).type, Index(B))
           /\ key \notin DOMAIN Index(B).parameters =>
                /\ local = NONE => class = ClassOf(NONE, Index(B))
                /\ local # NONE =>
                     IF Sym(local).source = NONE
                     THEN class = ClassOf(types[local], Index(B))
                     ELSE class = ClassOf(FromSource(local, V[<<Followed(B, m), {local}>>].type), Index(B))
  <2>1. {} \cup {local} = {local} /\ local \notin {}
    OBVIOUS
  <2> QED
    BY <1>2, <1>3, <2>1 DEF Unfolds
<1>8. \A o : o \in locals => o \in OfKind(B, "local") /\ o \in Objects(B)
  BY DEF Scoped, OfKind
<1>9. ASSUME name # "$this", parameters = {}, locals # {}
      PROVE  class = ClassOf(type[local], Index(B))
  <2>1. local \in locals /\ local # NONE
    <3>1. locals \in SUBSET Objects(B)
      BY <1>8
    <3> HIDE DEF locals
    <3> QED
      BY <1>6, <1>9, <3>1, FirstExists
  <2>2. local \in OfKind(B, "local")
    BY <1>8, <2>1
  <2>3. /\ key \notin DOMAIN Index(B).parameters
        /\ types[local] = Sym(local).type
        /\ type[local] = IF Sym(local).source = NONE THEN Sym(local).type ELSE SourceType(B, local)
    <3>1. types[local] = Sym(local).type
      BY <2>2 DEF OwnTypes
    <3> HIDE DEF types, local
    <3> QED
      BY <1>6, <1>9, <2>2, <3>1 DEF Settled
  <2>4. CASE Sym(local).source = NONE
    <3> HIDE DEF types, local, class, V, name, owner, key
    <3> QED
      BY <1>7, <1>9, <2>1, <2>3, <2>4
  <2>5. CASE Sym(local).source # NONE
    <3>1. Followed(B, m) = SourceOf(local)
      BY <1>2, <1>9, <2>1, <2>3, <2>5 DEF Followed, FollowsLocal
    <3>2. SourceOf(local) \in MemberObjects(B)
      BY <1>1, <2>2, <2>5, SourcesArePresent
    <3>3. V[<<SourceOf(local), {local}>>] = V[<<SourceOf(local), {}>>]
      <4>1. SourceOf(local) \in Ahead(B, SourceOf(local))
        BY <1>1, <3>2, AheadGoesOn
      <4>2. LedBy(B, <<SourceOf(local), {local}>>)
        BY <2>5, <4>1 DEF LedBy
      <4>3. CirclesUntyped(B, types)
        BY <1>1, OwnTypesMayStart DEF MayStart
      <4>4. {local} \in SUBSET OfKind(B, "local")
        BY <2>2
      <4> HIDE DEF local, types
      <4> QED
        BY <1>1, <3>2, <4>2, <4>3, <4>4, ResolvingDoesNotMatter
    <3>4. type[local] = FromSource(local, V[<<SourceOf(local), {local}>>].type)
      BY <2>3, <2>5, <3>3 DEF SourceType
    <3> HIDE DEF types, local, class, V, name, owner, key
    <3> QED
      BY <1>7, <1>9, <2>1, <2>3, <2>5, <3>1, <3>4
  <2> QED
    BY <2>4, <2>5
<1>10. ASSUME name # "$this", parameters = {}, locals = {}
       PROVE  class = NONE
  <2>1. local = NONE /\ key \notin DOMAIN Index(B).parameters
    BY <1>6, <1>10, FirstOfNone
  <2>2. class = ClassOf(NONE, Index(B))
    <3> HIDE DEF types, local, class, V, name, owner, key
    <3> QED
      BY <1>7, <1>10, <2>1
  <2> QED
    BY <1>1, <2>2, NoClassOfNone
<1> HIDE DEF types, local, class, V, name, owner, key, parameters, locals
<1>11. ReceiverClass(name, owner) = class
  <2>1. CASE name = "$this"
    BY <1>4, <1>7, <2>1
  <2>2. CASE name # "$this" /\ parameters # {}
    <3>1. ReceiverClass(name, owner) = ClassNamed(Sym(FirstOf(parameters)).type)
      BY <1>4, <2>2
    <3>2. class = ClassOf(Sym(FirstOf(parameters)).type, Index(B))
      BY <1>6, <1>7, <2>2
    <3> QED
      BY <1>5, <3>1, <3>2
  <2>3. CASE name # "$this" /\ parameters = {} /\ locals # {}
    <3>1. ReceiverClass(name, owner) = ClassNamed(type[local])
      BY <1>4, <1>6, <2>3
    <3> QED
      BY <1>5, <1>9, <2>3, <3>1
  <2>4. CASE name # "$this" /\ parameters = {} /\ locals = {}
    BY <1>4, <1>10, <2>4
  <2> QED
    BY <2>1, <2>2, <2>3, <2>4
<1> QED
  BY <1>11 DEF class, V, types, name, owner

\* What completion offers under the name of a member, in the terms of the
\* resolver: what the class it has come to declares under this name, where the
\* member stands right behind a variable and an arrow, and nothing elsewhere.
LEMMA OfferedAtMember ==
  ASSUME IndInv, Settled, NEW m \in MemberObjects(symbols), NEW part \in Parts,
         OwnerOf(m) # NONE => Sym(OwnerOf(m)).kind \in FunctionLikes,
         ~FollowsMember(m[1].text, Sym(m).span.start)
  PROVE  LET t == m[1].text
             at == Sym(m).span.start
             kind == IF Sym(m).kind = "methodCall" THEN "method" ELSE "property"
             SameName == {o \in OfKind(symbols, kind) : Sym(o).name = Sym(m).name}
             class == MembersOf(symbols, OwnTypes(symbols))[<<m, {}>>].class
         IN  SameName \cap CompletionAnswer(m[1].file, at, part)
               = IF FollowsVariable(t, at) /\ class # NONE
                 THEN Scoped(symbols, kind, class, Sym(m).name)
                 ELSE {}
<1> DEFINE t == m[1].text
           at == Sym(m).span.start
           kind == IF Sym(m).kind = "methodCall" THEN "method" ELSE "property"
           SameName == {o \in OfKind(symbols, kind) : Sym(o).name = Sym(m).name}
           class == MembersOf(symbols, OwnTypes(symbols))[<<m, {}>>].class
           named == Scoped(symbols, kind, class, Sym(m).name)
           members == OfKind(symbols, "property") \cup OfKind(symbols, "method")
           owner == OwnerOf(m)
           receiver == ReceiverBefore(t, at - 1)
           answer == CompletionAnswer(m[1].file, at, part)
<1>1. m \in Objects(symbols) /\ text[m[1].file] = t
  BY TextIsPresent DEF MemberObjects
<1>2. EnclosingOwner(m[1].file, at) = owner
  BY MembersOwnerIsFound
<1>3. OperatorFound(t, at, part) = IF IsBehind(t, at, Operators) THEN {at - 1} ELSE {}
  BY MemberTokens, OperatorOfMember
<1> SUFFICES SameName \cap answer = IF FollowsVariable(t, at) /\ class # NONE THEN named ELSE {}
  OBVIOUS
<1>4. CASE ~IsBehind(t, at, Operators)
  <2>1. answer = ThisOffered(owner) \cup VariablesOffered(owner)
    BY <1>1, <1>2, <1>3, <1>4 DEF CompletionAnswer
  <2>2. \A o \in VariablesOffered(owner) : Sym(o).kind \notin {"method", "property"}
    BY DEF VariablesOffered, OfKind
  <2>3. \A o \in ThisOffered(owner) : Sym(o).kind \notin {"method", "property"}
    <3>1. SUFFICES ASSUME EnclosingClass(owner) # NONE
                   PROVE  Sym(EnclosingClass(owner)).kind = "class"
      BY DEF ThisOffered
    <3>2. owner # NONE
      BY <3>1 DEF EnclosingClass
    <3>3. owner \in Objects(symbols)
      BY <3>2, OwnersArePresent, BlocksAreWellFormed DEF OwnedKinds, MemberObjects, IndInv, TypeOK
    <3> QED
      BY <3>1, <3>3, ThisIsAClass
  <2>4. \A o \in SameName : Sym(o).kind \in {"method", "property"}
    BY DEF OfKind
  <2>5. ~FollowsVariable(t, at)
    BY <1>4 DEF FollowsVariable, IsBehind, Operators
  <2> HIDE DEF SameName, answer, owner
  <2> QED
    BY <2>1, <2>2, <2>3, <2>4, <2>5
<1>5. CASE IsBehind(t, at, Operators) /\ ~IsBehind(t, at, {"arrow"})
  <2>1. Token(t, at - 1).kind # "arrow"
    BY <1>5 DEF IsBehind
  <2>2. answer = {}
    BY <1>1, <1>3, <1>5, <2>1 DEF CompletionAnswer
  <2>3. ~FollowsVariable(t, at)
    BY <1>5 DEF FollowsVariable
  <2> HIDE DEF answer
  <2> QED
    BY <2>2, <2>3
<1>6. CASE IsBehind(t, at, Operators) /\ IsBehind(t, at, {"arrow"})
  <2>1. Token(t, at - 1).kind = "arrow"
    BY <1>6 DEF IsBehind
  <2>2. answer = MembersOffered(owner, receiver)
    <3>1. OperatorFound(t, at, part) = {at - 1}
      BY <1>3, <1>6
    <3> HIDE DEF at, t, owner
    <3> QED
      BY <1>1, <1>2, <2>1, <3>1 DEF CompletionAnswer
  <2>3. CASE ~FollowsVariable(t, at)
    <3>1. receiver \notin VariableNames
      BY <1>6, <2>3, ReceiverOfMember
    <3>2. answer = {}
      BY <2>2, <3>1, NothingOfNoVariable
    <3> HIDE DEF answer
    <3> QED
      BY <2>3, <3>2
  <2>4. CASE FollowsVariable(t, at)
    <3>1. receiver = Sym(m).variable
      BY <1>6, <2>4, ReceiverOfMember
    <3>2. Sym(m).variable # NONE => ReceiverClass(receiver, owner) = class
      BY <3>1, OneClassOfVariable
    <3>3. Sym(m).variable # NONE
      BY <2>4, MemberTokens
    <3> HIDE DEF class
    <3>4. answer = UNION {{o \in members : OwnerOf(o) = c} : c \in {class} \ {NONE}}
      BY <2>2, <3>2, <3>3 DEF MembersOffered
    <3>5. CASE class = NONE
      <4>1. answer = {}
        BY <3>4, <3>5
      <4> HIDE DEF answer
      <4> QED
        BY <3>5, <4>1
    <3>6. CASE class # NONE
      <4>1. {class} \ {NONE} = {class}
        BY <3>6
      <4>2. answer = {o \in members : OwnerOf(o) = class}
        BY <3>4, <4>1
      <4>3. SameName \subseteq members
        BY DEF OfKind
      <4>4. SameName \cap {o \in members : OwnerOf(o) = class} = named
        BY <4>3 DEF Scoped
      <4> HIDE DEF answer, named, SameName, members
      <4> QED
        BY <2>4, <3>6, <4>2, <4>4
    <3> QED
      BY <3>5, <3>6
  <2> QED
    BY <2>3, <2>4
<1> QED
  BY <1>4, <1>5, <1>6

\* Wherever a member stands completion offers its name only if the member is
\* linked, and then what it is linked to; right behind a variable and an arrow it
\* does offer this, whatever has been edited.
THEOREM CompletionFollowsResolver == Spec => []CompletionOffersWhatResolves
<1>1. ASSUME IndInv, Settled, NEW m \in References(symbols), NEW part \in Parts,
             Sym(m).kind \in MemberKinds, ~FollowsMember(text[m[1].file], Sym(m).span.start),
             OwnerOf(m) # NONE => Sym(OwnerOf(m)).kind \in FunctionLikes
      PROVE  LET at == Sym(m).span.start
                 kind == IF Sym(m).kind = "methodCall" THEN "method" ELSE "property"
                 SameName == {o \in OfKind(symbols, kind) : Sym(o).name = Sym(m).name}
                 offered == SameName \cap CompletionAnswer(m[1].file, at, part)
             IN  /\ offered # {} => definition[m] \in offered
                 /\ FollowsVariable(text[m[1].file], at) /\ definition[m] # NONE =>
                      definition[m] \in offered
  <2> DEFINE at == Sym(m).span.start
             kind == IF Sym(m).kind = "methodCall" THEN "method" ELSE "property"
             SameName == {o \in OfKind(symbols, kind) : Sym(o).name = Sym(m).name}
             offered == SameName \cap CompletionAnswer(m[1].file, at, part)
             class == MembersOf(symbols, OwnTypes(symbols))[<<m, {}>>].class
             named == Scoped(symbols, kind, class, Sym(m).name)
  <2>1. m \in MemberObjects(symbols) /\ m \in Objects(symbols)
    BY <1>1 DEF References, MemberObjects
  <2>2. text[m[1].file] = m[1].text
    BY <1>1, <2>1, TextIsPresent
  <2>3. offered = IF FollowsVariable(m[1].text, at) /\ class # NONE THEN named ELSE {}
    BY <1>1, <2>1, <2>2, OfferedAtMember
  <2>4. /\ class = NONE => definition[m] = NONE
        /\ class # NONE => definition[m] = FirstOf(named)
    BY <1>1, <2>1, MembersAreDeclared
  <2>5. named # {} => FirstOf(named) \in named /\ FirstOf(named) # NONE
    <3>1. named \in SUBSET Objects(symbols)
      BY DEF Scoped, OfKind
    <3> HIDE DEF named
    <3> QED
      BY <1>1, <3>1, FirstExists
  <2>6. named = {} => FirstOf(named) = NONE
    <3> HIDE DEF named
    <3> QED
      BY FirstOfNone
  <2> HIDE DEF offered, named, class
  <2>7. /\ offered # {} => definition[m] \in offered
        /\ FollowsVariable(m[1].text, at) /\ definition[m] # NONE => definition[m] \in offered
    BY <2>3, <2>4, <2>5, <2>6
  <2> QED
    BY <2>2, <2>7 DEF offered
<1>2. IndInv /\ Settled => CompletionOffersWhatResolves
  BY <1>1 DEF CompletionOffersWhatResolves
<1> QED
  BY <1>2, IndInvHolds, SettledHolds, PTL

-----------------------------------------------------------------------------
(* The whole program.                                                      *)

\* LspServer with its theorems; S has the definitions alone.
L == INSTANCE LspServerProofs
       WITH Uris <- 0..NumFiles, MaxChanges <- 1, MaxMessages <- MaxReparses

-----------------------------------------------------------------------------
(* The loop of the program is LspServer.                                   *)

\* What the loop sees of a step that leaves the texts and the files alone.
LEMMA DocumentsStay ==
  ASSUME text' = text, files' = files, phase' = "serving" <=> phase = "serving"
  PROVE  documents' = documents
BY DEF documents, ToParse

LEMMA EditorIsClient == Editor => L!Client
<1> SUFFICES ASSUME Editor PROVE L!Client
  OBVIOUS
<1>0. documents' = documents
  BY DocumentsStay DEF Editor, vars
<1> USE DEF S!Send, L!Send, S!Message, L!Message, S!FreshId, L!FreshId
<1>1. CASE \E uri \in 0..NumFiles : S!SendRequest("textDocument/definition", uri)
  BY <1>0, <1>1 DEF S!SendRequest, L!SendRequest, L!Client, L!Queries
<1>2. CASE \E uri \in 0..NumFiles, content \in Texts : S!SendDidOpen(uri, content)
  BY <1>0, <1>2 DEF S!SendDidOpen, L!SendDidOpen, L!Client, S!Becomes, L!Becomes
<1>3. CASE \E uri \in 0..NumFiles, content \in Texts : S!SendDidChange(uri, <<content>>)
  <2>1. PICK uri \in 0..NumFiles, content \in Texts : S!SendDidChange(uri, <<content>>)
    BY <1>3
  <2>2. <<content>> \in L!ChangeLists
    BY DEF L!ChangeLists
  <2>3. L!SendDidChange(uri, <<content>>)
    BY <1>0, <2>1 DEF S!SendDidChange, L!SendDidChange, S!Becomes, L!Becomes
  <2> QED
    BY <2>2, <2>3 DEF L!Client
<1>4. CASE S!Leave
  BY <1>0, <1>4 DEF S!Leave, L!Leave, L!Client
<1> QED
  BY <1>1, <1>2, <1>3, <1>4 DEF Editor

LEMMA HandleIsHandle ==
  ASSUME NEW m, S!Handle(m)
  PROVE  L!Handle(m)
<1> USE DEF S!Bound, L!Bound, S!Silently, L!Silently, S!HasId, L!HasId, S!Respond, L!Respond,
        S!FindFile, L!FindFile, S!Reparsed, L!Reparsed, S!Queries, L!Queries, S!WithId, L!WithId,
        S!Synchronisation, L!Synchronisation, S!Unknown, L!Unknown, L!Handle
<1>1. CASE S!StopAtBadHeader(m)
  BY <1>1 DEF S!StopAtBadHeader, L!StopAtBadHeader
<1>2. CASE S!SkipMalformed(m)
  BY <1>2 DEF S!SkipMalformed, L!SkipMalformed
<1>3. CASE S!BadRequest(m)
  BY <1>3 DEF S!BadRequest, L!BadRequest
<1>4. CASE S!UnbindableParams(m)
  BY <1>4 DEF S!UnbindableParams, L!UnbindableParams
<1>5. CASE S!Initialize(m)
  BY <1>5 DEF S!Initialize, L!Initialize
<1>6. CASE S!Shutdown(m)
  BY <1>6 DEF S!Shutdown, L!Shutdown
<1>7. CASE S!Initialized(m)
  BY <1>7 DEF S!Initialized, L!Initialized
<1>8. CASE S!Exit(m)
  BY <1>8 DEF S!Exit, L!Exit
<1>9. CASE S!DidOpen(m)
  BY <1>9 DEF S!DidOpen, L!DidOpen
<1>10. CASE S!DidChange(m)
  BY <1>10 DEF S!DidChange, L!DidChange
<1>11. CASE S!DidClose(m)
  BY <1>11 DEF S!DidClose, L!DidClose
<1>12. CASE S!Query(m)
  BY <1>12 DEF S!Query, L!Query
<1>13. CASE S!UnknownMethod(m)
  BY <1>13 DEF S!UnknownMethod, L!UnknownMethod
<1> QED
  BY <1>1, <1>2, <1>3, <1>4, <1>5, <1>6, <1>7, <1>8, <1>9, <1>10, <1>11, <1>12, <1>13 DEF S!Handle

\* While the index is being built the loop does not see it change.
LEMMA StartingStays ==
  ASSUME Indexing
  PROVE  UNCHANGED L!vars
<1>1. documents' = documents
  BY DocumentsStay DEF Indexing, ReadFile, ParseFile
<1> QED
  BY <1>1 DEF Indexing, serverVars, L!vars

\* Every step of the program is one of the loop, or none.
LEMMA StepIsLoopStep == [MainNext]_mainVars => [L!Next]_(L!vars)
<1> SUFFICES ASSUME [MainNext]_mainVars PROVE L!Next \/ UNCHANGED L!vars
  OBVIOUS
<1>1. CASE Editor
  BY <1>1, EditorIsClient DEF L!Next
<1>2. CASE Indexing
  BY <1>2, StartingStays
<1>3. CASE Indexed
  <2>1. documents' = documents
    BY <1>3 DEF Indexed, Collect, CanCollect, documents, ToParse
  <2> QED
    BY <1>3, <2>1 DEF Indexed, S!Start, L!Start, L!Server, L!Next
<1>4. CASE IndexingFailed
  <2>1. documents' = documents
    BY <1>4, DocumentsStay DEF IndexingFailed, ScanFails
  <2> QED
    BY <1>4, <2>1 DEF IndexingFailed, S!Start, L!Start, L!Server, L!Next
<1>5. CASE HandleMessage
  <2>1. PICK m \in {input[i] : i \in DOMAIN input} : S!Take(m) /\ S!Handle(m)
    BY <1>5 DEF HandleMessage
  <2>2. L!Take(m) /\ L!Handle(m)
    BY <2>1, HandleIsHandle DEF S!Take, L!Take
  <2> QED
    BY <2>2 DEF L!Server, L!Next
<1>6. CASE EndOfInput
  <2>1. documents' = documents
    BY <1>6, DocumentsStay DEF EndOfInput, vars
  <2> QED
    BY <1>6, <2>1 DEF EndOfInput, S!EndOfInput, L!EndOfInput, L!Server, L!Next
<1>7. CASE Ended \/ UNCHANGED mainVars
  <2>1. documents' = documents
    BY <1>7, DocumentsStay DEF Ended, mainVars
  <2> QED
    BY <1>7, <2>1 DEF Ended, mainVars, L!vars
<1> QED
  BY <1>1, <1>2, <1>3, <1>4, <1>5, <1>6, <1>7 DEF MainNext

\* The loop of the program, whatever it makes the index do, is the loop of
\* LspServer: the documents that loop sees are those the index has.
THEOREM LoopIsLspServer == MainSpec => L!Spec
<1>1. MainInit => L!Init
  BY DEF MainInit, S!Init, L!Init
<1> QED
  BY <1>1, StepIsLoopStep, PTL DEF MainSpec, L!Spec

\* So it has the invariant of LspServer.
LEMMA LoopInvariant == MainSpec => []L!IndInv
<1>1. 0..NumFiles # {} /\ 1 \in Nat /\ 1 <= 1
  BY NumFilesAssumption
<1>2. NONE \notin L!Methods
  BY ProtocolAssumption DEF L!Methods, L!WithId, L!Queries, L!Notifications, L!Synchronisation,
     L!Unknown
<1>3. L!Spec => []L!IndInv
  BY <1>1, <1>2, MaxReparsesAssumption, ProtocolAssumption, L!IndInvHolds
<1> QED
  BY <1>3, LoopIsLspServer, PTL

-----------------------------------------------------------------------------
(* The index of the program is Workspace.                                  *)

\* A message the loop takes is one of the protocol.
LEMMA TakenIsMessage ==
  ASSUME L!IndInv, handled < Len(input)
  PROVE  /\ handled + 1 \in DOMAIN input
         /\ input[handled + 1] \in L!Messages
         /\ handled \in Nat
BY DEF L!IndInv, L!TypeOK

\* Every step of the program is one of the index, or none: what is parsed again
\* is a file of the index, and the new content is a text.
LEMMA StepIsIndexStep == L!IndInv /\ [MainNext]_mainVars => [Next]_vars
<1> SUFFICES ASSUME L!IndInv, [MainNext]_mainVars PROVE Next \/ UNCHANGED vars
  OBVIOUS
<1>1. CASE Editor \/ EndOfInput \/ Ended \/ UNCHANGED mainVars
  BY <1>1 DEF Editor, EndOfInput, Ended, mainVars, vars
<1>2. CASE Indexing
  BY <1>2 DEF Indexing, Next
<1>3. CASE Indexed \/ IndexingFailed
  BY <1>3 DEF Indexed, IndexingFailed, Next
<1>4. CASE HandleMessage
  <2>1. PICK m : handled < Len(input) /\ m = input[handled + 1] /\ IndexStep(m)
    BY <1>4 DEF HandleMessage
  <2>2. CASE Reparses(m)
    <3>1. Reparse(m.uri, m.texts[1]) /\ phase = "serving"
      BY <2>1, <2>2 DEF IndexStep, Reparse
    <3>2. m.uri \in files
      BY <3>1 DEF Reparse
    <3>3. m.texts \in Seq(Texts) /\ m.texts # << >>
      BY <2>1, <2>2, TakenIsMessage DEF Reparses, L!Messages
    <3>4. m.texts[1] \in Texts
      BY <3>3
    <3> QED
      BY <3>1, <3>2, <3>4 DEF Next
  <2>3. CASE ~ Reparses(m)
    BY <2>1, <2>3 DEF IndexStep
  <2> QED
    BY <2>2, <2>3
<1> QED
  BY <1>1, <1>2, <1>3, <1>4 DEF MainNext

\* Whatever messages the loop takes, the index goes through the steps of
\* Workspace only: the composition implements it.
THEOREM IndexImplementsWorkspace == MainSpec => IndexIsWorkspace
<1>1. MainInit => Init
  BY DEF MainInit
<1> QED
  BY <1>1, LoopInvariant, StepIsIndexStep, PTL DEF MainSpec, Spec, IndexIsWorkspace

-----------------------------------------------------------------------------
(* The answers.                                                            *)

\* Messages are taken once the index is there.
ServesWhenRunning == server = "running" => phase = "serving"

LEMMA ServesWhenRunningHolds == MainSpec => []ServesWhenRunning
<1>1. MainInit => ServesWhenRunning
  BY DEF MainInit, S!Init, ServesWhenRunning
<1>2. ServesWhenRunning /\ [MainNext]_mainVars => ServesWhenRunning'
  <2> SUFFICES ASSUME ServesWhenRunning, [MainNext]_mainVars PROVE ServesWhenRunning'
    OBVIOUS
  <2>1. CASE Editor
    BY <2>1 DEF Editor, vars, S!SendRequest, S!SendDidOpen, S!SendDidChange, S!Send, S!Leave,
       ServesWhenRunning
  <2>2. CASE Indexing
    BY <2>2 DEF Indexing, serverVars, ServesWhenRunning
  <2>3. CASE Indexed \/ IndexingFailed
    BY <2>3 DEF Indexed, IndexingFailed, Collect, ServesWhenRunning
  <2>4. CASE HandleMessage
    BY <2>4 DEF HandleMessage, IndexStep, Reparse, vars, ServesWhenRunning
  <2>5. CASE EndOfInput \/ Ended \/ UNCHANGED mainVars
    BY <2>5 DEF EndOfInput, S!EndOfInput, Ended, mainVars, vars, ServesWhenRunning
  <2> QED
    BY <2>1, <2>2, <2>3, <2>4, <2>5 DEF MainNext
<1> QED
  BY <1>1, <1>2, PTL DEF MainSpec

\* Texts that declare no name twice make an index that does not.
LEMMA DistinctIsUnique ==
  ASSUME IndInv, phase = "serving", Distinct(Contents)
  PROVE  UniqueNames
<1> SUFFICES ASSUME NEW b \in symbols, NEW c \in symbols, b # c
             PROVE  Exported(b) \cap Exported(c) = {}
  BY DEF UniqueNames
<1>1. /\ b.file \in files /\ b.text = text[b.file]
      /\ c.file \in files /\ c.text = text[c.file]
      /\ b.file # c.file
  BY DEF IndInv, CollectionIsCurrent
<1>2. \A f \in files : FreshBlock(Contents, f).text = text[f]
  BY DEF FreshBlock, Contents
<1>3. /\ Exported(FreshBlock(Contents, b.file)) = Exported(b)
      /\ Exported(FreshBlock(Contents, c.file)) = Exported(c)
  <2>1. FreshBlock(Contents, b.file).text = b.text /\ FreshBlock(Contents, c.file).text = c.text
    BY <1>1, <1>2
  <2> QED
    BY <2>1 DEF Exported
<1>4. DOMAIN Contents = files
  BY DEF Contents
<1> QED
  BY <1>1, <1>3, <1>4 DEF Distinct

\* The message that is answered asks about the texts the index has: no message
\* before it is left to be taken, and it changes nothing itself.
LEMMA AskedOnContents ==
  ASSUME L!IndInv, ServesWhenRunning, HandleMessage,
         NEW i \in DOMAIN output' \ DOMAIN output
  PROVE  /\ phase = "serving"
         /\ input[output'[i].to].view = Contents
<1>1. PICK m : /\ server = "running" /\ handled < Len(input) /\ m = input[handled + 1]
               /\ S!Handle(m)
  BY DEF HandleMessage
<1>2. phase = "serving"
  BY <1>1 DEF ServesWhenRunning
<1>3. m \in L!Messages /\ handled + 1 \in DOMAIN input /\ handled \in Nat
  BY <1>1, TakenIsMessage
<1>4. NONE \notin L!Methods
  BY ProtocolAssumption DEF L!Methods, L!WithId, L!Queries, L!Notifications, L!Synchronisation,
     L!Unknown
<1>5. \/ output' = output
      \/ /\ L!IsRequest(m)
         /\ \E kind \in {"result", "error"} : output' = Append(output, L!Response(m, kind))
  <2>1. L!Handle(m)
    BY <1>1, HandleIsHandle
  <2>2. 0..NumFiles # {} /\ 1 \in Nat
    BY NumFilesAssumption
  <2> QED
    BY <1>3, <1>4, <2>1, <2>2, MaxReparsesAssumption, ProtocolAssumption, L!HandleOutput
<1>6. PICK kind \in {"result", "error"} : output' = Append(output, L!Response(m, kind))
  BY <1>5
<1>7. output \in Seq(L!Responses)
  BY DEF L!IndInv, L!TypeOK
<1>8. output'[i] = L!Response(m, kind)
  BY <1>6, <1>7
<1>9. input[output'[i].to] = m
  BY <1>1, <1>8 DEF L!Response
<1>10. L!IsRequest(m)
  BY <1>5
<1>11. m.view = L!ViewAt(handled)
  <2>1. m.view = L!Effect(m, L!ViewAt(handled + 1 - 1))
    BY <1>1, <1>3 DEF L!IndInv, L!PipeIsCoherent
  <2>2. m.method \notin {"textDocument/didOpen", "textDocument/didChange"}
    BY <1>10 DEF L!IsRequest, L!WithId, L!Queries, L!Unknown
  <2>3. handled + 1 - 1 = handled
    BY <1>3
  <2> QED
    BY <2>1, <2>2, <2>3 DEF L!Effect
<1>12. L!ViewAt(handled) = Contents
  BY <1>2 DEF L!IndInv, L!DocumentsFollowEditor, documents, Contents
<1> QED
  BY <1>2, <1>9, <1>11, <1>12

\* The answer to a definition request leads to where a server would lead that
\* was started on the texts the editor had when it sent the request.
THEOREM AnswersStayFresh == MainSpec => AnswersAreFresh
<1> DEFINE Fresh(i) ==
      LET m == input[output'[i].to]
      IN  Distinct(m.view) =>
            LinksIn(Links(definition), m.uri) = LinksIn(Links(FreshDefinitions(m.view)), m.uri)
<1>1. L!IndInv /\ ServesWhenRunning /\ IndInv /\ DefinitionsAreFresh /\ [MainNext]_mainVars
        => [\A i \in DOMAIN output' \ DOMAIN output : Fresh(i)]_mainVars
  <2> SUFFICES ASSUME L!IndInv, ServesWhenRunning, IndInv, DefinitionsAreFresh, MainNext,
                      NEW i \in DOMAIN output' \ DOMAIN output
               PROVE  Fresh(i)
    OBVIOUS
  <2>1. HandleMessage
    <3>1. output' # output
      OBVIOUS
    <3>2. ~ Editor
      BY <3>1 DEF Editor, S!SendRequest, S!SendDidOpen, S!SendDidChange, S!Send, S!Leave
    <3>3. ~ Indexing /\ ~ Indexed /\ ~ IndexingFailed /\ ~ EndOfInput /\ ~ Ended
      BY <3>1 DEF Indexing, Indexed, IndexingFailed, S!Start, serverVars, EndOfInput, S!EndOfInput,
         Ended, mainVars
    <3> QED
      BY <3>2, <3>3 DEF MainNext
  <2>2. phase = "serving" /\ input[output'[i].to].view = Contents
    BY <2>1, AskedOnContents
  <2>3. Distinct(Contents) => UniqueNames
    BY <2>2, DistinctIsUnique
  <2> QED
    BY <2>2, <2>3 DEF DefinitionsAreFresh
<1>2. MainSpec => []IndInv /\ []DefinitionsAreFresh
  BY IndexImplementsWorkspace, IndInvHolds, DefinitionsStayFresh, PTL DEF IndexIsWorkspace
<1> QED
  BY <1>1, <1>2, LoopInvariant, ServesWhenRunningHolds, PTL DEF MainSpec, AnswersAreFresh
=============================================================================
