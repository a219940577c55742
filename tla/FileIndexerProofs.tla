------------------------- MODULE FileIndexerProofs --------------------------
(***************************************************************************)
(* What the listeners make of a file, for trees of any size.  When the     *)
(* walks are over, the lists of methods, functions and parameters are the  *)
(* declarations that have a name, each under its own name: a listener      *)
(* names the declaration on its stack by the first name it is told of one  *)
(* level below it; the lemmas say what it is in when it is told something, *)
(* what its stack is, and what is in its list.  The chains of members are  *)
(* whole: the lemmas say which members the listener of references holds.   *)
(* Every symbol belongs to the innermost declaration around it: the lemmas *)
(* say what a search by ranges finds in the lists there are by then.  And  *)
(* a usage has the definition and the type it should.                      *)
(***************************************************************************)
EXTENDS FileIndexer, PhpTreeProofs

-----------------------------------------------------------------------------
(* What a listener hears.                                                  *)

\* The declarations that a listener keeps a stack of, and the call it takes their names from.
DeclaredBy(l) ==
    CASE l = 1 -> {"namespace_definition"}
      [] l = 7 -> {"method_declaration"}
      [] l = 8 -> {"function_definition"}
      [] l = 9 -> Parameters
      [] OTHER -> {}
NameCall(l) == IF l \in {7, 8} THEN "leaf" ELSE "enter"

\* It is told when they begin and end, and of their names.
LEMMA HeardFacts ==
  ASSUME NEW l \in 1..12, NEW type \in DeclaredBy(l)
  PROVE  /\ l \in {1, 7, 8, 9}
         /\ type \in Listeners[l].hears.enter /\ type \in Listeners[l].hears.exit
         /\ NameKind(type) \in Listeners[l].hears[NameCall(l)]
         /\ type \notin LeafTypes /\ NameKind(type) \notin DeclaredBy(l)
         /\ NameCall(l) = IF NameKind(type) \in LeafTypes THEN "leaf" ELSE "enter"
<1>1. /\ Listeners[1].hears = Hears({"namespace_definition", "namespace_name"}, {}, {}, {"namespace_definition"})
      /\ Listeners[7].hears = Hears({"method_declaration"}, {"name"}, {}, {"method_declaration"})
      /\ Listeners[8].hears = Hears({"function_definition"}, {"name"}, {}, {"function_definition"})
      /\ Listeners[9].hears = Hears({"simple_parameter", "property_promotion_parameter", "variable_name"}, {}, {},
                                    {"simple_parameter", "property_promotion_parameter"})
  BY DEF Listeners
<1>2. l \in {1, 7, 8, 9}
  BY DEF DeclaredBy
<1>3. \A e, f, x, y : /\ Hears(e, f, x, y).enter = e /\ Hears(e, f, x, y).exit = y
                      /\ Hears(e, f, x, y)["enter"] = e /\ Hears(e, f, x, y)["leaf"] = f
  BY DEF Hears
<1>4. "name" \in LeafTypes /\ {"namespace_name", "variable_name", "namespace_definition", "method_declaration",
                               "function_definition", "simple_parameter", "property_promotion_parameter"} \cap LeafTypes = {}
  BY DEF LeafTypes
<1> DEFINE done == /\ type \in Listeners[l].hears.enter /\ type \in Listeners[l].hears.exit
                   /\ NameKind(type) \in Listeners[l].hears[NameCall(l)]
                   /\ type \notin LeafTypes /\ NameKind(type) \notin DeclaredBy(l)
                   /\ NameCall(l) = IF NameKind(type) \in LeafTypes THEN "leaf" ELSE "enter"
<1>5. CASE l = 1
  <2>1. DeclaredBy(1) = {"namespace_definition"} /\ NameCall(1) = "enter"
    BY DEF DeclaredBy, NameCall
  <2>2. type = "namespace_definition" /\ NameKind(type) = "namespace_name"
    BY <1>5, <2>1 DEF NameKind, Parameters
  <2> QED
    BY <1>1, <1>3, <1>4, <1>5, <2>1, <2>2
<1>6. CASE l = 7
  <2>1. DeclaredBy(7) = {"method_declaration"} /\ NameCall(7) = "leaf"
    BY DEF DeclaredBy, NameCall
  <2>2. type = "method_declaration" /\ NameKind(type) = "name"
    BY <1>6, <2>1 DEF NameKind, Parameters
  <2> QED
    BY <1>1, <1>3, <1>4, <1>6, <2>1, <2>2
<1>7. CASE l = 8
  <2>1. DeclaredBy(8) = {"function_definition"} /\ NameCall(8) = "leaf"
    BY DEF DeclaredBy, NameCall
  <2>2. type = "function_definition" /\ NameKind(type) = "name"
    BY <1>7, <2>1 DEF NameKind, Parameters
  <2> QED
    BY <1>1, <1>3, <1>4, <1>7, <2>1, <2>2
<1>8. CASE l = 9
  <2>1. DeclaredBy(9) = Parameters /\ NameCall(9) = "enter"
    BY DEF DeclaredBy, NameCall
  <2>2. type \in Parameters /\ NameKind(type) = "variable_name"
    BY <1>8, <2>1 DEF NameKind, Parameters
  <2> QED
    BY <1>1, <1>3, <1>4, <1>8, <2>1, <2>2 DEF Parameters
<1> QED
  BY <1>2, <1>5, <1>6, <1>7, <1>8

-----------------------------------------------------------------------------
(* What it is in when it is told something.                                *)

\* A listener is told in order: todo are the positions it has not come to.
InOrder(t, l, todo) ==
    /\ todo \subseteq Heard(l, Telling(t), t)
    /\ \A i \in Heard(l, Telling(t), t) \ todo : \A j \in todo : i < j

Passed(t, l, todo, call, n) ==
    \E i \in Heard(l, Telling(t), t) \ todo : Telling(t)[i].call = call /\ Telling(t)[i].node = n

OpenNodes(t, l, todo) ==
    {n \in InPlace(t) : t.type[n] \in DeclaredBy(l) /\ Passed(t, l, todo, "enter", n) /\ ~ Passed(t, l, todo, "exit", n)}

\* The call it is told next.
NextCall(t, todo) == Telling(t)[Min(todo)]

\* It is the first it has not come to.
LEMMA NextFacts ==
  ASSUME NEW t \in PhpTrees, NEW l \in 1..12, NEW todo, InOrder(t, l, todo), todo # {}
  PROVE  /\ Min(todo) \in todo /\ Min(todo) \in 1..Len(Telling(t)) /\ \A j \in todo : Min(todo) <= j
         /\ Fits(t, NextCall(t, todo)) /\ t.type[NextCall(t, todo).node] \in Listeners[l].hears[NextCall(t, todo).call]
         /\ InOrder(t, l, todo \ {Min(todo)})
         /\ \A call, n : Passed(t, l, todo \ {Min(todo)}, call, n) <=>
              Passed(t, l, todo, call, n) \/ (call = NextCall(t, todo).call /\ n = NextCall(t, todo).node)
<1> DEFINE w == Telling(t)
           H == Heard(l, w, t)
           i == Min(todo)
<1>1. w \in Seq(AllCalls(t)) /\ \A j \in 1..Len(w) : Fits(t, w[j])
  BY TellingBrackets
<1>2. H = {j \in 1..Len(w) : t.type[w[j].node] \in Listeners[l].hears[w[j].call]}
  BY <1>1 DEF Heard
<1>3. todo \subseteq H /\ (\A j \in H \ todo : \A k \in todo : j < k) /\ H \subseteq 1..Len(w)
  BY <1>2 DEF InOrder
<1> HIDE DEF w, H
<1>4. todo \in SUBSET Nat
  BY <1>1, <1>3
<1>5. i \in todo /\ \A j \in todo : i <= j
  <2>1. \E x \in todo : \A y \in todo : x <= y
    BY <1>4, LeastNumberExists
  <2> QED
    BY <2>1 DEF Min
<1> HIDE DEF i
<1>6. \A j \in todo \ {i} : i < j
  BY <1>4, <1>5
<1>7. H \ (todo \ {i}) = (H \ todo) \cup {i}
  BY <1>3, <1>5
<1>8. InOrder(t, l, todo \ {i})
  BY <1>3, <1>6, <1>7 DEF InOrder, H, w
<1>9. \A call, n : Passed(t, l, todo \ {i}, call, n) <=> Passed(t, l, todo, call, n) \/ (call = w[i].call /\ n = w[i].node)
  <2>1. \A call, n : Passed(t, l, todo \ {i}, call, n) <=> \E j \in (H \ todo) \cup {i} : w[j].call = call /\ w[j].node = n
    BY <1>7 DEF Passed, H, w
  <2>2. \A call, n : Passed(t, l, todo, call, n) <=> \E j \in H \ todo : w[j].call = call /\ w[j].node = n
    BY DEF Passed, H, w
  <2> QED
    BY <2>1, <2>2
<1>10. i \in 1..Len(w) /\ Fits(t, w[i]) /\ t.type[w[i].node] \in Listeners[l].hears[w[i].call]
  BY <1>1, <1>2, <1>3, <1>5
<1>11. NextCall(t, todo) = w[i]
  BY DEF NextCall, w, i
<1> QED
  BY <1>5, <1>8, <1>9, <1>10, <1>11 DEF w, i

\* What it has been told comes before what it is told next, and what it has not, behind.
LEMMA PassedOrComing ==
  ASSUME NEW t \in PhpTrees, NEW l \in 1..12, NEW todo, InOrder(t, l, todo), todo # {}, NEW call, NEW n
  PROVE  /\ Passed(t, l, todo, call, n) =>
              \E d : d.call = call /\ d.node = n /\ Before(t, d, NextCall(t, todo))
         /\ ToldIn(Telling(t), call, n) /\ t.type[n] \in Listeners[l].hears[call] /\ ~ Passed(t, l, todo, call, n) =>
              \/ NextCall(t, todo).call = call /\ NextCall(t, todo).node = n
              \/ \E d : d.call = call /\ d.node = n /\ Before(t, NextCall(t, todo), d)
<1> DEFINE w == Telling(t)
           H == Heard(l, w, t)
           i == Min(todo)
<1>1. w \in Seq(AllCalls(t)) /\ DOMAIN w = 1..Len(w) /\ Arranged(t, w)
  BY TellingBrackets
<1>2. i \in todo /\ i \in 1..Len(w) /\ \A k \in todo : i <= k
  BY NextFacts
<1>3. H = {j \in 1..Len(w) : t.type[w[j].node] \in Listeners[l].hears[w[j].call]}
  BY <1>1 DEF Heard
<1>4. \A k \in H \ todo : k < i /\ k \in 1..Len(w)
  BY <1>2, <1>3 DEF InOrder
<1>5. NextCall(t, todo) = w[i]
  BY DEF NextCall
<1> HIDE DEF i
<1>6. ASSUME Passed(t, l, todo, call, n)
      PROVE  \E d : d.call = call /\ d.node = n /\ Before(t, d, w[i])
  <2>1. PICK k \in H \ todo : w[k].call = call /\ w[k].node = n
    BY <1>6 DEF Passed
  <2>2. Before(t, w[k], w[i])
    BY <1>1, <1>2, <1>4, <2>1 DEF Arranged
  <2> QED
    BY <2>1, <2>2
<1>7. ASSUME ToldIn(w, call, n), t.type[n] \in Listeners[l].hears[call], ~ Passed(t, l, todo, call, n)
      PROVE  \/ w[i].call = call /\ w[i].node = n
             \/ \E d : d.call = call /\ d.node = n /\ Before(t, w[i], d)
  <2>1. PICK j \in 1..Len(w) : w[j].call = call /\ w[j].node = n
    BY <1>7 DEF ToldIn
  <2>2. j \in H
    BY <1>3, <1>7, <2>1
  <2>3. j \in todo
    BY <1>7, <2>1, <2>2 DEF Passed
  <2>4. i = j \/ i < j
    BY <1>1, <1>2, <2>1, <2>3
  <2>5. i < j => Before(t, w[i], w[j])
    BY <1>1, <1>2, <2>1 DEF Arranged
  <2> QED
    BY <2>1, <2>4, <2>5
<1> QED
  BY <1>5, <1>6, <1>7

\* When a node begins, what is open are the nodes around it.
LEMMA OpenAround ==
  ASSUME NEW t \in PhpTrees, NEW l \in 1..12, NEW todo, InOrder(t, l, todo), todo # {}, IsOpening(NextCall(t, todo))
  PROVE  LET n == NextCall(t, todo).node
         IN  /\ OpenNodes(t, l, todo) = {m \in Up(t)[n] \ {n} : t.type[m] \in DeclaredBy(l)}
             /\ \A call, m : call \in {"enter", "leaf"} /\ Passed(t, l, todo, call, m) => m < n
             /\ \A call, m : /\ call \in {"enter", "leaf"} /\ m \in InPlace(t) /\ m < n /\ ToldIn(Telling(t), call, m)
                             /\ t.type[m] \in Listeners[l].hears[call]
                             => Passed(t, l, todo, call, m)
<1> DEFINE c == NextCall(t, todo)
           n == c.node
<1>1. Fits(t, c)
  BY NextFacts
<1> HIDE DEF c
<1>2. n \in InPlace(t) /\ c.call \in {"enter", "leaf"} /\ IsOpening(c) /\ InPlace(t) \subseteq Nodes(t) /\ Nodes(t) \subseteq Nat
  BY <1>1, NodeFacts DEF Fits, IsOpening, c, InPlace
<1>3. \A call, m : Passed(t, l, todo, call, m) => \E d : d.call = call /\ d.node = m /\ Before(t, d, c)
  BY PassedOrComing DEF c
<1>4. \A call, m : ToldIn(Telling(t), call, m) /\ t.type[m] \in Listeners[l].hears[call] /\ ~ Passed(t, l, todo, call, m) =>
              (c.call = call /\ c.node = m) \/ \E d : d.call = call /\ d.node = m /\ Before(t, c, d)
  BY PassedOrComing DEF c
<1>5. ASSUME NEW call \in {"enter", "leaf"}, NEW m, Passed(t, l, todo, call, m) PROVE m < n
  <2>1. PICK d : d.call = call /\ d.node = m /\ Before(t, d, c)
    BY <1>3, <1>5
  <2> QED
    BY <1>2, <2>1 DEF Before, IsOpening
<1>6. ASSUME NEW call \in {"enter", "leaf"}, NEW m \in InPlace(t), m < n, ToldIn(Telling(t), call, m),
             t.type[m] \in Listeners[l].hears[call]
      PROVE  Passed(t, l, todo, call, m)
  <2>1. ASSUME NEW d, d.call = call, d.node = m, Before(t, c, d) PROVE FALSE
    <3>1. n < m
      BY <1>2, <2>1 DEF Before, IsOpening
    <3> QED
      BY <1>2, <1>6, <3>1
  <2>2. n # m
    BY <1>2, <1>6
  <2> QED
    BY <1>4, <1>6, <2>1, <2>2
<1>7. \A m \in InPlace(t) : t.type[m] \in DeclaredBy(l) =>
        /\ ToldIn(Telling(t), "enter", m) /\ ToldIn(Telling(t), "exit", m)
        /\ t.type[m] \in Listeners[l].hears["enter"] /\ t.type[m] \in Listeners[l].hears["exit"]
  BY HeardFacts, TellingBrackets
<1>8. Up(t)[n] \subseteq InPlace(t) /\ \A m \in Up(t)[n] : m <= n
  BY <1>2, UpIsClosed, InPlaceFacts
<1>9. ASSUME NEW m \in OpenNodes(t, l, todo) PROVE m \in Up(t)[n] \ {n} /\ t.type[m] \in DeclaredBy(l)
  <2>1. m \in InPlace(t) /\ t.type[m] \in DeclaredBy(l) /\ Passed(t, l, todo, "enter", m) /\ ~ Passed(t, l, todo, "exit", m)
    BY DEF OpenNodes
  <2>2. m < n
    BY <1>5, <2>1
  <2>3. c.call # "exit"
    BY <1>2
  <2>4. PICK d : d.call = "exit" /\ d.node = m /\ Before(t, c, d)
    BY <1>4, <1>7, <2>1, <2>3
  <2>5. m \in Up(t)[n]
    BY <1>2, <2>1, <2>2, <2>4 DEF Before
  <2> QED
    BY <1>2, <2>1, <2>2, <2>5
<1>10. ASSUME NEW m \in Up(t)[n] \ {n}, t.type[m] \in DeclaredBy(l) PROVE m \in OpenNodes(t, l, todo)
  <2>1. m \in InPlace(t) /\ m < n
    BY <1>2, <1>8
  <2>2. Passed(t, l, todo, "enter", m)
    BY <1>6, <1>7, <1>10, <2>1
  <2>3. ~ Passed(t, l, todo, "exit", m)
    <3>1. ASSUME NEW d, d.call = "exit", d.node = m, Before(t, d, c) PROVE FALSE
      BY <1>2, <3>1 DEF Before
    <3> QED
      BY <1>3, <3>1
  <2> QED
    BY <1>10, <2>1, <2>2, <2>3 DEF OpenNodes
<1>11. OpenNodes(t, l, todo) = {m \in Up(t)[n] \ {n} : t.type[m] \in DeclaredBy(l)}
  BY <1>9, <1>10
<1> QED
  BY <1>5, <1>6, <1>11 DEF c

\* When a declaration ends, what is open are that and the nodes around it, and
\* all has been told that begins in it.
LEMMA OpenAtExit ==
  ASSUME NEW t \in PhpTrees, NEW l \in 1..12, NEW todo, InOrder(t, l, todo), todo # {},
         NextCall(t, todo).call = "exit", t.type[NextCall(t, todo).node] \in DeclaredBy(l)
  PROVE  LET n == NextCall(t, todo).node
         IN  /\ OpenNodes(t, l, todo) = {m \in Up(t)[n] : t.type[m] \in DeclaredBy(l)}
             /\ \A call, m : /\ call \in {"enter", "leaf"} /\ m \in InPlace(t) /\ n \in Up(t)[m]
                             /\ ToldIn(Telling(t), call, m) /\ t.type[m] \in Listeners[l].hears[call]
                             => Passed(t, l, todo, call, m)
             /\ ~ Passed(t, l, todo, "exit", n)
<1> DEFINE c == NextCall(t, todo)
           n == c.node
<1>1. Fits(t, c)
  BY NextFacts
<1> HIDE DEF c
<1>2. /\ n \in InPlace(t) /\ c.call = "exit" /\ t.type[n] \in DeclaredBy(l)
      /\ InPlace(t) \subseteq Nodes(t) /\ Nodes(t) \subseteq Nat
  BY <1>1, NodeFacts DEF Fits, c, InPlace
<1>3. \A call, m : Passed(t, l, todo, call, m) => \E d : d.call = call /\ d.node = m /\ Before(t, d, c)
  BY PassedOrComing DEF c
<1>4. \A call, m : ToldIn(Telling(t), call, m) /\ t.type[m] \in Listeners[l].hears[call] /\ ~ Passed(t, l, todo, call, m) =>
              (c.call = call /\ c.node = m) \/ \E d : d.call = call /\ d.node = m /\ Before(t, c, d)
  BY PassedOrComing DEF c
<1>5. \A m \in InPlace(t) : t.type[m] \in DeclaredBy(l) =>
        /\ ToldIn(Telling(t), "enter", m) /\ ToldIn(Telling(t), "exit", m)
        /\ t.type[m] \in Listeners[l].hears["enter"] /\ t.type[m] \in Listeners[l].hears["exit"]
  BY HeardFacts, TellingBrackets
<1>6. Up(t)[n] \subseteq InPlace(t) /\ n \in Up(t)[n] /\ \A m \in Up(t)[n] : m <= n
  BY <1>2, UpIsClosed, InPlaceFacts
<1>7. ASSUME NEW m \in InPlace(t), NEW call \in {"enter", "leaf"}, ToldIn(Telling(t), call, m),
             t.type[m] \in Listeners[l].hears[call], m <= n \/ n \in Up(t)[m]
      PROVE  Passed(t, l, todo, call, m)
  <2>1. ASSUME NEW d, d.call = call, d.node = m, Before(t, c, d) PROVE FALSE
    <3>1. n < m /\ n \notin Up(t)[m]
      BY <1>2, <2>1 DEF Before, IsOpening
    <3> QED
      BY <1>2, <1>7, <3>1
  <2> QED
    BY <1>2, <1>4, <1>7, <2>1
<1>8. ASSUME NEW m \in OpenNodes(t, l, todo) PROVE m \in Up(t)[n] /\ t.type[m] \in DeclaredBy(l)
  <2>1. m \in InPlace(t) /\ t.type[m] \in DeclaredBy(l) /\ Passed(t, l, todo, "enter", m) /\ ~ Passed(t, l, todo, "exit", m)
    BY DEF OpenNodes
  <2>2. CASE m = n
    BY <1>6, <2>1, <2>2
  <2>3. CASE m # n
    <3>1. PICK d : d.call = "exit" /\ d.node = m /\ Before(t, c, d)
      BY <1>4, <1>5, <2>1, <2>3
    <3>2. n \notin Up(t)[m]
      BY <1>2, <3>1 DEF Before
    <3>3. PICK o : o.call = "enter" /\ o.node = m /\ Before(t, o, c)
      BY <1>3, <2>1
    <3>4. ~ (n <= m)
      BY <1>2, <3>2, <3>3 DEF Before, IsOpening
    <3>5. m <= n
      BY <1>2, <2>1, <3>4
    <3>6. Passed(t, l, todo, "enter", n)
      BY <1>2, <1>5, <1>6, <1>7
    <3>7. m \in Up(t)[n]
      <4>1. ToldIn(Telling(t), "exit", m) /\ ToldIn(Telling(t), "enter", n)
        BY <1>2, <1>5, <2>1
      <4>2. PICK i, j \in 1..Len(Telling(t)) : /\ Telling(t)[i].call = "exit" /\ Telling(t)[i].node = m
                                               /\ Telling(t)[j].call = "enter" /\ Telling(t)[j].node = n
        BY <4>1 DEF ToldIn
      <4> DEFINE w == Telling(t)
      <4>3. w \in Seq(AllCalls(t)) /\ Arranged(t, w)
        BY TellingBrackets
      <4> HIDE DEF w
      <4>4. i # j /\ (i < j \/ j < i)
        BY <4>2
      <4>5. CASE i < j
        <5>1. Min(todo) \in 1..Len(w) /\ Telling(t)[Min(todo)] = c
          BY NextFacts DEF NextCall, c, w
        <5> DEFINE k == Min(todo)
        <5> HIDE DEF k
        <5>2. k \in 1..Len(w) /\ w[k] = c
          BY <5>1 DEF k, w
        <5>3. k # j /\ (k < j \/ j < k)
          BY <1>2, <4>2, <5>2 DEF w
        <5>4. k < j => Before(t, c, w[j])
          BY <4>2, <4>3, <5>2 DEF Arranged, w
        <5>5. ~ (k < j)
          BY <1>2, <4>2, <5>4 DEF Before, IsOpening, w
        <5>6. i < k
          BY <4>2, <4>5, <5>2, <5>3, <5>5
        <5>7. i \in Heard(l, w, t)
          BY <1>5, <2>1, <4>2, <4>3 DEF Heard, w
        <5>8. i \notin todo
          <6>1. \A x \in todo : k <= x
            BY NextFacts DEF k
          <6> QED
            BY <4>2, <5>2, <5>6, <6>1
        <5>9. Passed(t, l, todo, "exit", m)
          BY <4>2, <5>7, <5>8 DEF Passed, w
        <5> QED
          BY <2>1, <5>9
      <4>6. CASE j < i
        <5>1. Before(t, w[j], w[i])
          BY <4>2, <4>3, <4>6 DEF Arranged, w
        <5> QED
          BY <3>5, <4>2, <5>1 DEF Before, IsOpening, w
      <4> QED
        BY <4>4, <4>5, <4>6
    <3> QED
      BY <2>1, <3>7
  <2> QED
    BY <2>2, <2>3
<1>9. ASSUME NEW m \in Up(t)[n], t.type[m] \in DeclaredBy(l) PROVE m \in OpenNodes(t, l, todo)
  <2>1. m \in InPlace(t) /\ m <= n
    BY <1>6
  <2>2. Passed(t, l, todo, "enter", m)
    BY <1>5, <1>7, <1>9, <2>1
  <2>3. ~ Passed(t, l, todo, "exit", m)
    <3>1. ASSUME NEW d, d.call = "exit", d.node = m, Before(t, d, c) PROVE FALSE
      BY <1>2, <3>1 DEF Before
    <3> QED
      BY <1>3, <3>1
  <2> QED
    BY <1>9, <2>1, <2>2, <2>3 DEF OpenNodes
<1>10. OpenNodes(t, l, todo) = {m \in Up(t)[n] : t.type[m] \in DeclaredBy(l)}
  BY <1>8, <1>9
<1>11. ~ Passed(t, l, todo, "exit", n)
  BY <1>2, <1>6, <1>9 DEF OpenNodes
<1> QED
  BY <1>7, <1>10, <1>11 DEF c

-----------------------------------------------------------------------------
(* Sequences of symbols, whatever these are.                               *)

IsSeq(s) == Len(s) \in Nat /\ s = [i \in 1..Len(s) |-> s[i]]

\* A sequence is one over its elements.
LEMMA SeqOfElements ==
  ASSUME NEW s, IsSeq(s), NEW S, \A i \in 1..Len(s) : s[i] \in S
  PROVE  s \in Seq(S)
<1>1. [i \in 1..Len(s) |-> s[i]] \in Seq(S)
  BY DEF IsSeq
<1> QED
  BY <1>1 DEF IsSeq

\* The same the other way round.
LEMMA ElementsOfSeq ==
  ASSUME NEW S, NEW s \in Seq(S)
  PROVE  IsSeq(s)
BY DEF IsSeq

\* One behind a sequence.
LEMMA AppendFacts ==
  ASSUME NEW s, IsSeq(s), NEW d
  PROVE  /\ IsSeq(Append(s, d)) /\ Len(Append(s, d)) = Len(s) + 1 /\ Append(s, d)[Len(s) + 1] = d
         /\ \A i \in 1..Len(s) : Append(s, d)[i] = s[i]
<1> DEFINE S == {s[i] : i \in 1..Len(s)} \cup {d}
<1>1. \A i \in 1..Len(s) : s[i] \in S
  OBVIOUS
<1>2. d \in S
  OBVIOUS
<1> HIDE DEF S
<1>3. s \in Seq(S)
  BY <1>1, SeqOfElements
<1> DEFINE a == Append(s, d)
<1>4. a \in Seq(S) /\ Len(a) = Len(s) + 1 /\ a[Len(s) + 1] = d /\ \A i \in 1..Len(s) : a[i] = s[i]
  BY <1>2, <1>3
<1> HIDE DEF a
<1>5. IsSeq(a)
  BY <1>4, ElementsOfSeq
<1> QED
  BY <1>4, <1>5 DEF a

\* One in front of it, and all but the first.
LEMMA SeqFacts ==
  ASSUME NEW s, IsSeq(s), NEW d
  PROVE  /\ IsSeq(<<d>> \o s) /\ Len(<<d>> \o s) = Len(s) + 1 /\ (<<d>> \o s)[1] = d
         /\ \A i \in 1..Len(s) : (<<d>> \o s)[i + 1] = s[i]
         /\ s # << >> <=> Len(s) > 0
         /\ s # << >> => /\ IsSeq(Tail(s)) /\ Len(Tail(s)) = Len(s) - 1 /\ Head(s) = s[1]
                         /\ \A i \in 1..(Len(s) - 1) : Tail(s)[i] = s[i + 1]
         /\ IsSeq(<< >>) /\ Len(<< >>) = 0
<1> DEFINE S == {s[i] : i \in 1..Len(s)} \cup {d}
<1>1. \A i \in 1..Len(s) : s[i] \in S
  OBVIOUS
<1>2. d \in S
  OBVIOUS
<1> HIDE DEF S
<1>3. s \in Seq(S)
  BY <1>1, SeqOfElements
<1>4. /\ <<d>> \in Seq(S) /\ Len(<<d>>) = 1 /\ <<d>>[1] = d
  BY <1>2
<1> DEFINE g == <<d>>
           r == g \o s
<1> HIDE DEF g
<1>5. /\ r \in Seq(S) /\ Len(r) = Len(g) + Len(s) /\ \A i \in 1..Len(g) : r[i] = g[i]
      /\ \A i \in (Len(g) + 1)..Len(r) : r[i] = s[i - Len(g)]
  BY <1>3, <1>4 DEF g
<1> HIDE DEF r
<1>6. Len(r) = Len(s) + 1 /\ r[1] = d /\ \A i \in 1..Len(s) : r[i + 1] = s[i]
  <2>1. Len(g) = 1 /\ g[1] = d /\ Len(s) \in Nat
    BY <1>3, <1>4 DEF g
  <2>2. \A i \in 1..Len(s) : i + 1 \in (1 + 1)..(Len(s) + 1) /\ (i + 1) - 1 = i
    BY <2>1
  <2> QED
    BY <1>5, <2>1, <2>2
<1>7. IsSeq(r)
  BY <1>5, ElementsOfSeq
<1>8. s # << >> <=> Len(s) > 0
  BY <1>3
<1>9. ASSUME s # << >>
      PROVE  /\ IsSeq(Tail(s)) /\ Len(Tail(s)) = Len(s) - 1 /\ Head(s) = s[1]
             /\ \A i \in 1..(Len(s) - 1) : Tail(s)[i] = s[i + 1]
  <2> DEFINE q == Tail(s)
  <2>1. q \in Seq(S) /\ Len(q) = Len(s) - 1 /\ Head(s) = s[1] /\ \A i \in 1..(Len(s) - 1) : q[i] = s[i + 1]
    BY <1>3, <1>9
  <2> HIDE DEF q
  <2>2. IsSeq(q)
    BY <2>1, ElementsOfSeq
  <2> QED
    BY <2>1, <2>2 DEF q
<1>10. IsSeq(<< >>) /\ Len(<< >>) = 0
  <2>1. << >> \in Seq({})
    OBVIOUS
  <2> QED
    BY <2>1, ElementsOfSeq
<1> QED
  BY <1>6, <1>7, <1>8, <1>9, <1>10 DEF r, g

-----------------------------------------------------------------------------
(* Names.                                                                  *)

NameOf(t, n) == Min(Names(t, n))

\* The first of a set of nodes.
LEMMA MinFacts ==
  ASSUME NEW S \in SUBSET Nat, S # {}
  PROVE  Min(S) \in S /\ \A x \in S : Min(S) <= x
<1>1. \E x \in S : \A y \in S : x <= y
  BY LeastNumberExists
<1> QED
  BY <1>1 DEF Min

\* The name of a declaration is below it, and told.
LEMMA NameFacts ==
  ASSUME NEW t \in PhpTrees, NEW l \in 1..12, NEW n \in InPlace(t), t.type[n] \in DeclaredBy(l)
  PROVE  /\ \A c \in Names(t, n) : /\ c \in InPlace(t) /\ t.parent[c] = n /\ n < c /\ c # ROOT
                                   /\ t.type[c] = NameKind(t.type[n]) /\ t.type[c] \notin DeclaredBy(l)
                                   /\ ToldIn(Telling(t), NameCall(l), c)
                                   /\ t.type[c] \in Listeners[l].hears[NameCall(l)]
                                   /\ n \in Up(t)[c]
         /\ Names(t, n) # {} => NameOf(t, n) \in Names(t, n) /\ \A c \in Names(t, n) : NameOf(t, n) <= c
<1>1. n \in Nodes(t) /\ Nodes(t) \subseteq Nat /\ 0 \notin Nodes(t)
  BY NodeFacts DEF InPlace
<1>2. ASSUME NEW c \in Names(t, n)
      PROVE  /\ c \in InPlace(t) /\ t.parent[c] = n /\ n < c /\ c # ROOT
             /\ t.type[c] = NameKind(t.type[n]) /\ t.type[c] \notin DeclaredBy(l)
             /\ ToldIn(Telling(t), NameCall(l), c)
             /\ t.type[c] \in Listeners[l].hears[NameCall(l)]
             /\ n \in Up(t)[c]
  <2>1. c \in Nodes(t) /\ t.parent[c] = n /\ t.flag[c] = "named" /\ t.type[c] = NameKind(t.type[n])
    BY DEF Names, Below
  <2>2. c # ROOT
    BY <1>1, <2>1, NodeFacts
  <2>3. c \in InPlace(t) /\ n < c
    BY <2>1, <2>2, InPlaceFacts, NodeFacts
  <2>4. /\ t.type[c] \notin DeclaredBy(l) /\ t.type[c] \in Listeners[l].hears[NameCall(l)]
        /\ NameCall(l) = IF t.type[c] \in LeafTypes THEN "leaf" ELSE "enter"
    BY <2>1, HeardFacts
  <2>5. ToldIn(Telling(t), NameCall(l), c)
    BY <2>3, <2>4, TellingBrackets
  <2>6. n \in Up(t)[c]
    <3>1. Up(t)[c] = Up(t)[n] \cup {c}
      BY <2>1, <2>2, UpFacts
    <3>2. n \in Up(t)[n]
      BY <1>1, UpIsClosed
    <3> QED
      BY <3>1, <3>2
  <2> QED
    BY <2>1, <2>2, <2>3, <2>4, <2>5, <2>6
<1>3. Names(t, n) \in SUBSET Nat
  BY <1>1 DEF Names, Below
<1> QED
  BY <1>2, <1>3, MinFacts DEF NameOf

\* The nearer around a node, the deeper.
LEMMA DeeperInside ==
  ASSUME NEW t \in PhpTrees, NEW n \in Nodes(t), NEW m \in Up(t)[n], m # n
  PROVE  Cardinality(Up(t)[m]) < Cardinality(Up(t)[n])
<1>1. m \in Nodes(t) /\ Nodes(t) = 1..Len(t.type) /\ Len(t.type) \in Nat
  BY UpIsClosed, NodeFacts
<1>2. IsFiniteSet(Up(t)[n]) /\ Up(t)[m] \subseteq Up(t)[n]
  <2>1. IsFiniteSet(Nodes(t))
    BY <1>1, FS_Interval
  <2> QED
    BY <1>1, <2>1, UpIsClosed, FS_Subset
<1>3. n \in Up(t)[n] /\ n \notin Up(t)[m]
  <2>1. m <= n /\ \A x \in Up(t)[m] : x <= m
    BY <1>1, UpIsClosed
  <2>2. m < n
    BY <1>1, <2>1
  <2> QED
    BY <1>1, <2>1, <2>2, UpIsClosed
<1>4. Up(t)[m] # Up(t)[n]
  BY <1>3
<1> QED
  BY <1>2, <1>4, FS_Subset, FS_CardinalityType

-----------------------------------------------------------------------------
(* The stack of a listener.                                                *)

NamePassed(t, l, todo, n) == Names(t, n) # {} /\ Passed(t, l, todo, NameCall(l), NameOf(t, n))

\* A declaration on the stack, as far as its name.
Begun(t, l, todo, d, n) ==
    /\ d.depth = Cardinality(Up(t)[n])
    /\ IF NamePassed(t, l, todo, n) THEN d.node = NameOf(t, n) /\ d.name = t.text[NameOf(t, n)] ELSE d.name = NONE

\* The stack has the declarations that are open, the innermost first.
Stacked(t, l, todo, nodes, stack) ==
    /\ IsSeq(nodes) /\ IsSeq(stack) /\ Len(stack) = Len(nodes)
    /\ \A i \in 1..Len(nodes) : nodes[i] \in OpenNodes(t, l, todo) /\ Begun(t, l, todo, stack[i], nodes[i])
    /\ \A n \in OpenNodes(t, l, todo) : \E i \in 1..Len(nodes) : nodes[i] = n
    /\ \A i, j \in 1..Len(nodes) : i < j => nodes[j] < nodes[i]

\* The first on it is the innermost.
LEMMA InnermostFirst ==
  ASSUME NEW t \in PhpTrees, NEW l \in 1..12, NEW todo, NEW nodes, NEW stack, Stacked(t, l, todo, nodes, stack),
         NEW n \in OpenNodes(t, l, todo), \A m \in OpenNodes(t, l, todo) : m <= n
  PROVE  stack # << >> /\ nodes # << >> /\ nodes[1] = n /\ Len(nodes) \in Nat /\ 1 \in 1..Len(nodes)
<1>1. OpenNodes(t, l, todo) \subseteq Nat
  BY NodeFacts DEF OpenNodes, InPlace
<1>2. PICK i \in 1..Len(nodes) : nodes[i] = n
  BY DEF Stacked
<1>3. /\ IsSeq(nodes) /\ IsSeq(stack) /\ Len(stack) = Len(nodes) /\ Len(nodes) \in Nat
      /\ \A j \in 1..Len(nodes) : nodes[j] \in OpenNodes(t, l, todo)
      /\ \A j, k \in 1..Len(nodes) : j < k => nodes[k] < nodes[j]
  BY DEF Stacked, IsSeq
<1>4. 1 \in 1..Len(nodes) /\ Len(nodes) > 0 /\ Len(stack) > 0
  BY <1>2, <1>3
<1>5. ~ (1 < i)
  <2>1. SUFFICES ASSUME 1 < i PROVE FALSE
    OBVIOUS
  <2>2. n < nodes[1] /\ nodes[1] <= n
    BY <1>2, <1>3, <1>4, <2>1
  <2> QED
    BY <1>1, <1>3, <1>4, <2>2
<1>6. stack # << >> /\ nodes # << >>
  BY <1>3, <1>4, SeqFacts
<1> QED
  BY <1>2, <1>3, <1>4, <1>5, <1>6

\* One is opened.
LEMMA StackOpens ==
  ASSUME NEW t \in PhpTrees, NEW l \in 1..12, NEW todo, InOrder(t, l, todo), todo # {},
         NextCall(t, todo).call = "enter", t.type[NextCall(t, todo).node] \in DeclaredBy(l),
         NEW nodes, NEW stack, Stacked(t, l, todo, nodes, stack),
         NEW d, d.depth = NextCall(t, todo).depth, d.name = NONE
  PROVE  /\ Stacked(t, l, todo \ {Min(todo)}, <<NextCall(t, todo).node>> \o nodes, <<d>> \o stack)
         /\ \A m \in InPlace(t) : t.type[m] \in DeclaredBy(l) =>
              /\ NamePassed(t, l, todo \ {Min(todo)}, m) <=> NamePassed(t, l, todo, m)
              /\ Passed(t, l, todo \ {Min(todo)}, "exit", m) <=> Passed(t, l, todo, "exit", m)
<1> DEFINE c == NextCall(t, todo)
           n == c.node
           rest == todo \ {Min(todo)}
<1>1. /\ Fits(t, c) /\ InOrder(t, l, rest)
      /\ \A call, m : Passed(t, l, rest, call, m) <=> Passed(t, l, todo, call, m) \/ (call = c.call /\ m = n)
  BY NextFacts DEF c
<1>2. c.call = "enter" /\ t.type[n] \in DeclaredBy(l) /\ d.depth = c.depth
  BY DEF c
<1> HIDE DEF rest
<1>3. n \in InPlace(t) /\ c = CallOf(t, "enter", n, n) /\ InPlace(t) \subseteq Nodes(t) /\ Nodes(t) \subseteq Nat /\ IsOpening(c)
  BY <1>1, <1>2, NodeFacts DEF Fits, InPlace, IsOpening
<1>4. c.depth = Cardinality(Up(t)[n])
  BY <1>3 DEF CallOf
<1>5. /\ OpenNodes(t, l, todo) = {m \in Up(t)[n] \ {n} : t.type[m] \in DeclaredBy(l)}
      /\ \A call, m : call \in {"enter", "leaf"} /\ Passed(t, l, todo, call, m) => m < n
  BY <1>3, OpenAround DEF c
<1>6. ~ Passed(t, l, todo, "exit", n)
  <2>1. SUFFICES ASSUME Passed(t, l, todo, "exit", n) PROVE FALSE
    OBVIOUS
  <2>2. PICK e : e.call = "exit" /\ e.node = n /\ Before(t, e, c)
    BY <2>1, PassedOrComing DEF c
  <2>3. n < n
    BY <1>3, <2>2 DEF Before
  <2> QED
    BY <1>3, <2>3
<1>7. ASSUME NEW m \in InPlace(t), t.type[m] \in DeclaredBy(l)
      PROVE  /\ NamePassed(t, l, rest, m) <=> NamePassed(t, l, todo, m)
             /\ Passed(t, l, rest, "exit", m) <=> Passed(t, l, todo, "exit", m)
             /\ Passed(t, l, rest, "enter", m) <=> Passed(t, l, todo, "enter", m) \/ m = n
  <2>1. Names(t, m) # {} => NameOf(t, m) # n
    BY <1>2, <1>7, NameFacts
  <2> QED
    BY <1>1, <1>2, <2>1 DEF NamePassed
<1>8. ~ NamePassed(t, l, rest, n)
  <2>1. SUFFICES ASSUME NamePassed(t, l, todo, n) PROVE FALSE
    BY <1>2, <1>3, <1>7
  <2>2. Names(t, n) # {} /\ Passed(t, l, todo, NameCall(l), NameOf(t, n))
    BY <2>1 DEF NamePassed
  <2>3. n < NameOf(t, n) /\ NameOf(t, n) \in InPlace(t)
    BY <1>2, <1>3, <2>2, NameFacts
  <2>4. NameOf(t, n) < n
    BY <1>5, <2>2 DEF NameCall
  <2> QED
    BY <1>3, <2>3, <2>4
<1>9. OpenNodes(t, l, rest) = OpenNodes(t, l, todo) \cup {n}
  BY <1>2, <1>3, <1>6, <1>7 DEF OpenNodes
<1>10. \A m \in OpenNodes(t, l, todo) : m < n
  <2>1. \A m \in Up(t)[n] : m <= n /\ m \in Nodes(t)
    BY <1>3, UpIsClosed
  <2> QED
    BY <1>3, <1>5, <2>1
<1> DEFINE nodes1 == <<n>> \o nodes
           stack1 == <<d>> \o stack
<1>11. /\ IsSeq(nodes) /\ IsSeq(stack) /\ Len(stack) = Len(nodes) /\ Len(nodes) \in Nat
       /\ \A i \in 1..Len(nodes) : nodes[i] \in OpenNodes(t, l, todo) /\ Begun(t, l, todo, stack[i], nodes[i])
       /\ \A m \in OpenNodes(t, l, todo) : \E i \in 1..Len(nodes) : nodes[i] = m
       /\ \A i, j \in 1..Len(nodes) : i < j => nodes[j] < nodes[i]
  BY DEF Stacked, IsSeq
<1>12. /\ IsSeq(nodes1) /\ Len(nodes1) = Len(nodes) + 1 /\ nodes1[1] = n
       /\ \A i \in 1..Len(nodes) : nodes1[i + 1] = nodes[i]
  BY <1>11, SeqFacts
<1>13. /\ IsSeq(stack1) /\ Len(stack1) = Len(stack) + 1 /\ stack1[1] = d
       /\ \A i \in 1..Len(stack) : stack1[i + 1] = stack[i]
  BY <1>11, SeqFacts
<1> HIDE DEF nodes1, stack1, n, c
<1>14. ASSUME NEW i \in 1..Len(nodes1), i # 1
       PROVE  i - 1 \in 1..Len(nodes) /\ nodes1[i] = nodes[i - 1] /\ stack1[i] = stack[i - 1]
  <2>1. i - 1 \in 1..Len(nodes) /\ (i - 1) + 1 = i
    BY <1>11, <1>12, <1>14
  <2> QED
    BY <1>11, <1>12, <1>13, <2>1
<1>15. \A i \in 1..Len(nodes1) : nodes1[i] \in OpenNodes(t, l, rest) /\ Begun(t, l, rest, stack1[i], nodes1[i])
  <2>1. TAKE i \in 1..Len(nodes1)
  <2>2. CASE i = 1
    BY <1>2, <1>4, <1>8, <1>9, <1>12, <1>13, <2>2 DEF Begun
  <2>3. CASE i # 1
    <3>1. /\ nodes1[i] \in OpenNodes(t, l, todo) /\ nodes1[i] = nodes[i - 1] /\ stack1[i] = stack[i - 1]
          /\ Begun(t, l, todo, stack1[i], nodes1[i])
      BY <1>11, <1>14, <2>3
    <3>2. nodes1[i] \in InPlace(t) /\ t.type[nodes1[i]] \in DeclaredBy(l)
      BY <3>1 DEF OpenNodes
    <3> QED
      BY <1>7, <1>9, <3>1, <3>2 DEF Begun
  <2> QED
    BY <2>2, <2>3
<1>16. \A m \in OpenNodes(t, l, rest) : \E i \in 1..Len(nodes1) : nodes1[i] = m
  <2>1. TAKE m \in OpenNodes(t, l, rest)
  <2>2. CASE m = n
    BY <1>11, <1>12, <2>2
  <2>3. CASE m # n
    <3>1. PICK i \in 1..Len(nodes) : nodes[i] = m
      BY <1>9, <1>11, <2>3
    <3>2. i + 1 \in 1..Len(nodes1) /\ nodes1[i + 1] = m
      BY <1>11, <1>12, <3>1
    <3> QED
      BY <3>2
  <2> QED
    BY <2>2, <2>3
<1>17. \A i, j \in 1..Len(nodes1) : i < j => nodes1[j] < nodes1[i]
  <2>1. SUFFICES ASSUME NEW i \in 1..Len(nodes1), NEW j \in 1..Len(nodes1), i < j PROVE nodes1[j] < nodes1[i]
    OBVIOUS
  <2>2. j # 1
    BY <1>11, <1>12, <2>1
  <2>3. CASE i = 1
    BY <1>10, <1>11, <1>12, <1>14, <2>2, <2>3
  <2>4. CASE i # 1
    <3>1. i - 1 \in 1..Len(nodes) /\ j - 1 \in 1..Len(nodes) /\ i - 1 < j - 1
      BY <1>11, <1>14, <2>1, <2>2, <2>4
    <3> QED
      BY <1>11, <1>14, <2>2, <2>4, <3>1
  <2> QED
    BY <2>3, <2>4
<1>18. Stacked(t, l, rest, nodes1, stack1)
  BY <1>11, <1>12, <1>13, <1>15, <1>16, <1>17 DEF Stacked
<1> QED
  BY <1>7, <1>18 DEF rest, nodes1, stack1, n, c

\* One is left.  It has got its name, if it has one.
LEMMA StackCloses ==
  ASSUME NEW t \in PhpTrees, NEW l \in 1..12, NEW todo, InOrder(t, l, todo), todo # {},
         NextCall(t, todo).call = "exit", t.type[NextCall(t, todo).node] \in DeclaredBy(l),
         NEW nodes, NEW stack, Stacked(t, l, todo, nodes, stack)
  PROVE  LET n == NextCall(t, todo).node
         IN  /\ stack # << >> /\ nodes[1] = n /\ n \in InPlace(t)
             /\ Begun(t, l, todo, Head(stack), n) /\ (NamePassed(t, l, todo, n) <=> Names(t, n) # {})
             /\ Stacked(t, l, todo \ {Min(todo)}, Tail(nodes), Tail(stack))
             /\ \A m \in InPlace(t) : t.type[m] \in DeclaredBy(l) =>
                  /\ NamePassed(t, l, todo \ {Min(todo)}, m) <=> NamePassed(t, l, todo, m)
                  /\ Passed(t, l, todo \ {Min(todo)}, "exit", m) <=> Passed(t, l, todo, "exit", m) \/ m = n
<1> DEFINE c == NextCall(t, todo)
           n == c.node
           rest == todo \ {Min(todo)}
<1>1. /\ Fits(t, c) /\ InOrder(t, l, rest)
      /\ \A call, m : Passed(t, l, rest, call, m) <=> Passed(t, l, todo, call, m) \/ (call = c.call /\ m = n)
  BY NextFacts DEF c
<1>2. c.call = "exit" /\ t.type[n] \in DeclaredBy(l)
  BY DEF c
<1> HIDE DEF rest
<1>3. n \in InPlace(t) /\ InPlace(t) \subseteq Nodes(t) /\ Nodes(t) \subseteq Nat
  BY <1>1, <1>2, NodeFacts DEF Fits, InPlace
<1>4. /\ OpenNodes(t, l, todo) = {m \in Up(t)[n] : t.type[m] \in DeclaredBy(l)}
      /\ \A call, m : /\ call \in {"enter", "leaf"} /\ m \in InPlace(t) /\ n \in Up(t)[m]
                      /\ ToldIn(Telling(t), call, m) /\ t.type[m] \in Listeners[l].hears[call]
                      => Passed(t, l, todo, call, m)
  BY OpenAtExit DEF c
<1>5. n \in Up(t)[n] /\ \A m \in Up(t)[n] : m <= n
  BY <1>3, UpIsClosed
<1>6. NamePassed(t, l, todo, n) <=> Names(t, n) # {}
  <2> HIDE DEF n, c
  <2>1. NameCall(l) \in {"enter", "leaf"}
    BY DEF NameCall
  <2>2. Names(t, n) # {} => /\ NameOf(t, n) \in InPlace(t) /\ n \in Up(t)[NameOf(t, n)]
                            /\ ToldIn(Telling(t), NameCall(l), NameOf(t, n))
                            /\ t.type[NameOf(t, n)] \in Listeners[l].hears[NameCall(l)]
    <3>1. SUFFICES ASSUME Names(t, n) # {} PROVE /\ NameOf(t, n) \in InPlace(t) /\ n \in Up(t)[NameOf(t, n)]
                                                 /\ ToldIn(Telling(t), NameCall(l), NameOf(t, n))
                                                 /\ t.type[NameOf(t, n)] \in Listeners[l].hears[NameCall(l)]
      OBVIOUS
    <3>2. NameOf(t, n) \in Names(t, n)
      BY <1>2, <1>3, <3>1, NameFacts
    <3>3. \A c1 \in Names(t, n) : /\ c1 \in InPlace(t) /\ n \in Up(t)[c1] /\ ToldIn(Telling(t), NameCall(l), c1)
                                  /\ t.type[c1] \in Listeners[l].hears[NameCall(l)]
      BY <1>2, <1>3, NameFacts
    <3> QED
      BY <3>2, <3>3
  <2> QED
    BY <1>4, <2>1, <2>2 DEF NamePassed
<1>7. ASSUME NEW m \in InPlace(t), t.type[m] \in DeclaredBy(l)
      PROVE  /\ NamePassed(t, l, rest, m) <=> NamePassed(t, l, todo, m)
             /\ Passed(t, l, rest, "exit", m) <=> Passed(t, l, todo, "exit", m) \/ m = n
             /\ Passed(t, l, rest, "enter", m) <=> Passed(t, l, todo, "enter", m)
  BY <1>1, <1>2 DEF NamePassed, NameCall
<1>8. OpenNodes(t, l, rest) = OpenNodes(t, l, todo) \ {n}
  BY <1>2, <1>3, <1>7 DEF OpenNodes
<1>9. stack # << >> /\ nodes # << >> /\ nodes[1] = n /\ Len(nodes) \in Nat /\ 1 \in 1..Len(nodes)
  BY <1>2, <1>4, <1>5, InnermostFirst
<1> DEFINE nodes1 == Tail(nodes)
           stack1 == Tail(stack)
<1>10. /\ IsSeq(nodes) /\ IsSeq(stack) /\ Len(stack) = Len(nodes)
       /\ \A i \in 1..Len(nodes) : nodes[i] \in OpenNodes(t, l, todo) /\ Begun(t, l, todo, stack[i], nodes[i])
       /\ \A m \in OpenNodes(t, l, todo) : \E i \in 1..Len(nodes) : nodes[i] = m
       /\ \A i, j \in 1..Len(nodes) : i < j => nodes[j] < nodes[i]
  BY DEF Stacked
<1>11. IsSeq(nodes1) /\ Len(nodes1) = Len(nodes) - 1 /\ \A i \in 1..(Len(nodes) - 1) : nodes1[i] = nodes[i + 1]
  BY <1>9, <1>10, SeqFacts
<1>12. /\ IsSeq(stack1) /\ Len(stack1) = Len(stack) - 1 /\ \A i \in 1..(Len(stack) - 1) : stack1[i] = stack[i + 1]
       /\ Head(stack) = stack[1]
  BY <1>9, <1>10, SeqFacts
<1> HIDE DEF nodes1, stack1, n, c
<1>13. \A i \in 1..Len(nodes1) : /\ i + 1 \in 1..Len(nodes) /\ nodes1[i] = nodes[i + 1] /\ stack1[i] = stack[i + 1]
                                 /\ 1 < i + 1
  BY <1>9, <1>10, <1>11, <1>12
<1>14. \A i \in 1..Len(nodes1) : nodes1[i] \in OpenNodes(t, l, rest) /\ Begun(t, l, rest, stack1[i], nodes1[i])
  <2>1. TAKE i \in 1..Len(nodes1)
  <2>2. /\ nodes1[i] \in OpenNodes(t, l, todo) /\ Begun(t, l, todo, stack1[i], nodes1[i])
        /\ nodes1[i] < n
    BY <1>9, <1>10, <1>13
  <2>3. nodes1[i] \in InPlace(t) /\ t.type[nodes1[i]] \in DeclaredBy(l)
    BY <2>2 DEF OpenNodes
  <2>4. nodes1[i] # n
    BY <1>3, <2>2
  <2> QED
    BY <1>7, <1>8, <2>2, <2>3, <2>4 DEF Begun
<1>15. \A m \in OpenNodes(t, l, rest) : \E i \in 1..Len(nodes1) : nodes1[i] = m
  <2>1. TAKE m \in OpenNodes(t, l, rest)
  <2>2. PICK i \in 1..Len(nodes) : nodes[i] = m
    BY <1>8, <1>10
  <2>3. i # 1
    BY <1>8, <1>9, <2>2
  <2>4. i - 1 \in 1..Len(nodes1) /\ (i - 1) + 1 = i
    BY <1>9, <1>11, <2>2, <2>3
  <2> QED
    BY <1>13, <2>2, <2>4
<1>16. \A i, j \in 1..Len(nodes1) : i < j => nodes1[j] < nodes1[i]
  <2>1. SUFFICES ASSUME NEW i \in 1..Len(nodes1), NEW j \in 1..Len(nodes1), i < j PROVE nodes1[j] < nodes1[i]
    OBVIOUS
  <2>2. i + 1 < j + 1
    BY <2>1
  <2> QED
    BY <1>10, <1>13, <2>2
<1>17. Stacked(t, l, rest, nodes1, stack1)
  BY <1>10, <1>11, <1>12, <1>14, <1>15, <1>16 DEF Stacked
<1>18. Begun(t, l, todo, Head(stack), n)
  BY <1>9, <1>10, <1>12
<1> QED
  BY <1>3, <1>6, <1>7, <1>9, <1>17, <1>18 DEF rest, nodes1, stack1, n, c

\* The listeners that keep a stack.
Keepers == {1, 7, 8, 9}

\* A name that is told is that of the first on the stack, and only then of a declaration.
Naming(stack, c) == stack # << >> /\ Head(stack).name = NONE /\ c.depth = Head(stack).depth + 1

\* Another first.
LEMMA FirstReplaced ==
  ASSUME NEW s, IsSeq(s), s # << >>, NEW d
  PROVE  /\ IsSeq(<<d>> \o Tail(s)) /\ Len(<<d>> \o Tail(s)) = Len(s) /\ (<<d>> \o Tail(s))[1] = d
         /\ \A i \in 2..Len(s) : (<<d>> \o Tail(s))[i] = s[i]
<1> DEFINE q == Tail(s)
           r == <<d>> \o q
<1>1. Len(s) \in Nat /\ IsSeq(q) /\ Len(q) = Len(s) - 1 /\ \A i \in 1..(Len(s) - 1) : q[i] = s[i + 1]
  BY SeqFacts DEF IsSeq
<1> HIDE DEF q
<1>2. IsSeq(r) /\ Len(r) = Len(q) + 1 /\ r[1] = d /\ \A i \in 1..Len(q) : r[i + 1] = q[i]
  BY <1>1, SeqFacts
<1> HIDE DEF r
<1>3. ASSUME NEW i \in 2..Len(s)
      PROVE  r[i] = s[i]
  <2> DEFINE k == i - 1
  <2>1. k \in 1..(Len(s) - 1) /\ k + 1 = i
    BY <1>1, <1>3
  <2> HIDE DEF k
  <2>2. r[k + 1] = q[k] /\ q[k] = s[k + 1]
    BY <1>1, <1>2, <2>1
  <2> QED
    BY <2>1, <2>2
<1> QED
  BY <1>1, <1>2, <1>3 DEF q, r

IsNameOf(t, c, n) == NameOf(t, n) = c

\* One is named.
LEMMA StackNames ==
  ASSUME NEW t \in PhpTrees, NEW l \in Keepers, NEW todo, InOrder(t, l, todo), todo # {},
         NextCall(t, todo).call = NameCall(l),
         \A kind \in DeclaredBy(l) : t.type[NextCall(t, todo).node] = NameKind(kind),
         NEW nodes, NEW stack, Stacked(t, l, todo, nodes, stack)
  PROVE  /\ Naming(stack, NextCall(t, todo)) =>
              /\ nodes[1] \in InPlace(t) /\ t.type[nodes[1]] \in DeclaredBy(l)
              /\ NextCall(t, todo).node \in Names(t, nodes[1]) /\ IsNameOf(t, NextCall(t, todo).node, nodes[1])
              /\ \A d : d.depth = Head(stack).depth /\ d.node = NextCall(t, todo).node
                        /\ d.name = t.text[NextCall(t, todo).node]
                        => Stacked(t, l, todo \ {Min(todo)}, nodes, <<d>> \o Tail(stack))
         /\ ~ Naming(stack, NextCall(t, todo)) => Stacked(t, l, todo \ {Min(todo)}, nodes, stack)
         /\ \A m \in InPlace(t) : t.type[m] \in DeclaredBy(l) =>
              /\ NamePassed(t, l, todo \ {Min(todo)}, m) <=>
                   NamePassed(t, l, todo, m) \/ (Naming(stack, NextCall(t, todo)) /\ m = nodes[1])
              /\ Passed(t, l, todo \ {Min(todo)}, "exit", m) <=> Passed(t, l, todo, "exit", m)
<1> DEFINE c == NextCall(t, todo)
           n == c.node
           rest == todo \ {Min(todo)}
<1> l \in 1..12
  BY DEF Keepers
<1>1. /\ Fits(t, c) /\ InOrder(t, l, rest)
      /\ \A call, m : Passed(t, l, rest, call, m) <=> Passed(t, l, todo, call, m) \/ (call = c.call /\ m = n)
  BY NextFacts DEF c
<1>2. c.call = NameCall(l) /\ c.call \in {"enter", "leaf"} /\ \A kind \in DeclaredBy(l) : t.type[n] = NameKind(kind)
  BY DEF c, NameCall
<1>3. t.type[n] \notin DeclaredBy(l)
  <2>1. PICK kind : kind \in DeclaredBy(l)
    BY DEF DeclaredBy, Parameters, Keepers
  <2> QED
    BY <1>2, <2>1, HeardFacts
<1> HIDE DEF rest
<1>4. n \in InPlace(t) /\ c.depth = Cardinality(Up(t)[n]) /\ IsOpening(c)
  <2>1. n \in InPlace(t) /\ c = CallOf(t, c.call, n, n)
    BY <1>1, <1>2 DEF Fits
  <2>2. CallOf(t, c.call, n, n).depth = Cardinality(Up(t)[n])
    BY DEF CallOf
  <2> QED
    BY <1>2, <2>1, <2>2 DEF IsOpening
<1>5. InPlace(t) \subseteq Nodes(t) /\ Nodes(t) \subseteq Nat
  BY NodeFacts DEF InPlace
<1>6. /\ OpenNodes(t, l, todo) = {m \in Up(t)[n] \ {n} : t.type[m] \in DeclaredBy(l)}
      /\ \A call, m : call \in {"enter", "leaf"} /\ Passed(t, l, todo, call, m) => m < n
      /\ \A call, m : /\ call \in {"enter", "leaf"} /\ m \in InPlace(t) /\ m < n /\ ToldIn(Telling(t), call, m)
                      /\ t.type[m] \in Listeners[l].hears[call]
                      => Passed(t, l, todo, call, m)
  BY <1>4, OpenAround DEF c
<1>7. \A m \in InPlace(t) : t.type[m] \in DeclaredBy(l) =>
        /\ NamePassed(t, l, rest, m) <=> NamePassed(t, l, todo, m) \/ (Names(t, m) # {} /\ NameOf(t, m) = n)
        /\ Passed(t, l, rest, "exit", m) <=> Passed(t, l, todo, "exit", m)
        /\ Passed(t, l, rest, "enter", m) <=> Passed(t, l, todo, "enter", m)
  BY <1>1, <1>2, <1>3 DEF NamePassed
<1>8. OpenNodes(t, l, rest) = OpenNodes(t, l, todo)
  BY <1>7 DEF OpenNodes
<1>9. /\ IsSeq(nodes) /\ IsSeq(stack) /\ Len(stack) = Len(nodes) /\ Len(nodes) \in Nat
      /\ \A i \in 1..Len(nodes) : nodes[i] \in OpenNodes(t, l, todo) /\ Begun(t, l, todo, stack[i], nodes[i])
      /\ \A m \in OpenNodes(t, l, todo) : \E i \in 1..Len(nodes) : nodes[i] = m
      /\ \A i, j \in 1..Len(nodes) : i < j => nodes[j] < nodes[i]
  BY DEF Stacked, IsSeq
<1>10. \A m \in OpenNodes(t, l, todo) : m \in InPlace(t) /\ t.type[m] \in DeclaredBy(l) /\ m \in Up(t)[n] /\ m # n
  BY <1>6 DEF OpenNodes
<1>11. n # ROOT => t.parent[n] \in Nodes(t) /\ Up(t)[n] = Up(t)[t.parent[n]] \cup {n} /\ t.parent[n] \in Up(t)[t.parent[n]]
                   /\ Cardinality(Up(t)[n]) = Cardinality(Up(t)[t.parent[n]]) + 1
                   /\ t.parent[n] # n
                   /\ \A m \in Up(t)[t.parent[n]] : m <= t.parent[n]
  <2>1. ASSUME n # ROOT
        PROVE  t.parent[n] \in Nodes(t) /\ t.parent[n] < n
    BY <1>4, <1>5, <2>1, NodeFacts
  <2>2. ASSUME n # ROOT
        PROVE  Up(t)[n] = Up(t)[t.parent[n]] \cup {n} /\ Cardinality(Up(t)[n]) = Cardinality(Up(t)[t.parent[n]]) + 1
    BY <1>4, <1>5, <2>2, UpFacts, DepthFacts
  <2>3. ASSUME n # ROOT
        PROVE  t.parent[n] \in Up(t)[t.parent[n]] /\ \A m \in Up(t)[t.parent[n]] : m <= t.parent[n]
    BY <2>1, <2>3, UpIsClosed
  <2>4. n # ROOT => t.parent[n] # n
    BY <1>4, <1>5, <2>1
  <2> QED
    BY <2>1, <2>2, <2>3, <2>4
<1>12. n = ROOT => OpenNodes(t, l, todo) = {}
  <2>1. n = ROOT => Up(t)[n] = {n}
    BY <1>4, <1>5, UpFacts
  <2> QED
    BY <1>6, <2>1
<1>13. ASSUME Naming(stack, c)
       PROVE  /\ 1 \in 1..Len(nodes) /\ Len(stack) > 0 /\ Head(stack) = stack[1] /\ nodes[1] \in OpenNodes(t, l, todo)
              /\ n \in Names(t, nodes[1]) /\ NameOf(t, nodes[1]) = n
  <2>1. stack # << >> /\ Head(stack).name = NONE /\ c.depth = Head(stack).depth + 1
    BY <1>13 DEF Naming
  <2>2. Len(stack) > 0 /\ Head(stack) = stack[1]
    BY <1>9, <2>1, SeqFacts
  <2>3. 1 \in 1..Len(nodes) /\ nodes[1] \in OpenNodes(t, l, todo) /\ Begun(t, l, todo, stack[1], nodes[1])
    BY <1>9, <2>2
  <2> DEFINE p == nodes[1]
  <2>4. p \in InPlace(t) /\ t.type[p] \in DeclaredBy(l) /\ p \in Up(t)[n] /\ p # n /\ n # ROOT
    BY <1>10, <1>12, <2>3
  <2>5. Cardinality(Up(t)[n]) = Cardinality(Up(t)[p]) + 1
    BY <1>4, <2>1, <2>2, <2>3 DEF Begun
  <2> HIDE DEF p
  <2>6. t.parent[n] = p
    <3>1. p \in Up(t)[t.parent[n]] /\ t.parent[n] \in Nodes(t)
      BY <1>11, <2>4
    <3>2. Cardinality(Up(t)[t.parent[n]]) \in Nat /\ Cardinality(Up(t)[p]) \in Nat
      <4>1. IsFiniteSet(Nodes(t))
        <5>1. Nodes(t) = 1..Len(t.type) /\ Len(t.type) \in Nat
          BY NodeFacts
        <5> QED
          BY <5>1, FS_Interval
      <4>2. \A x \in Nodes(t) : IsFiniteSet(Up(t)[x])
        BY <4>1, UpIsClosed, FS_Subset
      <4> QED
        BY <1>5, <2>4, <3>1, <4>2, FS_CardinalityType
    <3>3. t.parent[n] # p => Cardinality(Up(t)[p]) < Cardinality(Up(t)[t.parent[n]])
      BY <3>1, DeeperInside
    <3> QED
      BY <1>11, <2>4, <2>5, <3>2, <3>3
  <2>7. n \in Names(t, p)
    <3>1. t.flag[n] = "named"
      BY <1>4, <1>5, InPlaceFacts
    <3> QED
      BY <1>2, <1>4, <1>5, <2>4, <2>6, <3>1 DEF Names, Below
  <2>8. /\ NameOf(t, p) \in InPlace(t) /\ NameOf(t, p) <= n /\ ToldIn(Telling(t), NameCall(l), NameOf(t, p))
        /\ t.type[NameOf(t, p)] \in Listeners[l].hears[NameCall(l)]
    BY <2>4, <2>7, NameFacts
  <2>9. ~ NamePassed(t, l, todo, p)
    <3>1. SUFFICES ASSUME NamePassed(t, l, todo, p) PROVE FALSE
      OBVIOUS
    <3>2. stack[1].name = t.text[NameOf(t, p)] /\ stack[1].name = NONE
      BY <2>1, <2>2, <2>3, <3>1 DEF Begun, p
    <3>3. t.text[NameOf(t, p)] # NONE
      BY <1>5, <2>8, TextsAssumption
    <3> QED
      BY <3>2, <3>3
  <2>10. ~ (NameOf(t, p) < n)
    BY <1>2, <1>6, <2>7, <2>8, <2>9 DEF NamePassed
  <2>11. NameOf(t, p) = n
    BY <1>4, <1>5, <2>8, <2>10
  <2> QED
    BY <2>2, <2>3, <2>7, <2>11 DEF p
<1>14. ASSUME NEW m \in InPlace(t), t.type[m] \in DeclaredBy(l), Names(t, m) # {}, NameOf(t, m) = n
       PROVE  Naming(stack, c) /\ m = nodes[1]
  <2>1. t.parent[n] = m /\ m # n /\ n # ROOT /\ m \in Up(t)[n]
    BY <1>14, <1>5, NameFacts
  <2>2. m \in OpenNodes(t, l, todo)
    BY <1>6, <1>14, <2>1
  <2>3. \A x \in OpenNodes(t, l, todo) : x <= m
    BY <1>10, <1>11, <2>1
  <2>4. stack # << >> /\ nodes[1] = m /\ 1 \in 1..Len(nodes)
    BY <2>2, <2>3, InnermostFirst
  <2>5. Begun(t, l, todo, stack[1], m) /\ Head(stack) = stack[1]
    BY <1>9, <2>4, SeqFacts
  <2>6. ~ NamePassed(t, l, todo, m)
    BY <1>2, <1>4, <1>5, <1>6, <1>14 DEF NamePassed
  <2>7. c.depth = Cardinality(Up(t)[m]) + 1
    BY <1>4, <1>11, <2>1
  <2> QED
    BY <2>4, <2>5, <2>6, <2>7 DEF Begun, Naming
<1>15. \A m \in InPlace(t) : t.type[m] \in DeclaredBy(l) =>
         (NamePassed(t, l, rest, m) <=> NamePassed(t, l, todo, m) \/ (Naming(stack, c) /\ m = nodes[1]))
  BY <1>7, <1>13, <1>14
<1>16. ASSUME ~ Naming(stack, c)
       PROVE  Stacked(t, l, rest, nodes, stack)
  <2>1. \A i \in 1..Len(nodes) : Begun(t, l, rest, stack[i], nodes[i])
    BY <1>9, <1>10, <1>15, <1>16 DEF Begun
  <2> QED
    BY <1>8, <1>9, <2>1 DEF Stacked
<1> HIDE DEF n, c
<1>17. ASSUME Naming(stack, c), NEW d, d.depth = Head(stack).depth, d.node = n, d.name = t.text[n]
       PROVE  Stacked(t, l, rest, nodes, <<d>> \o Tail(stack))
  <2> DEFINE stack1 == <<d>> \o Tail(stack)
  <2>1. Head(stack) = stack[1] /\ stack # << >>
    BY <1>9, <1>17, SeqFacts DEF Naming
  <2>2. IsSeq(stack1) /\ Len(stack1) = Len(stack) /\ stack1[1] = d /\ \A i \in 2..Len(stack) : stack1[i] = stack[i]
    BY <1>9, <2>1, FirstReplaced
  <2> HIDE DEF stack1
  <2>4. Begun(t, l, rest, d, nodes[1])
    <3>1. Begun(t, l, todo, stack[1], nodes[1])
      BY <1>9, <1>13, <1>17
    <3>2. d.depth = Cardinality(Up(t)[nodes[1]])
      BY <1>13, <1>17, <3>1 DEF Begun
    <3>3. NamePassed(t, l, rest, nodes[1])
      BY <1>10, <1>13, <1>15, <1>17
    <3> QED
      BY <1>13, <1>17, <3>2, <3>3 DEF Begun
  <2>5. \A i \in 1..Len(nodes) : Begun(t, l, rest, stack1[i], nodes[i])
    <3>1. TAKE i \in 1..Len(nodes)
    <3>2. CASE i = 1
      BY <2>2, <2>4, <3>2
    <3>3. CASE i # 1
      <4>1. i \in 2..Len(stack) /\ 1 < i /\ 1 \in 1..Len(nodes)
        BY <1>9, <1>13, <1>17, <3>3
      <4>2. stack1[i] = stack[i] /\ nodes[i] < nodes[1]
        BY <1>9, <2>2, <4>1
      <4>3. nodes[i] # nodes[1] /\ nodes[i] \in InPlace(t) /\ t.type[nodes[i]] \in DeclaredBy(l)
        BY <1>5, <1>9, <1>10, <4>1, <4>2
      <4> QED
        BY <1>9, <1>15, <4>2, <4>3 DEF Begun
    <3> QED
      BY <3>2, <3>3
  <2>6. Stacked(t, l, rest, nodes, stack1)
    BY <1>8, <1>9, <2>2, <2>5 DEF Stacked
  <2> QED
    BY <2>6 DEF stack1
<1> QED
  BY <1>7, <1>10, <1>13, <1>15, <1>16, <1>17 DEF rest, n, c, IsNameOf

\* The name of a declaration is the first of its kind below it.
LEMMA FirstIsName ==
  ASSUME NEW t \in PhpTrees, NamesAreFirst(t), NEW l \in Keepers, NEW n \in InPlace(t), t.type[n] \in DeclaredBy(l)
  PROVE  /\ HasName(t, n) <=> Names(t, n) # {}
         /\ Names(t, n) # {} => /\ NameOf(t, n) = InField(t, n, "name") /\ t.parent[NameOf(t, n)] = n
                                /\ NameOf(t, n) \in Nodes(t)
<1>1. t.type[n] \in Declarations
  BY DEF Declarations, DeclaredBy, Parameters, Keepers
<1>2. IF Names(t, n) = {} THEN ~HasName(t, n) ELSE InField(t, n, "name") = Min(Names(t, n))
  BY <1>1 DEF NamesAreFirst
<1>3. ASSUME Names(t, n) # {}
      PROVE  /\ HasName(t, n) /\ NameOf(t, n) = InField(t, n, "name") /\ t.parent[NameOf(t, n)] = n
             /\ NameOf(t, n) \in Nodes(t)
  <2>1. l \in 1..12
    BY DEF Keepers
  <2>2. NameOf(t, n) \in Names(t, n)
    BY <1>3, <2>1, NameFacts
  <2>3. /\ t.parent[NameOf(t, n)] = n /\ t.flag[NameOf(t, n)] = "named" /\ NameOf(t, n) \in Nodes(t)
        /\ t.type[NameOf(t, n)] = NameKind(t.type[n])
    BY <2>2 DEF Names, Below
  <2>4. NameOf(t, n) = InField(t, n, "name")
    BY <1>2, <1>3 DEF NameOf
  <2>5. NameOf(t, n) # NONE
    BY <2>3, NodeFacts, NoneAssumption
  <2>6. NameKind(t.type[n]) \in {"name", "namespace_name", "variable_name"}
    BY DEF NameKind
  <2> QED
    BY <2>3, <2>4, <2>5, <2>6 DEF HasName
<1> QED
  BY <1>2, <1>3

\* A child in a field.
LEMMA FieldFacts ==
  ASSUME NEW t \in PhpTrees, NEW n, NEW field, InField(t, n, field) # NONE
  PROVE  /\ InField(t, n, field) \in Nodes(t) /\ t.parent[InField(t, n, field)] = n
         /\ t.field[InField(t, n, field)] = field
<1> DEFINE S == {c \in Below(t, n) : t.field[c] = field}
<1>1. S \in SUBSET Nat /\ S \subseteq Below(t, n) /\ InField(t, n, field) = FirstOf(S)
  BY NodeFacts DEF Below, InField
<1>2. S # {} /\ FirstOf(S) = Min(S)
  BY <1>1 DEF FirstOf
<1> HIDE DEF S
<1>3. Min(S) \in S
  BY <1>1, <1>2, MinFacts
<1> QED
  BY <1>1, <1>2, <1>3 DEF S, Below

-----------------------------------------------------------------------------
(* What a search by ranges finds.                                          *)

\* A symbol is not taken for nothing.
NoneIsNoSymbol == \A s : "node" \in DOMAIN s => s # NONE

RangeIn(t, n) == Span(n, t.last[n])

\* The range of a node is in that of another if the node is.
LEMMA RangeFacts ==
  ASSUME NEW t \in PhpTrees, NEW n \in Nodes(t), NEW m \in Nodes(t)
  PROVE  /\ IsWithin(RangeIn(t, n), RangeIn(t, m)) <=> m \in Up(t)[n]
         /\ RangeIn(t, n).from = n /\ RangeIn(t, n).to = t.last[n] /\ t.last[n] \in Nodes(t) /\ n <= t.last[n]
         /\ \A k \in Nodes(t) : n \in Up(t)[k] <=> n <= k /\ k <= t.last[n]
<1>1. \A k \in Nodes(t) : /\ t.last[k] \in Nodes(t) /\ k \in Up(t)[t.last[k]]
                          /\ \A j \in Nodes(t) : k \in Up(t)[j] => j <= t.last[k]
  BY TextsAssumption
<1>2. \A k \in Nodes(t) : RangeIn(t, k).from = k /\ RangeIn(t, k).to = t.last[k]
  BY DEF RangeIn, Span
<1>3. ASSUME NEW k \in Nodes(t), NEW j \in Nodes(t) PROVE k \in Up(t)[j] <=> k <= j /\ j <= t.last[k]
  <2>1. k \in Up(t)[j] => k <= j /\ j <= t.last[k]
    BY <1>1, UpIsClosed
  <2>2. k <= j /\ j <= t.last[k] => k \in Up(t)[j]
    BY <1>1, UpIsInterval
  <2> QED
    BY <2>1, <2>2
<1>4. Nodes(t) \subseteq Nat
  BY NodeFacts
<1>5. \A k \in Nodes(t) : k <= t.last[k]
  BY <1>1, UpIsClosed
<1>6. IsWithin(RangeIn(t, n), RangeIn(t, m)) <=> m <= n /\ t.last[n] <= t.last[m]
  BY <1>2 DEF IsWithin
<1>7. m <= n /\ t.last[n] <= t.last[m] => m \in Up(t)[n]
  <2> SUFFICES ASSUME m <= n, t.last[n] <= t.last[m] PROVE m \in Up(t)[n]
    OBVIOUS
  <2>1. n <= t.last[n] /\ t.last[n] \in Nat /\ t.last[m] \in Nat /\ n \in Nat
    BY <1>1, <1>4, <1>5
  <2>2. n <= t.last[m]
    BY <2>1
  <2> QED
    BY <1>3, <2>2
<1>8. m \in Up(t)[n] => m <= n /\ t.last[n] <= t.last[m]
  <2> SUFFICES ASSUME m \in Up(t)[n] PROVE m <= n /\ t.last[n] <= t.last[m]
    OBVIOUS
  <2>1. n \in Up(t)[t.last[n]] /\ t.last[n] \in Nodes(t)
    BY <1>1
  <2>2. m \in Up(t)[t.last[n]]
    BY <2>1, UpIsClosed
  <2> QED
    BY <1>3, <2>1, <2>2
<1>9. \A k \in Nodes(t) : n \in Up(t)[k] <=> n <= k /\ k <= t.last[n]
  BY <1>3
<1> QED
  BY <1>1, <1>2, <1>5, <1>6, <1>7, <1>8, <1>9

\* The scopes of the symbols that have the range in theirs are in each other.
Nested(range, U) ==
    /\ \A s \in U : "node" \in DOMAIN s /\ s.scope.from \in Nat
    /\ \A r, s \in U : IsWithin(range, r.scope) /\ IsWithin(range, s.scope) =>
         (IsWithin(r.scope, s.scope) <=> s.scope.from <= r.scope.from)

\* It has the range in its scope, and none of the list that has begins behind it.
Nearest(r, range, list, found) ==
    /\ r = found \/ \E i \in 1..Len(list) : r = list[i]
    /\ r # NONE => IsWithin(range, r.scope)
    /\ found # NONE => r # NONE /\ found.scope.from <= r.scope.from
    /\ \A i \in 1..Len(list) : IsWithin(range, list[i].scope) => r # NONE /\ list[i].scope.from <= r.scope.from

\* The search finds it.
LEMMA InnermostFacts ==
  ASSUME NoneIsNoSymbol, NEW range, NEW list, IsSeq(list), NEW found, NEW U, Nested(range, U),
         \A i \in 1..Len(list) : list[i] \in U, found # NONE => found \in U /\ IsWithin(range, found.scope)
  PROVE  Nearest(Innermost(range, list, found), range, list, found)
<1> DEFINE V == U \cup {NONE}
           N == Len(list)
           pick(i, x) == IF IsWithin(range, list[i].scope) /\ (x = NONE \/ IsWithin(list[i].scope, x.scope)) THEN list[i] ELSE x
           next == [i \in 1..N |-> [x \in V |-> pick(i, x)]]
           pred == [i \in 1..N |-> i - 1]
<1>1. N \in Nat /\ found \in V
  BY DEF IsSeq
<1>2. \A i \in 1..N : \A x \in V : pick(i, x) \in V
  OBVIOUS
<1>3. IsRecursion(N, V, found, pred, next)
  <2>1. next \in [1..N -> [V -> V]]
    BY <1>2
  <2>2. pred \in [1..N -> 0..N] /\ \A i \in 1..N : pred[i] < i
    BY <1>1
  <2> HIDE DEF V, next, pred, N
  <2> QED
    BY <1>1, <2>1, <2>2 DEF IsRecursion
<1>4. PICK f \in [0..N -> V] : Solves(f, N, found, pred, next)
  <2> HIDE DEF V, next, pred, N
  <2> QED
    BY <1>1, <1>3, RecursionExists
<1>5. f[0] = found /\ \A i \in 1..N : f[i - 1] \in V /\ f[i] = pick(i, f[i - 1])
  <2>1. f[0] = found /\ \A i \in 1..N : f[i] = next[i][f[pred[i]]]
    BY <1>4 DEF Solves
  <2>2. \A i \in 1..N : i - 1 \in 0..N /\ f[i - 1] \in V
    <3> HIDE DEF V, pick, next, pred, N
    <3> QED
      BY <1>1, <1>4
  <2> QED
    BY <2>1, <2>2
<1> DEFINE Is(g) == g = [i \in 0..Len(list) |->
                           IF i = 0 THEN found
                           ELSE IF IsWithin(range, list[i].scope) /\ (g[i - 1] = NONE \/ IsWithin(list[i].scope, g[i - 1].scope))
                                THEN list[i] ELSE g[i - 1]]
           in == CHOOSE g : Is(g)
<1>6. Is(f)
  <2>1. f = [i \in 0..N |-> f[i]]
    BY <1>4
  <2>2. \A i \in 0..N : i # 0 => i \in 1..N
    BY <1>1
  <2>3. \A i \in 0..N : f[i] = IF i = 0 THEN found ELSE pick(i, f[i - 1])
    BY <1>5, <2>2
  <2> QED
    BY <2>1, <2>3
<1>7. Is(in)
  <2> HIDE DEF Is
  <2> QED
    BY <1>6
<1>8. Innermost(range, list, found) = in[N]
  BY DEF Innermost
<1>9. in[0] = found /\ \A i \in 1..N : in[i] = pick(i, in[i - 1])
  <2>1. 0 \in 0..N /\ \A i \in 1..N : i \in 0..N /\ i # 0
    BY <1>1
  <2> HIDE DEF in
  <2> QED
    BY <1>7, <2>1
<1> HIDE DEF in, Is
<1> DEFINE before(i) == {list[j] : j \in 1..i}
           good(i) == /\ in[i] = found \/ \E j \in 1..i : in[i] = list[j]
                      /\ in[i] # NONE => IsWithin(range, in[i].scope)
                      /\ found # NONE => in[i] # NONE /\ found.scope.from <= in[i].scope.from
                      /\ \A j \in 1..i : IsWithin(range, list[j].scope) => in[i] # NONE /\ list[j].scope.from <= in[i].scope.from
           bad == {i \in 0..N : ~ good(i)}
<1>10. ASSUME bad # {} PROVE FALSE
  <2>1. PICK k \in bad : \A l \in bad : k <= l
    <3>1. bad \in SUBSET Nat
      BY <1>1
    <3> HIDE DEF bad
    <3> QED
      BY <1>10, <3>1, LeastNumberExists
  <2>2. k \in 0..N /\ ~ good(k)
    BY <2>1
  <2>3. CASE k = 0
    <3>1. in[0] = found /\ 1..0 = {}
      BY <1>9
    <3>2. found # NONE => found.scope.from \in Nat
      BY DEF Nested
    <3>3. good(0)
      BY <3>1, <3>2
    <3> QED
      BY <2>2, <2>3, <3>3
  <2>4. CASE k # 0
    <3> DEFINE x == in[k - 1]
               e == list[k]
    <3>1. k \in 1..N /\ k - 1 \in 0..N /\ k \in Nat /\ k - 1 \in Nat
      BY <1>1, <2>2, <2>4
    <3>2. k - 1 \notin bad
      <4>1. ~ (k <= k - 1)
        BY <3>1
      <4> HIDE DEF bad
      <4> QED
        BY <2>1, <4>1
    <3>3. good(k - 1)
      <4> HIDE DEF good
      <4> QED
        BY <3>1, <3>2
    <3>4. \A j \in 1..k : j \in 1..(k - 1) \/ j = k
      BY <3>1
    <3>5. \A j \in 1..(k - 1) : j \in 1..k /\ j \in 1..N
      BY <1>1, <3>1
    <3>6. /\ x = found \/ \E j \in 1..(k - 1) : x = list[j]
          /\ x # NONE => IsWithin(range, x.scope)
          /\ found # NONE => x # NONE /\ found.scope.from <= x.scope.from
          /\ \A j \in 1..(k - 1) : IsWithin(range, list[j].scope) => x # NONE /\ list[j].scope.from <= x.scope.from
      BY <3>3
    <3>7. in[k] = IF IsWithin(range, e.scope) /\ (x = NONE \/ IsWithin(e.scope, x.scope)) THEN e ELSE x
      BY <1>9, <3>1
    <3>8. e \in U /\ e # NONE /\ e.scope.from \in Nat
      BY <3>1 DEF Nested, NoneIsNoSymbol
    <3>9. x # NONE => x \in U /\ x.scope.from \in Nat
      BY <3>5, <3>6 DEF Nested
    <3>10. x # NONE /\ IsWithin(range, e.scope) => (IsWithin(e.scope, x.scope) <=> x.scope.from <= e.scope.from)
      BY <3>6, <3>8, <3>9 DEF Nested
    <3>11. /\ \A j \in 1..(k - 1) : list[j].scope.from \in Nat
           /\ found # NONE => found.scope.from \in Nat
      BY <3>5 DEF Nested
    <3> DEFINE y == in[k]
    <3>12. y = found \/ \E j \in 1..k : y = list[j]
      BY <3>1, <3>5, <3>6, <3>7
    <3>13. y # NONE => IsWithin(range, y.scope)
      BY <3>6, <3>7
    <3>14. x # NONE => y # NONE /\ x.scope.from <= y.scope.from
      BY <3>7, <3>8, <3>9, <3>10
    <3>15. IsWithin(range, e.scope) => y # NONE /\ e.scope.from <= y.scope.from
      BY <3>7, <3>8, <3>9, <3>10
    <3>16. y # NONE => y.scope.from \in Nat
      BY <3>7, <3>8, <3>9
    <3> HIDE DEF x, y
    <3>17. found # NONE => y # NONE /\ found.scope.from <= y.scope.from
      BY <3>6, <3>9, <3>11, <3>14, <3>16
    <3>18. \A j \in 1..(k - 1) : IsWithin(range, list[j].scope) => y # NONE /\ list[j].scope.from <= y.scope.from
      BY <3>6, <3>9, <3>11, <3>14, <3>16
    <3>19. \A j \in 1..k : IsWithin(range, list[j].scope) => y # NONE /\ list[j].scope.from <= y.scope.from
      BY <3>4, <3>15, <3>18
    <3>20. good(k)
      BY <3>12, <3>13, <3>17, <3>19 DEF y
    <3> QED
      BY <2>2, <3>20
  <2> QED
    BY <2>3, <2>4
<1>11. good(N)
  <2>1. N \in 0..N
    BY <1>1
  <2> HIDE DEF good, N
  <2> QED
    BY <1>10, <2>1
<1> QED
  BY <1>8, <1>11 DEF Nearest

-----------------------------------------------------------------------------
(* Owners.                                                                 *)

DeclaredIn(t, types) == {d \in InPlace(t) : t.type[d] \in types /\ HasName(t, d)}
Enclosing(t, n, types) == {m \in Up(t)[n] : t.type[m] \in types /\ HasName(t, m)}
AroundIn(t, n, types) ==
    IF Enclosing(t, n, types) = {} THEN NONE ELSE InField(t, Max(Enclosing(t, n, types)), "name")

\* The symbol of a declaration, as far as it matters for what is in it.
Describes(t, s, d) == "node" \in DOMAIN s /\ s.node = InField(t, d, "name") /\ s.scope = RangeIn(t, d)

\* A list has all declarations of the types that have a name, and no more.
ListsAll(t, list, types) ==
    /\ IsSeq(list)
    /\ \A i \in 1..Len(list) : \E d \in DeclaredIn(t, types) : Describes(t, list[i], d)
    /\ \A d \in DeclaredIn(t, types) : \E i \in 1..Len(list) : Describes(t, list[i], d)

\* The symbol of the innermost of them around a node.
Finds(t, r, n, types) ==
    IF Enclosing(t, n, types) = {} THEN r = NONE
    ELSE \E m \in Enclosing(t, n, types) : Describes(t, r, m) /\ \A k \in Enclosing(t, n, types) : k <= m

\* What is around a node in place is in place.
LEMMA EnclosingFacts ==
  ASSUME NEW t \in PhpTrees, NEW n \in InPlace(t), NEW types
  PROVE  /\ Enclosing(t, n, types) \subseteq DeclaredIn(t, types) \cap Up(t)[n]
         /\ DeclaredIn(t, types) \cap Up(t)[n] \subseteq Enclosing(t, n, types)
         /\ n \in Nodes(t) /\ InPlace(t) \subseteq Nodes(t) /\ Nodes(t) \subseteq Nat
<1>1. n \in Nodes(t) /\ InPlace(t) \subseteq Nodes(t) /\ Nodes(t) \subseteq Nat
  BY NodeFacts DEF InPlace
<1>2. Up(t)[n] \subseteq InPlace(t)
  BY <1>1, InPlaceFacts
<1> QED
  BY <1>1, <1>2 DEF Enclosing, DeclaredIn

\* A search through the list of other types goes on from what has been found.
LEMMA FindsMore ==
  ASSUME NoneIsNoSymbol, NEW t \in PhpTrees, NEW n \in InPlace(t), NEW types, NEW more, NEW list, ListsAll(t, list, more),
         NEW found, Finds(t, found, n, types)
  PROVE  Finds(t, Innermost(RangeIn(t, n), list, found), n, types \cup more)
<1> DEFINE range == RangeIn(t, n)
           U == {list[i] : i \in 1..Len(list)} \cup {s \in {found} : s # NONE}
           r == Innermost(range, list, found)
           all == Enclosing(t, n, types \cup more)
<1>1. /\ n \in Nodes(t) /\ InPlace(t) \subseteq Nodes(t) /\ Nodes(t) \subseteq Nat
      /\ Enclosing(t, n, types) \subseteq Nodes(t) /\ Enclosing(t, n, types) \subseteq Up(t)[n]
  BY EnclosingFacts DEF DeclaredIn
<1>2. /\ IsSeq(list)
      /\ \A i \in 1..Len(list) : \E d \in DeclaredIn(t, more) : Describes(t, list[i], d)
      /\ \A d \in DeclaredIn(t, more) : \E i \in 1..Len(list) : Describes(t, list[i], d)
  BY DEF ListsAll
<1>3. found # NONE =>
        \E m \in Enclosing(t, n, types) : Describes(t, found, m) /\ \A k \in Enclosing(t, n, types) : k <= m
  BY DEF Finds
<1>4. \A s \in U : \E d \in Nodes(t) : Describes(t, s, d)
  <2>1. \A i \in 1..Len(list) : \E d \in Nodes(t) : Describes(t, list[i], d)
    BY <1>1, <1>2 DEF DeclaredIn
  <2>2. found # NONE => \E d \in Nodes(t) : Describes(t, found, d)
    BY <1>1, <1>3
  <2> QED
    BY <2>1, <2>2
<1>5. ASSUME NEW s, NEW d \in Nodes(t), Describes(t, s, d)
      PROVE  "node" \in DOMAIN s /\ s.scope = RangeIn(t, d) /\ s.scope.from = d /\ (IsWithin(range, s.scope) <=> d \in Up(t)[n])
  <2>1. "node" \in DOMAIN s /\ s.scope = RangeIn(t, d)
    BY <1>5 DEF Describes
  <2>2. RangeIn(t, d).from = d /\ (IsWithin(range, RangeIn(t, d)) <=> d \in Up(t)[n])
    BY <1>1, RangeFacts
  <2> QED
    BY <2>1, <2>2
<1>6. Nested(range, U)
  <2>1. ASSUME NEW s \in U PROVE "node" \in DOMAIN s /\ s.scope.from \in Nat
    <3>1. PICK d \in Nodes(t) : Describes(t, s, d)
      BY <1>4
    <3> QED
      BY <1>1, <1>5, <3>1
  <2>2. ASSUME NEW s \in U, NEW s2 \in U, IsWithin(range, s.scope), IsWithin(range, s2.scope)
        PROVE  IsWithin(s.scope, s2.scope) <=> s2.scope.from <= s.scope.from
    <3>1. PICK d \in Nodes(t) : Describes(t, s, d)
      BY <1>4
    <3>2. PICK e \in Nodes(t) : Describes(t, s2, e)
      BY <1>4
    <3>3. s.scope = RangeIn(t, d) /\ s.scope.from = d /\ d \in Up(t)[n]
      BY <1>5, <2>2, <3>1
    <3>4. s2.scope = RangeIn(t, e) /\ s2.scope.from = e /\ e \in Up(t)[n]
      BY <1>5, <2>2, <3>2
    <3>5. IsWithin(RangeIn(t, d), RangeIn(t, e)) <=> e \in Up(t)[d]
      BY RangeFacts
    <3>6. e \in Up(t)[d] <=> e <= d
      <4>1. d <= n
        BY <1>1, <3>3, UpIsClosed
      <4>2. e <= d => e \in Up(t)[d]
        BY <1>1, <3>4, <4>1, UpIsInterval
      <4>3. e \in Up(t)[d] => e <= d
        BY UpIsClosed
      <4> QED
        BY <4>2, <4>3
    <3> QED
      BY <3>3, <3>4, <3>5, <3>6
  <2> HIDE DEF U, range
  <2> QED
    BY <2>1, <2>2 DEF Nested
<1>7. found # NONE => found \in U /\ IsWithin(range, found.scope)
  BY <1>1, <1>3, <1>5
<1>8. Nearest(r, range, list, found)
  <2>1. \A i \in 1..Len(list) : list[i] \in U
    OBVIOUS
  <2> HIDE DEF U, range
  <2> QED
    BY <1>2, <1>6, <1>7, <2>1, InnermostFacts
<1> HIDE DEF r
<1>9. /\ r = found \/ \E i \in 1..Len(list) : r = list[i]
      /\ r # NONE => IsWithin(range, r.scope)
      /\ found # NONE => r # NONE /\ found.scope.from <= r.scope.from
      /\ \A i \in 1..Len(list) : IsWithin(range, list[i].scope) => r # NONE /\ list[i].scope.from <= r.scope.from
  BY <1>8 DEF Nearest
<1> HIDE DEF range, U
<1>10. ASSUME NEW k \in Enclosing(t, n, more) PROVE r # NONE /\ k <= r.scope.from
  <2>1. k \in DeclaredIn(t, more) /\ k \in Up(t)[n] /\ k \in Nodes(t)
    BY <1>1, EnclosingFacts DEF DeclaredIn
  <2>2. PICK i \in 1..Len(list) : Describes(t, list[i], k)
    BY <1>2, <2>1
  <2>3. IsWithin(range, list[i].scope) /\ list[i].scope.from = k
    BY <1>5, <2>1, <2>2
  <2> QED
    BY <1>9, <2>3
<1>11. ASSUME NEW k \in Enclosing(t, n, types), r # NONE \/ found # NONE \/ TRUE PROVE r # NONE /\ k <= r.scope.from
  <2>1. PICK m \in Enclosing(t, n, types) : Describes(t, found, m) /\ \A j \in Enclosing(t, n, types) : j <= m
    BY DEF Finds
  <2>2. "node" \in DOMAIN found /\ found.scope.from = m /\ m \in Nat /\ k \in Nat
    BY <1>1, <1>5, <2>1
  <2>3. found # NONE
    BY <2>2 DEF NoneIsNoSymbol
  <2>4. r # NONE /\ m <= r.scope.from /\ k <= m
    BY <1>9, <2>1, <2>2, <2>3
  <2>5. r.scope.from \in Nat
    <3>1. r \in U
      BY <1>7, <1>9, <2>4 DEF U
    <3> QED
      BY <1>6, <3>1 DEF Nested
  <2> QED
    BY <2>2, <2>4, <2>5
<1>12. \A k : k \in all <=> k \in Enclosing(t, n, types) \/ k \in Enclosing(t, n, more)
  BY DEF Enclosing
<1>13. r = NONE => all = {}
  BY <1>10, <1>11, <1>12
<1>14. ASSUME r # NONE PROVE \E m \in all : Describes(t, r, m) /\ \A k \in all : k <= m
  <2>1. PICK m \in Nodes(t) : Describes(t, r, m) /\ (m \in DeclaredIn(t, more) \/ m \in Enclosing(t, n, types))
    <3>1. CASE r = found
      BY <1>1, <1>3, <1>14, <3>1
    <3>2. ASSUME NEW i \in 1..Len(list), r = list[i] PROVE \E m \in Nodes(t) : Describes(t, r, m) /\ m \in DeclaredIn(t, more)
      BY <1>1, <1>2, <3>2 DEF DeclaredIn
    <3> QED
      BY <1>9, <3>1, <3>2
  <2>2. r.scope.from = m /\ m \in Up(t)[n]
    BY <1>5, <1>9, <1>14, <2>1
  <2>3. m \in all
    BY <1>12, <2>1, <2>2, EnclosingFacts
  <2>4. \A k \in all : k <= m
    BY <1>10, <1>11, <1>12, <2>2
  <2> QED
    BY <2>1, <2>3, <2>4
<1>15. Finds(t, r, n, types \cup more)
  <2>1. r # NONE => all # {}
    BY <1>14
  <2> QED
    BY <1>13, <1>14, <2>1 DEF Finds
<1> QED
  BY <1>15 DEF r, range

\* What has been found is the innermost.
LEMMA FoundIsAround ==
  ASSUME NoneIsNoSymbol, NEW t \in PhpTrees, NEW n \in InPlace(t), NEW types, NEW r, Finds(t, r, n, types)
  PROVE  Id(r) = AroundIn(t, n, types)
<1>1. CASE Enclosing(t, n, types) = {}
  BY <1>1 DEF Finds, Id, AroundIn
<1>2. CASE Enclosing(t, n, types) # {}
  <2>1. PICK m \in Enclosing(t, n, types) : Describes(t, r, m) /\ \A k \in Enclosing(t, n, types) : k <= m
    BY <1>2 DEF Finds
  <2>2. Enclosing(t, n, types) \subseteq Nat
    BY EnclosingFacts DEF DeclaredIn
  <2>3. Max(Enclosing(t, n, types)) = m
    <3>1. \A x \in Enclosing(t, n, types) : (\A y \in Enclosing(t, n, types) : x >= y) => x = m
      BY <2>1, <2>2
    <3>2. \A y \in Enclosing(t, n, types) : m >= y
      BY <2>1, <2>2
    <3> QED
      BY <3>1, <3>2 DEF Max
  <2>4. r # NONE /\ r.node = InField(t, m, "name")
    BY <2>1 DEF Describes, NoneIsNoSymbol
  <2> QED
    BY <1>2, <2>3, <2>4 DEF Id, AroundIn
<1> QED
  BY <1>1, <1>2

\* At first nothing.
LEMMA FindsNothing ==
  ASSUME NEW t, NEW n
  PROVE  Finds(t, NONE, n, {})
BY DEF Finds, Enclosing

\* What is around a child is what is around its parent, unless it is such a declaration itself.
LEMMA AroundBelow ==
  ASSUME NEW t \in PhpTrees, NEW n \in Nodes(t) \ {ROOT}, NEW types, t.type[n] \notin types
  PROVE  AroundIn(t, n, types) = AroundIn(t, t.parent[n], types)
<1>1. Up(t)[n] = Up(t)[t.parent[n]] \cup {n}
  BY UpFacts
<1>2. Enclosing(t, n, types) = Enclosing(t, t.parent[n], types)
  BY <1>1 DEF Enclosing
<1> QED
  BY <1>2 DEF AroundIn

\* The operator of the model is this one at the tree.
LEMMA AroundHere ==
  ASSUME NEW n, NEW types
  PROVE  Around(n, types) = AroundIn(tree, n, types)
BY DEF Around, AroundIn, Enclosing, ChildInField

-----------------------------------------------------------------------------
(* What a listener keeps of a declaration.                                 *)

\* What the theorem about owners asks of the trees.
Regular ==
    /\ NoneIsNoSymbol
    /\ \A t \in PhpTrees : NamesAreFirst(t) /\ ClassesAreNamed(t) /\ NamespacesDoNotMix(t)

\* What it has of it when it is opened, of which about says one thing, and the owner.
Shaped(k, s, about) ==
    /\ s = IF k = 1 THEN [kind |-> "namespace", node |-> s.node, name |-> s.name, depth |-> s.depth, scope |-> about.of]
           ELSE IF k = 9 THEN [kind |-> "parameter", node |-> s.node, name |-> s.name, depth |-> s.depth,
                               owner |-> s.owner, type |-> about.of]
           ELSE [kind |-> IF k = 7 THEN "method" ELSE "function", node |-> s.node, name |-> s.name, owner |-> s.owner,
                 depth |-> s.depth, scope |-> about.of, declared |-> s.declared, type |-> s.type]
    /\ Regular /\ k \in {7, 9} => s.owner = about.owner

Renamed(s, node, name) == [s EXCEPT !.node = node, !.name = name]

\* The name of one may be set.
LEMMA ShapedFacts ==
  ASSUME NEW k \in Keepers, NEW s, NEW about, Shaped(k, s, about), NEW node, NEW name
  PROVE  /\ Shaped(k, Renamed(s, node, name), about)
         /\ Renamed(s, node, name).node = node /\ Renamed(s, node, name).name = name
         /\ Renamed(s, node, name).depth = s.depth
<1> DEFINE d == Renamed(s, node, name)
           r == [s EXCEPT !.node = node]
<1>0. d = [r EXCEPT !.name = name]
  BY Zenon DEF Renamed
<1> HIDE DEF d
<1>1. CASE k = 1
  <2>1. s = [kind |-> "namespace", node |-> s.node, name |-> s.name, depth |-> s.depth, scope |-> about.of]
    BY <1>1 DEF Shaped
  <2>4. r = [kind |-> "namespace", node |-> node, name |-> s.name, depth |-> s.depth, scope |-> about.of]
    BY <2>1
  <2> HIDE DEF r
  <2>2. d = [kind |-> "namespace", node |-> node, name |-> name, depth |-> s.depth, scope |-> about.of]
    BY <1>0, <2>4
  <2>3. d.node = node /\ d.name = name /\ d.depth = s.depth /\ 1 \notin {7, 9}
    BY <2>2
  <2> QED
    BY <1>1, <2>2, <2>3 DEF Shaped, d
<1>2. CASE k = 9
  <2>1. s = [kind |-> "parameter", node |-> s.node, name |-> s.name, depth |-> s.depth, owner |-> s.owner, type |-> about.of]
    BY <1>2 DEF Shaped
  <2>4. r = [kind |-> "parameter", node |-> node, name |-> s.name, depth |-> s.depth, owner |-> s.owner, type |-> about.of]
    BY <2>1
  <2> HIDE DEF r
  <2>2. d = [kind |-> "parameter", node |-> node, name |-> name, depth |-> s.depth, owner |-> s.owner, type |-> about.of]
    BY <1>0, <2>4
  <2>3. d.node = node /\ d.name = name /\ d.depth = s.depth /\ d.owner = s.owner
    BY <2>2
  <2>5. Regular /\ k \in {7, 9} => s.owner = about.owner
    BY DEF Shaped
  <2> QED
    BY <1>2, <2>2, <2>3, <2>5 DEF Shaped, d
<1>3. CASE k \in {7, 8}
  <2> DEFINE kind == IF k = 7 THEN "method" ELSE "function"
  <2>1. s = [kind |-> kind, node |-> s.node, name |-> s.name, owner |-> s.owner, depth |-> s.depth, scope |-> about.of,
             declared |-> s.declared, type |-> s.type]
    BY <1>3 DEF Shaped
  <2> HIDE DEF kind
  <2>6. r = [kind |-> kind, node |-> node, name |-> s.name, owner |-> s.owner, depth |-> s.depth, scope |-> about.of,
             declared |-> s.declared, type |-> s.type]
    BY <2>1
  <2> HIDE DEF r
  <2>2. d = [kind |-> kind, node |-> node, name |-> name, owner |-> s.owner, depth |-> s.depth, scope |-> about.of,
             declared |-> s.declared, type |-> s.type]
    BY <1>0, <2>6
  <2>4. /\ d.node = node /\ d.name = name /\ d.depth = s.depth /\ d.owner = s.owner
        /\ d.declared = s.declared /\ d.type = s.type
    BY <2>2
  <2>5. Regular /\ k \in {7, 9} => s.owner = about.owner
    BY DEF Shaped
  <2> QED
    BY <1>3, <2>2, <2>4, <2>5 DEF Shaped, kind, d
<1> QED
  BY <1>1, <1>2, <1>3 DEF Keepers, d

\* And the type of a method or a function.
LEMMA ShapedOfType ==
  ASSUME NEW k \in {7, 8}, NEW s, NEW about, Shaped(k, s, about), NEW type, NEW e, e = [s EXCEPT !.type = type]
  PROVE  Shaped(k, e, about) /\ e.node = s.node /\ e.name = s.name
<1> DEFINE kind == IF k = 7 THEN "method" ELSE "function"
<1>1. s = [kind |-> kind, node |-> s.node, name |-> s.name, owner |-> s.owner, depth |-> s.depth, scope |-> about.of,
           declared |-> s.declared, type |-> s.type]
  BY DEF Shaped
<1> HIDE DEF kind
<1>2. e = [kind |-> kind, node |-> s.node, name |-> s.name, owner |-> s.owner, depth |-> s.depth, scope |-> about.of,
           declared |-> s.declared, type |-> type]
  BY <1>1
<1>3. /\ e.node = s.node /\ e.name = s.name /\ e.depth = s.depth /\ e.owner = s.owner
      /\ e.declared = s.declared /\ e.type = type
  BY <1>2
<1>4. k # 1 /\ k # 9
  OBVIOUS
<1>5. Regular /\ k \in {7, 9} => s.owner = about.owner
  BY DEF Shaped
<1> QED
  BY <1>2, <1>3, <1>4, <1>5 DEF Shaped, kind

\* The stack, with what it has of each.
Standing(t, l, todo, nodes, stack, about) ==
    /\ Stacked(t, l, todo, nodes, stack)
    /\ \A i \in 1..Len(nodes) : Shaped(l, stack[i], about[nodes[i]])

\* What is in the list of a listener, and what has to be.
IsNamed(t, k, n) == n \in InPlace(t) /\ t.type[n] \in DeclaredBy(k) /\ Names(t, n) # {}
EntryOf(t, k, s, n, about) ==
    IsNamed(t, k, n) /\ s.node = NameOf(t, n) /\ s.name = t.text[NameOf(t, n)] /\ Shaped(k, s, about[n])
Added(t, l, todo, k, n) ==
    \/ k < l
    \/ k = l /\ IF k = 9 THEN Passed(t, l, todo, "exit", n) ELSE NamePassed(t, l, todo, n)

Listed(t, l, todo, k, list, about) ==
    /\ IsSeq(list) /\ (l < k => list = << >>)
    /\ \A i \in 1..Len(list) : \E n \in Nodes(t) : EntryOf(t, k, list[i], n, about)
    /\ \A n \in Nodes(t) : IsNamed(t, k, n) /\ Added(t, l, todo, k, n) =>
         \E i \in 1..Len(list) : list[i].node = NameOf(t, n)

\* One more in the list.
LEMMA ListedMore ==
  ASSUME NEW t, NEW l \in 1..12, NEW todo, NEW rest, NEW k \in Keepers, NEW list, NEW about,
         Listed(t, l, todo, k, list, about), ~ (l < k), NEW n \in Nodes(t), NEW s, EntryOf(t, k, s, n, about),
         \A m \in Nodes(t) : IsNamed(t, k, m) /\ Added(t, l, rest, k, m) => Added(t, l, todo, k, m) \/ m = n
  PROVE  Listed(t, l, rest, k, Append(list, s), about)
<1> DEFINE more == Append(list, s)
<1>1. /\ IsSeq(list) /\ \A i \in 1..Len(list) : \E m \in Nodes(t) : EntryOf(t, k, list[i], m, about)
      /\ \A m \in Nodes(t) : IsNamed(t, k, m) /\ Added(t, l, todo, k, m) =>
           \E i \in 1..Len(list) : list[i].node = NameOf(t, m)
  BY DEF Listed
<1>2. /\ IsSeq(more) /\ Len(more) = Len(list) + 1 /\ more[Len(list) + 1] = s
      /\ \A i \in 1..Len(list) : more[i] = list[i]
  <2>1. IsSeq(list)
    BY <1>1
  <2> QED
    BY <2>1, AppendFacts
<1>3. Len(list) \in Nat
  BY <1>1 DEF IsSeq
<1> HIDE DEF more
<1>4. \A i \in 1..Len(more) : \E m \in Nodes(t) : EntryOf(t, k, more[i], m, about)
  <2>1. TAKE i \in 1..Len(more)
  <2>2. i \in 1..Len(list) \/ i = Len(list) + 1
    BY <1>2, <1>3
  <2> QED
    BY <1>1, <1>2, <2>2
<1>5. \A m \in Nodes(t) : IsNamed(t, k, m) /\ Added(t, l, rest, k, m) => \E i \in 1..Len(more) : more[i].node = NameOf(t, m)
  <2>1. SUFFICES ASSUME NEW m \in Nodes(t), IsNamed(t, k, m), Added(t, l, rest, k, m)
                 PROVE  \E i \in 1..Len(more) : more[i].node = NameOf(t, m)
    OBVIOUS
  <2>2. CASE m = n
    <3>1. Len(list) + 1 \in 1..Len(more) /\ more[Len(list) + 1].node = NameOf(t, m)
      BY <1>2, <1>3, <2>2 DEF EntryOf
    <3> QED
      BY <3>1
  <2>3. CASE m # n
    <3>1. PICK i \in 1..Len(list) : list[i].node = NameOf(t, m)
      BY <1>1, <2>1, <2>3
    <3>2. i \in 1..Len(more) /\ more[i] = list[i]
      BY <1>2, <1>3
    <3> QED
      BY <3>1, <3>2
  <2> QED
    BY <2>2, <2>3
<1> QED
  BY <1>2, <1>4, <1>5 DEF Listed, more

\* None more.
LEMMA ListedStays ==
  ASSUME NEW t, NEW l \in 1..12, NEW todo, NEW rest, NEW k \in Keepers, NEW list, NEW about,
         Listed(t, l, todo, k, list, about),
         \A m \in Nodes(t) : IsNamed(t, k, m) /\ Added(t, l, rest, k, m) => Added(t, l, todo, k, m)
  PROVE  Listed(t, l, rest, k, list, about)
BY DEF Listed

\* The list of another listener.
LEMMA ListedElsewhere ==
  ASSUME NEW t, NEW l \in 1..12, NEW todo, NEW rest, NEW k \in Keepers, NEW list, NEW about,
         Listed(t, l, todo, k, list, about), k # l
  PROVE  Listed(t, l, rest, k, list, about)
BY ListedStays DEF Added

-----------------------------------------------------------------------------
(* The steps of the stack, with what it has of each.                       *)

\* One is opened.
LEMMA StandingOpens ==
  ASSUME NEW t \in PhpTrees, NEW l \in Keepers, NEW todo, InOrder(t, l, todo), todo # {},
         NextCall(t, todo).call = "enter", t.type[NextCall(t, todo).node] \in DeclaredBy(l),
         NEW nodes, NEW stack, NEW about, Standing(t, l, todo, nodes, stack, about),
         NEW d, d.depth = NextCall(t, todo).depth, d.name = NONE, Shaped(l, d, about[NextCall(t, todo).node]),
         NEW list, Listed(t, l, todo, l, list, about)
  PROVE  /\ Standing(t, l, todo \ {Min(todo)}, <<NextCall(t, todo).node>> \o nodes, <<d>> \o stack, about)
         /\ Listed(t, l, todo \ {Min(todo)}, l, list, about)
<1> DEFINE n == NextCall(t, todo).node
           rest == todo \ {Min(todo)}
           nodes1 == <<n>> \o nodes
           stack1 == <<d>> \o stack
<1>0. l \in 1..12
  BY DEF Keepers
<1>1. /\ Stacked(t, l, todo, nodes, stack) /\ IsSeq(nodes) /\ IsSeq(stack) /\ Len(stack) = Len(nodes) /\ Len(nodes) \in Nat
      /\ \A i \in 1..Len(nodes) : Shaped(l, stack[i], about[nodes[i]])
  BY DEF Standing, Stacked, IsSeq
<1>2. /\ Stacked(t, l, rest, nodes1, stack1)
      /\ \A m \in InPlace(t) : t.type[m] \in DeclaredBy(l) =>
           /\ NamePassed(t, l, rest, m) <=> NamePassed(t, l, todo, m)
           /\ Passed(t, l, rest, "exit", m) <=> Passed(t, l, todo, "exit", m)
  BY <1>0, <1>1, StackOpens
<1>3. /\ Len(nodes1) = Len(nodes) + 1 /\ nodes1[1] = n /\ \A i \in 1..Len(nodes) : nodes1[i + 1] = nodes[i]
  BY <1>1, SeqFacts
<1>4. /\ stack1[1] = d /\ \A i \in 1..Len(stack) : stack1[i + 1] = stack[i]
  BY <1>1, SeqFacts
<1>5. Listed(t, l, rest, l, list, about)
  BY <1>0, <1>2, ListedStays DEF IsNamed, Added
<1>6. Shaped(l, d, about[n])
  OBVIOUS
<1> HIDE DEF nodes1, stack1, n, rest
<1>7. \A i \in 1..Len(nodes1) : Shaped(l, stack1[i], about[nodes1[i]])
  <2>1. TAKE i \in 1..Len(nodes1)
  <2>2. CASE i = 1
    BY <1>3, <1>4, <1>6, <2>2
  <2>3. CASE i # 1
    <3>1. i - 1 \in 1..Len(nodes) /\ (i - 1) + 1 = i
      BY <1>1, <1>3, <2>3
    <3>2. nodes1[i] = nodes[i - 1] /\ stack1[i] = stack[i - 1]
      BY <1>1, <1>3, <1>4, <3>1
    <3> QED
      BY <1>1, <3>1, <3>2
  <2> QED
    BY <2>2, <2>3
<1> QED
  BY <1>2, <1>5, <1>7 DEF Standing, nodes1, stack1, n, rest

\* One is left.
LEMMA StandingCloses ==
  ASSUME NEW t \in PhpTrees, NEW l \in Keepers, NEW todo, InOrder(t, l, todo), todo # {},
         NextCall(t, todo).call = "exit", t.type[NextCall(t, todo).node] \in DeclaredBy(l),
         NEW nodes, NEW stack, NEW about, Standing(t, l, todo, nodes, stack, about),
         NEW list, Listed(t, l, todo, l, list, about)
  PROVE  /\ Standing(t, l, todo \ {Min(todo)}, Tail(nodes), Tail(stack), about)
         /\ l # 9 => Listed(t, l, todo \ {Min(todo)}, l, list, about)
         /\ l = 9 => Listed(t, l, todo \ {Min(todo)}, l,
                            IF Head(stack).name = NONE THEN list ELSE Append(list, Head(stack)), about)
<1> DEFINE n == NextCall(t, todo).node
           rest == todo \ {Min(todo)}
           nodes1 == Tail(nodes)
           stack1 == Tail(stack)
<1>0. l \in 1..12
  BY DEF Keepers
<1>1. /\ Stacked(t, l, todo, nodes, stack) /\ IsSeq(nodes) /\ IsSeq(stack) /\ Len(stack) = Len(nodes) /\ Len(nodes) \in Nat
      /\ \A i \in 1..Len(nodes) : Shaped(l, stack[i], about[nodes[i]])
  BY DEF Standing, Stacked, IsSeq
<1>2. /\ stack # << >> /\ nodes[1] = n /\ n \in InPlace(t)
      /\ Begun(t, l, todo, Head(stack), n) /\ (NamePassed(t, l, todo, n) <=> Names(t, n) # {})
      /\ Stacked(t, l, rest, nodes1, stack1)
      /\ \A m \in InPlace(t) : t.type[m] \in DeclaredBy(l) =>
           /\ NamePassed(t, l, rest, m) <=> NamePassed(t, l, todo, m)
           /\ Passed(t, l, rest, "exit", m) <=> Passed(t, l, todo, "exit", m) \/ m = n
  BY <1>0, <1>1, StackCloses
<1>3. t.type[n] \in DeclaredBy(l) /\ InPlace(t) \subseteq Nodes(t)
  BY DEF InPlace
<1>4. Len(stack) > 0 /\ Head(stack) = stack[1] /\ nodes # << >> /\ 1 \in 1..Len(nodes)
  <2>1. Len(stack) > 0 /\ Head(stack) = stack[1]
    BY <1>1, <1>2, SeqFacts
  <2>2. Len(nodes) > 0 /\ 1 \in 1..Len(nodes)
    BY <1>1, <2>1
  <2>3. nodes # << >>
    BY <1>1, <2>2, SeqFacts
  <2> QED
    BY <2>1, <2>2, <2>3
<1>5. /\ Len(nodes1) = Len(nodes) - 1 /\ \A i \in 1..(Len(nodes) - 1) : nodes1[i] = nodes[i + 1]
  BY <1>1, <1>4, SeqFacts
<1>6. \A i \in 1..(Len(stack) - 1) : stack1[i] = stack[i + 1]
  BY <1>1, <1>2, SeqFacts
<1> HIDE DEF nodes1, stack1, n, rest
<1>7. \A i \in 1..Len(nodes1) : Shaped(l, stack1[i], about[nodes1[i]])
  <2>1. TAKE i \in 1..Len(nodes1)
  <2>2. i + 1 \in 1..Len(nodes) /\ i \in 1..(Len(nodes) - 1)
    BY <1>1, <1>4, <1>5
  <2> QED
    BY <1>1, <1>5, <1>6, <2>2
<1>8. ASSUME l # 9 PROVE Listed(t, l, rest, l, list, about)
  BY <1>0, <1>2, <1>8, ListedStays DEF IsNamed, Added
<1>9. ASSUME l = 9, Head(stack).name = NONE PROVE Listed(t, l, rest, l, list, about)
  <2>1. Names(t, n) = {}
    <3>1. SUFFICES ASSUME Names(t, n) # {} PROVE FALSE
      OBVIOUS
    <3>2. Head(stack).name = t.text[NameOf(t, n)]
      BY <1>2, <3>1 DEF Begun
    <3>3. NameOf(t, n) \in Nodes(t)
      BY <1>0, <1>2, <1>3, <3>1, NameFacts
    <3>4. t.text[NameOf(t, n)] # NONE
      BY <3>3, TextsAssumption
    <3> QED
      BY <1>9, <3>2, <3>4
  <2> QED
    BY <1>0, <1>2, <1>9, <2>1, ListedStays DEF IsNamed, Added
<1>10. ASSUME l = 9, Head(stack).name # NONE PROVE Listed(t, l, rest, l, Append(list, Head(stack)), about)
  <2>1. Names(t, n) # {}
    BY <1>2, <1>10 DEF Begun
  <2>2. Shaped(l, Head(stack), about[n])
    BY <1>1, <1>2, <1>4
  <2>3. EntryOf(t, l, Head(stack), n, about)
    BY <1>2, <1>3, <2>1, <2>2 DEF EntryOf, IsNamed, Begun
  <2>4. \A m \in Nodes(t) : IsNamed(t, l, m) /\ Added(t, l, rest, l, m) => Added(t, l, todo, l, m) \/ m = n
    BY <1>2, <1>10 DEF IsNamed, Added
  <2>5. n \in Nodes(t) /\ ~ (l < l)
    BY <1>0, <1>2, <1>3
  <2> QED
    BY <1>0, <2>3, <2>4, <2>5, ListedMore
<1> QED
  BY <1>2, <1>7, <1>8, <1>9, <1>10 DEF Standing, nodes1, stack1, rest

\* One is named.
LEMMA StandingNames ==
  ASSUME NEW t \in PhpTrees, NEW l \in Keepers, NEW todo, InOrder(t, l, todo), todo # {},
         NextCall(t, todo).call = NameCall(l),
         \A kind \in DeclaredBy(l) : t.type[NextCall(t, todo).node] = NameKind(kind),
         NEW nodes, NEW stack, NEW about, Standing(t, l, todo, nodes, stack, about),
         NEW list, Listed(t, l, todo, l, list, about)
  PROVE  /\ Naming(stack, NextCall(t, todo)) =>
              \A d : d = Renamed(Head(stack), NextCall(t, todo).node, t.text[NextCall(t, todo).node]) =>
                /\ Standing(t, l, todo \ {Min(todo)}, nodes, <<d>> \o Tail(stack), about)
                /\ Listed(t, l, todo \ {Min(todo)}, l, IF l = 9 THEN list ELSE Append(list, d), about)
         /\ ~ Naming(stack, NextCall(t, todo)) =>
              /\ Standing(t, l, todo \ {Min(todo)}, nodes, stack, about)
              /\ Listed(t, l, todo \ {Min(todo)}, l, list, about)
<1> DEFINE c == NextCall(t, todo)
           n == nodes[1]
           rest == todo \ {Min(todo)}
<1>0. l \in 1..12
  BY DEF Keepers
<1>1. /\ Stacked(t, l, todo, nodes, stack) /\ IsSeq(nodes) /\ IsSeq(stack) /\ Len(stack) = Len(nodes) /\ Len(nodes) \in Nat
      /\ \A i \in 1..Len(nodes) : Shaped(l, stack[i], about[nodes[i]])
  BY DEF Standing, Stacked, IsSeq
<1>a. Stacked(t, l, todo, nodes, stack)
  BY <1>1
<1>2. Naming(stack, c) => n \in InPlace(t) /\ t.type[n] \in DeclaredBy(l) /\ Names(t, n) # {} /\ NameOf(t, n) = c.node
  <2>1. SUFFICES ASSUME Naming(stack, NextCall(t, todo))
                 PROVE  /\ nodes[1] \in InPlace(t) /\ t.type[nodes[1]] \in DeclaredBy(l)
                        /\ Names(t, nodes[1]) # {} /\ NameOf(t, nodes[1]) = NextCall(t, todo).node
    OBVIOUS
  <2>2. nodes[1] \in InPlace(t) /\ t.type[nodes[1]] \in DeclaredBy(l)
    BY <1>a, <2>1, StackNames
  <2>3. NextCall(t, todo).node \in Names(t, nodes[1])
    BY <1>a, <2>1, StackNames
  <2>4. IsNameOf(t, NextCall(t, todo).node, nodes[1])
    BY <1>a, <2>1, StackNames
  <2> QED
    BY <2>2, <2>3, <2>4 DEF IsNameOf
<1>3. ASSUME Naming(stack, c), NEW d, d.depth = Head(stack).depth, d.node = c.node, d.name = t.text[c.node]
      PROVE  Stacked(t, l, rest, nodes, <<d>> \o Tail(stack))
  BY <1>a, <1>3, StackNames
<1>b. ~ Naming(stack, c) => Stacked(t, l, rest, nodes, stack)
  BY <1>a, StackNames
<1>4. \A m \in InPlace(t) : t.type[m] \in DeclaredBy(l) =>
        /\ NamePassed(t, l, rest, m) <=> NamePassed(t, l, todo, m) \/ (Naming(stack, c) /\ m = n)
        /\ Passed(t, l, rest, "exit", m) <=> Passed(t, l, todo, "exit", m)
  BY <1>a, StackNames
<1> HIDE DEF c, rest
<1>5. ASSUME ~ Naming(stack, c)
      PROVE  Standing(t, l, rest, nodes, stack, about) /\ Listed(t, l, rest, l, list, about)
  <2>1. Listed(t, l, rest, l, list, about)
    BY <1>0, <1>4, <1>5, ListedStays DEF IsNamed, Added
  <2> QED
    BY <1>1, <1>b, <1>5, <2>1 DEF Standing
<1>6. ASSUME Naming(stack, c), NEW d, d = Renamed(Head(stack), c.node, t.text[c.node])
      PROVE  /\ Standing(t, l, rest, nodes, <<d>> \o Tail(stack), about)
             /\ Listed(t, l, rest, l, IF l = 9 THEN list ELSE Append(list, d), about)
  <2> DEFINE stack1 == <<d>> \o Tail(stack)
  <2>1. stack # << >> /\ Head(stack) = stack[1] /\ Len(stack) > 0
    BY <1>1, <1>6, SeqFacts DEF Naming
  <2>2. 1 \in 1..Len(nodes) /\ Shaped(l, Head(stack), about[n])
    BY <1>1, <2>1
  <2>3. Shaped(l, d, about[n]) /\ d.depth = Head(stack).depth /\ d.node = c.node /\ d.name = t.text[c.node]
    BY <1>6, <2>2, ShapedFacts
  <2>4. Stacked(t, l, rest, nodes, stack1)
    BY <1>3, <1>6, <2>3
  <2>5. stack1[1] = d /\ \A i \in 2..Len(stack) : stack1[i] = stack[i]
    BY <1>1, <2>1, FirstReplaced
  <2> HIDE DEF stack1
  <2>6. \A i \in 1..Len(nodes) : Shaped(l, stack1[i], about[nodes[i]])
    <3>1. TAKE i \in 1..Len(nodes)
    <3>2. CASE i = 1
      BY <2>3, <2>5, <3>2 DEF n
    <3>3. CASE i # 1
      <4>1. i \in 2..Len(stack)
        BY <1>1, <3>3
      <4> QED
        BY <1>1, <2>5, <4>1
    <3> QED
      BY <3>2, <3>3
  <2>7. ASSUME l = 9 PROVE Listed(t, l, rest, l, list, about)
    BY <1>0, <1>4, <2>7, ListedStays DEF IsNamed, Added
  <2>8. ASSUME l # 9 PROVE Listed(t, l, rest, l, Append(list, d), about)
    <3>1. EntryOf(t, l, d, n, about) /\ n \in Nodes(t)
      BY <1>2, <1>6, <2>3 DEF EntryOf, IsNamed, InPlace
    <3>2. \A m \in Nodes(t) : IsNamed(t, l, m) /\ Added(t, l, rest, l, m) => Added(t, l, todo, l, m) \/ m = n
      BY <1>4, <2>8 DEF IsNamed, Added
    <3>3. ~ (l < l)
      BY <1>0
    <3> QED
      BY <1>0, <3>1, <3>2, <3>3, ListedMore
  <2> QED
    BY <2>4, <2>6, <2>7, <2>8 DEF Standing, stack1
<1> QED
  BY <1>5, <1>6 DEF rest, c

\* The next listener begins when this one is through.
LEMMA NextBegins ==
  ASSUME NEW t \in PhpTrees, NEW l \in 1..12, InOrder(t, l, {}), l < 12
  PROVE  /\ InOrder(t, l + 1, Heard(l + 1, Telling(t), t))
         /\ \A about : Standing(t, l + 1, Heard(l + 1, Telling(t), t), << >>, << >>, about)
         /\ \A k \in Keepers : \A list, about :
              Listed(t, l, {}, k, list, about) => Listed(t, l + 1, Heard(l + 1, Telling(t), t), k, list, about)
<1> DEFINE todo == Heard(l + 1, Telling(t), t)
<1>1. InOrder(t, l + 1, todo) /\ \A call, n : ~ Passed(t, l + 1, todo, call, n)
  BY DEF InOrder, Passed
<1> HIDE DEF todo
<1>2. OpenNodes(t, l + 1, todo) = {}
  BY <1>1 DEF OpenNodes
<1>3. IsSeq(<< >>) /\ Len(<< >>) = 0
  <2>1. << >> \in Seq({})
    OBVIOUS
  <2> QED
    BY <2>1, ElementsOfSeq
<1>4. \A about : Standing(t, l + 1, todo, << >>, << >>, about)
  <2>1. 1..0 = {}
    OBVIOUS
  <2> QED
    BY <1>2, <1>3, <2>1 DEF Standing, Stacked
<1>5. ASSUME NEW k \in Keepers, NEW list, NEW about, Listed(t, l, {}, k, list, about)
      PROVE  Listed(t, l + 1, todo, k, list, about)
  <2>1. \A n \in Nodes(t) : IsNamed(t, k, n) /\ k = l => Added(t, l, {}, k, n)
    <3>1. SUFFICES ASSUME NEW n \in Nodes(t), IsNamed(t, k, n), k = l PROVE Added(t, l, {}, k, n)
      OBVIOUS
    <3>2. n \in InPlace(t) /\ t.type[n] \in DeclaredBy(l) /\ Names(t, n) # {} /\ l \in {1, 7, 8, 9}
      BY <3>1 DEF IsNamed, Keepers
    <3>3. \A call, m : ToldIn(Telling(t), call, m) /\ t.type[m] \in Listeners[l].hears[call] => Passed(t, l, {}, call, m)
      <4>1. Telling(t) \in Seq(AllCalls(t))
        BY TellingBrackets
      <4>2. Heard(l, Telling(t), t) = {j \in 1..Len(Telling(t)) :
                                         t.type[Telling(t)[j].node] \in Listeners[l].hears[Telling(t)[j].call]}
        BY <4>1 DEF Heard
      <4>3. \A j \in 1..Len(Telling(t)) : t.type[Telling(t)[j].node] \in Listeners[l].hears[Telling(t)[j].call]
                                          => j \in Heard(l, Telling(t), t) \ {}
        BY <4>2
      <4> QED
        BY <4>3 DEF Passed, ToldIn
    <3>4. Passed(t, l, {}, "exit", n)
      BY <3>2, <3>3, HeardFacts, TellingBrackets
    <3>5. NamePassed(t, l, {}, n)
      BY <3>2, <3>3, NameFacts DEF NamePassed
    <3> QED
      BY <3>1, <3>4, <3>5 DEF Added
  <2>2. \A n \in Nodes(t) : ~ NamePassed(t, l + 1, todo, n)
    BY <1>1 DEF NamePassed
  <2>3. \A n \in Nodes(t) : IsNamed(t, k, n) /\ Added(t, l + 1, todo, k, n) => Added(t, l, {}, k, n)
    <3>1. SUFFICES ASSUME NEW n \in Nodes(t), IsNamed(t, k, n), Added(t, l + 1, todo, k, n) PROVE Added(t, l, {}, k, n)
      OBVIOUS
    <3>2. k < l + 1
      BY <1>1, <2>2, <3>1 DEF Added
    <3>3. k < l \/ k = l
      BY <3>2 DEF Keepers
    <3> QED
      BY <2>1, <3>1, <3>3 DEF Added
  <2>4. l + 1 < k => l < k
    BY DEF Keepers
  <2> QED
    BY <1>5, <2>3, <2>4 DEF Listed
<1> QED
  BY <1>1, <1>4, <1>5 DEF todo

-----------------------------------------------------------------------------
(* The stack and the lists while the listeners walk.                       *)

Lists == {"namespaces", "imports", "classes", "properties", "methods", "functions", "parameters", "locals",
          "usages", "references"}
ListOf(k) == IF k = 1 THEN "namespaces" ELSE IF k = 7 THEN "methods" ELSE IF k = 8 THEN "functions" ELSE "parameters"

\* What a listener reads of a declaration when it is opened, and what its owner is.
About(k) ==
    [n \in Nodes(tree) |->
       [of |-> IF k = 1 THEN NamespaceScope(n) ELSE IF k = 9 THEN TypeInField(n, "type") ELSE RangeOf(n),
        owner |-> AroundIn(tree, n, IF k = 7 THEN {"class_declaration"} ELSE OwnerTypes)]]

Kept ==
    /\ tree \in PhpTrees /\ walk = Telling(tree) /\ listener \in 1..12 /\ InOrder(tree, listener, coming)
    /\ DOMAIN symbols = Lists
    /\ pc # "walking" => listener = 12 /\ coming = {}
    /\ \A k \in Keepers : Listed(tree, listener, coming, k, symbols[ListOf(k)], About(k))
    /\ \A k \in Keepers : k = listener => \E nodes : Standing(tree, k, coming, nodes, opened, About(k))

\* It reads the same of it later on.
LEMMA AboutStays ==
  ASSUME tree' = tree
  PROVE  /\ \A k \in {1, 7, 8} : About(k)' = About(k)
         /\ symbols'.namespaces = symbols.namespaces /\ symbols'.imports = symbols.imports => About(9)' = About(9)
<1>1. \A n : NamespaceScope(n)' = NamespaceScope(n) /\ RangeOf(n)' = RangeOf(n)
  BY DEF NamespaceScope, RangeOf, NamedChildren, ChildInField
<1>2. ASSUME symbols'.namespaces = symbols.namespaces, symbols'.imports = symbols.imports
      PROVE  \A n : TypeInField(n, "type")' = TypeInField(n, "type")
  BY <1>2 DEF TypeInField, ChildInField, Text, NameScopeOf, NamespaceOf, RangeOf
<1>3. \A n, types : AroundIn(tree, n, types)' = AroundIn(tree, n, types)
  OBVIOUS
<1> QED
  BY <1>1, <1>2, <1>3 DEF About

\* The list of one that has not begun is empty, whatever it is about.
LEMMA ListedEarly ==
  ASSUME NEW t, NEW l \in 1..12, NEW todo, NEW rest, NEW k \in Keepers, NEW list, NEW about, NEW other,
         Listed(t, l, todo, k, list, about), l < k
  PROVE  Listed(t, l, rest, k, list, other)
<1>1. list = << >> /\ IsSeq(list)
  BY DEF Listed
<1>2. Len(list) = 0
  BY <1>1
<1>3. ~ (k < l) /\ k # l
  BY DEF Keepers
<1> QED
  BY <1>1, <1>2, <1>3 DEF Listed, Added

\* A step of a listener that is told something.
LEMMA ToldKeeps ==
  ASSUME Kept, tree' = tree, walk' = walk, listener' = listener, pc = "walking", pc' = pc,
         coming # {}, coming' = coming \ {Min(coming)}, DOMAIN symbols' = Lists,
         \A k \in Keepers \ {listener} : symbols'[ListOf(k)] = symbols[ListOf(k)],
         listener \in 3..12 => symbols'.imports = symbols.imports,
         \A k \in Keepers : k = listener =>
           /\ Listed(tree, k, coming', k, symbols'[ListOf(k)], About(k))
           /\ \E nodes : Standing(tree, k, coming', nodes, opened', About(k))
  PROVE  Kept'
<1>1. /\ tree \in PhpTrees /\ walk = Telling(tree) /\ listener \in 1..12 /\ InOrder(tree, listener, coming)
      /\ \A k \in Keepers : Listed(tree, listener, coming, k, symbols[ListOf(k)], About(k))
  BY DEF Kept
<1>2. InOrder(tree, listener, coming')
  BY <1>1, NextFacts
<1>3. \A k \in {1, 7, 8} : About(k)' = About(k)
  BY AboutStays
<1>4. listener \in 3..12 => About(9)' = About(9)
  <2>1. listener \in 3..12 => symbols'.namespaces = symbols.namespaces
    <3>1. 1 \in Keepers /\ ListOf(1) = "namespaces"
      BY DEF Keepers, ListOf
    <3>2. listener \in 3..12 => 1 \in Keepers \ {listener}
      BY <3>1
    <3> QED
      BY <3>1, <3>2
  <2> QED
    BY <2>1, AboutStays
<1>5. ASSUME NEW k \in Keepers
      PROVE  /\ k = listener => About(k)' = About(k)
             /\ Listed(tree, listener, coming', k, symbols'[ListOf(k)], About(k)')
  <2>1. k = 9 \/ k \in {1, 7, 8}
    BY DEF Keepers
  <2>2. k = listener => About(k)' = About(k)
    BY <1>1, <1>3, <1>4, <2>1
  <2>3. CASE k = listener
    BY <2>2, <2>3
  <2>4. CASE k # listener /\ listener < k
    <3>1. symbols'[ListOf(k)] = symbols[ListOf(k)]
      BY <2>4
    <3> QED
      BY <1>1, <2>4, <3>1, ListedEarly
  <2>5. CASE k # listener /\ ~ (listener < k)
    <3>1. symbols'[ListOf(k)] = symbols[ListOf(k)]
      BY <2>5
    <3>2. About(k)' = About(k)
      <4>1. k = 9 => listener \in 3..12
        BY <1>1, <2>5
      <4> QED
        BY <1>3, <1>4, <2>1, <4>1
    <3> QED
      BY <1>1, <2>5, <3>1, <3>2, ListedElsewhere
  <2> QED
    BY <2>2, <2>3, <2>4, <2>5
<1>6. \A k \in Keepers : k = listener => \E nodes : Standing(tree, k, coming', nodes, opened', About(k)')
  BY <1>5
<1>7. (\A k \in Keepers : Listed(tree, listener, coming, k, symbols[ListOf(k)], About(k)))'
  BY <1>5
<1>8. (\A k \in Keepers : k = listener => \E nodes : Standing(tree, k, coming, nodes, opened, About(k)))'
  BY <1>6
<1> QED
  BY <1>1, <1>2, <1>7, <1>8 DEF Kept

\* What it means to be told something.
LEMMA ToldFacts ==
  ASSUME Kept, NEW of, NEW call, NEW types, Told(of, call, types)
  PROVE  /\ tree' = tree /\ walk' = walk /\ listener' = listener /\ pc = "walking" /\ pc' = pc
         /\ coming # {} /\ coming' = coming \ {Min(coming)}
         /\ Listeners[listener].of = of /\ At.call = call /\ tree.type[At.node] \in types
         /\ At = NextCall(tree, coming)
         /\ tree \in PhpTrees /\ InOrder(tree, listener, coming) /\ listener \in 1..12 /\ DOMAIN symbols = Lists
         /\ At.node \in Nodes(tree)
<1>1. At = NextCall(tree, coming) /\ tree \in PhpTrees /\ InOrder(tree, listener, coming) /\ listener \in 1..12
  BY DEF Kept, At, NextCall
<1>2. coming # {}
  BY DEF Told
<1>3. At.node \in Nodes(tree)
  BY <1>1, <1>2, NextFacts DEF Fits
<1> QED
  BY <1>1, <1>2, <1>3 DEF Told, Kept

\* It is told of nodes in place, but for comments.
LEMMA ToldInPlace ==
  ASSUME Kept, NEW of, NEW call, NEW types, Told(of, call, types), call # "extra"
  PROVE  At.node \in InPlace(tree) /\ At = CallOf(tree, call, At.node, At.node)
<1>1. At = NextCall(tree, coming) /\ At.call = call /\ tree \in PhpTrees /\ InOrder(tree, listener, coming)
      /\ listener \in 1..12 /\ coming # {}
  BY ToldFacts
<1>2. Fits(tree, At)
  BY <1>1, NextFacts
<1> QED
  BY <1>1, <1>2 DEF Fits

\* The list of classes.
IsClass(t, n) ==
    n \in InPlace(t) /\ t.type[n] = "class_declaration" /\ InField(t, n, "name") # NONE /\ t.flag[InField(t, n, "name")] # "error"

Gathered(t, l, todo, list) ==
    /\ IsSeq(list) /\ (l < 3 => list = << >>)
    /\ \A i \in 1..Len(list) : \E n \in Nodes(t) : IsClass(t, n) /\ Describes(t, list[i], n)
    /\ \A n \in Nodes(t) : IsClass(t, n) /\ (3 < l \/ (l = 3 /\ Passed(t, 3, todo, "enter", n))) =>
         \E i \in 1..Len(list) : Describes(t, list[i], n)

Classed == Gathered(tree, listener, coming, symbols.classes)

\* When PhpClassDeclarationListener is through, the class around a node is found.
LEMMA ClassesListed ==
  ASSUME Kept, Classed, Regular, 3 < listener
  PROVE  ListsAll(tree, symbols.classes, {"class_declaration"})
<1>1. Gathered(tree, listener, coming, symbols.classes) /\ ClassesAreNamed(tree) /\ tree \in PhpTrees
  BY DEF Classed, Regular, Kept
<1>2. ASSUME NEW n \in Nodes(tree) PROVE IsClass(tree, n) <=> n \in DeclaredIn(tree, {"class_declaration"})
  <2>1. IsClass(tree, n) => HasName(tree, n)
    BY <1>1 DEF IsClass, ClassesAreNamed
  <2>2. HasName(tree, n) => InField(tree, n, "name") # NONE /\ tree.flag[InField(tree, n, "name")] # "error"
    BY DEF HasName
  <2> QED
    BY <2>1, <2>2 DEF IsClass, DeclaredIn
<1>3. \A n \in DeclaredIn(tree, {"class_declaration"}) : n \in Nodes(tree)
  BY DEF DeclaredIn, InPlace
<1> QED
  BY <1>1, <1>2, <1>3 DEF Gathered, ListsAll

\* A search in it finds the class around.
LEMMA ClassFound ==
  ASSUME Kept, Classed, Regular, 3 < listener, NEW n \in InPlace(tree)
  PROVE  Id(ClassOf(RangeOf(n))) = AroundIn(tree, n, {"class_declaration"})
<1>1. NoneIsNoSymbol /\ tree \in PhpTrees
  BY DEF Regular, Kept
<1>2. Finds(tree, Innermost(RangeIn(tree, n), symbols.classes, NONE), n, {} \cup {"class_declaration"})
  BY <1>1, ClassesListed, FindsNothing, FindsMore
<1>3. ClassOf(RangeOf(n)) = Innermost(RangeIn(tree, n), symbols.classes, NONE)
  BY DEF ClassOf, RangeOf, RangeIn
<1>4. {} \cup {"class_declaration"} = {"class_declaration"}
  OBVIOUS
<1> QED
  BY <1>1, <1>2, <1>3, <1>4, FoundIsAround

\* And when the ones of methods and functions are through, the owner.
LEMMA FunctionsListed ==
  ASSUME Kept, Regular, NEW k \in {7, 8}, k < listener
  PROVE  ListsAll(tree, symbols[ListOf(k)], DeclaredBy(k))
<1> DEFINE list == symbols[ListOf(k)]
<1>1. Listed(tree, listener, coming, k, list, About(k)) /\ NamesAreFirst(tree) /\ tree \in PhpTrees /\ k \in Keepers
  BY DEF Kept, Regular, Keepers
<1> HIDE DEF list
<1>2. \A n : Added(tree, listener, coming, k, n)
  BY DEF Added
<1>3. /\ IsSeq(list)
      /\ \A i \in 1..Len(list) : \E n \in Nodes(tree) : EntryOf(tree, k, list[i], n, About(k))
      /\ \A n \in Nodes(tree) : IsNamed(tree, k, n) => \E i \in 1..Len(list) : list[i].node = NameOf(tree, n)
  BY <1>1, <1>2 DEF Listed
<1>4. ASSUME NEW n \in Nodes(tree)
      PROVE  /\ IsNamed(tree, k, n) <=> n \in DeclaredIn(tree, DeclaredBy(k))
             /\ IsNamed(tree, k, n) => NameOf(tree, n) = InField(tree, n, "name") /\ tree.parent[NameOf(tree, n)] = n
  BY <1>1, FirstIsName DEF IsNamed, DeclaredIn
<1>5. ASSUME NEW n \in Nodes(tree), NEW s, EntryOf(tree, k, s, n, About(k))
      PROVE  n \in DeclaredIn(tree, DeclaredBy(k)) /\ Describes(tree, s, n)
  <2>1. IsNamed(tree, k, n) /\ s.node = NameOf(tree, n) /\ Shaped(k, s, About(k)[n])
    BY <1>5 DEF EntryOf
  <2>2. About(k)[n].of = RangeIn(tree, n)
    BY DEF About, RangeOf, RangeIn
  <2>3. "node" \in DOMAIN s /\ s.scope = About(k)[n].of
    BY <2>1 DEF Shaped
  <2> QED
    BY <1>4, <2>1, <2>2, <2>3 DEF Describes
<1>6. ASSUME NEW n \in DeclaredIn(tree, DeclaredBy(k)) PROVE \E i \in 1..Len(list) : Describes(tree, list[i], n)
  <2>1. n \in Nodes(tree)
    BY DEF DeclaredIn, InPlace
  <2>2. IsNamed(tree, k, n)
    BY <1>4, <2>1
  <2>3. PICK i \in 1..Len(list) : list[i].node = NameOf(tree, n)
    BY <1>3, <2>1, <2>2
  <2>4. PICK m \in Nodes(tree) : EntryOf(tree, k, list[i], m, About(k))
    BY <1>3
  <2>5. IsNamed(tree, k, m) /\ list[i].node = NameOf(tree, m)
    BY <2>4 DEF EntryOf
  <2>6. m = n
    BY <1>4, <2>1, <2>2, <2>3, <2>5
  <2> QED
    BY <1>5, <2>4, <2>6
<1>7. ListsAll(tree, list, DeclaredBy(k))
  BY <1>3, <1>5, <1>6 DEF ListsAll
<1> QED
  BY <1>7 DEF list

\* A search in the three lists finds the owner.
LEMMA OwnerFound ==
  ASSUME Kept, Classed, Regular, 8 < listener, NEW n \in InPlace(tree)
  PROVE  Id(OwnerOf(RangeOf(n))) = AroundIn(tree, n, OwnerTypes)
<1>1. NoneIsNoSymbol /\ tree \in PhpTrees /\ listener \in 1..12
  BY DEF Regular, Kept
<1>2. /\ ListsAll(tree, symbols.classes, {"class_declaration"})
      /\ ListsAll(tree, symbols.methods, {"method_declaration"})
      /\ ListsAll(tree, symbols.functions, {"function_definition"})
  <2>1. /\ ListOf(7) = "methods" /\ DeclaredBy(7) = {"method_declaration"}
        /\ ListOf(8) = "functions" /\ DeclaredBy(8) = {"function_definition"}
    BY DEF ListOf, DeclaredBy
  <2>2. 3 < listener /\ 7 < listener /\ 8 < listener
    BY <1>1
  <2> QED
    BY <2>1, <2>2, ClassesListed, FunctionsListed
<1> DEFINE range == RangeIn(tree, n)
           method == Innermost(range, symbols.methods, NONE)
           function == Innermost(range, symbols.functions, method)
           owner == Innermost(range, symbols.classes, function)
<1>3. Finds(tree, method, n, {} \cup {"method_declaration"})
  BY <1>1, <1>2, FindsNothing, FindsMore
<1> HIDE DEF method
<1>4. Finds(tree, function, n, ({} \cup {"method_declaration"}) \cup {"function_definition"})
  BY <1>1, <1>2, <1>3, FindsMore
<1> HIDE DEF function
<1>5. Finds(tree, owner, n, (({} \cup {"method_declaration"}) \cup {"function_definition"}) \cup {"class_declaration"})
  BY <1>1, <1>2, <1>4, FindsMore
<1>6. (({} \cup {"method_declaration"}) \cup {"function_definition"}) \cup {"class_declaration"} = OwnerTypes
  BY DEF OwnerTypes
<1>7. OwnerOf(RangeOf(n)) = owner
  BY DEF OwnerOf, FunctionLikeOf, RangeOf, RangeIn, owner, function, method
<1> QED
  BY <1>1, <1>5, <1>6, <1>7, FoundIsAround

\* The records that the listeners make are of their shape.
LEMMA ShapedAtFirst ==
  ASSUME NEW depth, NEW owner, NEW type, NEW declared, NEW about
  PROVE  /\ LET d == [kind |-> "namespace", node |-> NONE, name |-> NONE, depth |-> depth, scope |-> about.of]
            IN  Shaped(1, d, about) /\ d.depth = depth /\ d.name = NONE
         /\ LET d == [kind |-> "method", node |-> NONE, name |-> NONE, owner |-> owner, depth |-> depth,
                      scope |-> about.of, declared |-> declared, type |-> type]
            IN  (Regular => owner = about.owner) => Shaped(7, d, about) /\ d.depth = depth /\ d.name = NONE
         /\ LET d == [kind |-> "function", node |-> NONE, name |-> NONE, owner |-> owner, depth |-> depth,
                      scope |-> about.of, declared |-> declared, type |-> type]
            IN  Shaped(8, d, about) /\ d.depth = depth /\ d.name = NONE
         /\ LET d == [kind |-> "parameter", node |-> NONE, name |-> NONE, depth |-> depth, owner |-> owner, type |-> about.of]
            IN  (Regular => owner = about.owner) => Shaped(9, d, about) /\ d.depth = depth /\ d.name = NONE
<1>1. LET d == [kind |-> "namespace", node |-> NONE, name |-> NONE, depth |-> depth, scope |-> about.of]
      IN  Shaped(1, d, about) /\ d.depth = depth /\ d.name = NONE
  BY DEF Shaped
<1>2. LET d == [kind |-> "method", node |-> NONE, name |-> NONE, owner |-> owner, depth |-> depth,
                scope |-> about.of, declared |-> declared, type |-> type]
      IN  (Regular => owner = about.owner) => Shaped(7, d, about) /\ d.depth = depth /\ d.name = NONE
  BY DEF Shaped
<1>3. LET d == [kind |-> "function", node |-> NONE, name |-> NONE, owner |-> owner, depth |-> depth,
                scope |-> about.of, declared |-> declared, type |-> type]
      IN  Shaped(8, d, about) /\ d.depth = depth /\ d.name = NONE
  BY DEF Shaped
<1>4. LET d == [kind |-> "parameter", node |-> NONE, name |-> NONE, depth |-> depth, owner |-> owner, type |-> about.of]
      IN  (Regular => owner = about.owner) => Shaped(9, d, about) /\ d.depth = depth /\ d.name = NONE
  BY DEF Shaped
<1> QED
  BY <1>1, <1>2, <1>3, <1>4

\* The record of a method, and that of a parameter.
LEMMA MethodShaped ==
  ASSUME NEW depth, NEW owner, NEW type, NEW declared, NEW about, Regular => owner = about.owner, NEW d,
         d = [kind |-> "method", node |-> NONE, name |-> NONE, owner |-> owner, depth |-> depth,
              scope |-> about.of, declared |-> declared, type |-> type]
  PROVE  Shaped(7, d, about) /\ d.depth = depth /\ d.name = NONE
BY DEF Shaped

LEMMA ParameterShaped ==
  ASSUME NEW depth, NEW owner, NEW about, Regular => owner = about.owner, NEW type, type = about.of, NEW d,
         d = [kind |-> "parameter", node |-> NONE, name |-> NONE, depth |-> depth, owner |-> owner, type |-> type]
  PROVE  Shaped(9, d, about) /\ d.depth = depth /\ d.name = NONE
BY DEF Shaped

\* A step of a listener that keeps no stack.
LEMMA OthersKeep ==
  ASSUME Kept, NEW of, NEW call, NEW types, Told(of, call, types), listener \notin Keepers,
         DOMAIN symbols' = Lists, \A k \in Keepers : symbols'[ListOf(k)] = symbols[ListOf(k)],
         listener \in 3..12 => symbols'.imports = symbols.imports
  PROVE  Kept'
BY ToldFacts, ToldKeeps

\* A declaration is opened.
LEMMA OpeningKeeps ==
  ASSUME Kept, NEW of, NEW types, Told(of, "enter", types), NEW k \in Keepers, k = listener, types \subseteq DeclaredBy(k),
         NEW d, opened' = <<d>> \o opened, symbols' = symbols, d.depth = At.depth, d.name = NONE,
         Shaped(k, d, About(k)[At.node])
  PROVE  Kept'
<1>1. /\ tree' = tree /\ walk' = walk /\ listener' = listener /\ pc = "walking" /\ pc' = pc
      /\ coming # {} /\ coming' = coming \ {Min(coming)}
      /\ At.call = "enter" /\ tree.type[At.node] \in types
      /\ At = NextCall(tree, coming) /\ tree \in PhpTrees /\ InOrder(tree, listener, coming) /\ DOMAIN symbols = Lists
  BY ToldFacts
<1>2. PICK nodes : Standing(tree, k, coming, nodes, opened, About(k))
  BY DEF Kept
<1>3. Listed(tree, k, coming, k, symbols[ListOf(k)], About(k))
  BY DEF Kept
<1>4. /\ Standing(tree, k, coming \ {Min(coming)}, <<At.node>> \o nodes, <<d>> \o opened, About(k))
      /\ Listed(tree, k, coming \ {Min(coming)}, k, symbols[ListOf(k)], About(k))
  BY <1>1, <1>2, <1>3, StandingOpens
<1>5. \A j \in Keepers : j = listener =>
        /\ Listed(tree, j, coming', j, symbols'[ListOf(j)], About(j))
        /\ \E nodes1 : Standing(tree, j, coming', nodes1, opened', About(j))
  BY <1>1, <1>4
<1> QED
  BY <1>1, <1>5, ToldKeeps

\* One is left.
LEMMA ClosingKeeps ==
  ASSUME Kept, NEW of, NEW types, Told(of, "exit", types), NEW k \in Keepers, k = listener, types \subseteq DeclaredBy(k),
         opened' = Tail(opened), DOMAIN symbols' = Lists,
         \A j \in Keepers \ {k} : symbols'[ListOf(j)] = symbols[ListOf(j)], symbols'.imports = symbols.imports,
         symbols'[ListOf(k)] = IF k # 9 \/ Head(opened).name = NONE THEN symbols[ListOf(k)]
                               ELSE Append(symbols[ListOf(k)], Head(opened))
  PROVE  Kept'
<1>1. /\ tree' = tree /\ walk' = walk /\ listener' = listener /\ pc = "walking" /\ pc' = pc
      /\ coming # {} /\ coming' = coming \ {Min(coming)}
      /\ At.call = "exit" /\ tree.type[At.node] \in types
      /\ At = NextCall(tree, coming) /\ tree \in PhpTrees /\ InOrder(tree, listener, coming)
  BY ToldFacts
<1>2. PICK nodes : Standing(tree, k, coming, nodes, opened, About(k))
  BY DEF Kept
<1>3. Listed(tree, k, coming, k, symbols[ListOf(k)], About(k))
  BY DEF Kept
<1>4. /\ Standing(tree, k, coming \ {Min(coming)}, Tail(nodes), Tail(opened), About(k))
      /\ k # 9 => Listed(tree, k, coming \ {Min(coming)}, k, symbols[ListOf(k)], About(k))
      /\ k = 9 => Listed(tree, k, coming \ {Min(coming)}, k,
                         IF Head(opened).name = NONE THEN symbols[ListOf(k)]
                         ELSE Append(symbols[ListOf(k)], Head(opened)), About(k))
  BY <1>1, <1>2, <1>3, StandingCloses
<1>5. Listed(tree, k, coming', k, symbols'[ListOf(k)], About(k))
  BY <1>1, <1>4
<1>6. \A j \in Keepers : j = listener =>
        /\ Listed(tree, j, coming', j, symbols'[ListOf(j)], About(j))
        /\ \E nodes1 : Standing(tree, j, coming', nodes1, opened', About(j))
  BY <1>1, <1>4, <1>5
<1> QED
  BY <1>1, <1>6, ToldKeeps

\* A name.
LEMMA NamingKeeps ==
  ASSUME Kept, NEW of, NEW k \in Keepers, NEW type, Told(of, NameCall(k), {type}), k = listener,
         \A kind \in DeclaredBy(k) : NameKind(kind) = type,
         opened' = IF IsItsName THEN <<WithItsName(Head(opened))>> \o Tail(opened) ELSE opened, DOMAIN symbols' = Lists,
         \A j \in Keepers \ {k} : symbols'[ListOf(j)] = symbols[ListOf(j)], symbols'.imports = symbols.imports,
         symbols'[ListOf(k)] = IF k = 9 \/ ~ IsItsName THEN symbols[ListOf(k)]
                               ELSE Append(symbols[ListOf(k)], WithItsName(Head(opened)))
  PROVE  Kept'
<1>1. /\ tree' = tree /\ walk' = walk /\ listener' = listener /\ pc = "walking" /\ pc' = pc
      /\ coming # {} /\ coming' = coming \ {Min(coming)}
      /\ At.call = NameCall(k) /\ tree.type[At.node] = type
      /\ At = NextCall(tree, coming) /\ tree \in PhpTrees /\ InOrder(tree, listener, coming)
  BY ToldFacts
<1>2. PICK nodes : Standing(tree, k, coming, nodes, opened, About(k))
  BY DEF Kept
<1>3. Listed(tree, k, coming, k, symbols[ListOf(k)], About(k))
  BY DEF Kept
<1>4. IsItsName <=> Naming(opened, NextCall(tree, coming))
  BY <1>1 DEF IsItsName, Naming
<1>5. WithItsName(Head(opened)) = Renamed(Head(opened), NextCall(tree, coming).node, tree.text[NextCall(tree, coming).node])
  <2>1. WithItsName(Head(opened)) = Renamed(Head(opened), At.node, tree.text[At.node])
    BY Zenon DEF WithItsName, Renamed, Text
  <2> QED
    BY <1>1, <2>1
<1> DEFINE d == WithItsName(Head(opened))
           rest == coming \ {Min(coming)}
<1> HIDE DEF d
<1>6. /\ IsItsName => /\ Standing(tree, k, rest, nodes, <<d>> \o Tail(opened), About(k))
                      /\ Listed(tree, k, rest, k, IF k = 9 THEN symbols[ListOf(k)] ELSE Append(symbols[ListOf(k)], d),
                                About(k))
      /\ ~ IsItsName => /\ Standing(tree, k, rest, nodes, opened, About(k))
                        /\ Listed(tree, k, rest, k, symbols[ListOf(k)], About(k))
  <2>1. \A kind \in DeclaredBy(k) : tree.type[NextCall(tree, coming).node] = NameKind(kind)
    BY <1>1
  <2> QED
    BY <1>1, <1>2, <1>3, <1>4, <1>5, <2>1, StandingNames DEF d
<1>7. /\ Listed(tree, k, coming', k, symbols'[ListOf(k)], About(k))
      /\ Standing(tree, k, coming', nodes, opened', About(k))
  <2>1. CASE IsItsName
    BY <1>1, <1>6, <2>1 DEF d
  <2>2. CASE ~ IsItsName
    BY <1>1, <1>6, <2>2
  <2> QED
    BY <2>1, <2>2
<1>8. \A j \in Keepers : j = listener =>
        /\ Listed(tree, j, coming', j, symbols'[ListOf(j)], About(j))
        /\ \E nodes1 : Standing(tree, j, coming', nodes1, opened', About(j))
  BY <1>7
<1> QED
  BY <1>1, <1>8, ToldKeeps

\* The place of each listener that is told something.
LEMMA PlaceFacts ==
  ASSUME NEW l \in 1..12
  PROVE  /\ Listeners[l].of = "namespace" => l = 1
         /\ Listeners[l].of = "method" => l = 7
         /\ Listeners[l].of = "function" => l = 8
         /\ Listeners[l].of = "parameter" => l = 9
         /\ Listeners[l].of \in {"import", "class", "property", "varDoc", "docReference", "variable", "reference",
                                 "classReference"} => l \notin Keepers
         /\ Listeners[l].of = "import" => l = 2
         /\ Listeners[l].of \in {"class", "property", "varDoc", "docReference", "variable", "reference",
                                 "classReference", "method", "function", "parameter"} => l \in 3..12
<1>1. /\ Listeners[1].of = "namespace" /\ Listeners[2].of = "import" /\ Listeners[3].of = "class"
      /\ Listeners[4].of = "property" /\ Listeners[5].of = "varDoc" /\ Listeners[6].of = "docReference"
  BY DEF Listeners
<1>2. /\ Listeners[7].of = "method" /\ Listeners[8].of = "function" /\ Listeners[9].of = "parameter"
      /\ Listeners[10].of = "variable" /\ Listeners[11].of = "reference" /\ Listeners[12].of = "classReference"
  BY DEF Listeners
<1>3. l \in {1, 2, 3, 4, 5, 6, 7, 8, 9, 10, 11, 12}
  OBVIOUS
<1>4. CASE l = 1
  <2>1. Listeners[l].of = "namespace"
    BY <1>1, <1>4
  <2> QED
    BY <1>4, <2>1 DEF Keepers
<1>5. CASE l = 2
  <2>1. Listeners[l].of = "import"
    BY <1>1, <1>5
  <2> QED
    BY <1>5, <2>1 DEF Keepers
<1>6. CASE l = 3
  <2>1. Listeners[l].of = "class"
    BY <1>1, <1>6
  <2> QED
    BY <1>6, <2>1 DEF Keepers
<1>7. CASE l = 4
  <2>1. Listeners[l].of = "property"
    BY <1>1, <1>7
  <2> QED
    BY <1>7, <2>1 DEF Keepers
<1>8. CASE l = 5
  <2>1. Listeners[l].of = "varDoc"
    BY <1>1, <1>8
  <2> QED
    BY <1>8, <2>1 DEF Keepers
<1>9. CASE l = 6
  <2>1. Listeners[l].of = "docReference"
    BY <1>1, <1>9
  <2> QED
    BY <1>9, <2>1 DEF Keepers
<1>10. CASE l = 7
  <2>1. Listeners[l].of = "method"
    BY <1>2, <1>10
  <2> QED
    BY <1>10, <2>1 DEF Keepers
<1>11. CASE l = 8
  <2>1. Listeners[l].of = "function"
    BY <1>2, <1>11
  <2> QED
    BY <1>11, <2>1 DEF Keepers
<1>12. CASE l = 9
  <2>1. Listeners[l].of = "parameter"
    BY <1>2, <1>12
  <2> QED
    BY <1>12, <2>1 DEF Keepers
<1>13. CASE l = 10
  <2>1. Listeners[l].of = "variable"
    BY <1>2, <1>13
  <2> QED
    BY <1>13, <2>1 DEF Keepers
<1>14. CASE l = 11
  <2>1. Listeners[l].of = "reference"
    BY <1>2, <1>14
  <2> QED
    BY <1>14, <2>1 DEF Keepers
<1>15. CASE l = 12
  <2>1. Listeners[l].of = "classReference"
    BY <1>2, <1>15
  <2> QED
    BY <1>15, <2>1 DEF Keepers
<1> QED
  BY <1>3, <1>4, <1>5, <1>6, <1>7, <1>8, <1>9, <1>10, <1>11, <1>12, <1>13, <1>14, <1>15

\* What another list gets.
LEMMA WithFacts ==
  ASSUME DOMAIN symbols = Lists, NEW list \in Lists, NEW symbol
  PROVE  /\ DOMAIN With(list, symbol) = Lists /\ With(list, symbol)[list] = Append(symbols[list], symbol)
         /\ \A f \in Lists \ {list} : With(list, symbol)[f] = symbols[f]
BY DEF With

\* The listeners that keep a stack.
LEMMA NamespaceKeeps ==
  ASSUME Kept, OpenNamespace \/ NameNamespace \/ CloseNamespace
  PROVE  Kept'
<1> DEFINE k == 1
<1>0. k \in Keepers /\ ListOf(1) = "namespaces" /\ DeclaredBy(1) = {"namespace_definition"} /\ NameCall(1) = "enter"
  BY DEF Keepers, ListOf, DeclaredBy, NameCall
<1>1. DOMAIN symbols = Lists /\ listener \in 1..12
  BY DEF Kept
<1>2. CASE OpenNamespace
  <2>1. Told("namespace", "enter", {"namespace_definition"})
    BY <1>2 DEF OpenNamespace
  <2>2. listener = 1 /\ At.node \in Nodes(tree)
    BY <1>1, <2>1, ToldFacts, PlaceFacts
  <2> DEFINE d == [kind |-> "namespace", node |-> NONE, name |-> NONE, depth |-> At.depth, scope |-> NamespaceScope(At.node)]
  <2>3. opened' = <<d>> \o opened /\ symbols' = symbols
    BY <1>2 DEF OpenNamespace, Open
  <2>5. About(1)[At.node].of = NamespaceScope(At.node)
    BY <2>2 DEF About
  <2>4. Shaped(1, d, About(1)[At.node]) /\ d.depth = At.depth /\ d.name = NONE
    BY <2>5, ShapedAtFirst
  <2> HIDE DEF d
  <2> QED
    BY <1>0, <2>1, <2>2, <2>3, <2>4, <2>5, OpeningKeeps
<1>3. CASE NameNamespace
  <2>1. Told("namespace", "enter", {"namespace_name"}) /\ NameAndAdd("namespaces")
    BY <1>3 DEF NameNamespace
  <2>2. listener = 1
    BY <1>1, <2>1, ToldFacts, PlaceFacts
  <2>3. \A kind \in DeclaredBy(1) : NameKind(kind) = "namespace_name"
    BY <1>0 DEF NameKind, Parameters
  <2>4. /\ opened' = IF IsItsName THEN <<WithItsName(Head(opened))>> \o Tail(opened) ELSE opened
        /\ symbols' = IF IsItsName THEN With("namespaces", WithItsName(Head(opened))) ELSE symbols
    BY <2>1 DEF NameAndAdd
  <2>5. "namespaces" \in Lists /\ \A j \in Keepers \ {1} : ListOf(j) \in Lists \ {"namespaces"}
    BY DEF Lists, Keepers, ListOf
  <2>6. "imports" \in Lists \ {"namespaces"}
    BY DEF Lists
  <2>7. /\ DOMAIN symbols' = Lists /\ symbols'.imports = symbols.imports
        /\ \A j \in Keepers \ {1} : symbols'[ListOf(j)] = symbols[ListOf(j)]
        /\ symbols'["namespaces"] = IF 1 = 9 \/ ~ IsItsName THEN symbols["namespaces"]
                                    ELSE Append(symbols["namespaces"], WithItsName(Head(opened)))
    <3>1. CASE IsItsName
      BY <1>1, <2>4, <2>5, <2>6, <3>1, WithFacts
    <3>2. CASE ~ IsItsName
      BY <1>1, <2>4, <3>2
    <3> QED
      BY <3>1, <3>2
  <2> QED
    BY <1>0, <2>1, <2>2, <2>3, <2>4, <2>7, NamingKeeps
<1>4. CASE CloseNamespace
  <2>1. Told("namespace", "exit", {"namespace_definition"}) /\ opened' = Tail(opened) /\ symbols' = symbols
    BY <1>4 DEF CloseNamespace, Poll
  <2>2. listener = 1
    BY <1>1, <2>1, ToldFacts, PlaceFacts
  <2> QED
    BY <1>0, <1>1, <2>1, <2>2, ClosingKeeps
<1> QED
  BY <1>2, <1>3, <1>4

\* The listener of methods.
LEMMA MethodKeeps ==
  ASSUME Kept, Classed, OpenMethod \/ NameMethod \/ CloseMethod
  PROVE  Kept'
<1>0. 7 \in Keepers /\ ListOf(7) = "methods" /\ DeclaredBy(7) = {"method_declaration"} /\ NameCall(7) = "leaf"
  BY DEF Keepers, ListOf, DeclaredBy, NameCall
<1>1. DOMAIN symbols = Lists /\ listener \in 1..12
  BY DEF Kept
<1>2. CASE OpenMethod
  <2>1. Told("method", "enter", {"method_declaration"})
    BY <1>2 DEF OpenMethod
  <2>2. listener = 7 /\ At.node \in Nodes(tree)
    BY <1>1, <2>1, ToldFacts, PlaceFacts
  <2> DEFINE d == FunctionLike("method", Id(ClassOf(RangeOf(At.node))))
  <2>3. opened' = <<d>> \o opened /\ symbols' = symbols
    BY <1>2 DEF OpenMethod, Open
  <2>5. About(7)[At.node].of = RangeOf(At.node) /\ About(7)[At.node].owner = AroundIn(tree, At.node, {"class_declaration"})
    BY <2>2 DEF About
  <2>6. Regular => Id(ClassOf(RangeOf(At.node))) = AroundIn(tree, At.node, {"class_declaration"})
    BY <2>1, <2>2, ToldInPlace, ClassFound
  <2> DEFINE about == About(7)[At.node]
             owner == Id(ClassOf(RangeOf(At.node)))
  <2>7. d = [kind |-> "method", node |-> NONE, name |-> NONE, owner |-> owner, depth |-> At.depth,
             scope |-> about.of, declared |-> HasDeclaredReturn(At.node), type |-> DeclaredReturn(At.node)]
    BY <2>5 DEF FunctionLike
  <2>8. Regular => owner = about.owner
    BY <2>5, <2>6
  <2> HIDE DEF d, about, owner
  <2>9. Shaped(7, d, about) /\ d.depth = At.depth /\ d.name = NONE
    BY <2>7, <2>8, MethodShaped
  <2>4. Shaped(7, d, About(7)[At.node]) /\ d.depth = At.depth /\ d.name = NONE
    BY <2>9 DEF about
  <2> HIDE DEF d
  <2> QED
    BY <1>0, <2>1, <2>2, <2>3, <2>4, <2>5, OpeningKeeps
<1>3. CASE NameMethod
  <2>1. Told("method", "leaf", {"name"}) /\ NameAndAdd("methods")
    BY <1>3 DEF NameMethod
  <2>2. listener = 7
    BY <1>1, <2>1, ToldFacts, PlaceFacts
  <2>3. \A kind \in DeclaredBy(7) : NameKind(kind) = "name"
    BY <1>0 DEF NameKind, Parameters
  <2>4. /\ opened' = IF IsItsName THEN <<WithItsName(Head(opened))>> \o Tail(opened) ELSE opened
        /\ symbols' = IF IsItsName THEN With("methods", WithItsName(Head(opened))) ELSE symbols
    BY <2>1 DEF NameAndAdd
  <2>5. "methods" \in Lists /\ "imports" \in Lists \ {"methods"} /\ \A j \in Keepers \ {7} : ListOf(j) \in Lists \ {"methods"}
    BY DEF Lists, Keepers, ListOf
  <2>6. /\ DOMAIN symbols' = Lists /\ symbols'.imports = symbols.imports
        /\ \A j \in Keepers \ {7} : symbols'[ListOf(j)] = symbols[ListOf(j)]
        /\ symbols'["methods"] = IF 7 = 9 \/ ~ IsItsName THEN symbols["methods"]
                                 ELSE Append(symbols["methods"], WithItsName(Head(opened)))
    <3>1. CASE IsItsName
      BY <1>1, <2>4, <2>5, <3>1, WithFacts
    <3>2. CASE ~ IsItsName
      BY <1>1, <2>4, <3>2
    <3> QED
      BY <3>1, <3>2
  <2> QED
    BY <1>0, <2>1, <2>2, <2>3, <2>4, <2>6, NamingKeeps
<1>4. CASE CloseMethod
  <2>1. Told("method", "exit", {"method_declaration"}) /\ opened' = Tail(opened) /\ symbols' = symbols
    BY <1>4 DEF CloseMethod, Poll
  <2>2. listener = 7
    BY <1>1, <2>1, ToldFacts, PlaceFacts
  <2> QED
    BY <1>0, <1>1, <2>1, <2>2, ClosingKeeps
<1> QED
  BY <1>2, <1>3, <1>4

\* The listener of functions.
LEMMA FunctionKeeps ==
  ASSUME Kept, OpenFunction \/ NameFunction \/ CloseFunction
  PROVE  Kept'
<1>0. 8 \in Keepers /\ ListOf(8) = "functions" /\ DeclaredBy(8) = {"function_definition"} /\ NameCall(8) = "leaf"
  BY DEF Keepers, ListOf, DeclaredBy, NameCall
<1>1. DOMAIN symbols = Lists /\ listener \in 1..12
  BY DEF Kept
<1>2. CASE OpenFunction
  <2>1. Told("function", "enter", {"function_definition"})
    BY <1>2 DEF OpenFunction
  <2>2. listener = 8 /\ At.node \in Nodes(tree)
    BY <1>1, <2>1, ToldFacts, PlaceFacts
  <2> DEFINE d == FunctionLike("function", NONE)
  <2>3. opened' = <<d>> \o opened /\ symbols' = symbols
    BY <1>2 DEF OpenFunction, Open
  <2>5. About(8)[At.node].of = RangeOf(At.node)
    BY <2>2 DEF About
  <2>4. Shaped(8, d, About(8)[At.node]) /\ d.depth = At.depth /\ d.name = NONE
    BY <2>5, ShapedAtFirst DEF FunctionLike
  <2> HIDE DEF d
  <2> QED
    BY <1>0, <2>1, <2>2, <2>3, <2>4, <2>5, OpeningKeeps
<1>3. CASE NameFunction
  <2>1. Told("function", "leaf", {"name"}) /\ NameAndAdd("functions")
    BY <1>3 DEF NameFunction
  <2>2. listener = 8
    BY <1>1, <2>1, ToldFacts, PlaceFacts
  <2>3. \A kind \in DeclaredBy(8) : NameKind(kind) = "name"
    BY <1>0 DEF NameKind, Parameters
  <2>4. /\ opened' = IF IsItsName THEN <<WithItsName(Head(opened))>> \o Tail(opened) ELSE opened
        /\ symbols' = IF IsItsName THEN With("functions", WithItsName(Head(opened))) ELSE symbols
    BY <2>1 DEF NameAndAdd
  <2>5. "functions" \in Lists /\ "imports" \in Lists \ {"functions"} /\ \A j \in Keepers \ {8} : ListOf(j) \in Lists \ {"functions"}
    BY DEF Lists, Keepers, ListOf
  <2>6. /\ DOMAIN symbols' = Lists /\ symbols'.imports = symbols.imports
        /\ \A j \in Keepers \ {8} : symbols'[ListOf(j)] = symbols[ListOf(j)]
        /\ symbols'["functions"] = IF 8 = 9 \/ ~ IsItsName THEN symbols["functions"]
                                   ELSE Append(symbols["functions"], WithItsName(Head(opened)))
    <3>1. CASE IsItsName
      BY <1>1, <2>4, <2>5, <3>1, WithFacts
    <3>2. CASE ~ IsItsName
      BY <1>1, <2>4, <3>2
    <3> QED
      BY <3>1, <3>2
  <2> QED
    BY <1>0, <2>1, <2>2, <2>3, <2>4, <2>6, NamingKeeps
<1>4. CASE CloseFunction
  <2>1. Told("function", "exit", {"function_definition"}) /\ opened' = Tail(opened) /\ symbols' = symbols
    BY <1>4 DEF CloseFunction, Poll
  <2>2. listener = 8
    BY <1>1, <2>1, ToldFacts, PlaceFacts
  <2> QED
    BY <1>0, <1>1, <2>1, <2>2, ClosingKeeps
<1> QED
  BY <1>2, <1>3, <1>4

\* The listener of parameters.
LEMMA ParameterKeeps ==
  ASSUME Kept, Classed, OpenParameter \/ NameParameter \/ CommitParameter
  PROVE  Kept'
<1>0. 9 \in Keepers /\ ListOf(9) = "parameters" /\ DeclaredBy(9) = Parameters /\ NameCall(9) = "enter"
  BY DEF Keepers, ListOf, DeclaredBy, NameCall
<1>1. DOMAIN symbols = Lists /\ listener \in 1..12
  BY DEF Kept
<1>2. CASE OpenParameter
  <2>1. Told("parameter", "enter", Parameters)
    BY <1>2 DEF OpenParameter
  <2>2. listener = 9 /\ At.node \in Nodes(tree)
    BY <1>1, <2>1, ToldFacts, PlaceFacts
  <2> DEFINE d == [kind |-> "parameter", node |-> NONE, name |-> NONE, depth |-> At.depth,
                   owner |-> Id(OwnerOf(RangeOf(At.node))), type |-> TypeInField(At.node, "type")]
  <2>3. opened' = <<d>> \o opened /\ symbols' = symbols
    BY <1>2 DEF OpenParameter, Open
  <2>5. About(9)[At.node].of = TypeInField(At.node, "type") /\ About(9)[At.node].owner = AroundIn(tree, At.node, OwnerTypes)
    BY <2>2 DEF About
  <2>6. Regular => Id(OwnerOf(RangeOf(At.node))) = AroundIn(tree, At.node, OwnerTypes)
    BY <2>1, <2>2, ToldInPlace, OwnerFound
  <2>4. Shaped(9, d, About(9)[At.node]) /\ d.depth = At.depth /\ d.name = NONE
    BY <2>5, <2>6, ParameterShaped
  <2> HIDE DEF d
  <2> QED
    BY <1>0, <2>1, <2>2, <2>3, <2>4, <2>5, OpeningKeeps
<1>3. CASE NameParameter
  <2>1. /\ Told("parameter", "enter", {"variable_name"}) /\ symbols' = symbols
        /\ opened' = IF IsItsName THEN <<WithItsName(Head(opened))>> \o Tail(opened) ELSE opened
    BY <1>3 DEF NameParameter
  <2>2. listener = 9
    BY <1>1, <2>1, ToldFacts, PlaceFacts
  <2>3. \A kind \in DeclaredBy(9) : NameKind(kind) = "variable_name"
    BY <1>0 DEF NameKind, Parameters
  <2>4. /\ DOMAIN symbols' = Lists /\ symbols'.imports = symbols.imports
        /\ \A j \in Keepers \ {9} : symbols'[ListOf(j)] = symbols[ListOf(j)]
        /\ symbols'[ListOf(9)] = IF 9 = 9 \/ ~ IsItsName THEN symbols[ListOf(9)]
                                ELSE Append(symbols[ListOf(9)], WithItsName(Head(opened)))
    BY <1>1, <2>1
  <2>5. Told("parameter", NameCall(9), {"variable_name"}) /\ 9 = listener
    BY <1>0, <2>1, <2>2
  <2> QED
    BY <1>0, <2>1, <2>3, <2>4, <2>5, NamingKeeps
<1>4. CASE CommitParameter
  <2>1. /\ Told("parameter", "exit", Parameters) /\ opened' = Tail(opened)
        /\ symbols' = IF Head(opened).name = NONE THEN symbols ELSE With("parameters", Head(opened))
    BY <1>4 DEF CommitParameter
  <2>2. listener = 9
    BY <1>1, <2>1, ToldFacts, PlaceFacts
  <2>3. "parameters" \in Lists /\ "imports" \in Lists \ {"parameters"} /\ \A j \in Keepers \ {9} : ListOf(j) \in Lists \ {"parameters"}
    BY DEF Lists, Keepers, ListOf
  <2>4. /\ DOMAIN symbols' = Lists /\ symbols'.imports = symbols.imports
        /\ \A j \in Keepers \ {9} : symbols'[ListOf(j)] = symbols[ListOf(j)]
        /\ symbols'["parameters"] = IF 9 # 9 \/ Head(opened).name = NONE THEN symbols["parameters"]
                                    ELSE Append(symbols["parameters"], Head(opened))
    <3>1. CASE Head(opened).name # NONE
      BY <1>1, <2>1, <2>3, <3>1, WithFacts
    <3>2. CASE Head(opened).name = NONE
      BY <1>1, <2>1, <3>2
    <3> QED
      BY <3>1, <3>2
  <2> QED
    BY <1>0, <2>1, <2>2, <2>4, ClosingKeeps
<1> QED
  BY <1>2, <1>3, <1>4

\* A step changes no other lists than these.
Only(lists) == DOMAIN symbols' = Lists /\ \A f \in Lists \ lists : symbols'[f] = symbols[f]

\* One list at most is changed.
LEMMA OnlyFacts ==
  ASSUME DOMAIN symbols = Lists, NEW list \in Lists, NEW lists, list \in lists,
         \/ symbols' = symbols
         \/ \E s : symbols' = With(list, s)
         \/ \E s : symbols' = [symbols EXCEPT ![list] = s]
  PROVE  Only(lists)
<1>1. CASE symbols' = symbols
  BY <1>1 DEF Only
<1>2. ASSUME NEW s, symbols' = With(list, s) PROVE Only(lists)
  <2>1. DOMAIN symbols' = Lists /\ \A f \in Lists \ {list} : symbols'[f] = symbols[f]
    BY <1>2, WithFacts
  <2> QED
    BY <2>1 DEF Only
<1>3. ASSUME NEW s, symbols' = [symbols EXCEPT ![list] = s] PROVE Only(lists)
  BY <1>3 DEF Only
<1> QED
  BY <1>1, <1>2, <1>3

\* A step of a listener that keeps no stack.
LEMMA OnlyOthersKeep ==
  ASSUME Kept, NEW of, NEW call, NEW types, Told(of, call, types),
         of \in {"class", "property", "varDoc", "docReference", "variable", "reference", "classReference"},
         Only({"classes", "properties", "references", "locals", "usages"})
  PROVE  Kept'
<1>1. Listeners[listener].of = of /\ listener \in 1..12
  BY ToldFacts
<1>2. listener \notin Keepers
  BY <1>1, PlaceFacts
<1>3. "imports" \in Lists /\ \A k \in Keepers : ListOf(k) \in Lists \ {"classes", "properties", "references", "locals", "usages"}
  BY DEF Lists, Keepers, ListOf
<1>4. DOMAIN symbols' = Lists /\ symbols'.imports = symbols.imports
  BY <1>3 DEF Only
<1>5. \A k \in Keepers : symbols'[ListOf(k)] = symbols[ListOf(k)]
  BY <1>3 DEF Only
<1> QED
  BY <1>2, <1>4, <1>5, OthersKeep

\* The other listeners.
LEMMA OthersStep ==
  ASSUME Kept, Import \/ DeclareClass \/ DeclareProperty \/ TypeByVarDoc \/ ReferenceInDoc \/ DeclareOrUse
               \/ ReferToFunction \/ ReferToMember \/ ReferToStatic \/ OtherName \/ EnterClassName \/ LeafClassName
  PROVE  Kept'
<1> DEFINE Many == {"classes", "properties", "references", "locals", "usages"}
<1>0. DOMAIN symbols = Lists /\ Many \subseteq Lists
  BY DEF Kept, Lists
<1>1. CASE Import
  <2>1. Told("import", "enter", {"namespace_use_clause"})
    BY <1>1 DEF Import
  <2>2. symbols' = symbols \/ \E s : symbols' = With("imports", s)
    BY <1>1 DEF Import
  <2>3. Only({"imports"})
    <3>1. "imports" \in Lists
      BY DEF Lists
    <3> QED
      BY <1>0, <2>2, <3>1, OnlyFacts
  <2>4. Listeners[listener].of = "import" /\ listener \in 1..12
    BY <2>1, ToldFacts
  <2>5. listener = 2 /\ listener \notin Keepers
    BY <2>4, PlaceFacts
  <2>6. \A k \in Keepers : ListOf(k) \in Lists \ {"imports"}
    BY DEF Lists, Keepers, ListOf
  <2>7. DOMAIN symbols' = Lists /\ \A k \in Keepers : symbols'[ListOf(k)] = symbols[ListOf(k)]
    BY <2>3, <2>6 DEF Only
  <2> QED
    BY <2>1, <2>5, <2>7, OthersKeep
<1>2. CASE DeclareClass
  <2>1. Told("class", "enter", {"class_declaration"})
    BY <1>2 DEF DeclareClass
  <2>2. symbols' = symbols \/ \E s : symbols' = With("classes", s)
    BY <1>2 DEF DeclareClass
  <2>3. Only(Many)
    BY <1>0, <2>2, OnlyFacts
  <2> QED
    BY <2>1, <2>3, OnlyOthersKeep
<1>3. CASE DeclareProperty
  <2>1. Told("property", "enter", {"property_element", "property_promotion_parameter"})
    BY <1>3 DEF DeclareProperty
  <2>2. symbols' = symbols \/ \E s : symbols' = With("properties", s)
    BY <1>3 DEF DeclareProperty
  <2>3. Only(Many)
    BY <1>0, <2>2, OnlyFacts
  <2> QED
    BY <2>1, <2>3, OnlyOthersKeep
<1>4. CASE TypeByVarDoc
  <2>1. Told("varDoc", "exit", {"property_declaration"})
    BY <1>4 DEF TypeByVarDoc
  <2>2. \E s : symbols' = [symbols EXCEPT !["properties"] = s]
    BY <1>4 DEF TypeByVarDoc
  <2>3. Only(Many)
    BY <1>0, <2>2, OnlyFacts
  <2> QED
    BY <2>1, <2>3, OnlyOthersKeep
<1>5. CASE ReferenceInDoc
  <2>1. Told("docReference", "extra", {"comment"})
    BY <1>5 DEF ReferenceInDoc
  <2>2. \E s : symbols' = [symbols EXCEPT !["references"] = s]
    BY <1>5 DEF ReferenceInDoc
  <2>3. Only(Many)
    BY <1>0, <2>2, OnlyFacts
  <2> QED
    BY <2>1, <2>3, OnlyOthersKeep
<1>6. CASE DeclareOrUse
  <2>1. Told("variable", "enter", {"variable_name"})
    BY <1>6 DEF DeclareOrUse
  <2>2. symbols' = symbols \/ (\E s : symbols' = With("locals", s)) \/ (\E s : symbols' = With("usages", s))
    BY <1>6 DEF DeclareOrUse, Variable
  <2>3. Only(Many)
    BY <1>0, <2>2, OnlyFacts
  <2> QED
    BY <2>1, <2>3, OnlyOthersKeep
<1>7. ASSUME ReferToFunction \/ ReferToMember \/ ReferToStatic \/ OtherName PROVE Kept'
  <2>1. Told("reference", "leaf", {"name"})
    BY <1>7 DEF ReferToFunction, ReferToMember, ReferToStatic, OtherName
  <2>2. symbols' = symbols \/ \E s : symbols' = With("references", s)
    BY <1>7 DEF ReferToFunction, ReferToMember, ReferToStatic, OtherName
  <2>3. Only(Many)
    BY <1>0, <2>2, OnlyFacts
  <2> QED
    BY <2>1, <2>3, OnlyOthersKeep
<1>8. ASSUME EnterClassName \/ LeafClassName PROVE Kept'
  <2>1. Told("classReference", "enter", {"qualified_name", "relative_name"}) \/ Told("classReference", "leaf", {"name", "relative_scope"})
    BY <1>8 DEF EnterClassName, LeafClassName
  <2>2. symbols' = symbols \/ \E s : symbols' = With("references", s)
    BY <1>8 DEF EnterClassName, LeafClassName, AddClassReference
  <2>3. Only(Many)
    BY <1>0, <2>2, OnlyFacts
  <2> QED
    BY <2>1, <2>3, OnlyOthersKeep
<1> QED
  BY <1>1, <1>2, <1>3, <1>4, <1>5, <1>6, <1>7, <1>8

-----------------------------------------------------------------------------
(* Between the walks, and after them.                                      *)

\* A symbol that may have got another type.
Retyped(e, s) == e = s \/ \E type : e = [s EXCEPT !.type = type]

\* Its type does not matter.
LEMMA ShapedRetyped ==
  ASSUME NEW k \in {7, 8}, NEW s, NEW about, Shaped(k, s, about), NEW e, Retyped(e, s)
  PROVE  Shaped(k, e, about) /\ e.node = s.node /\ e.name = s.name
<1>1. ASSUME NEW type, e = [s EXCEPT !.type = type]
      PROVE  Shaped(k, e, about) /\ e.node = s.node /\ e.name = s.name
  BY <1>1, ShapedOfType
<1> QED
  BY <1>1 DEF Retyped

\* The symbols of a list may get other types.
LEMMA RetypedFacts ==
  ASSUME NEW t, NEW l, NEW todo, NEW k \in {7, 8}, NEW list, NEW about, Listed(t, l, todo, k, list, about), ~ (l < k),
         NEW more, more = [i \in DOMAIN list |-> more[i]],
         \A i \in DOMAIN list : Retyped(more[i], list[i])
  PROVE  Listed(t, l, todo, k, more, about)
<1>1. /\ IsSeq(list) /\ \A i \in 1..Len(list) : \E n \in Nodes(t) : EntryOf(t, k, list[i], n, about)
      /\ \A n \in Nodes(t) : IsNamed(t, k, n) /\ Added(t, l, todo, k, n) => \E i \in 1..Len(list) : list[i].node = NameOf(t, n)
  BY DEF Listed
<1>2. DOMAIN list = 1..Len(list) /\ Len(list) \in Nat
  BY <1>1 DEF IsSeq
<1>3. DOMAIN more = 1..Len(list)
  BY <1>2
<1>4. more \in Seq({more[i] : i \in 1..Len(list)})
  <2>1. more = [i \in 1..Len(list) |-> more[i]]
    BY <1>2
  <2>2. [i \in 1..Len(list) |-> more[i]] \in Seq({more[i] : i \in 1..Len(list)})
    BY <1>2
  <2> QED
    BY <2>1, <2>2
<1>5. IsSeq(more) /\ Len(more) = Len(list)
  <2>1. IsSeq(more)
    BY <1>4, ElementsOfSeq
  <2> QED
    BY <1>2, <1>3, <1>4, <2>1
<1>6. ASSUME NEW i \in 1..Len(list), NEW n \in Nodes(t), EntryOf(t, k, list[i], n, about)
      PROVE  EntryOf(t, k, more[i], n, about) /\ more[i].node = list[i].node
  <2>1. /\ IsNamed(t, k, n) /\ list[i].node = NameOf(t, n) /\ list[i].name = t.text[NameOf(t, n)]
        /\ Shaped(k, list[i], about[n])
    BY <1>6 DEF EntryOf
  <2>2. Retyped(more[i], list[i])
    BY <1>2
  <2>3. Shaped(k, more[i], about[n]) /\ more[i].node = list[i].node /\ more[i].name = list[i].name
    BY <2>1, <2>2, ShapedRetyped
  <2> QED
    BY <2>1, <2>3 DEF EntryOf
<1>7. \A i \in 1..Len(more) : \E n \in Nodes(t) : EntryOf(t, k, more[i], n, about)
  BY <1>1, <1>5, <1>6
<1>8. \A n \in Nodes(t) : IsNamed(t, k, n) /\ Added(t, l, todo, k, n) => \E i \in 1..Len(more) : more[i].node = NameOf(t, n)
  <2>1. SUFFICES ASSUME NEW n \in Nodes(t), IsNamed(t, k, n), Added(t, l, todo, k, n)
                 PROVE  \E i \in 1..Len(more) : more[i].node = NameOf(t, n)
    OBVIOUS
  <2>2. PICK i \in 1..Len(list) : list[i].node = NameOf(t, n)
    BY <1>1, <2>1
  <2>3. more[i].node = list[i].node
    BY <1>1, <1>6
  <2> QED
    BY <1>5, <2>2, <2>3
<1> QED
  BY <1>5, <1>7, <1>8 DEF Listed

\* The next one walks.
LEMMA NextListenerKeeps ==
  ASSUME Kept, NextListener
  PROVE  Kept'
<1>1. /\ tree \in PhpTrees /\ walk = Telling(tree) /\ listener \in 1..12 /\ InOrder(tree, listener, coming) /\ DOMAIN symbols = Lists
      /\ \A k \in Keepers : Listed(tree, listener, coming, k, symbols[ListOf(k)], About(k))
  BY DEF Kept
<1>2. /\ coming = {} /\ listener < 12 /\ listener' = listener + 1 /\ opened' = << >>
      /\ tree' = tree /\ walk' = walk /\ symbols' = symbols /\ pc = "walking" /\ pc' = pc
  BY DEF NextListener, Listeners
<1>3. coming' = Heard(listener + 1, Telling(tree), tree)
  BY <1>1, <1>2 DEF NextListener
<1>4. /\ InOrder(tree, listener', coming') /\ \A about : Standing(tree, listener', coming', << >>, << >>, about)
      /\ \A k \in Keepers : \A list, about :
           Listed(tree, listener, coming, k, list, about) => Listed(tree, listener', coming', k, list, about)
  BY <1>1, <1>2, <1>3, NextBegins
<1>5. \A k \in Keepers : About(k)' = About(k)
  BY <1>2, AboutStays DEF Keepers
<1>6. (\A k \in Keepers : Listed(tree, listener, coming, k, symbols[ListOf(k)], About(k)))'
  BY <1>1, <1>2, <1>4, <1>5
<1>7. (\A k \in Keepers : k = listener => \E nodes : Standing(tree, k, coming, nodes, opened, About(k)))'
  BY <1>2, <1>4, <1>5
<1>8. listener' \in 1..12
  BY <1>1, <1>2
<1> QED
  BY <1>1, <1>2, <1>4, <1>6, <1>7, <1>8 DEF Kept

\* The walks are over.
LEMMA EndWalksKeeps ==
  ASSUME Kept, EndWalks
  PROVE  Kept'
<1>1. /\ coming = {} /\ listener = 12
      /\ UNCHANGED <<tree, walk, listener, coming, opened, symbols>>
  BY DEF EndWalks, Listeners
<1>2. \A k \in Keepers : About(k)' = About(k)
  BY <1>1, AboutStays DEF Keepers
<1>3. (\A k \in Keepers : Listed(tree, listener, coming, k, symbols[ListOf(k)], About(k)))'
  BY <1>1, <1>2 DEF Kept
<1>4. (\A k \in Keepers : k = listener => \E nodes : Standing(tree, k, coming, nodes, opened, About(k)))'
  BY <1>1 DEF Keepers
<1> QED
  BY <1>1, <1>3, <1>4 DEF Kept

\* A pass over lists of which only those of methods and functions are a listener's that keeps a stack.
LEMMA PassKeeps ==
  ASSUME Kept, pc # "walking", UNCHANGED <<tree, walk, listener, coming>>, DOMAIN symbols' = Lists,
         symbols'.namespaces = symbols.namespaces, symbols'.imports = symbols.imports,
         symbols'.parameters = symbols.parameters,
         \A k \in {7, 8} : symbols'[ListOf(k)] = symbols[ListOf(k)]
                           \/ Listed(tree, listener, coming, k, symbols'[ListOf(k)], About(k))
  PROVE  Kept'
<1>1. listener = 12 /\ coming = {}
  BY DEF Kept
<1>2. \A k \in Keepers : About(k)' = About(k)
  BY AboutStays DEF Keepers
<1>3. (\A k \in Keepers : Listed(tree, listener, coming, k, symbols[ListOf(k)], About(k)))'
  <2>1. SUFFICES ASSUME NEW k \in Keepers PROVE Listed(tree, listener, coming, k, symbols'[ListOf(k)], About(k))
    BY <1>2
  <2>2. Listed(tree, listener, coming, k, symbols[ListOf(k)], About(k))
    BY DEF Kept
  <2>3. k \in {7, 8} \/ symbols'[ListOf(k)] = symbols[ListOf(k)]
    BY DEF Keepers, ListOf
  <2> QED
    BY <2>2, <2>3
<1>4. (\A k \in Keepers : k = listener => \E nodes : Standing(tree, k, coming, nodes, opened, About(k)))'
  BY <1>1 DEF Keepers
<1> QED
  BY <1>1, <1>3, <1>4 DEF Kept

\* The passes.
LEMMA PassesKeep ==
  ASSUME Kept, FillDefinitions \/ InferTypes \/ InferReturnTypes \/ PropagateTypes
  PROVE  Kept'
<1>0. DOMAIN symbols = Lists
  BY DEF Kept
<1>1. UNCHANGED <<tree, walk, listener, coming>> /\ pc # "walking"
  BY DEF FillDefinitions, InferTypes, InferReturnTypes, PropagateTypes, Pass
<1>2. ASSUME NEW list \in {"locals", "usages"}, NEW s, symbols' = [symbols EXCEPT ![list] = s]
      PROVE  Kept'
  <2>1. \A f \in Lists \ {"locals", "usages"} : symbols'[f] = symbols[f]
    BY <1>0, <1>2
  <2>2. {"namespaces", "imports", "parameters"} \subseteq Lists \ {"locals", "usages"} /\ \A k \in {7, 8} : ListOf(k) \in Lists \ {"locals", "usages"}
    BY DEF Lists, ListOf
  <2>3. DOMAIN symbols' = Lists
    BY <1>0, <1>2
  <2> QED
    BY <1>1, <2>1, <2>2, <2>3, PassKeeps
<1>3. CASE FillDefinitions
  <2>1. \E s : symbols' = [symbols EXCEPT !["usages"] = s]
    BY <1>3 DEF FillDefinitions
  <2> QED
    BY <1>2, <2>1
<1>4. CASE InferTypes
  <2>1. \E s : symbols' = [symbols EXCEPT !["locals"] = s]
    BY <1>4 DEF InferTypes
  <2> QED
    BY <1>2, <2>1
<1>5. CASE PropagateTypes
  <2>1. \E s : symbols' = [symbols EXCEPT !["usages"] = s]
    BY <1>5 DEF PropagateTypes
  <2> QED
    BY <1>2, <2>1
<1>6. CASE InferReturnTypes
  <2>1. symbols' = [symbols EXCEPT !.methods = [i \in DOMAIN @ |-> InferredReturn(@[i])],
                                   !.functions = [i \in DOMAIN @ |-> InferredReturn(@[i])]]
    BY <1>6 DEF InferReturnTypes
  <2> DEFINE Returns(list) == [i \in DOMAIN list |-> InferredReturn(list[i])]
             once == [symbols EXCEPT !.methods = Returns(symbols.methods)]
  <2>2. symbols' = [once EXCEPT !.functions = Returns(once.functions)]
    BY <2>1, Zenon
  <2>3. DOMAIN once = Lists /\ once.methods = Returns(symbols.methods) /\ \A f \in Lists \ {"methods"} : once[f] = symbols[f]
    BY <1>0 DEF Lists
  <2> HIDE DEF once, Returns
  <2>4. /\ DOMAIN symbols' = Lists /\ symbols'.functions = Returns(once.functions)
        /\ \A f \in Lists \ {"functions"} : symbols'[f] = once[f]
    BY <2>2, <2>3 DEF Lists
  <2>5. /\ symbols'.functions = Returns(symbols.functions) /\ symbols'.methods = Returns(symbols.methods)
        /\ symbols'.namespaces = symbols.namespaces /\ symbols'.imports = symbols.imports
        /\ symbols'.parameters = symbols.parameters
    BY <2>3, <2>4 DEF Lists
  <2>6. \A s : Retyped(InferredReturn(s), s)
    BY Zenon DEF InferredReturn, Retyped
  <2>7. ASSUME NEW k \in {7, 8} PROVE Listed(tree, listener, coming, k, symbols'[ListOf(k)], About(k))
    <3>1. symbols'[ListOf(k)] = Returns(symbols[ListOf(k)])
      BY <2>5 DEF ListOf
    <3>2. Listed(tree, listener, coming, k, symbols[ListOf(k)], About(k)) /\ ~ (listener < k)
      BY <1>1 DEF Kept, Keepers
    <3> DEFINE list == symbols[ListOf(k)]
               more == Returns(list)
    <3>3. more = [i \in DOMAIN list |-> more[i]] /\ \A i \in DOMAIN list : more[i] = InferredReturn(list[i])
      BY DEF Returns
    <3> HIDE DEF list, more
    <3>4. \A i \in DOMAIN list : Retyped(more[i], list[i])
      BY <2>6, <3>3
    <3>5. Listed(tree, listener, coming, k, list, About(k))
      BY <3>2 DEF list
    <3>6. Listed(tree, listener, coming, k, more, About(k))
      BY <3>2, <3>3, <3>4, <3>5, RetypedFacts
    <3> QED
      BY <3>1, <3>6 DEF more, list
  <2> QED
    BY <1>1, <2>4, <2>5, <2>7, PassKeeps
<1> QED
  BY <1>3, <1>4, <1>5, <1>6

\* At first nothing has been told.
LEMMA KeptAtFirst == Init => Kept
<1> SUFFICES ASSUME Init PROVE Kept
  OBVIOUS
<1>1. /\ tree \in PhpTrees /\ walk = Telling(tree) /\ listener = 1 /\ coming = Heard(1, Telling(tree), tree)
      /\ opened = << >> /\ pc = "walking" /\ DOMAIN symbols = Lists /\ \A f \in Lists : symbols[f] = << >>
  BY DEF Init, Lists
<1>2. InOrder(tree, 1, coming) /\ \A call, n : ~ Passed(tree, 1, coming, call, n)
  BY <1>1 DEF InOrder, Passed
<1>3. OpenNodes(tree, 1, coming) = {}
  BY <1>2 DEF OpenNodes
<1>4. IsSeq(<< >>) /\ Len(<< >>) = 0
  <2>1. << >> \in Seq({})
    OBVIOUS
  <2> QED
    BY <2>1, ElementsOfSeq
<1>5. \A about : Standing(tree, 1, coming, << >>, << >>, about)
  BY <1>3, <1>4 DEF Standing, Stacked
<1>6. ASSUME NEW k \in Keepers PROVE Listed(tree, 1, coming, k, << >>, About(k))
  <2>1. \A n \in Nodes(tree) : ~ Added(tree, 1, coming, k, n)
    BY <1>2 DEF Added, NamePassed, Keepers
  <2> QED
    BY <1>4, <2>1 DEF Listed
<1>7. \A k \in Keepers : ListOf(k) \in Lists
  BY DEF Keepers, ListOf, Lists
<1> QED
  BY <1>1, <1>2, <1>5, <1>6, <1>7 DEF Kept

\* Every step keeps it.
LEMMA StepsKeep == Kept /\ Classed /\ [Next]_vars => Kept'
<1> SUFFICES ASSUME Kept, Classed, [Next]_vars PROVE Kept'
  OBVIOUS
<1>1. CASE Listen
  BY <1>1, NamespaceKeeps, MethodKeeps, FunctionKeeps, ParameterKeeps, OthersStep, NextListenerKeeps DEF Listen
<1>2. CASE EndWalks
  BY <1>2, EndWalksKeeps
<1>3. CASE FillDefinitions \/ InferTypes \/ InferReturnTypes \/ PropagateTypes
  BY <1>3, PassesKeep
<1>4. CASE Indexed \/ UNCHANGED vars
  <2>1. UNCHANGED <<tree, walk, listener, coming, opened, symbols, pc>>
    BY <1>4 DEF Indexed, vars
  <2>2. \A k \in Keepers : About(k)' = About(k)
    BY <2>1, AboutStays DEF Keepers
  <2>3. (\A k \in Keepers : Listed(tree, listener, coming, k, symbols[ListOf(k)], About(k)))'
    BY <2>1, <2>2 DEF Kept
  <2>4. (\A k \in Keepers : k = listener => \E nodes : Standing(tree, k, coming, nodes, opened, About(k)))'
    BY <2>1, <2>2 DEF Kept
  <2> QED
    BY <2>1, <2>3, <2>4 DEF Kept
<1> QED
  BY <1>1, <1>2, <1>3, <1>4 DEF Next

-----------------------------------------------------------------------------
(* What the steps do to the lists.                                         *)

\* The actions that change a list.
Changes(f) ==
    CASE f = "classes" -> DeclareClass
      [] f = "properties" -> DeclareProperty \/ TypeByVarDoc
      [] f = "locals" -> DeclareOrUse \/ InferTypes
      [] f = "usages" -> DeclareOrUse \/ FillDefinitions \/ PropagateTypes
      [] f = "references" -> \/ ReferenceInDoc \/ ReferToFunction \/ ReferToMember \/ ReferToStatic
                             \/ EnterClassName \/ LeafClassName
Plain == {"classes", "properties", "locals", "usages", "references"}

\* What there is when the listeners are through, or no step.
Later == EndWalks \/ FillDefinitions \/ InferTypes \/ InferReturnTypes \/ PropagateTypes \/ UNCHANGED vars

\* A step of a listener is told something, but for the one to the next listener.
LEMMA StepFacts ==
  ASSUME [Next]_vars
  PROVE  /\ tree' = tree /\ walk' = walk
         /\ \/ \E of, call, types : Told(of, call, types) /\ (of = "class" => DeclareClass)
            \/ NextListener
            \/ UNCHANGED <<listener, coming>> /\ Later
<1>1. CASE OpenNamespace \/ NameNamespace \/ CloseNamespace
  <2>1. \E call, types : Told("namespace", call, types)
    BY <1>1 DEF OpenNamespace, NameNamespace, CloseNamespace
  <2> QED
    BY <2>1 DEF Told
<1>2. CASE Import \/ DeclareProperty \/ TypeByVarDoc \/ ReferenceInDoc
  <2>1. \E of \in {"import", "property", "varDoc", "docReference"} : \E call, types : Told(of, call, types)
    BY <1>2 DEF Import, DeclareProperty, TypeByVarDoc, ReferenceInDoc
  <2> QED
    BY <2>1 DEF Told
<1>3. CASE DeclareClass
  <2>1. Told("class", "enter", {"class_declaration"})
    BY <1>3 DEF DeclareClass
  <2> QED
    BY <1>3, <2>1 DEF Told
<1>4. CASE OpenMethod \/ NameMethod \/ CloseMethod
  <2>1. \E call, types : Told("method", call, types)
    BY <1>4 DEF OpenMethod, NameMethod, CloseMethod
  <2> QED
    BY <2>1 DEF Told
<1>5. CASE OpenFunction \/ NameFunction \/ CloseFunction
  <2>1. \E call, types : Told("function", call, types)
    BY <1>5 DEF OpenFunction, NameFunction, CloseFunction
  <2> QED
    BY <2>1 DEF Told
<1>6. CASE OpenParameter \/ NameParameter \/ CommitParameter
  <2>1. \E call, types : Told("parameter", call, types)
    BY <1>6 DEF OpenParameter, NameParameter, CommitParameter
  <2> QED
    BY <2>1 DEF Told
<1>7. CASE DeclareOrUse \/ ReferToFunction \/ ReferToMember \/ ReferToStatic \/ OtherName
  <2>1. \E of \in {"variable", "reference"} : \E call, types : Told(of, call, types)
    BY <1>7 DEF DeclareOrUse, ReferToFunction, ReferToMember, ReferToStatic, OtherName
  <2> QED
    BY <2>1 DEF Told
<1>8. CASE EnterClassName \/ LeafClassName
  <2>1. \E call, types : Told("classReference", call, types)
    BY <1>8 DEF EnterClassName, LeafClassName
  <2> QED
    BY <2>1 DEF Told
<1>9. CASE NextListener
  BY <1>9 DEF NextListener
<1>10. CASE EndWalks \/ FillDefinitions \/ InferTypes \/ InferReturnTypes \/ PropagateTypes \/ Indexed \/ UNCHANGED vars
  BY <1>10 DEF EndWalks, FillDefinitions, InferTypes, InferReturnTypes, PropagateTypes, Pass, Indexed, Later, vars
<1> QED
  BY <1>1, <1>2, <1>3, <1>4, <1>5, <1>6, <1>7, <1>8, <1>9, <1>10 DEF Next, Listen

\* A list stays as it is but for its own actions.
LEMMA ListsStay ==
  ASSUME DOMAIN symbols = Lists, [Next]_vars, NEW f \in Plain
  PROVE  Changes(f) \/ symbols'[f] = symbols[f]
<1>0. Plain \subseteq Lists
  BY DEF Plain, Lists
<1>1. ASSUME NEW list \in Lists, list # f,
             \/ symbols' = symbols
             \/ \E s : symbols' = With(list, s)
             \/ \E s : symbols' = [symbols EXCEPT ![list] = s]
      PROVE  symbols'[f] = symbols[f]
  <2>1. Only({list})
    BY <1>1, OnlyFacts
  <2> QED
    BY <1>0, <1>1, <2>1 DEF Only
<1>2. {"namespaces", "imports", "methods", "functions", "parameters"} \cap Plain = {}
      /\ {"namespaces", "imports", "methods", "functions", "parameters"} \subseteq Lists
  BY DEF Plain, Lists
<1>3. CASE OpenNamespace \/ NameNamespace \/ CloseNamespace
  <2>1. symbols' = symbols \/ \E s : symbols' = With("namespaces", s)
    BY <1>3 DEF OpenNamespace, NameNamespace, CloseNamespace, Open, NameAndAdd, Poll
  <2> QED
    BY <1>1, <1>2, <2>1
<1>4. CASE OpenMethod \/ NameMethod \/ CloseMethod
  <2>1. symbols' = symbols \/ \E s : symbols' = With("methods", s)
    BY <1>4 DEF OpenMethod, NameMethod, CloseMethod, Open, NameAndAdd, Poll
  <2> QED
    BY <1>1, <1>2, <2>1
<1>5. CASE OpenFunction \/ NameFunction \/ CloseFunction
  <2>1. symbols' = symbols \/ \E s : symbols' = With("functions", s)
    BY <1>5 DEF OpenFunction, NameFunction, CloseFunction, Open, NameAndAdd, Poll
  <2> QED
    BY <1>1, <1>2, <2>1
<1>6. CASE OpenParameter \/ NameParameter \/ CommitParameter
  <2>1. symbols' = symbols \/ \E s : symbols' = With("parameters", s)
    BY <1>6 DEF OpenParameter, NameParameter, CommitParameter, Open
  <2> QED
    BY <1>1, <1>2, <2>1
<1>7. CASE Import
  <2>1. symbols' = symbols \/ \E s : symbols' = With("imports", s)
    BY <1>7 DEF Import
  <2> QED
    BY <1>1, <1>2, <2>1
<1>8. CASE DeclareClass
  <2>1. symbols' = symbols \/ \E s : symbols' = With("classes", s)
    BY <1>8 DEF DeclareClass
  <2>2. "classes" # f => symbols'[f] = symbols[f]
    BY <1>0, <1>1, <2>1 DEF Plain
  <2> QED
    BY <1>8, <2>2 DEF Changes
<1>9. CASE DeclareProperty \/ TypeByVarDoc
  <2>1. symbols' = symbols \/ (\E s : symbols' = With("properties", s)) \/ \E s : symbols' = [symbols EXCEPT !["properties"] = s]
    BY <1>9 DEF DeclareProperty, TypeByVarDoc
  <2>2. "properties" # f => symbols'[f] = symbols[f]
    BY <1>0, <1>1, <2>1 DEF Plain
  <2> QED
    BY <1>9, <2>2 DEF Changes
<1>10. CASE DeclareOrUse
  <2>1. symbols' = symbols \/ (\E s : symbols' = With("locals", s)) \/ (\E s : symbols' = With("usages", s))
    BY <1>10 DEF DeclareOrUse, Variable
  <2>2. f \notin {"locals", "usages"} => symbols'[f] = symbols[f]
    BY <1>0, <1>1, <2>1 DEF Plain
  <2> QED
    BY <1>10, <2>2 DEF Changes
<1>11. CASE ReferenceInDoc \/ ReferToFunction \/ ReferToMember \/ ReferToStatic \/ EnterClassName \/ LeafClassName
  <2>1. symbols' = symbols \/ (\E s : symbols' = With("references", s)) \/ \E s : symbols' = [symbols EXCEPT !["references"] = s]
    BY <1>11 DEF ReferenceInDoc, ReferToFunction, ReferToMember, ReferToStatic, EnterClassName, LeafClassName, AddClassReference
  <2>2. "references" # f => symbols'[f] = symbols[f]
    BY <1>0, <1>1, <2>1 DEF Plain
  <2> QED
    BY <1>11, <2>2 DEF Changes
<1>12. CASE OtherName \/ NextListener \/ EndWalks \/ Indexed \/ UNCHANGED vars
  BY <1>12 DEF OtherName, NextListener, EndWalks, Indexed, vars
<1>13. CASE InferTypes
  <2>1. \E s : symbols' = [symbols EXCEPT !["locals"] = s]
    BY <1>13 DEF InferTypes
  <2>2. "locals" # f => symbols'[f] = symbols[f]
    BY <1>0, <1>1, <2>1 DEF Plain
  <2> QED
    BY <1>13, <2>2 DEF Changes
<1>14. CASE FillDefinitions \/ PropagateTypes
  <2>1. \E s : symbols' = [symbols EXCEPT !["usages"] = s]
    BY <1>14 DEF FillDefinitions, PropagateTypes
  <2>2. "usages" # f => symbols'[f] = symbols[f]
    BY <1>0, <1>1, <2>1 DEF Plain
  <2> QED
    BY <1>14, <2>2 DEF Changes
<1>15. CASE InferReturnTypes
  <2>1. \E s, d : symbols' = [symbols EXCEPT !["methods"] = s, !["functions"] = d]
    BY <1>15 DEF InferReturnTypes
  <2>2. f # "methods" /\ f # "functions" /\ f \in DOMAIN symbols
    BY <1>0, <1>2
  <2> QED
    BY <2>1, <2>2
<1> QED
  BY <1>3, <1>4, <1>5, <1>6, <1>7, <1>8, <1>9, <1>10, <1>11, <1>12, <1>13, <1>14, <1>15 DEF Next, Listen

-----------------------------------------------------------------------------
(* The list of classes.                                                    *)

\* The place of PhpClassDeclarationListener.
LEMMA ClassPlace ==
  ASSUME NEW l \in 1..12
  PROVE  /\ Listeners[l].of = "class" <=> l = 3
         /\ "class_declaration" \in Listeners[3].hears["enter"]
<1>1. Listeners[l].of = "class" <=> l = 3
  BY DEF Listeners
<1>2. "class_declaration" \in Listeners[3].hears["enter"]
  BY DEF Listeners, Hears
<1> QED
  BY <1>1, <1>2

\* A class.
LEMMA ClassClassed ==
  ASSUME Kept, Classed, DeclareClass
  PROVE  Classed'
<1> DEFINE n == At.node
           name == ChildInField(n, "name")
           s == [kind |-> "class", node |-> name, name |-> Qualify(NamespaceOf(RangeOf(n)), Text(name)), scope |-> RangeOf(n)]
           list == symbols.classes
           more == symbols'.classes
           rest == coming \ {Min(coming)}
<1>1. Told("class", "enter", {"class_declaration"})
  BY DEF DeclareClass
<1>2. /\ tree' = tree /\ listener' = listener /\ coming # {} /\ coming' = rest
      /\ Listeners[listener].of = "class" /\ At.call = "enter" /\ tree.type[n] \in {"class_declaration"}
      /\ At = NextCall(tree, coming) /\ tree \in PhpTrees /\ InOrder(tree, listener, coming) /\ listener \in 1..12
      /\ DOMAIN symbols = Lists /\ n \in Nodes(tree)
  BY <1>1, ToldFacts
<1>3. listener = 3 /\ n \in InPlace(tree)
  BY <1>1, <1>2, ClassPlace, ToldInPlace
<1>4. symbols' = IF name # NONE /\ tree.flag[name] # "error" THEN With("classes", s) ELSE symbols
  BY DEF DeclareClass
<1>5. more = IF IsClass(tree, n) THEN Append(list, s) ELSE list
  <2>1. IsClass(tree, n) <=> name # NONE /\ tree.flag[name] # "error"
    BY <1>2, <1>3 DEF IsClass, ChildInField
  <2>2. "classes" \in Lists
    BY DEF Lists
  <2>3. With("classes", s).classes = Append(list, s)
    <3> HIDE DEF s
    <3> QED
      BY <1>2, <2>2, WithFacts
  <2> HIDE DEF s, name
  <2> QED
    BY <1>4, <2>1, <2>3
<1>6. Describes(tree, s, n)
  BY DEF Describes, ChildInField, RangeOf, RangeIn
<1>7. \A m : Passed(tree, 3, rest, "enter", m) => Passed(tree, 3, coming, "enter", m) \/ m = n
  BY <1>2, <1>3, NextFacts
<1>8. Gathered(tree, 3, coming, list)
  BY <1>3 DEF Classed
<1> HIDE DEF s, more, list, n
<1>9. /\ IsSeq(list) /\ Len(list) \in Nat
      /\ \A i \in 1..Len(list) : \E m \in Nodes(tree) : IsClass(tree, m) /\ Describes(tree, list[i], m)
      /\ \A m \in Nodes(tree) : IsClass(tree, m) /\ Passed(tree, 3, coming, "enter", m) =>
           \E i \in 1..Len(list) : Describes(tree, list[i], m)
  BY <1>8 DEF Gathered, IsSeq
<1>10. CASE ~ IsClass(tree, n)
  <2>1. ASSUME NEW m \in Nodes(tree), IsClass(tree, m), Passed(tree, 3, rest, "enter", m)
        PROVE  \E i \in 1..Len(list) : Describes(tree, list[i], m)
    <3>1. Passed(tree, 3, coming, "enter", m)
      BY <1>7, <1>10, <2>1
    <3> QED
      BY <1>9, <2>1, <3>1
  <2>2. Gathered(tree, 3, rest, list)
    <3>1. IsSeq(list) /\ \A i \in 1..Len(list) : \E m \in Nodes(tree) : IsClass(tree, m) /\ Describes(tree, list[i], m)
      BY <1>9
    <3> HIDE DEF rest
    <3> QED
      BY <2>1, <3>1 DEF Gathered
  <2> QED
    BY <1>2, <1>3, <1>5, <1>10, <2>2 DEF Classed, more
<1>11. CASE IsClass(tree, n)
  <2>1. more = Append(list, s)
    BY <1>5, <1>11
  <2>2. IsSeq(more) /\ Len(more) = Len(list) + 1 /\ more[Len(list) + 1] = s /\ \A i \in 1..Len(list) : more[i] = list[i]
    BY <1>9, <2>1, AppendFacts
  <2>3. \A i \in 1..Len(more) : \E m \in Nodes(tree) : IsClass(tree, m) /\ Describes(tree, more[i], m)
    <3>1. TAKE i \in 1..Len(more)
    <3>2. i \in 1..Len(list) \/ i = Len(list) + 1
      BY <1>9, <2>2
    <3> QED
      BY <1>2, <1>6, <1>9, <1>11, <2>2, <3>2 DEF n
  <2>4. ASSUME NEW m \in Nodes(tree), IsClass(tree, m), Passed(tree, 3, rest, "enter", m)
        PROVE  \E i \in 1..Len(more) : Describes(tree, more[i], m)
    <3>1. CASE m = n
      <4>1. Len(list) + 1 \in 1..Len(more)
        BY <1>9, <2>2
      <4> QED
        BY <1>6, <2>2, <3>1, <4>1
    <3>2. CASE m # n
      <4>1. PICK i \in 1..Len(list) : Describes(tree, list[i], m)
        BY <1>7, <1>9, <2>4, <3>2
      <4>2. i \in 1..Len(more) /\ more[i] = list[i]
        BY <1>9, <2>2
      <4> QED
        BY <4>1, <4>2
    <3> QED
      BY <3>1, <3>2
  <2>5. Gathered(tree, 3, rest, more)
    BY <2>2, <2>3, <2>4 DEF Gathered
  <2> QED
    BY <1>2, <1>3, <2>5 DEF Classed, more
<1> QED
  BY <1>10, <1>11

\* The next one walks.
LEMMA NextListenerClassed ==
  ASSUME Kept, Classed, NextListener
  PROVE  Classed'
<1>1. /\ tree' = tree /\ listener' = listener + 1 /\ coming' = Heard(listener + 1, walk, tree)
      /\ symbols' = symbols /\ coming = {} /\ listener \in 1..12 /\ tree \in PhpTrees /\ walk = Telling(tree)
  BY DEF NextListener, Kept
<1> DEFINE list == symbols.classes
<1>2. Gathered(tree, listener, {}, list)
  BY <1>1 DEF Classed
<1>3. \A m : ~ Passed(tree, 3, Heard(3, Telling(tree), tree), "enter", m)
  BY DEF Passed
<1>4. ASSUME NEW m \in Nodes(tree), IsClass(tree, m) PROVE Passed(tree, 3, {}, "enter", m)
  <2>1. m \in InPlace(tree) /\ tree.type[m] = "class_declaration" /\ "class_declaration" \notin LeafTypes
    BY <1>4 DEF IsClass, LeafTypes
  <2>2. ToldIn(Telling(tree), "enter", m) /\ Telling(tree) \in Seq(AllCalls(tree))
    BY <1>1, <2>1, TellingBrackets
  <2>3. PICK i \in 1..Len(Telling(tree)) : Telling(tree)[i].call = "enter" /\ Telling(tree)[i].node = m
    BY <2>2 DEF ToldIn
  <2>4. i \in Heard(3, Telling(tree), tree)
    BY <1>1, <2>1, <2>2, <2>3, ClassPlace DEF Heard
  <2> QED
    BY <2>3, <2>4 DEF Passed
<1> HIDE DEF list
<1>5. CASE listener = 3
  <2>1. Gathered(tree, 4, coming', list)
    BY <1>2, <1>4, <1>5 DEF Gathered
  <2> QED
    BY <1>1, <1>5, <2>1 DEF Classed, list
<1>6. CASE listener = 2
  <2>1. Gathered(tree, 3, coming', list)
    BY <1>1, <1>2, <1>3, <1>6 DEF Gathered
  <2> QED
    BY <1>1, <1>6, <2>1 DEF Classed, list
<1>7. CASE listener \notin {2, 3}
  <2>1. (listener + 1 < 3 => listener < 3) /\ (3 < listener + 1 => 3 < listener) /\ listener + 1 # 3
    BY <1>1, <1>7
  <2>2. Gathered(tree, listener + 1, coming', list)
    BY <1>2, <2>1 DEF Gathered
  <2> QED
    BY <1>1, <2>2 DEF Classed, list
<1> QED
  BY <1>5, <1>6, <1>7

\* At first there are no classes.
LEMMA ClassedAtFirst == Init => Classed
<1> SUFFICES ASSUME Init PROVE Classed
  OBVIOUS
<1>1. listener = 1 /\ symbols.classes = << >>
  BY DEF Init
<1>2. IsSeq(<< >>) /\ Len(<< >>) = 0
  <2>1. << >> \in Seq({})
    OBVIOUS
  <2> QED
    BY <2>1, ElementsOfSeq
<1> QED
  BY <1>1, <1>2 DEF Classed, Gathered

\* Every step keeps them.
LEMMA StepsClass == Kept /\ Classed /\ [Next]_vars => Classed'
<1> SUFFICES ASSUME Kept, Classed, [Next]_vars PROVE Classed'
  OBVIOUS
<1>1. CASE DeclareClass
  BY <1>1, ClassClassed
<1>2. CASE NextListener
  BY <1>2, NextListenerClassed
<1>3. CASE ~ DeclareClass /\ ~ NextListener
  <2>1. DOMAIN symbols = Lists /\ "classes" \in Plain /\ listener \in 1..12
    BY DEF Kept, Plain
  <2>2. symbols'.classes = symbols.classes
    BY <1>3, <2>1, ListsStay DEF Changes
  <2>3. tree' = tree /\ listener' = listener /\ (coming' = coming \/ listener # 3)
    <3>1. tree' = tree
      BY StepFacts
    <3>2. ASSUME NEW of, NEW call, NEW types, Told(of, call, types), of = "class" => DeclareClass
          PROVE  listener' = listener /\ listener # 3
      BY <1>3, <2>1, <3>2, ClassPlace DEF Told
    <3>3. (\E of, call, types : Told(of, call, types) /\ (of = "class" => DeclareClass)) \/ UNCHANGED <<listener, coming>>
      BY <1>3, StepFacts
    <3> QED
      BY <3>1, <3>2, <3>3
  <2>4. Gathered(tree, listener, coming, symbols.classes)
    BY DEF Classed
  <2>5. Gathered(tree, listener, coming', symbols.classes)
    BY <2>3, <2>4 DEF Gathered
  <2> QED
    BY <2>2, <2>3, <2>5 DEF Classed
<1> QED
  BY <1>1, <1>2, <1>3

\* When the walks are over the lists are what they have to be.
LEMMA KeptIsOwn ==
  ASSUME \A t \in PhpTrees : NamesAreFirst(t), Kept
  PROVE  NamesAreOwn
<1> SUFFICES ASSUME pc # "walking" PROVE NamesAreOwn
  BY DEF NamesAreOwn
<1>1. /\ listener = 12 /\ tree \in PhpTrees /\ NamesAreFirst(tree)
      /\ \A k \in Keepers : Listed(tree, listener, coming, k, symbols[ListOf(k)], About(k))
  BY DEF Kept
<1>2. ASSUME NEW k \in Keepers
      PROVE  /\ {Own(s) : s \in ToSet(symbols[ListOf(k)])} = NamedNodes(DeclaredBy(k))
             /\ \A s \in ToSet(symbols[ListOf(k)]) :
                  /\ s.node = ChildInField(Own(s), "name") /\ Own(s) \in Nodes(tree)
                  /\ Shaped(k, s, About(k)[Own(s)])
  <2> DEFINE list == symbols[ListOf(k)]
             elements == ToSet(list)
  <2>1. /\ IsSeq(list) /\ \A i \in 1..Len(list) : \E n \in Nodes(tree) : EntryOf(tree, k, list[i], n, About(k))
        /\ \A n \in Nodes(tree) : IsNamed(tree, k, n) => \E i \in 1..Len(list) : list[i].node = NameOf(tree, n)
    <3>1. Listed(tree, listener, coming, k, list, About(k))
      BY <1>1
    <3> HIDE DEF list
    <3>2. \A n : Added(tree, listener, coming, k, n)
      BY <1>1 DEF Added, Keepers
    <3> QED
      BY <3>1, <3>2 DEF Listed
  <2>2. elements = {list[i] : i \in 1..Len(list)}
    BY <2>1 DEF ToSet, IsSeq
  <2> HIDE DEF elements, list
  <2>3. ASSUME NEW s \in elements
        PROVE  /\ s.node = ChildInField(Own(s), "name") /\ Own(s) \in Nodes(tree)
               /\ Shaped(k, s, About(k)[Own(s)]) /\ Own(s) \in NamedNodes(DeclaredBy(k))
    <3>1. PICK n \in Nodes(tree) : EntryOf(tree, k, s, n, About(k))
      BY <2>1, <2>2
    <3>2. /\ n \in InPlace(tree) /\ tree.type[n] \in DeclaredBy(k) /\ Names(tree, n) # {} /\ s.node = NameOf(tree, n)
          /\ Shaped(k, s, About(k)[n])
      BY <3>1 DEF EntryOf, IsNamed
    <3>3. HasName(tree, n) /\ NameOf(tree, n) = InField(tree, n, "name") /\ tree.parent[NameOf(tree, n)] = n
      BY <1>1, <3>2, FirstIsName
    <3>4. Own(s) = n
      BY <3>2, <3>3 DEF Own
    <3> QED
      BY <3>2, <3>3, <3>4 DEF ChildInField, NamedNodes
  <2>4. ASSUME NEW n \in NamedNodes(DeclaredBy(k)) PROVE \E s \in elements : Own(s) = n
    <3>1. n \in InPlace(tree) /\ tree.type[n] \in DeclaredBy(k) /\ HasName(tree, n) /\ n \in Nodes(tree)
      BY DEF NamedNodes, InPlace
    <3>2. Names(tree, n) # {} /\ tree.parent[NameOf(tree, n)] = n
      BY <1>1, <3>1, FirstIsName
    <3>3. PICK i \in 1..Len(list) : list[i].node = NameOf(tree, n)
      BY <2>1, <3>1, <3>2 DEF IsNamed
    <3> QED
      BY <2>2, <3>2, <3>3 DEF Own
  <2>5. {Own(s) : s \in elements} = NamedNodes(DeclaredBy(k))
    BY <2>3, <2>4
  <2> QED
    BY <2>3, <2>5 DEF elements, list
<1>3. /\ ListOf(1) = "namespaces" /\ ListOf(7) = "methods" /\ ListOf(8) = "functions" /\ ListOf(9) = "parameters"
      /\ DeclaredBy(7) = {"method_declaration"} /\ DeclaredBy(8) = {"function_definition"} /\ DeclaredBy(9) = Parameters
      /\ {1, 7, 8, 9} \subseteq Keepers
  BY DEF ListOf, DeclaredBy, Keepers
<1>4. /\ {Own(s) : s \in ToSet(symbols.methods)} = NamedNodes({"method_declaration"})
      /\ {Own(s) : s \in ToSet(symbols.functions)} = NamedNodes({"function_definition"})
      /\ {Own(s) : s \in ToSet(symbols.parameters)} = NamedNodes(Parameters)
  <2>1. {Own(s) : s \in ToSet(symbols.methods)} = NamedNodes({"method_declaration"})
    BY <1>2, <1>3
  <2>2. {Own(s) : s \in ToSet(symbols.functions)} = NamedNodes({"function_definition"})
    BY <1>2, <1>3
  <2>3. {Own(s) : s \in ToSet(symbols.parameters)} = NamedNodes(Parameters)
    BY <1>2, <1>3
  <2> QED
    BY <2>1, <2>2, <2>3
<1>5. \A s \in Entries({"methods", "functions"}) : s.scope = RangeOf(Own(s))
  <2>1. SUFFICES ASSUME NEW k \in {7, 8}, NEW s \in ToSet(symbols[ListOf(k)]) PROVE s.scope = RangeOf(Own(s))
    BY <1>3 DEF Entries
  <2>2. Shaped(k, s, About(k)[Own(s)]) /\ Own(s) \in Nodes(tree)
    BY <1>2, <1>3
  <2>3. About(k)[Own(s)].of = RangeOf(Own(s))
    BY <2>2 DEF About
  <2>4. s.scope = About(k)[Own(s)].of
    BY <2>2 DEF Shaped
  <2> QED
    BY <2>3, <2>4
<1>6. \A s \in Entries({"methods", "functions", "parameters", "namespaces"}) : s.node = ChildInField(Own(s), "name")
  <2>1. SUFFICES ASSUME NEW k \in Keepers, NEW s \in ToSet(symbols[ListOf(k)]) PROVE s.node = ChildInField(Own(s), "name")
    BY <1>3 DEF Entries
  <2> QED
    BY <1>2
<1>7. \A s \in ToSet(symbols.parameters) : s.type = TypeInField(Own(s), "type")
  <2>1. TAKE s \in ToSet(symbols.parameters)
  <2>2. Shaped(9, s, About(9)[Own(s)]) /\ Own(s) \in Nodes(tree)
    BY <1>2, <1>3
  <2>3. About(9)[Own(s)].of = TypeInField(Own(s), "type")
    BY <2>2 DEF About
  <2>4. s.type = About(9)[Own(s)].of
    BY <2>2 DEF Shaped
  <2> QED
    BY <2>3, <2>4
<1> QED
  BY <1>4, <1>5, <1>6, <1>7 DEF NamesAreOwn

\* When the walks are over, exactly the methods, functions and parameters that have
\* a name are in the lists, each under its own name and with its own scope or type,
\* however deep they are nested: in every tree in which the first name of its kind
\* right below a declaration is its name.
THEOREM NamesStayOwn ==
  ASSUME \A t \in PhpTrees : NamesAreFirst(t)
  PROVE  Spec => []NamesAreOwn
<1> DEFINE Inv == Kept /\ Classed
<1>1. Init => Inv
  BY KeptAtFirst, ClassedAtFirst
<1>2. Inv /\ [Next]_vars => Inv'
  BY StepsKeep, StepsClass
<1>3. Inv => NamesAreOwn
  BY KeptIsOwn
<1> QED
  BY <1>1, <1>2, <1>3, PTL DEF Spec

-----------------------------------------------------------------------------
(* The members of expressions.                                             *)

\* What stands in a node is before the next one beside it.
LEMMA BesideIsBehind ==
  ASSUME NEW t \in PhpTrees, NEW o \in Nodes(t) \ {ROOT}, NEW c \in Nodes(t) \ {ROOT}, t.parent[o] = t.parent[c], o < c,
         NEW m \in Nodes(t), o \in Up(t)[m]
  PROVE  m < c
<1> SUFFICES ASSUME ~ (m < c) PROVE FALSE
  OBVIOUS
<1>1. o \in Nat /\ c \in Nat /\ m \in Nat /\ o <= c /\ c <= m
  BY NodeFacts
<1>2. o \in Up(t)[c]
  BY <1>1, UpIsInterval
<1>3. Up(t)[c] = Up(t)[t.parent[c]] \cup {c}
  BY UpFacts
<1>4. o \in Up(t)[t.parent[c]]
  BY <1>1, <1>2, <1>3
<1>5. t.parent[o] \in Nodes(t) /\ t.parent[o] < o
  BY NodeFacts
<1>6. o <= t.parent[o] /\ t.parent[o] \in Nat
  BY <1>4, <1>5, UpIsClosed, NodeFacts
<1> QED
  BY <1>1, <1>5, <1>6

ObjectOf(t, c) == InField(t, t.parent[c], "object")
ReceiverOf(t, c) == IF IsMember(t, ObjectOf(t, c)) THEN InField(t, ObjectOf(t, c), "name") ELSE NONE

\* The name of a member, and its object.
LEMMA MemberFacts ==
  ASSUME NEW t \in PhpTrees, MembersAreWhole(t), NEW c \in MemberNames(t)
  PROVE  /\ c \in Nodes(t) /\ c # ROOT /\ c \in InPlace(t) /\ t.type[c] = "name" /\ ToldIn(Telling(t), "leaf", c)
         /\ t.parent[c] \in Nodes(t) /\ t.parent[c] \in InPlace(t) /\ t.type[t.parent[c]] \in Accesses \cup Calls
         /\ t.flag[c] = "named" /\ c = InField(t, t.parent[c], "name") /\ IsMember(t, t.parent[c])
         /\ ObjectOf(t, c) # NONE => /\ ObjectOf(t, c) \in Nodes(t) /\ t.parent[ObjectOf(t, c)] = t.parent[c]
                                     /\ ObjectOf(t, c) # ROOT /\ ObjectOf(t, c) < c
<1> DEFINE p == t.parent[c]
           o == ObjectOf(t, c)
<1>1. /\ c \in InPlace(t) /\ c # ROOT /\ t.type[c] = "name" /\ p \in InPlace(t) /\ t.type[p] \in Accesses \cup Calls
      /\ c \in Nodes(t) /\ p \in Nodes(t)
  BY DEF MemberNames, Expressions, InPlace
<1>2. c = InField(t, p, "name") /\ (o # NONE => o < c)
  BY DEF MembersAreWhole, ObjectOf
<1>3. t.flag[c] = "named"
  BY <1>1, InPlaceFacts
<1>4. "name" \in LeafTypes
  BY DEF LeafTypes
<1>5. ToldIn(Telling(t), "leaf", c)
  BY <1>1, <1>4, TellingBrackets
<1>6. p # NONE /\ c # NONE
  BY <1>1, NodeFacts, NoneAssumption
<1>7. IsMember(t, p)
  BY <1>1, <1>2, <1>3, <1>6 DEF IsMember, HasName
<1>8. o # NONE => o \in Nodes(t) /\ t.parent[o] = p
  BY FieldFacts DEF ObjectOf
<1>9. o # NONE => o # ROOT
  BY <1>1, <1>8, NodeFacts
<1> QED
  BY <1>1, <1>2, <1>3, <1>5, <1>7, <1>8, <1>9

\* An object that is a member comes before it with its name.
LEMMA ReceiverFacts ==
  ASSUME NEW t \in PhpTrees, MembersAreWhole(t), NEW c \in MemberNames(t), IsMember(t, ObjectOf(t, c))
  PROVE  /\ ReceiverOf(t, c) \in MemberNames(t) /\ t.parent[ReceiverOf(t, c)] = ObjectOf(t, c) /\ ReceiverOf(t, c) < c
         /\ t.type[ObjectOf(t, c)] \in Accesses \cup Calls /\ ReceiverOf(t, c) # NONE /\ ObjectOf(t, c) # NONE
<1> DEFINE o == ObjectOf(t, c)
           m == InField(t, o, "name")
<1>1. o # NONE /\ t.type[o] \in Accesses \cup Calls /\ HasName(t, o) /\ t.type[m] = "name"
  BY DEF IsMember
<1>2. /\ o \in Nodes(t) /\ t.parent[o] = t.parent[c] /\ o # ROOT /\ o < c /\ c \in Nodes(t) /\ c # ROOT
      /\ t.parent[c] \in InPlace(t)
  BY <1>1, MemberFacts
<1>3. t.flag[o] = "named"
  BY <1>1 DEF MembersAreWhole, ObjectOf
<1>4. o \in InPlace(t) /\ o \in Expressions(t)
  BY <1>1, <1>2, <1>3, InPlaceFacts DEF Expressions
<1>5. m # NONE /\ t.flag[m] = "named"
  BY <1>1 DEF HasName
<1>6. m \in Nodes(t) /\ t.parent[m] = o
  BY <1>5, FieldFacts
<1>7. m # ROOT
  BY <1>2, <1>6, NodeFacts
<1>8. m \in InPlace(t)
  BY <1>4, <1>5, <1>6, <1>7, InPlaceFacts
<1>9. m \in MemberNames(t)
  BY <1>1, <1>4, <1>6, <1>7, <1>8 DEF MemberNames
<1>10. o \in Up(t)[m]
  <2>1. Up(t)[m] = Up(t)[o] \cup {m}
    BY <1>6, <1>7, UpFacts
  <2> QED
    BY <1>2, <2>1, UpIsClosed
<1>11. m < c
  <2> HIDE DEF o, m
  <2> QED
    BY <1>2, <1>6, <1>10, BesideIsBehind
<1>12. ReceiverOf(t, c) = m
  BY DEF ReceiverOf
<1> QED
  BY <1>1, <1>5, <1>6, <1>9, <1>11, <1>12

\* A member is that of one expression, and that the object of one at most.
LEMMA MembersDiffer ==
  ASSUME NEW t \in PhpTrees, MembersAreWhole(t), NEW c \in MemberNames(t), NEW d \in MemberNames(t)
  PROVE  /\ t.parent[c] = t.parent[d] => c = d
         /\ ObjectOf(t, c) # NONE /\ ObjectOf(t, c) = ObjectOf(t, d) => c = d
         /\ ObjectOf(t, c) = t.parent[d] => d < c
<1>1. c = InField(t, t.parent[c], "name") /\ d = InField(t, t.parent[d], "name")
  BY MemberFacts
<1>2. ASSUME ObjectOf(t, c) # NONE, ObjectOf(t, c) = ObjectOf(t, d) PROVE t.parent[c] = t.parent[d]
  BY <1>2, MemberFacts
<1>3. ASSUME ObjectOf(t, c) = t.parent[d] PROVE d < c
  <2>1. t.parent[d] # NONE /\ IsMember(t, t.parent[d])
    BY MemberFacts DEF IsMember
  <2>2. ReceiverOf(t, c) < c
    BY <1>3, <2>1, ReceiverFacts
  <2> QED
    BY <1>1, <1>3, <2>1, <2>2 DEF ReceiverOf
<1> QED
  BY <1>1, <1>2, <1>3

-----------------------------------------------------------------------------
(* What PhpReferenceListener has found, and the members it holds.          *)

\* It has been told the name of the member, or is through.
Referred(t, l, todo, c) == c \in MemberNames(t) /\ (l = 12 \/ (l = 11 /\ Passed(t, 11, todo, "leaf", c)))

\* A reference to a member that it has come to.
MemberEntry(t, l, todo, r) ==
    /\ Referred(t, l, todo, r.node) /\ r.receiver = ReceiverOf(t, r.node)
    /\ r.receiver # NONE => r.variable = NONE /\ Referred(t, l, todo, r.receiver)

\* There is one to each of them, and only one.
Linked(t, l, todo, list) ==
    /\ IsSeq(list)
    /\ \A i \in 1..Len(list) : list[i].kind \in MemberKinds => MemberEntry(t, l, todo, list[i])
    /\ \A c : Referred(t, l, todo, c) => \E i \in 1..Len(list) : list[i].kind \in MemberKinds /\ list[i].node = c
    /\ \A i, j \in 1..Len(list) :
         list[i].kind \in MemberKinds /\ list[j].kind \in MemberKinds /\ list[i].node = list[j].node => i = j

\* It holds those that no other has taken as its receiver.
Held(t, l, todo, map) ==
    l = 11 =>
      /\ \A e : e \in DOMAIN map <=>
           /\ \E c : Referred(t, l, todo, c) /\ t.parent[c] = e
           /\ \A c : Referred(t, l, todo, c) => ObjectOf(t, c) # e
      /\ \A e \in DOMAIN map : map[e] = InField(t, e, "name")

\* Other references do not matter.
LEMMA LinkedMore ==
  ASSUME NEW t, NEW l, NEW todo, NEW k, NEW rest, NEW list, Linked(t, l, todo, list), NEW more, IsSeq(more),
         \A c : Referred(t, k, rest, c) <=> Referred(t, l, todo, c),
         Len(list) <= Len(more), \A i \in 1..Len(list) : more[i] = list[i],
         \A i \in (Len(list) + 1)..Len(more) : more[i].kind \notin MemberKinds
  PROVE  Linked(t, k, rest, more)
<1>1. IsSeq(list) /\ Len(list) \in Nat /\ Len(more) \in Nat
  BY DEF Linked, IsSeq
<1>2. ASSUME NEW i \in 1..Len(more), more[i].kind \in MemberKinds PROVE i \in 1..Len(list) /\ more[i] = list[i]
  BY <1>1, <1>2
<1>3. ASSUME NEW i \in 1..Len(more), more[i].kind \in MemberKinds PROVE MemberEntry(t, k, rest, more[i])
  <2>1. MemberEntry(t, l, todo, more[i])
    BY <1>2, <1>3 DEF Linked
  <2> QED
    BY <2>1 DEF MemberEntry
<1>4. ASSUME NEW c, Referred(t, k, rest, c) PROVE \E i \in 1..Len(more) : more[i].kind \in MemberKinds /\ more[i].node = c
  <2>1. PICK i \in 1..Len(list) : list[i].kind \in MemberKinds /\ list[i].node = c
    BY <1>4 DEF Linked
  <2>2. i \in 1..Len(more) /\ more[i] = list[i]
    BY <1>1
  <2> QED
    BY <2>1, <2>2
<1>5. ASSUME NEW i \in 1..Len(more), NEW j \in 1..Len(more), more[i].kind \in MemberKinds, more[j].kind \in MemberKinds,
             more[i].node = more[j].node
      PROVE  i = j
  BY <1>2, <1>5 DEF Linked
<1> QED
  BY <1>3, <1>4, <1>5 DEF Linked

\* None more.
LEMMA LinkedStays ==
  ASSUME NEW t, NEW l, NEW todo, NEW k, NEW rest, NEW list, Linked(t, l, todo, list),
         \A c : Referred(t, k, rest, c) <=> Referred(t, l, todo, c)
  PROVE  Linked(t, k, rest, list)
<1>1. IsSeq(list) /\ Len(list) \in Nat
  BY DEF Linked, IsSeq
<1>2. Len(list) <= Len(list) /\ \A i \in (Len(list) + 1)..Len(list) : list[i].kind \notin MemberKinds
  BY <1>1
<1> QED
  BY <1>1, <1>2, LinkedMore

\* One that is no member's.
LEMMA LinkedOther ==
  ASSUME NEW t, NEW l, NEW todo, NEW k, NEW rest, NEW list, Linked(t, l, todo, list),
         \A c : Referred(t, k, rest, c) <=> Referred(t, l, todo, c), NEW r, r.kind \notin MemberKinds
  PROVE  Linked(t, k, rest, Append(list, r))
<1>1. IsSeq(list) /\ Len(list) \in Nat
  BY DEF Linked, IsSeq
<1>2. /\ IsSeq(Append(list, r)) /\ Len(Append(list, r)) = Len(list) + 1 /\ Append(list, r)[Len(list) + 1] = r
      /\ \A i \in 1..Len(list) : Append(list, r)[i] = list[i]
  BY <1>1, AppendFacts
<1> DEFINE more == Append(list, r)
<1> HIDE DEF more
<1>3. Len(list) <= Len(more) /\ \A i \in (Len(list) + 1)..Len(more) : more[i].kind \notin MemberKinds
  BY <1>1, <1>2 DEF more
<1> QED
  BY <1>2, <1>3, LinkedMore DEF more

\* It is told the name of a member.
LEMMA ReferredNext ==
  ASSUME NEW t \in PhpTrees, MembersAreWhole(t), NEW todo, InOrder(t, 11, todo), todo # {},
         NextCall(t, todo).call = "leaf", NextCall(t, todo).node \in MemberNames(t)
  PROVE  LET n == NextCall(t, todo).node
         IN  /\ \A c : Referred(t, 11, todo \ {Min(todo)}, c) <=> Referred(t, 11, todo, c) \/ c = n
             /\ \A c : Referred(t, 11, todo, c) => c < n
             /\ \A c \in MemberNames(t) : c < n => Referred(t, 11, todo, c)
<1> DEFINE n == NextCall(t, todo).node
<1>1. 11 \in 1..12 /\ IsOpening(NextCall(t, todo)) /\ "name" \in Listeners[11].hears["leaf"]
  BY DEF IsOpening, Listeners, Hears
<1>2. \A c : Passed(t, 11, todo \ {Min(todo)}, "leaf", c) <=> Passed(t, 11, todo, "leaf", c) \/ c = n
  BY <1>1, NextFacts
<1>3. /\ \A c : Passed(t, 11, todo, "leaf", c) => c < n
      /\ \A c : /\ c \in InPlace(t) /\ c < n /\ ToldIn(Telling(t), "leaf", c) /\ t.type[c] \in Listeners[11].hears["leaf"]
                => Passed(t, 11, todo, "leaf", c)
  BY <1>1, OpenAround
<1>4. ASSUME NEW c \in MemberNames(t), c < n PROVE Referred(t, 11, todo, c)
  <2>1. c \in InPlace(t) /\ t.type[c] = "name" /\ ToldIn(Telling(t), "leaf", c)
    BY MemberFacts
  <2> QED
    BY <1>1, <1>3, <1>4, <2>1 DEF Referred
<1>5. \A c : Referred(t, 11, todo \ {Min(todo)}, c) <=> Referred(t, 11, todo, c) \/ c = n
  BY <1>2 DEF Referred
<1>6. \A c : Referred(t, 11, todo, c) => c < n
  BY <1>3 DEF Referred
<1> QED
  BY <1>4, <1>5, <1>6

\* The member that its object is, if it is one, is held.
LEMMA ReceiverIsHeld ==
  ASSUME NEW t \in PhpTrees, MembersAreWhole(t), NEW todo, InOrder(t, 11, todo), todo # {},
         NextCall(t, todo).call = "leaf", NEW n \in MemberNames(t), n = NextCall(t, todo).node,
         NEW map, Held(t, 11, todo, map)
  PROVE  /\ ReceiverOf(t, n) = IF ObjectOf(t, n) \in DOMAIN map THEN map[ObjectOf(t, n)] ELSE NONE
         /\ ReceiverOf(t, n) # NONE => Referred(t, 11, todo, ReceiverOf(t, n)) /\ t.type[ObjectOf(t, n)] # "variable_name"
<1> DEFINE o == ObjectOf(t, n)
           m == ReceiverOf(t, n)
<1>1. /\ \A c : Referred(t, 11, todo, c) => c < n
      /\ \A c \in MemberNames(t) : c < n => Referred(t, 11, todo, c)
      /\ \A c : Referred(t, 11, todo, c) => c \in MemberNames(t)
  BY ReferredNext DEF Referred
<1>2. CASE IsMember(t, o)
  <2>1. /\ m \in MemberNames(t) /\ t.parent[m] = o /\ m < n
        /\ t.type[o] \in Accesses \cup Calls /\ m # NONE /\ o # NONE
    BY <1>2, ReceiverFacts
  <2>2. Referred(t, 11, todo, m)
    BY <1>1, <2>1
  <2>3. ASSUME NEW c, Referred(t, 11, todo, c), ObjectOf(t, c) = o PROVE FALSE
    <3>1. c \in MemberNames(t) /\ c < n /\ n \in Nodes(t)
      BY <1>1, <2>3, MemberFacts
    <3>2. c = n
      BY <2>1, <2>3, <3>1, MembersDiffer
    <3> QED
      BY <3>1, <3>2, NodeFacts
  <2>4. o \in DOMAIN map /\ map[o] = InField(t, o, "name")
    BY <2>1, <2>2, <2>3 DEF Held
  <2>5. "variable_name" \notin Accesses \cup Calls
    BY DEF Accesses, Calls
  <2> QED
    BY <1>2, <2>1, <2>2, <2>4, <2>5 DEF ReceiverOf
<1>3. CASE ~ IsMember(t, o)
  <2>1. ASSUME o \in DOMAIN map PROVE FALSE
    <3>1. PICK c : Referred(t, 11, todo, c) /\ t.parent[c] = o
      BY <2>1 DEF Held
    <3> QED
      BY <1>1, <1>3, <3>1, MemberFacts
  <2> QED
    BY <1>3, <2>1 DEF ReceiverOf
<1> QED
  BY <1>2, <1>3

\* What it holds when it has come to another.
Holding(t, map, n) ==
    [e \in (DOMAIN map \ {ObjectOf(t, n)}) \cup {t.parent[n]} |-> IF e = t.parent[n] THEN n ELSE map[e]]

\* It refers to the member and holds it instead of its receiver.
LEMMA MemberIsLinked ==
  ASSUME NEW t \in PhpTrees, MembersAreWhole(t), NEW todo, InOrder(t, 11, todo), todo # {},
         NextCall(t, todo).call = "leaf", NEW n \in MemberNames(t), n = NextCall(t, todo).node,
         NEW list, Linked(t, 11, todo, list), NEW map, Held(t, 11, todo, map),
         NEW r, r.kind \in MemberKinds, r.node = n,
         r.receiver = IF ObjectOf(t, n) \in DOMAIN map THEN map[ObjectOf(t, n)] ELSE NONE,
         t.type[ObjectOf(t, n)] # "variable_name" => r.variable = NONE
  PROVE  /\ Linked(t, 11, todo \ {Min(todo)}, Append(list, r))
         /\ Held(t, 11, todo \ {Min(todo)}, Holding(t, map, n))
<1> DEFINE o == ObjectOf(t, n)
           p == t.parent[n]
           rest == todo \ {Min(todo)}
           more == Append(list, r)
           held == Holding(t, map, n)
<1>1. /\ \A c : Referred(t, 11, rest, c) <=> Referred(t, 11, todo, c) \/ c = n
      /\ \A c : Referred(t, 11, todo, c) => c < n /\ c \in MemberNames(t) /\ c \in Nodes(t)
  <2>1. /\ \A c : Referred(t, 11, rest, c) <=> Referred(t, 11, todo, c) \/ c = n
        /\ \A c : Referred(t, 11, todo, c) => c < n
    BY ReferredNext
  <2>2. \A c : Referred(t, 11, todo, c) => c \in MemberNames(t)
    BY DEF Referred
  <2> QED
    BY <2>1, <2>2, MemberFacts
<1>2. /\ n \in Nodes(t) /\ p \in Nodes(t) /\ n = InField(t, p, "name") /\ Nodes(t) \subseteq Nat /\ IsMember(t, p)
      /\ o # NONE => t.parent[o] = p /\ o \in Nodes(t) /\ o # ROOT
  BY MemberFacts, NodeFacts
<1>3. ~ Referred(t, 11, todo, n)
  BY <1>1, <1>2
<1>4. r.receiver = ReceiverOf(t, n) /\ (r.receiver # NONE => r.variable = NONE /\ Referred(t, 11, todo, r.receiver))
  BY ReceiverIsHeld
<1>5. Linked(t, 11, rest, more)
  <2>1. IsSeq(list) /\ Len(list) \in Nat
    BY DEF Linked, IsSeq
  <2>2. /\ IsSeq(more) /\ Len(more) = Len(list) + 1 /\ more[Len(list) + 1] = r
        /\ \A i \in 1..Len(list) : more[i] = list[i]
    BY <2>1, AppendFacts
  <2> HIDE DEF more, rest
  <2>3. \A i \in 1..Len(more) : i = Len(list) + 1 \/ i \in 1..Len(list)
    BY <2>1, <2>2
  <2>4. MemberEntry(t, 11, rest, r)
    BY <1>1, <1>4 DEF MemberEntry
  <2>5. ASSUME NEW i \in 1..Len(list), list[i].kind \in MemberKinds
        PROVE  MemberEntry(t, 11, rest, list[i]) /\ Referred(t, 11, todo, list[i].node)
    <3>1. MemberEntry(t, 11, todo, list[i])
      BY <2>5 DEF Linked
    <3> QED
      BY <1>1, <3>1 DEF MemberEntry
  <2>6. \A i \in 1..Len(more) : more[i].kind \in MemberKinds => MemberEntry(t, 11, rest, more[i])
    BY <2>2, <2>3, <2>4, <2>5
  <2>7. ASSUME NEW c, Referred(t, 11, rest, c) PROVE \E i \in 1..Len(more) : more[i].kind \in MemberKinds /\ more[i].node = c
    <3>1. CASE c = n
      <4>1. Len(list) + 1 \in 1..Len(more)
        BY <2>1, <2>2
      <4> QED
        BY <2>2, <3>1, <4>1
    <3>2. CASE Referred(t, 11, todo, c)
      <4>1. PICK i \in 1..Len(list) : list[i].kind \in MemberKinds /\ list[i].node = c
        BY <3>2 DEF Linked
      <4>2. i \in 1..Len(more)
        BY <2>1, <2>2
      <4> QED
        BY <2>2, <4>1, <4>2
    <3> QED
      BY <1>1, <2>7, <3>1, <3>2
  <2>8. ASSUME NEW i \in 1..Len(more), NEW j \in 1..Len(more), more[i].kind \in MemberKinds, more[j].kind \in MemberKinds,
               more[i].node = more[j].node
        PROVE  i = j
    <3>1. \A k \in 1..Len(list) : list[k].kind \in MemberKinds => list[k].node # n
      BY <1>3, <2>5
    <3>2. CASE i \in 1..Len(list) /\ j \in 1..Len(list)
      BY <2>2, <2>8, <3>2 DEF Linked
    <3>3. CASE i = Len(list) + 1 \/ j = Len(list) + 1
      BY <2>2, <2>3, <2>8, <3>1, <3>3
    <3> QED
      BY <2>3, <3>2, <3>3
  <2> QED
    BY <2>2, <2>6, <2>7, <2>8 DEF Linked
<1>6. Held(t, 11, rest, held)
  <2>1. DOMAIN held = (DOMAIN map \ {o}) \cup {p} /\ \A e \in DOMAIN held : held[e] = IF e = p THEN n ELSE map[e]
    BY DEF Holding
  <2> HIDE DEF held, rest
  <2>2. ASSUME NEW c, Referred(t, 11, rest, c), ObjectOf(t, c) = p PROVE FALSE
    <3>1. c \in MemberNames(t) /\ c \in Nodes(t) /\ c <= n
      BY <1>1, <1>2, <2>2
    <3>2. n < c
      BY <2>2, <3>1, MembersDiffer
    <3> QED
      BY <1>2, <3>1, <3>2
  <2>3. ASSUME NEW e
        PROVE  e \in DOMAIN held <=> /\ \E c : Referred(t, 11, rest, c) /\ t.parent[c] = e
                                     /\ \A c : Referred(t, 11, rest, c) => ObjectOf(t, c) # e
    <3>1. CASE e = p
      BY <1>1, <2>1, <2>2, <3>1
    <3>2. CASE e # p
      <4>1. e \in DOMAIN map <=> /\ \E c : Referred(t, 11, todo, c) /\ t.parent[c] = e
                                 /\ \A c : Referred(t, 11, todo, c) => ObjectOf(t, c) # e
        BY DEF Held
      <4>2. e \in DOMAIN held <=> e \in DOMAIN map /\ e # o
        BY <2>1, <3>2
      <4> QED
        BY <1>1, <3>2, <4>1, <4>2
    <3> QED
      BY <3>1, <3>2
  <2>4. ASSUME NEW e \in DOMAIN held PROVE held[e] = InField(t, e, "name")
    <3>1. CASE e = p
      BY <1>2, <2>1, <3>1
    <3>2. CASE e # p
      BY <2>1, <3>2 DEF Held
    <3> QED
      BY <3>1, <3>2
  <2> QED
    BY <2>3, <2>4 DEF Held
<1> QED
  BY <1>5, <1>6

-----------------------------------------------------------------------------
(* The chains while the listeners walk.                                    *)

Chained ==
    /\ Linked(tree, listener, coming, symbols.references)
    /\ Held(tree, listener, coming, members)

\* Only what PhpReferenceListener is told changes what has been referred to.
LEMMA ReferredStays ==
  ASSUME NEW t, NEW l, NEW todo, NEW rest, l # 11
  PROVE  \A c : Referred(t, l, rest, c) <=> Referred(t, l, todo, c)
BY DEF Referred

\* The place of PhpReferenceListener.
LEMMA ReferencePlace ==
  ASSUME NEW l \in 1..12
  PROVE  Listeners[l].of = "reference" <=> l = 11
BY DEF Listeners

\* A step of another listener, which adds no member.
LEMMA ElsewhereChained ==
  ASSUME Kept, Chained, NEW of, NEW call, NEW types, Told(of, call, types), of # "reference",
         \/ symbols'.references = symbols.references
         \/ \E r : r.kind \notin MemberKinds /\ symbols'.references = Append(symbols.references, r)
  PROVE  Chained'
<1>1. tree' = tree /\ listener' = listener /\ Listeners[listener].of = of /\ listener \in 1..12
  BY ToldFacts
<1>2. listener # 11
  BY <1>1, ReferencePlace
<1>3. \A c : Referred(tree, listener, coming', c) <=> Referred(tree, listener, coming, c)
  BY <1>2, ReferredStays
<1>4. Linked(tree, listener, coming, symbols.references)
  BY DEF Chained
<1>5. Linked(tree, listener, coming', symbols'.references)
  BY <1>3, <1>4, LinkedStays, LinkedOther
<1> QED
  BY <1>1, <1>2, <1>5 DEF Chained, Held

\* A step that changes another list.
LEMMA ReferencesStay ==
  ASSUME DOMAIN symbols = Lists, NEW list \in Lists \ {"references"},
         \/ symbols' = symbols
         \/ \E s : symbols' = With(list, s)
         \/ \E s : symbols' = [symbols EXCEPT ![list] = s]
  PROVE  symbols'.references = symbols.references
<1>1. Only({list})
  BY OnlyFacts
<1>2. "references" \in Lists \ {list}
  BY DEF Lists
<1> QED
  BY <1>1, <1>2 DEF Only

\* A reference is added.
LEMMA ReferenceAdded ==
  ASSUME DOMAIN symbols = Lists, NEW r
  PROVE  With("references", r).references = Append(symbols.references, r)
<1>1. "references" \in Lists
  BY DEF Lists
<1> QED
  BY <1>1, WithFacts

\* The listeners that keep a stack.
LEMMA KeepersChained ==
  ASSUME Kept, Chained,
         \/ OpenNamespace \/ NameNamespace \/ CloseNamespace
         \/ OpenMethod \/ NameMethod \/ CloseMethod
         \/ OpenFunction \/ NameFunction \/ CloseFunction
         \/ OpenParameter \/ NameParameter \/ CommitParameter
  PROVE  Chained'
<1>0. DOMAIN symbols = Lists /\ {"namespaces", "methods", "functions", "parameters"} \subseteq Lists \ {"references"}
  BY DEF Kept, Lists
<1>1. ASSUME OpenNamespace \/ NameNamespace \/ CloseNamespace PROVE Chained'
  <2>1. symbols' = symbols \/ \E s : symbols' = With("namespaces", s)
    BY <1>1 DEF OpenNamespace, NameNamespace, CloseNamespace, Open, NameAndAdd, Poll
  <2>2. \E call, types : Told("namespace", call, types)
    BY <1>1 DEF OpenNamespace, NameNamespace, CloseNamespace
  <2>3. symbols'.references = symbols.references
    BY <1>0, <2>1, ReferencesStay
  <2> QED
    BY <2>2, <2>3, ElsewhereChained
<1>2. ASSUME OpenMethod \/ NameMethod \/ CloseMethod PROVE Chained'
  <2>1. symbols' = symbols \/ \E s : symbols' = With("methods", s)
    BY <1>2 DEF OpenMethod, NameMethod, CloseMethod, Open, NameAndAdd, Poll
  <2>2. \E call, types : Told("method", call, types)
    BY <1>2 DEF OpenMethod, NameMethod, CloseMethod
  <2>3. symbols'.references = symbols.references
    BY <1>0, <2>1, ReferencesStay
  <2> QED
    BY <2>2, <2>3, ElsewhereChained
<1>3. ASSUME OpenFunction \/ NameFunction \/ CloseFunction PROVE Chained'
  <2>1. symbols' = symbols \/ \E s : symbols' = With("functions", s)
    BY <1>3 DEF OpenFunction, NameFunction, CloseFunction, Open, NameAndAdd, Poll
  <2>2. \E call, types : Told("function", call, types)
    BY <1>3 DEF OpenFunction, NameFunction, CloseFunction
  <2>3. symbols'.references = symbols.references
    BY <1>0, <2>1, ReferencesStay
  <2> QED
    BY <2>2, <2>3, ElsewhereChained
<1>4. ASSUME OpenParameter \/ NameParameter \/ CommitParameter PROVE Chained'
  <2>1. symbols' = symbols \/ \E s : symbols' = With("parameters", s)
    BY <1>4 DEF OpenParameter, NameParameter, CommitParameter, Open
  <2>2. \E call, types : Told("parameter", call, types)
    BY <1>4 DEF OpenParameter, NameParameter, CommitParameter
  <2>3. symbols'.references = symbols.references
    BY <1>0, <2>1, ReferencesStay
  <2> QED
    BY <2>2, <2>3, ElsewhereChained
<1> QED
  BY <1>1, <1>2, <1>3, <1>4

\* The classes named in a comment.
LEMMA DocsChained ==
  ASSUME Kept, Chained, ReferenceInDoc
  PROVE  Chained'
<1>1. Told("docReference", "extra", {"comment"})
  BY DEF ReferenceInDoc
<1>2. tree' = tree /\ listener' = listener /\ Listeners[listener].of = "docReference" /\ listener \in 1..12
  BY <1>1, ToldFacts
<1>3. listener # 11
  BY <1>2, ReferencePlace
<1>4. \A c : Referred(tree, listener, coming', c) <=> Referred(tree, listener, coming, c)
  BY <1>3, ReferredStays
<1>5. PICK n, classes : symbols' = [symbols EXCEPT !.references = @ \o [i \in 1..Len(classes) |-> ClassReference(n, ClassFqn(classes[i]))]]
  BY DEF ReferenceInDoc
<1> DEFINE list == symbols.references
           found == [i \in 1..Len(classes) |-> ClassReference(n, ClassFqn(classes[i]))]
<1>6. symbols'.references = list \o found
  <2>1. "references" \in DOMAIN symbols
    BY DEF Kept, Lists
  <2> QED
    BY <1>5, <2>1
<1>7. Linked(tree, listener, coming, list) /\ IsSeq(list) /\ Len(list) \in Nat
  BY DEF Chained, Linked, IsSeq
<1>8. /\ IsSeq(list \o found) /\ Len(list) <= Len(list \o found) /\ \A i \in 1..Len(list) : (list \o found)[i] = list[i]
      /\ \A i \in (Len(list) + 1)..Len(list \o found) : (list \o found)[i].kind \notin MemberKinds
  <2> DEFINE S == {list[i] : i \in 1..Len(list)} \cup {found[i] : i \in 1..Len(classes)}
  <2>1. Len(classes) \in Nat /\ \A i \in 1..Len(classes) : found[i].kind \notin MemberKinds
    BY DEF ClassReference, MemberKinds
  <2>2. found \in Seq(S) /\ Len(found) = Len(classes)
    BY <2>1
  <2>3. list \in Seq(S)
    BY <1>7, SeqOfElements
  <2> HIDE DEF list, found, S
  <2>4. /\ list \o found \in Seq(S) /\ Len(list \o found) = Len(list) + Len(found)
        /\ \A i \in 1..(Len(list) + Len(found)) : (list \o found)[i] = IF i <= Len(list) THEN list[i] ELSE found[i - Len(list)]
    BY <2>2, <2>3
  <2>5. IsSeq(list \o found)
    BY <2>4, ElementsOfSeq
  <2>6. \A i \in 1..Len(list) : (list \o found)[i] = list[i]
    BY <1>7, <2>1, <2>2, <2>4
  <2>7. ASSUME NEW i \in (Len(list) + 1)..Len(list \o found) PROVE (list \o found)[i].kind \notin MemberKinds
    <3>1. i - Len(list) \in 1..Len(classes) /\ (list \o found)[i] = found[i - Len(list)]
      BY <1>7, <2>1, <2>2, <2>4
    <3> QED
      BY <2>1, <3>1
  <2> QED
    BY <1>7, <2>1, <2>2, <2>4, <2>5, <2>6, <2>7
<1> DEFINE more == list \o found
<1> HIDE DEF more
<1>9. Linked(tree, listener, coming', more)
  BY <1>4, <1>7, <1>8, LinkedMore DEF more
<1> QED
  BY <1>2, <1>3, <1>6, <1>9 DEF Chained, Held, more

\* A name that is told of PhpReferenceListener, and whether it is a member's.
LEMMA NameTold ==
  ASSUME Kept, \A t \in PhpTrees : MembersAreWhole(t), Told("reference", "leaf", {"name"})
  PROVE  /\ listener = 11 /\ listener' = 11 /\ tree' = tree /\ coming # {} /\ coming' = coming \ {Min(coming)}
         /\ tree \in PhpTrees /\ MembersAreWhole(tree) /\ InOrder(tree, 11, coming) /\ At = NextCall(tree, coming)
         /\ At.call = "leaf" /\ At.parent = tree.parent[At.node]
         /\ At.node \in MemberNames(tree) <=> tree.type[At.parent] \in Accesses \cup Calls
<1>1. /\ tree' = tree /\ listener' = listener /\ coming # {} /\ coming' = coming \ {Min(coming)}
      /\ Listeners[listener].of = "reference" /\ At.call = "leaf" /\ tree.type[At.node] = "name"
      /\ At = NextCall(tree, coming) /\ tree \in PhpTrees /\ InOrder(tree, listener, coming) /\ listener \in 1..12
  <2>1. tree.type[At.node] \in {"name"}
    BY ToldFacts
  <2> QED
    BY <2>1, ToldFacts
<1>2. listener = 11
  BY <1>1, ReferencePlace
<1>3. Fits(tree, NextCall(tree, coming))
  BY <1>1, NextFacts
<1>4. At.node \in InPlace(tree) /\ At.node \in Nodes(tree) /\ At = CallOf(tree, "leaf", At.node, At.node)
  BY <1>1, <1>3 DEF Fits
<1>5. At.parent = tree.parent[At.node]
  BY <1>4 DEF CallOf
<1>6. At.node # ROOT
  BY <1>1 DEF MembersAreWhole
<1>7. tree.parent[At.node] \in InPlace(tree)
  BY <1>1, <1>4, <1>6, InPlaceFacts
<1>8. At.node \in MemberNames(tree) <=> tree.type[At.parent] \in Accesses \cup Calls
  BY <1>1, <1>4, <1>5, <1>6, <1>7 DEF MemberNames, Expressions
<1> QED
  BY <1>1, <1>2, <1>5, <1>8

\* A member.
LEMMA MemberChained ==
  ASSUME Kept, Chained, \A t \in PhpTrees : MembersAreWhole(t), ReferToMember
  PROVE  Chained'
<1> DEFINE n == At.node
           o == ChildInField(At.parent, "object")
           r == MemberReference(At.node, At.parent)
<1>1. Told("reference", "leaf", {"name"}) /\ tree.type[At.parent] \in Accesses \cup Calls
  BY DEF ReferToMember
<1>2. /\ listener = 11 /\ listener' = 11 /\ tree' = tree /\ coming # {} /\ coming' = coming \ {Min(coming)}
      /\ tree \in PhpTrees /\ MembersAreWhole(tree) /\ InOrder(tree, 11, coming) /\ At = NextCall(tree, coming)
      /\ At.call = "leaf" /\ At.parent = tree.parent[n] /\ n \in MemberNames(tree)
  BY <1>1, NameTold
<1>3. symbols' = With("references", r)
  BY DEF ReferToMember
<1>4. symbols'.references = Append(symbols.references, r)
  <2>1. DOMAIN symbols = Lists
    BY DEF Kept
  <2> HIDE DEF r
  <2> QED
    BY <1>3, <2>1, ReferenceAdded
<1>5. members' = [e \in (DOMAIN members \ {o}) \cup {At.parent} |-> IF e = At.parent THEN n ELSE members[e]]
  BY DEF ReferToMember
<1>6. o = ObjectOf(tree, n)
  BY <1>2 DEF ChildInField, ObjectOf
<1>7. /\ r.kind \in MemberKinds /\ r.node = n
      /\ r.receiver = IF o \in DOMAIN members THEN members[o] ELSE NONE
      /\ tree.type[o] # "variable_name" => r.variable = NONE
  BY DEF MemberReference, MemberKinds, Receiver, NodeType
<1> HIDE DEF n, o, r
<1>8. r.receiver = IF ObjectOf(tree, n) \in DOMAIN members THEN members[ObjectOf(tree, n)] ELSE NONE
  BY <1>6, <1>7
<1>9. tree.type[ObjectOf(tree, n)] # "variable_name" => r.variable = NONE
  BY <1>6, <1>7
<1>10. Linked(tree, 11, coming, symbols.references) /\ Held(tree, 11, coming, members)
  BY <1>2 DEF Chained
<1>11. n = NextCall(tree, coming).node /\ NextCall(tree, coming).call = "leaf"
  BY <1>2 DEF n
<1>12. /\ tree \in PhpTrees /\ MembersAreWhole(tree) /\ InOrder(tree, 11, coming) /\ coming # {} /\ n \in MemberNames(tree)
       /\ r.kind \in MemberKinds /\ r.node = n
  BY <1>2, <1>7 DEF n
<1>13. /\ Linked(tree, 11, coming \ {Min(coming)}, Append(symbols.references, r))
       /\ Held(tree, 11, coming \ {Min(coming)}, Holding(tree, members, n))
  BY <1>10, <1>11, <1>12, <1>8, <1>9, MemberIsLinked
<1>14. members' = Holding(tree, members, n)
  BY <1>2, <1>5, <1>6 DEF Holding
<1> QED
  BY <1>2, <1>4, <1>13, <1>14 DEF Chained

\* Another name.
LEMMA NameChained ==
  ASSUME Kept, Chained, \A t \in PhpTrees : MembersAreWhole(t), ReferToFunction \/ ReferToStatic \/ OtherName
  PROVE  Chained'
<1>1. /\ Told("reference", "leaf", {"name"}) /\ tree.type[At.parent] \notin Accesses \cup Calls /\ members' = members
      /\ symbols' = symbols \/ \E r : r.kind \notin MemberKinds /\ symbols' = With("references", r)
  <2>1. CASE ReferToFunction
    <3>1. [kind |-> "functionCall", node |-> At.node, name |-> Text(At.node)].kind \notin MemberKinds
      BY DEF MemberKinds
    <3>2. "function_call_expression" \notin Accesses \cup Calls
      BY DEF Accesses, Calls
    <3> QED
      BY <2>1, <3>1, <3>2 DEF ReferToFunction
  <2>2. CASE ReferToStatic
    <3>1. \A n, scope : StaticCall(n, scope).kind \notin MemberKinds
      BY DEF StaticCall, MemberKinds
    <3>2. "scoped_call_expression" \notin Accesses \cup Calls
      BY DEF Accesses, Calls
    <3>3. symbols' = symbols \/ \E n, scope : symbols' = With("references", StaticCall(n, scope))
      BY <2>2 DEF ReferToStatic
    <3>4. Told("reference", "leaf", {"name"}) /\ tree.type[At.parent] = "scoped_call_expression" /\ members' = members
      BY <2>2 DEF ReferToStatic
    <3> QED
      BY <3>1, <3>2, <3>3, <3>4
  <2>3. CASE OtherName
    BY <2>3 DEF OtherName
  <2> QED
    BY <2>1, <2>2, <2>3
<1>2. /\ listener = 11 /\ listener' = 11 /\ tree' = tree /\ coming # {} /\ coming' = coming \ {Min(coming)}
      /\ tree \in PhpTrees /\ InOrder(tree, 11, coming) /\ At = NextCall(tree, coming) /\ At.node \notin MemberNames(tree)
  BY <1>1, NameTold
<1>3. \A c : Referred(tree, 11, coming', c) <=> Referred(tree, 11, coming, c)
  <2>1. 11 \in 1..12
    OBVIOUS
  <2>2. \A c : Passed(tree, 11, coming', "leaf", c) => Passed(tree, 11, coming, "leaf", c) \/ c = At.node
    BY <1>2, <2>1, NextFacts
  <2>3. \A c : Passed(tree, 11, coming, "leaf", c) => Passed(tree, 11, coming', "leaf", c)
    BY <1>2, <2>1, NextFacts
  <2> QED
    BY <1>2, <2>2, <2>3 DEF Referred
<1>4. symbols'.references = symbols.references
      \/ \E r : r.kind \notin MemberKinds /\ symbols'.references = Append(symbols.references, r)
  <2>1. DOMAIN symbols = Lists
    BY DEF Kept
  <2> QED
    BY <1>1, <2>1, ReferenceAdded
<1>5. Linked(tree, 11, coming, symbols.references) /\ Held(tree, 11, coming, members)
  BY <1>2 DEF Chained
<1>6. Linked(tree, 11, coming', symbols'.references)
  <2>1. Linked(tree, 11, coming', symbols.references)
    BY <1>3, <1>5, LinkedStays
  <2>2. \A r : r.kind \notin MemberKinds => Linked(tree, 11, coming', Append(symbols.references, r))
    BY <1>3, <1>5, LinkedOther
  <2> QED
    BY <1>4, <2>1, <2>2
<1>7. Held(tree, 11, coming', members)
  BY <1>3, <1>5 DEF Held
<1> QED
  BY <1>1, <1>2, <1>6, <1>7 DEF Chained

\* The other listeners.
LEMMA OthersChained ==
  ASSUME Kept, Chained,
         Import \/ DeclareClass \/ DeclareProperty \/ TypeByVarDoc \/ DeclareOrUse \/ EnterClassName \/ LeafClassName
  PROVE  Chained'
<1>0. DOMAIN symbols = Lists /\ {"imports", "classes", "properties", "locals", "usages"} \subseteq Lists \ {"references"}
  BY DEF Kept, Lists
<1>1. CASE Import
  <2>1. Told("import", "enter", {"namespace_use_clause"}) /\ (symbols' = symbols \/ \E s : symbols' = With("imports", s))
    BY <1>1 DEF Import
  <2>2. symbols'.references = symbols.references
    BY <1>0, <2>1, ReferencesStay
  <2> QED
    BY <2>1, <2>2, ElsewhereChained
<1>2. CASE DeclareClass
  <2>1. Told("class", "enter", {"class_declaration"}) /\ (symbols' = symbols \/ \E s : symbols' = With("classes", s))
    BY <1>2 DEF DeclareClass
  <2>2. symbols'.references = symbols.references
    BY <1>0, <2>1, ReferencesStay
  <2> QED
    BY <2>1, <2>2, ElsewhereChained
<1>3. CASE DeclareProperty
  <2>1. symbols' = symbols \/ \E s : symbols' = With("properties", s)
    BY <1>3 DEF DeclareProperty
  <2>2. Told("property", "enter", {"property_element", "property_promotion_parameter"})
    BY <1>3 DEF DeclareProperty
  <2>3. symbols'.references = symbols.references
    BY <1>0, <2>1, ReferencesStay
  <2> QED
    BY <2>2, <2>3, ElsewhereChained
<1>4. CASE TypeByVarDoc
  <2>1. Told("varDoc", "exit", {"property_declaration"}) /\ \E s : symbols' = [symbols EXCEPT !["properties"] = s]
    BY <1>4 DEF TypeByVarDoc
  <2>2. symbols'.references = symbols.references
    BY <1>0, <2>1, ReferencesStay
  <2> QED
    BY <2>1, <2>2, ElsewhereChained
<1>5. CASE DeclareOrUse
  <2>1. symbols' = symbols \/ (\E s : symbols' = With("locals", s)) \/ (\E s : symbols' = With("usages", s))
    BY <1>5 DEF DeclareOrUse, Variable
  <2>2. Told("variable", "enter", {"variable_name"})
    BY <1>5 DEF DeclareOrUse
  <2>3. symbols'.references = symbols.references
    BY <1>0, <2>1, ReferencesStay
  <2> QED
    BY <2>2, <2>3, ElsewhereChained
<1>6. ASSUME EnterClassName \/ LeafClassName PROVE Chained'
  <2>1. \E call, types : Told("classReference", call, types)
    BY <1>6 DEF EnterClassName, LeafClassName
  <2>2. symbols' = symbols \/ \E n, name : symbols' = With("references", ClassReference(n, name))
    BY <1>6 DEF EnterClassName, LeafClassName, AddClassReference
  <2>3. \A n, name : ClassReference(n, name).kind \notin MemberKinds
    BY DEF ClassReference, MemberKinds
  <2>4. symbols'.references = symbols.references
        \/ \E r : r.kind \notin MemberKinds /\ symbols'.references = Append(symbols.references, r)
    BY <1>0, <2>2, <2>3, ReferenceAdded
  <2> QED
    BY <2>1, <2>4, ElsewhereChained
<1> QED
  BY <1>1, <1>2, <1>3, <1>4, <1>5, <1>6

\* The next one walks.
LEMMA NextListenerChained ==
  ASSUME Kept, Chained, \A t \in PhpTrees : MembersAreWhole(t), NextListener
  PROVE  Chained'
<1>1. /\ tree' = tree /\ listener' = listener + 1 /\ coming' = Heard(listener + 1, walk, tree) /\ members' = << >>
      /\ symbols' = symbols /\ coming = {} /\ listener \in 1..12 /\ tree \in PhpTrees /\ walk = Telling(tree)
  BY DEF NextListener, Kept
<1>2. Linked(tree, listener, coming, symbols.references) /\ MembersAreWhole(tree)
  BY <1>1 DEF Chained
<1>3. ~ \E c : Passed(tree, 11, Heard(11, Telling(tree), tree), "leaf", c)
  BY DEF Passed
<1>4. ASSUME NEW c \in MemberNames(tree) PROVE Passed(tree, 11, {}, "leaf", c)
  <2>1. ToldIn(Telling(tree), "leaf", c) /\ tree.type[c] = "name"
    BY <1>1, <1>2, MemberFacts
  <2>2. PICK i \in 1..Len(Telling(tree)) : Telling(tree)[i].call = "leaf" /\ Telling(tree)[i].node = c
    BY <2>1 DEF ToldIn
  <2>3. "name" \in Listeners[11].hears["leaf"]
    BY DEF Listeners, Hears
  <2>4. DOMAIN Telling(tree) = 1..Len(Telling(tree))
    BY <1>1, TellingBrackets
  <2>5. i \in Heard(11, Telling(tree), tree)
    BY <2>1, <2>2, <2>3, <2>4 DEF Heard
  <2> QED
    BY <2>2, <2>5 DEF Passed
<1>5. \A c : Referred(tree, listener + 1, coming', c) <=> Referred(tree, listener, coming, c)
  <2>1. CASE listener = 11
    BY <1>1, <1>4, <2>1 DEF Referred
  <2>2. CASE listener = 10
    BY <1>1, <1>3, <2>2 DEF Referred
  <2>3. CASE listener \notin {10, 11}
    <3>1. listener # 12
      BY DEF NextListener, Listeners
    <3> QED
      BY <1>1, <2>3, <3>1 DEF Referred
  <2> QED
    BY <2>1, <2>2, <2>3
<1>6. Linked(tree, listener + 1, coming', symbols.references)
  BY <1>2, <1>5, LinkedStays
<1>7. Held(tree, listener + 1, coming', << >>)
  <2>1. DOMAIN << >> = {}
    OBVIOUS
  <2>2. listener + 1 = 11 => ~ \E c : Referred(tree, 11, coming', c)
    BY <1>1, <1>3 DEF Referred
  <2> QED
    BY <2>1, <2>2 DEF Held
<1> QED
  BY <1>1, <1>6, <1>7 DEF Chained

\* The passes make no references.
LEMMA PassesChained ==
  ASSUME Kept, Chained, EndWalks \/ FillDefinitions \/ InferTypes \/ InferReturnTypes \/ PropagateTypes \/ Indexed \/ UNCHANGED vars
  PROVE  Chained'
<1>1. UNCHANGED <<tree, listener, coming, members>>
  BY DEF EndWalks, FillDefinitions, InferTypes, InferReturnTypes, PropagateTypes, Pass, Indexed, vars
<1>2. symbols'.references = symbols.references
  <2>1. ASSUME EndWalks \/ Indexed \/ UNCHANGED vars PROVE symbols' = symbols
    BY <2>1 DEF EndWalks, Indexed, vars
  <2>2. ASSUME FillDefinitions \/ PropagateTypes PROVE \E s : symbols' = [symbols EXCEPT !.usages = s]
    BY <2>2 DEF FillDefinitions, PropagateTypes
  <2>3. ASSUME InferTypes PROVE \E s : symbols' = [symbols EXCEPT !.locals = s]
    BY <2>3 DEF InferTypes
  <2>4. ASSUME InferReturnTypes PROVE \E s, d : symbols' = [symbols EXCEPT !.methods = s, !.functions = d]
    BY <2>4 DEF InferReturnTypes
  <2>5. "references" \in DOMAIN symbols
    BY DEF Kept, Lists
  <2> QED
    BY <2>1, <2>2, <2>3, <2>4, <2>5
<1>3. Linked(tree, listener, coming, symbols.references) /\ Held(tree, listener, coming, members)
  BY DEF Chained
<1> QED
  BY <1>1, <1>2, <1>3 DEF Chained

\* At first there are no references.
LEMMA ChainedAtFirst == Init => Chained
<1> SUFFICES ASSUME Init PROVE Chained
  OBVIOUS
<1>1. listener = 1 /\ symbols.references = << >>
  BY DEF Init
<1>2. IsSeq(<< >>) /\ Len(<< >>) = 0
  <2>1. << >> \in Seq({})
    OBVIOUS
  <2> QED
    BY <2>1, ElementsOfSeq
<1>3. \A c : ~ Referred(tree, 1, coming, c)
  BY DEF Referred
<1>4. Linked(tree, 1, coming, << >>)
  BY <1>2, <1>3 DEF Linked
<1> QED
  BY <1>1, <1>4 DEF Chained, Held

\* Every step keeps the chains.
LEMMA StepsChain ==
  ASSUME \A t \in PhpTrees : MembersAreWhole(t)
  PROVE  Kept /\ Chained /\ [Next]_vars => Chained'
<1> SUFFICES ASSUME Kept, Chained, [Next]_vars PROVE Chained'
  OBVIOUS
<1>1. CASE Listen
  BY <1>1, KeepersChained, DocsChained, MemberChained, NameChained, OthersChained, NextListenerChained DEF Listen
<1> QED
  BY <1>1, PassesChained DEF Next

\* The chains are whole while they grow.
LEMMA ChainedIsWhole ==
  ASSUME \A t \in PhpTrees : MembersAreWhole(t), Kept, Chained
  PROVE  ChainsAreWhole
<1> DEFINE list == symbols.references
           member == {r \in ToSet(list) : r.kind \in MemberKinds}
<1>1. tree \in PhpTrees /\ MembersAreWhole(tree)
  BY DEF Kept
<1>2. Linked(tree, listener, coming, list)
  BY DEF Chained
<1>3. ToSet(list) = {list[i] : i \in 1..Len(list)}
  BY <1>2 DEF Linked, IsSeq, ToSet
<1> HIDE DEF list
<1>4. ASSUME NEW r \in member
      PROVE  /\ r.node \in MemberNames(tree) /\ r.receiver = ReceiverOf(tree, r.node)
             /\ r.receiver # NONE => r.variable = NONE /\ Referred(tree, listener, coming, r.receiver)
             /\ \E i \in 1..Len(list) : r = list[i] /\ list[i].kind \in MemberKinds
  <2>1. PICK i \in 1..Len(list) : r = list[i] /\ list[i].kind \in MemberKinds
    BY <1>3
  <2>2. MemberEntry(tree, listener, coming, list[i])
    BY <1>2, <2>1 DEF Linked
  <2> QED
    BY <2>1, <2>2 DEF MemberEntry, Referred
<1>5. \A r \in member : r.receiver = IF IsMember(tree, ChildInField(Own(r), "object"))
                                     THEN ChildInField(ChildInField(Own(r), "object"), "name") ELSE NONE
  BY <1>4 DEF ReceiverOf, ObjectOf, ChildInField, Own
<1>6. ASSUME NEW r \in member, r.receiver # NONE
      PROVE  /\ r.receiver < r.node /\ r.variable = NONE
             /\ \E s \in member : s.node = r.receiver
             /\ \A s \in member \ {r} : s.receiver # r.receiver
  <2>1. IsMember(tree, ObjectOf(tree, r.node)) /\ r.node \in MemberNames(tree) /\ r.receiver = ReceiverOf(tree, r.node)
    BY <1>4, <1>6 DEF ReceiverOf
  <2>2. r.receiver < r.node /\ tree.parent[r.receiver] = ObjectOf(tree, r.node) /\ ObjectOf(tree, r.node) # NONE
    BY <1>1, <2>1, ReceiverFacts
  <2>3. \E s \in member : s.node = r.receiver
    <3>1. PICK i \in 1..Len(list) : list[i].kind \in MemberKinds /\ list[i].node = r.receiver
      BY <1>2, <1>4, <1>6 DEF Linked
    <3> QED
      BY <1>3, <3>1
  <2>4. ASSUME NEW s \in member, s.receiver = r.receiver PROVE s = r
    <3>1. IsMember(tree, ObjectOf(tree, s.node)) /\ s.node \in MemberNames(tree) /\ s.receiver = ReceiverOf(tree, s.node)
      BY <1>4, <1>6, <2>4 DEF ReceiverOf
    <3>2. tree.parent[s.receiver] = ObjectOf(tree, s.node)
      BY <1>1, <3>1, ReceiverFacts
    <3>3. s.node = r.node
      BY <1>1, <2>1, <2>2, <2>4, <3>1, <3>2, MembersDiffer
    <3>4. PICK i \in 1..Len(list), j \in 1..Len(list) :
            s = list[i] /\ list[i].kind \in MemberKinds /\ r = list[j] /\ list[j].kind \in MemberKinds
      BY <1>4
    <3>5. i = j
      BY <1>2, <3>3, <3>4 DEF Linked
    <3> QED
      BY <3>4, <3>5
  <2> QED
    BY <1>4, <1>6, <2>2, <2>3, <2>4
<1> HIDE DEF member
<1> QED
  BY <1>5, <1>6 DEF ChainsAreWhole, member, list

\* While the references are found, and ever after, the receiver of a member is the
\* one that its object is, found before it and the receiver of no other, in every
\* tree in which the only name right below a member expression is that of its member.
THEOREM ChainsStayWhole ==
  ASSUME \A t \in PhpTrees : MembersAreWhole(t)
  PROVE  Spec => []ChainsAreWhole
<1> DEFINE Inv == Kept /\ Classed /\ Chained
<1>1. Init => Inv
  BY KeptAtFirst, ClassedAtFirst, ChainedAtFirst
<1>2. Inv /\ [Next]_vars => Inv'
  BY StepsKeep, StepsClass, StepsChain
<1>3. Inv => ChainsAreWhole
  BY ChainedIsWhole
<1> QED
  BY <1>1, <1>2, <1>3, PTL DEF Spec

-----------------------------------------------------------------------------
(* The namespace that a class is in.                                       *)

HasBody(m) == InField(tree, m, "body") # NONE
Beside(m) == {k \in NamespacesIn(tree) : tree.parent[k] = tree.parent[m] /\ m < k}

\* The namespaces that a node is in, or behind.
Ruling(n) ==
    {m \in NamespacesIn(tree) : /\ HasName(tree, m) /\ m <= n
                                /\ IF HasBody(m) THEN m \in Up(tree)[n] ELSE tree.parent[m] \in Up(tree)[n]}

\* What is in a node ends with it.
LEMMA LastFacts ==
  ASSUME NEW t \in PhpTrees, NEW n \in Nodes(t), NEW m \in Up(t)[n]
  PROVE  t.last[n] \in Nat /\ t.last[m] \in Nat /\ t.last[n] <= t.last[m] /\ m \in Nodes(t)
<1>1. m \in Nodes(t) /\ Nodes(t) \subseteq Nat
  BY UpIsClosed, NodeFacts
<1>2. IsWithin(RangeIn(t, n), RangeIn(t, m)) /\ t.last[n] \in Nodes(t) /\ t.last[m] \in Nodes(t)
  BY <1>1, RangeFacts
<1> QED
  BY <1>1, <1>2 DEF IsWithin, RangeIn, Span

\* The scope of a namespace: to its end, or without a body to the next one beside it.
LEMMA AreaFacts ==
  ASSUME tree \in PhpTrees, NamespacesDoNotMix(tree), NEW m \in NamespacesIn(tree)
  PROVE  /\ m \in Nodes(tree) \ {ROOT} /\ tree.parent[m] \in InPlace(tree) /\ m \in InPlace(tree)
         /\ NamespaceScope(m).from = m /\ NamespaceScope(m).to \in Nat
         /\ HasBody(m) => NamespaceScope(m).to = tree.last[m]
         /\ ~ HasBody(m) => /\ NamespaceScope(m).to <= tree.last[tree.parent[m]]
                            /\ \A k \in Beside(m) : NamespaceScope(m).to < k
                            /\ \A j \in Nat : j <= tree.last[tree.parent[m]] /\ (\A k \in Beside(m) : j < k) => j <= NamespaceScope(m).to
<1> DEFINE p == tree.parent[m]
           later == {c \in NamedChildren(tree.parent[m]) : c > m /\ tree.type[c] = "namespace_definition"}
<1>1. m \in Nodes(tree) /\ tree.type[m] = "namespace_definition" /\ p \in InPlace(tree) /\ tree.flag[m] = "named"
  BY DEF NamespacesIn, NamespacesDoNotMix
<1>2. m # ROOT
  BY <1>1 DEF NamespacesDoNotMix
<1>3. m \in InPlace(tree) /\ p \in Nodes(tree) /\ p < m
  BY <1>1, <1>2, InPlaceFacts, NodeFacts
<1>4. Nodes(tree) \subseteq Nat /\ \A k \in Nodes(tree) : tree.last[k] \in Nodes(tree) /\ k <= tree.last[k]
  BY NodeFacts, RangeFacts
<1>5. later = Beside(m)
  <2>1. \A k \in NamespacesIn(tree) : tree.flag[k] # "token" /\ k \in Nodes(tree) /\ tree.type[k] = "namespace_definition"
    BY DEF NamespacesIn, NamespacesDoNotMix
  <2>2. \A k \in Nodes(tree) : tree.parent[k] = p /\ tree.type[k] = "namespace_definition" => k \in NamespacesIn(tree)
    BY <1>1 DEF NamespacesIn
  <2>3. \A k \in Nodes(tree) : k > m <=> m < k
    BY <1>1, <1>4
  <2> QED
    BY <2>1, <2>2, <2>3 DEF Beside, NamedChildren, Below
<1> HIDE DEF later
<1>6. NamespaceScope(m) = IF HasBody(m) THEN Span(m, tree.last[m])
                          ELSE IF later = {} THEN Span(m, tree.last[p]) ELSE Span(m, Min(later) - 1)
  BY DEF NamespaceScope, HasBody, ChildInField, RangeOf, later
<1>7. \A from, to : Span(from, to).from = from /\ Span(from, to).to = to
  BY DEF Span
<1>8. \A k \in later : k \in Nodes(tree) \ {ROOT} /\ m < k /\ k <= tree.last[p]
  <2>1. TAKE k \in later
  <2>2. k \in Nodes(tree) /\ tree.parent[k] = p /\ m < k /\ tree.type[k] = "namespace_definition"
    BY <1>5 DEF Beside, NamespacesIn
  <2>3. k # ROOT
    BY <2>2 DEF NamespacesDoNotMix
  <2>4. Up(tree)[k] = Up(tree)[p] \cup {k} /\ p \in Up(tree)[p]
    BY <1>3, <2>2, <2>3, UpFacts, UpIsClosed
  <2>5. tree.last[k] <= tree.last[p]
    BY <2>2, <2>4, LastFacts
  <2>6. k <= tree.last[k] /\ tree.last[k] \in Nat /\ tree.last[p] \in Nat /\ k \in Nat
    BY <1>3, <1>4, <2>2
  <2> QED
    BY <2>2, <2>3, <2>5, <2>6
<1>9. NamespaceScope(m).from = m
  BY <1>6, <1>7
<1>10. CASE HasBody(m)
  <2>1. NamespaceScope(m).to = tree.last[m]
    BY <1>6, <1>7, <1>10
  <2> QED
    BY <1>1, <1>2, <1>3, <1>4, <1>9, <1>10, <2>1
<1>11. CASE ~ HasBody(m) /\ later = {}
  <2>1. NamespaceScope(m).to = tree.last[p] /\ tree.last[p] \in Nat
    BY <1>3, <1>4, <1>6, <1>7, <1>11
  <2> QED
    BY <1>1, <1>2, <1>3, <1>5, <1>9, <1>11, <2>1
<1>12. CASE ~ HasBody(m) /\ later # {}
  <2>1. later \in SUBSET Nat
    BY <1>4, <1>8
  <2>2. Min(later) \in later /\ \A k \in later : Min(later) <= k
    BY <1>12, <2>1, MinFacts
  <2> DEFINE e == NamespaceScope(m).to
  <2>3. e = Min(later) - 1
    BY <1>6, <1>7, <1>12
  <2> HIDE DEF e
  <2>4. Min(later) \in Nat /\ m < Min(later) /\ Min(later) <= tree.last[p] /\ m \in Nat /\ tree.last[p] \in Nat
    BY <1>1, <1>3, <1>4, <1>8, <2>2
  <2>5. e \in Nat /\ e <= tree.last[p]
    BY <2>3, <2>4
  <2>6. \A k \in later : e < k
    BY <2>1, <2>2, <2>3, <2>4
  <2>7. \A j \in Nat : (\A k \in later : j < k) => j <= e
    BY <2>2, <2>3, <2>4
  <2> QED
    BY <1>1, <1>2, <1>3, <1>5, <1>9, <1>12, <2>5, <2>6, <2>7 DEF e
<1> QED
  BY <1>10, <1>11, <1>12

\* What is in the scope of a namespace is in it, or behind it beside it.
LEMMA WithinArea ==
  ASSUME tree \in PhpTrees, NamespacesDoNotMix(tree), NEW m \in NamespacesIn(tree), NEW n \in Nodes(tree),
         IsWithin(RangeOf(n), NamespaceScope(m))
  PROVE  /\ m <= n /\ n <= tree.last[n] /\ tree.last[n] <= NamespaceScope(m).to
         /\ IF HasBody(m) THEN m \in Up(tree)[n] ELSE tree.parent[m] \in Up(tree)[n]
<1> DEFINE p == tree.parent[m]
           e == NamespaceScope(m).to
<1>1. /\ m \in Nodes(tree) \ {ROOT} /\ NamespaceScope(m).from = m /\ e \in Nat
      /\ HasBody(m) => e = tree.last[m]
      /\ ~ HasBody(m) => e <= tree.last[p]
  BY AreaFacts
<1>2. Nodes(tree) \subseteq Nat /\ tree.last[n] \in Nodes(tree) /\ n <= tree.last[n] /\ p \in Nodes(tree) /\ p < m
      /\ tree.last[p] \in Nodes(tree)
  BY <1>1, NodeFacts, RangeFacts
<1>3. m <= n /\ tree.last[n] <= e
  BY <1>1 DEF IsWithin, RangeOf, Span
<1>4. n <= e
  BY <1>1, <1>2, <1>3
<1> HIDE DEF e, p
<1>5. CASE HasBody(m)
  <2>1. m \in Up(tree)[n]
    BY <1>1, <1>3, <1>4, <1>5, RangeFacts
  <2> QED
    BY <1>2, <1>3, <1>5, <2>1 DEF e
<1>6. CASE ~ HasBody(m)
  <2>1. p <= n /\ n <= tree.last[p]
    BY <1>1, <1>2, <1>3, <1>4, <1>6
  <2>2. p \in Up(tree)[n]
    BY <1>2, <2>1, RangeFacts
  <2> QED
    BY <1>2, <1>3, <1>6, <2>2 DEF e, p
<1> QED
  BY <1>5, <1>6

\* The one that rules it has it in its scope, if none does that is behind it.
LEMMA RulingIsAround ==
  ASSUME tree \in PhpTrees, NamespacesDoNotMix(tree), NEW n \in InPlace(tree), tree.type[n] # "namespace_definition",
         NEW m \in Ruling(n), \A k \in Ruling(n) : k <= m
  PROVE  IsWithin(RangeOf(n), NamespaceScope(m))
<1> DEFINE p == tree.parent[m]
           e == NamespaceScope(m).to
<1>1. m \in NamespacesIn(tree) /\ m <= n /\ IF HasBody(m) THEN m \in Up(tree)[n] ELSE p \in Up(tree)[n]
  BY DEF Ruling
<1>2. /\ m \in Nodes(tree) \ {ROOT} /\ NamespaceScope(m).from = m /\ e \in Nat
      /\ HasBody(m) => e = tree.last[m]
      /\ ~ HasBody(m) => \A j \in Nat : j <= tree.last[p] /\ (\A k \in Beside(m) : j < k) => j <= e
  BY <1>1, AreaFacts
<1>3. n \in Nodes(tree) /\ Nodes(tree) \subseteq Nat /\ tree.last[n] \in Nodes(tree) /\ p \in Nodes(tree) /\ p < m
  BY <1>2, NodeFacts, RangeFacts DEF InPlace
<1>4. RangeOf(n).from = n /\ RangeOf(n).to = tree.last[n]
  BY DEF RangeOf, Span
<1> SUFFICES tree.last[n] <= e
  BY <1>1, <1>2, <1>4 DEF IsWithin
<1> HIDE DEF e
<1>5. CASE HasBody(m)
  BY <1>1, <1>2, <1>3, <1>5, LastFacts
<1>6. CASE ~ HasBody(m)
  <2>1. p \in Up(tree)[n]
    BY <1>1, <1>6
  <2>2. tree.last[n] <= tree.last[p]
    BY <1>3, <2>1, LastFacts
  <2>3. ASSUME NEW k \in Beside(m) PROVE tree.last[n] < k
    <3>1. k \in NamespacesIn(tree) /\ tree.parent[k] = p /\ m < k /\ tree.type[k] = "namespace_definition"
      BY DEF Beside, NamespacesIn
    <3>2. k \in Nodes(tree) \ {ROOT} /\ k \in Nat /\ m \in Nat /\ n \in Nat
      BY <1>2, <1>3, <3>1, AreaFacts
    <3>3. HasName(tree, k) /\ ~ HasBody(k)
      BY <1>1, <1>6, <3>1 DEF NamespacesDoNotMix, HasBody
    <3>4. n < k
      <4> SUFFICES ASSUME ~ (n < k) PROVE FALSE
        OBVIOUS
      <4>1. k \in Ruling(n)
        BY <2>1, <3>1, <3>2, <3>3 DEF Ruling
      <4> QED
        BY <3>1, <3>2, <4>1
    <3>5. n \notin Up(tree)[k]
      <4> SUFFICES ASSUME n \in Up(tree)[k] PROVE FALSE
        OBVIOUS
      <4>1. n \in Up(tree)[p]
        <5>1. Up(tree)[k] = Up(tree)[p] \cup {k}
          BY <3>1, <3>2, UpFacts
        <5> QED
          BY <1>3, <3>2, <3>4, <5>1
      <4>2. n <= p
        BY <1>3, <4>1, UpIsClosed
      <4> QED
        BY <1>1, <1>3, <3>2, <4>2
    <3>6. ~ (n <= k /\ k <= tree.last[n])
      BY <1>3, <3>2, <3>5, RangeFacts
    <3> QED
      BY <1>3, <3>2, <3>4, <3>6
  <2> QED
    BY <1>2, <1>3, <1>6, <2>2, <2>3
<1> QED
  BY <1>5, <1>6

\* Of two scopes that a node is in, the one that begins later ends first.
LEMMA AreasNest ==
  ASSUME tree \in PhpTrees, NamespacesDoNotMix(tree), NEW n \in Nodes(tree),
         NEW m \in NamespacesIn(tree), IsWithin(RangeOf(n), NamespaceScope(m)),
         NEW k \in NamespacesIn(tree), IsWithin(RangeOf(n), NamespaceScope(k)), m < k
  PROVE  NamespaceScope(k).to <= NamespaceScope(m).to
<1> DEFINE p == tree.parent[m]
           q == tree.parent[k]
           e == NamespaceScope(m).to
           f == NamespaceScope(k).to
<1>1. /\ m \in Nodes(tree) \ {ROOT} /\ e \in Nat
      /\ HasBody(m) => e = tree.last[m]
      /\ ~ HasBody(m) => /\ \A j \in Beside(m) : e < j
                         /\ \A i \in Nat : i <= tree.last[p] /\ (\A j \in Beside(m) : i < j) => i <= e
  BY AreaFacts
<1>2. /\ k \in Nodes(tree) \ {ROOT} /\ f \in Nat
      /\ HasBody(k) => f = tree.last[k]
      /\ ~ HasBody(k) => f <= tree.last[q]
  BY AreaFacts
<1>3. /\ k <= n /\ n <= tree.last[n] /\ tree.last[n] <= e
      /\ IF HasBody(m) THEN m \in Up(tree)[n] ELSE p \in Up(tree)[n]
  BY WithinArea
<1>4. Nodes(tree) \subseteq Nat /\ tree.last[n] \in Nodes(tree) /\ p \in Nodes(tree) /\ p < m /\ q \in Nodes(tree) /\ q < k
  BY <1>1, <1>2, NodeFacts, RangeFacts
<1>5. Up(tree)[k] = Up(tree)[q] \cup {k} /\ q \in Up(tree)[q]
  BY <1>2, <1>4, UpFacts, UpIsClosed
<1>6. ASSUME NEW a \in Nodes(tree), a \in Up(tree)[n], a < k PROVE a \in Up(tree)[q] /\ f <= tree.last[a]
  <2>1. a \in Up(tree)[k]
    BY <1>2, <1>3, <1>4, <1>6, UpIsInterval
  <2>2. a \in Up(tree)[q]
    BY <1>2, <1>4, <1>5, <1>6, <2>1
  <2>3. tree.last[k] <= tree.last[a] /\ tree.last[q] <= tree.last[a]
    BY <1>2, <1>4, <2>1, <2>2, LastFacts
  <2>4. tree.last[k] \in Nat /\ tree.last[q] \in Nat /\ tree.last[a] \in Nat
    BY <1>2, <1>4, <2>1, <2>2, LastFacts
  <2>5. f <= tree.last[k] \/ f <= tree.last[q]
    BY <1>2, <2>4
  <2> HIDE DEF f, q
  <2> QED
    BY <1>2, <2>2, <2>3, <2>4, <2>5
<1> HIDE DEF e, f
<1>7. CASE HasBody(m)
  BY <1>1, <1>3, <1>6, <1>7 DEF e, f
<1>8. CASE ~ HasBody(m)
  <2>1. p \in Up(tree)[n] /\ p < k
    BY <1>1, <1>2, <1>3, <1>4, <1>8
  <2>2. p \in Up(tree)[q] /\ f <= tree.last[p]
    BY <1>4, <1>6, <2>1
  <2>3. ASSUME NEW j \in Beside(m) PROVE f < j
    <3>1. j \in NamespacesIn(tree) /\ tree.parent[j] = p /\ m < j
      BY DEF Beside
    <3>9. j \in Nodes(tree) \ {ROOT}
      BY <3>1, AreaFacts
    <3>2. j \in Nodes(tree) \ {ROOT} /\ Up(tree)[j] = Up(tree)[p] \cup {j}
      BY <3>1, <3>9, UpFacts
    <3>3. k < j
      BY <1>1, <1>2, <1>3, <1>4, <1>8, <3>2
    <3>4. q # p
      <4> SUFFICES ASSUME q = p PROVE FALSE
        OBVIOUS
      <4>1. k \in Beside(m)
        BY DEF Beside
      <4> QED
        BY <1>1, <1>2, <1>3, <1>4, <1>8, <4>1
    <3>5. p < q
      BY <1>4, <2>2, <3>4, UpIsClosed
    <3>6. k \notin Up(tree)[p] /\ q \notin Up(tree)[p]
      BY <1>2, <1>4, <2>1, <3>5, UpIsClosed
    <3>7. k \notin Up(tree)[j] /\ q \notin Up(tree)[j]
      BY <1>2, <1>4, <3>2, <3>3, <3>6
    <3>8. tree.last[k] < j /\ tree.last[q] < j
      BY <1>2, <1>4, <3>2, <3>3, <3>7, RangeFacts
    <3> QED
      BY <1>2, <1>4, <3>2, <3>8, RangeFacts
  <2> QED
    BY <1>1, <1>2, <1>8, <2>2, <2>3 DEF e, f
<1> QED
  BY <1>7, <1>8

\* The ones that rule the name of a class rule the class.
LEMMA RulingIsGoverning ==
  ASSUME tree \in PhpTrees, NamespacesDoNotMix(tree), NEW n \in InPlace(tree), tree.type[n] = "class_declaration",
         NEW x \in Nodes(tree) \ {ROOT}, tree.parent[x] = n, tree.type[x] = "name"
  PROVE  Ruling(n) = {m \in 1..x : /\ tree.type[m] = "namespace_definition" /\ HasName(tree, m)
                                   /\ IF ChildInField(m, "body") # NONE THEN m \in Up(tree)[x]
                                      ELSE tree.parent[m] \in Up(tree)[x]}
<1> DEFINE Rules == {m \in 1..x : /\ tree.type[m] = "namespace_definition" /\ HasName(tree, m)
                                  /\ IF ChildInField(m, "body") # NONE THEN m \in Up(tree)[x] ELSE tree.parent[m] \in Up(tree)[x]}
<1>1. /\ n \in Nodes(tree) /\ Nodes(tree) = 1..Len(tree.type) /\ Len(tree.type) \in Nat /\ n < x
      /\ Up(tree)[x] = Up(tree)[n] \cup {x} /\ Up(tree)[n] \subseteq InPlace(tree)
      /\ \A m \in Up(tree)[n] : m <= n
  BY NodeFacts, UpFacts, UpIsClosed, InPlaceFacts DEF InPlace
<1>2. \A m : (ChildInField(m, "body") # NONE) = HasBody(m)
  BY DEF ChildInField, HasBody
<1>3. ASSUME NEW m \in Ruling(n) PROVE m \in Rules
  <2>1. /\ m \in NamespacesIn(tree) /\ HasName(tree, m) /\ m <= n /\ tree.type[m] = "namespace_definition"
        /\ m \in Nodes(tree)
        /\ IF HasBody(m) THEN m \in Up(tree)[n] ELSE tree.parent[m] \in Up(tree)[n]
    BY DEF Ruling, NamespacesIn
  <2>2. m \in 1..x
    BY <1>1, <2>1
  <2> QED
    BY <1>1, <1>2, <2>1, <2>2
<1>4. ASSUME NEW m \in Rules PROVE m \in Ruling(n)
  <2>1. /\ m \in 1..x /\ tree.type[m] = "namespace_definition" /\ HasName(tree, m)
        /\ IF HasBody(m) THEN m \in Up(tree)[x] ELSE tree.parent[m] \in Up(tree)[x]
    BY <1>2
  <2>2. m \in Nodes(tree) /\ m # ROOT
    BY <1>1, <2>1 DEF NamespacesDoNotMix
  <2>3. tree.parent[m] \in Nodes(tree) /\ tree.parent[m] < m
    BY <2>2, NodeFacts
  <2>4. CASE HasBody(m)
    <3>1. m \in Up(tree)[n]
      BY <1>1, <2>1, <2>4
    <3>2. m <= n /\ m \in InPlace(tree)
      BY <1>1, <3>1
    <3>3. tree.parent[m] \in InPlace(tree)
      BY <2>2, <3>2, InPlaceFacts
    <3> QED
      BY <2>1, <2>2, <2>4, <3>1, <3>2, <3>3 DEF Ruling, NamespacesIn
  <2>5. CASE ~ HasBody(m)
    <3>1. tree.parent[m] \in Up(tree)[n]
      BY <1>1, <2>1, <2>2, <2>3, <2>5
    <3>2. tree.parent[m] \in InPlace(tree) /\ m \in NamespacesIn(tree)
      BY <1>1, <2>1, <2>2, <3>1 DEF NamespacesIn
    <3>3. m <= n
      <4> SUFFICES ASSUME n < m PROVE FALSE
        BY <1>1, <2>2
      <4>1. n \in Up(tree)[x]
        BY <1>1, UpIsClosed
      <4>2. n \in Up(tree)[m]
        BY <1>1, <2>1, <2>2, <4>1, UpIsInterval
      <4>3. Up(tree)[m] = Up(tree)[tree.parent[m]] \cup {m}
        BY <2>2, UpFacts
      <4>4. n \in Up(tree)[tree.parent[m]]
        BY <1>1, <2>2, <4>2, <4>3
      <4>5. n <= tree.parent[m] /\ tree.parent[m] <= n
        BY <1>1, <2>3, <3>1, <4>4, UpIsClosed
      <4>6. tree.parent[m] = n
        BY <1>1, <2>3, <4>5
      <4> QED
        BY <3>2, <4>6 DEF NamespacesDoNotMix
    <3> QED
      BY <2>1, <2>5, <3>1, <3>2, <3>3 DEF Ruling
  <2> QED
    BY <2>4, <2>5
<1> HIDE DEF Rules
<1>5. Ruling(n) = Rules
  BY <1>3, <1>4
<1> QED
  BY <1>5 DEF Rules

\* The list of namespaces, when their listener is through.
LEMMA NamespacesListed ==
  ASSUME Kept, Regular, 1 < listener
  PROVE  /\ IsSeq(symbols.namespaces)
         /\ \A i \in 1..Len(symbols.namespaces) : \E m \in NamespacesIn(tree) :
              /\ HasName(tree, m) /\ "node" \in DOMAIN symbols.namespaces[i]
              /\ symbols.namespaces[i].scope = NamespaceScope(m)
              /\ symbols.namespaces[i].name = Text(InField(tree, m, "name"))
         /\ \A m \in NamespacesIn(tree) : HasName(tree, m) =>
              \E i \in 1..Len(symbols.namespaces) : symbols.namespaces[i].scope = NamespaceScope(m)
<1> DEFINE list == symbols.namespaces
<1>1. Listed(tree, listener, coming, 1, list, About(1)) /\ NamesAreFirst(tree) /\ NamespacesDoNotMix(tree) /\ tree \in PhpTrees
  BY DEF Kept, Regular, Keepers, ListOf
<1> HIDE DEF list
<1>2. /\ IsSeq(list) /\ \A i \in 1..Len(list) : \E m \in Nodes(tree) : EntryOf(tree, 1, list[i], m, About(1))
      /\ \A m \in Nodes(tree) : IsNamed(tree, 1, m) => \E i \in 1..Len(list) : list[i].node = NameOf(tree, m)
  BY <1>1 DEF Listed, Added
<1>3. 1 \in Keepers /\ DeclaredBy(1) = {"namespace_definition"}
  BY DEF Keepers, DeclaredBy
<1>4. ASSUME NEW m \in Nodes(tree)
      PROVE  /\ IsNamed(tree, 1, m) <=> m \in NamespacesIn(tree) /\ HasName(tree, m)
             /\ IsNamed(tree, 1, m) => NameOf(tree, m) = InField(tree, m, "name") /\ tree.parent[NameOf(tree, m)] = m
  <2>1. m \in NamespacesIn(tree) <=> m \in InPlace(tree) /\ tree.type[m] = "namespace_definition"
    <3>1. m \in NamespacesIn(tree) => m \in InPlace(tree)
      BY <1>1, AreaFacts
    <3>2. tree.type[m] = "namespace_definition" => m # ROOT
      BY <1>1 DEF NamespacesDoNotMix
    <3>3. m \in InPlace(tree) /\ m # ROOT => tree.parent[m] \in InPlace(tree)
      BY <1>1, InPlaceFacts
    <3> QED
      BY <3>1, <3>2, <3>3 DEF NamespacesIn
  <2>2. m \in InPlace(tree) /\ tree.type[m] \in DeclaredBy(1) =>
          /\ HasName(tree, m) <=> Names(tree, m) # {}
          /\ Names(tree, m) # {} => NameOf(tree, m) = InField(tree, m, "name") /\ tree.parent[NameOf(tree, m)] = m
    BY <1>1, <1>3, FirstIsName
  <2> QED
    BY <1>3, <2>1, <2>2 DEF IsNamed
<1>5. ASSUME NEW s, NEW m \in Nodes(tree), EntryOf(tree, 1, s, m, About(1))
      PROVE  /\ m \in NamespacesIn(tree) /\ HasName(tree, m) /\ "node" \in DOMAIN s /\ s.scope = NamespaceScope(m)
             /\ s.name = Text(InField(tree, m, "name")) /\ s.node = NameOf(tree, m) /\ tree.parent[NameOf(tree, m)] = m
  <2>1. IsNamed(tree, 1, m) /\ s.node = NameOf(tree, m) /\ s.name = tree.text[NameOf(tree, m)] /\ Shaped(1, s, About(1)[m])
    BY <1>5 DEF EntryOf
  <2>2. About(1)[m].of = NamespaceScope(m)
    BY DEF About
  <2>3. "node" \in DOMAIN s /\ s.scope = About(1)[m].of
    BY <2>1 DEF Shaped
  <2> QED
    BY <1>4, <2>1, <2>2, <2>3 DEF Text
<1>6. \A i \in 1..Len(list) : \E m \in NamespacesIn(tree) :
              /\ HasName(tree, m) /\ "node" \in DOMAIN list[i]
              /\ list[i].scope = NamespaceScope(m)
              /\ list[i].name = Text(InField(tree, m, "name"))
  BY <1>2, <1>5
<1>7. ASSUME NEW m \in NamespacesIn(tree), HasName(tree, m) PROVE \E i \in 1..Len(list) : list[i].scope = NamespaceScope(m)
  <2>1. m \in Nodes(tree)
    BY DEF NamespacesIn
  <2>2. IsNamed(tree, 1, m) /\ tree.parent[NameOf(tree, m)] = m
    BY <1>4, <1>7, <2>1
  <2>3. PICK i \in 1..Len(list) : list[i].node = NameOf(tree, m)
    BY <1>2, <2>1, <2>2
  <2>4. PICK k \in Nodes(tree) : EntryOf(tree, 1, list[i], k, About(1))
    BY <1>2
  <2>5. list[i].scope = NamespaceScope(k) /\ k = m
    BY <1>5, <2>2, <2>3, <2>4
  <2> QED
    BY <2>5
<1> QED
  BY <1>2, <1>6, <1>7 DEF list

\* A set of numbers that are not greater than one has a last.
LEMMA LastExists ==
  ASSUME NEW n \in Nat, NEW S \in SUBSET Nat, S # {}, \A k \in S : k <= n
  PROVE  \E g \in S : \A k \in S : k <= g
<1> DEFINE T == {n - k : k \in S}
<1>1. T \in SUBSET Nat /\ T # {}
  <2>1. \A k \in S : n - k \in Nat
    OBVIOUS
  <2> QED
    BY <2>1
<1> HIDE DEF T
<1>2. PICK d \in T : \A e \in T : d <= e
  BY <1>1, LeastNumberExists
<1>3. PICK g \in S : d = n - g
  BY DEF T
<1>4. \A k \in S : n - k \in T
  BY DEF T
<1> QED
  BY <1>2, <1>3, <1>4

\* A class is looked up in the namespace that governs its name.
LEMMA NamespaceFound ==
  ASSUME Kept, Regular, 1 < listener, NEW n \in InPlace(tree), tree.type[n] = "class_declaration", HasName(tree, n)
  PROVE  LET name == InField(tree, n, "name")
         IN  Qualify(NamespaceOf(RangeOf(n)), Text(name)) = Governing(name) \o Text(name)
<1> DEFINE x == InField(tree, n, "name")
           list == symbols.namespaces
           range == RangeOf(n)
           U == {list[i] : i \in 1..Len(list)}
           r == Innermost(range, list, NONE)
           S == Ruling(n)
<1>1. tree \in PhpTrees /\ NamespacesDoNotMix(tree) /\ NamesAreFirst(tree) /\ NoneIsNoSymbol /\ n \in Nodes(tree)
  BY DEF Kept, Regular, InPlace
<1>2. x \in Nodes(tree) \ {ROOT} /\ tree.parent[x] = n /\ tree.type[x] = "name"
  <2>1. x # NONE
    BY DEF HasName
  <2>2. x \in Nodes(tree) /\ tree.parent[x] = n
    BY <1>1, <2>1, FieldFacts
  <2>3. x # ROOT
    BY <1>1, <2>2, NodeFacts
  <2>4. x = Min(Names(tree, n)) /\ Names(tree, n) # {}
    BY <1>1 DEF NamesAreFirst, Declarations
  <2>5. Names(tree, n) \in SUBSET Nat
    BY <1>1, NodeFacts DEF Names, Below
  <2>6. x \in Names(tree, n)
    <3> HIDE DEF x
    <3> QED
      BY <2>4, <2>5, MinFacts
  <2>7. NameKind("class_declaration") = "name"
    BY DEF NameKind, Parameters
  <2> QED
    BY <2>2, <2>3, <2>6, <2>7 DEF Names
<1> HIDE DEF x
<1>3. Governing(x) = IF S = {} THEN << >> ELSE Text(InField(tree, Max(S), "name"))
  BY <1>1, <1>2, RulingIsGoverning DEF Governing, ChildInField
<1>4. Text(x) \in Seq(STRING)
  BY <1>1, <1>2, TextsAssumption DEF Text
<1>5. /\ IsSeq(list)
      /\ \A i \in 1..Len(list) : \E m \in NamespacesIn(tree) :
              /\ HasName(tree, m) /\ "node" \in DOMAIN list[i] /\ list[i].scope = NamespaceScope(m)
              /\ list[i].name = Text(InField(tree, m, "name"))
      /\ \A m \in NamespacesIn(tree) : HasName(tree, m) => \E i \in 1..Len(list) : list[i].scope = NamespaceScope(m)
  BY NamespacesListed
<1> HIDE DEF list, range
<1>6. \A m \in NamespacesIn(tree) : NamespaceScope(m).from = m /\ m \in Nat /\ NamespaceScope(m).to \in Nat
  <2>1. TAKE m \in NamespacesIn(tree)
  <2>2. m \in Nodes(tree)
    BY DEF NamespacesIn
  <2> QED
    BY <1>1, <2>2, AreaFacts, NodeFacts
<1>7. \A m, k \in NamespacesIn(tree) : IsWithin(range, NamespaceScope(m)) /\ IsWithin(range, NamespaceScope(k)) =>
        (IsWithin(NamespaceScope(m), NamespaceScope(k)) <=> k <= m)
  <2> SUFFICES ASSUME NEW m \in NamespacesIn(tree), NEW k \in NamespacesIn(tree),
                      IsWithin(range, NamespaceScope(m)), IsWithin(range, NamespaceScope(k))
               PROVE  IsWithin(NamespaceScope(m), NamespaceScope(k)) <=> k <= m
    OBVIOUS
  <2>1. k < m => NamespaceScope(m).to <= NamespaceScope(k).to
    BY <1>1, AreasNest DEF range
  <2>2. IsWithin(NamespaceScope(m), NamespaceScope(k)) <=> k <= m /\ NamespaceScope(m).to <= NamespaceScope(k).to
    BY <1>6 DEF IsWithin
  <2>3. k <= m => k < m \/ k = m
    BY <1>6
  <2> QED
    BY <1>6, <2>1, <2>2, <2>3
<1>8. Nested(range, U)
  <2>1. \A s \in U : \E m \in NamespacesIn(tree) : "node" \in DOMAIN s /\ s.scope = NamespaceScope(m)
    BY <1>5
  <2> HIDE DEF U
  <2>2. \A s \in U : "node" \in DOMAIN s /\ s.scope.from \in Nat
    BY <1>6, <2>1
  <2>3. ASSUME NEW a \in U, NEW b \in U, IsWithin(range, a.scope), IsWithin(range, b.scope)
        PROVE  IsWithin(a.scope, b.scope) <=> b.scope.from <= a.scope.from
    <3>1. PICK m \in NamespacesIn(tree) : a.scope = NamespaceScope(m)
      BY <2>1
    <3>2. PICK k \in NamespacesIn(tree) : b.scope = NamespaceScope(k)
      BY <2>1
    <3> QED
      BY <1>6, <1>7, <2>3, <3>1, <3>2
  <2> QED
    BY <2>2, <2>3 DEF Nested
<1>9. Nearest(r, range, list, NONE)
  <2>1. \A i \in 1..Len(list) : list[i] \in U
    OBVIOUS
  <2> HIDE DEF U
  <2> QED
    BY <1>1, <1>5, <1>8, <2>1, InnermostFacts
<1>10. NamespaceOf(RangeOf(n)) = r
  BY DEF NamespaceOf, r, range, list
<1> HIDE DEF r, U
<1>11. /\ r = NONE \/ \E i \in 1..Len(list) : r = list[i]
       /\ r # NONE => IsWithin(range, r.scope)
       /\ \A i \in 1..Len(list) : IsWithin(range, list[i].scope) => r # NONE /\ list[i].scope.from <= r.scope.from
  BY <1>9 DEF Nearest
<1>12. ASSUME r # NONE
       PROVE  \E m \in S : r.scope = NamespaceScope(m) /\ r.name = Text(InField(tree, m, "name"))
  <2>1. PICK i \in 1..Len(list) : r = list[i]
    BY <1>11, <1>12
  <2>2. PICK m \in NamespacesIn(tree) : /\ HasName(tree, m) /\ r.scope = NamespaceScope(m)
                                        /\ r.name = Text(InField(tree, m, "name"))
    BY <1>5, <2>1
  <2>3. m <= n /\ IF HasBody(m) THEN m \in Up(tree)[n] ELSE tree.parent[m] \in Up(tree)[n]
    BY <1>1, <1>11, <1>12, <2>2, WithinArea DEF range
  <2> QED
    BY <2>2, <2>3 DEF Ruling
<1>13. S \in SUBSET Nat /\ \A m \in S : m \in NamespacesIn(tree) /\ HasName(tree, m) /\ m <= n
  BY <1>6 DEF Ruling
<1>14. ASSUME NEW g \in S, \A k \in S : k <= g
       PROVE  r # NONE /\ r.name = Text(InField(tree, g, "name"))
  <2>1. IsWithin(range, NamespaceScope(g))
    BY <1>1, <1>14, RulingIsAround DEF range
  <2>2. PICK i \in 1..Len(list) : list[i].scope = NamespaceScope(g)
    BY <1>5, <1>13
  <2>3. r # NONE /\ g <= r.scope.from
    BY <1>6, <1>11, <1>13, <2>1, <2>2
  <2>4. PICK m \in S : r.scope = NamespaceScope(m) /\ r.name = Text(InField(tree, m, "name"))
    BY <1>12, <2>3
  <2>5. m = g
    <3>1. r.scope.from = m /\ m \in Nat /\ g \in Nat /\ m <= g
      BY <1>6, <1>13, <1>14, <2>4
    <3> QED
      BY <2>3, <3>1
  <2> QED
    BY <2>3, <2>4, <2>5
<1> HIDE DEF S
<1>15. S # {} => \E g \in S : \A k \in S : k <= g
  <2>1. n \in Nat
    BY <1>1, NodeFacts
  <2> QED
    BY <1>13, <2>1, LastExists
<1>16. CASE S = {}
  <2>1. r = NONE
    BY <1>12, <1>16
  <2>2. Governing(x) = << >>
    BY <1>3, <1>16
  <2>3. << >> \o Text(x) = Text(x)
    BY <1>4
  <2>4. Qualify(NamespaceOf(RangeOf(n)), Text(x)) = Governing(x) \o Text(x)
    BY <1>10, <2>1, <2>2, <2>3 DEF Qualify
  <2> QED
    BY <2>4 DEF x
<1>17. CASE S # {}
  <2>1. PICK g \in S : \A k \in S : k <= g
    BY <1>15, <1>17
  <2>2. Max(S) = g
    <3>1. \A y \in S : (\A k \in S : y >= k) => y = g
      BY <1>13, <2>1
    <3>2. \A k \in S : g >= k
      BY <1>13, <2>1
    <3> QED
      BY <3>1, <3>2 DEF Max
  <2>3. Governing(x) = Text(InField(tree, g, "name"))
    BY <1>3, <1>17, <2>2
  <2>4. r # NONE /\ r.name = Text(InField(tree, g, "name"))
    BY <1>14, <2>1
  <2>5. Qualify(NamespaceOf(RangeOf(n)), Text(x)) = Governing(x) \o Text(x)
    BY <1>10, <2>3, <2>4 DEF Qualify
  <2> QED
    BY <2>5 DEF x
<1> QED
  BY <1>16, <1>17

-----------------------------------------------------------------------------
(* What is known of each symbol.                                           *)

\* The name of the namespace that governs a node.
GoverningIn(t, n) ==
    LET governing == {m \in 1..n : /\ t.type[m] = "namespace_definition" /\ HasName(t, m)
                                   /\ IF InField(t, m, "body") # NONE THEN m \in Up(t)[n] ELSE t.parent[m] \in Up(t)[n]}
    IN  IF governing = {} THEN << >> ELSE t.text[InField(t, Max(governing), "name")]

\* The operator of the model is this one at the tree.
LEMMA GoverningHere ==
  ASSUME NEW n
  PROVE  Governing(n) = GoverningIn(tree, n)
BY DEF Governing, GoverningIn, ChildInField, Text

\* A variable that is assigned or iterated over.
FirstNamedIn(t, n) == FirstOf({c \in Below(t, n) : t.flag[c] # "token"})
TypeIn(t, n) == IF n = NONE THEN "nothing" ELSE t.type[n]
IsLocalIn(t, n) ==
    \/ t.type[t.parent[n]] = "assignment_expression" /\ n = InField(t, t.parent[n], "left")
    \/ t.type[t.parent[n]] = "foreach_statement" /\ n # FirstNamedIn(t, t.parent[n])
    \/ t.type[t.parent[n]] = "pair" /\ TypeIn(t, IF t.parent[n] = ROOT THEN NONE ELSE t.parent[t.parent[n]]) = "foreach_statement"

\* These are the ones that the listener takes for local.
LEMMA LocalHere ==
  ASSUME NEW n
  PROVE  IsAssigned(n) \/ IsIterated(n) <=> IsLocalIn(tree, n)
<1>1. IsAssigned(n) <=> tree.type[tree.parent[n]] = "assignment_expression" /\ n = InField(tree, tree.parent[n], "left")
  BY DEF IsAssigned, ChildInField
<1>2. IsIterated(n) <=>
        \/ tree.type[tree.parent[n]] = "foreach_statement" /\ n # FirstNamedIn(tree, tree.parent[n])
        \/ tree.type[tree.parent[n]] = "pair"
           /\ TypeIn(tree, IF tree.parent[n] = ROOT THEN NONE ELSE tree.parent[tree.parent[n]]) = "foreach_statement"
  BY DEF IsIterated, FirstNamed, NamedChildren, FirstNamedIn, NodeType, Parent, TypeIn
<1> QED
  BY <1>1, <1>2 DEF IsLocalIn

\* It belongs to the innermost declaration around it; a variable is no parameter, too.
IsOfOwner(t, s, types) == {"node", "owner"} \subseteq DOMAIN s /\ s.owner = AroundIn(t, s.node, types)
IsVariable(t, s) ==
    /\ IsOfOwner(t, s, OwnerTypes) /\ {"name", "type"} \subseteq DOMAIN s
    /\ s.node \in InPlace(t) /\ s.name = t.text[s.node] /\ t.type[t.parent[s.node]] \notin Parameters

\* What is known of a symbol in each of the lists.
Entry(t, f, s) ==
    CASE f = "classes" -> s.name = GoverningIn(t, s.node) \o t.text[s.node]
      [] f = "properties" -> IsOfOwner(t, s, {"class_declaration"})
      [] f = "locals" -> IsVariable(t, s) /\ IsLocalIn(t, s.node)
      [] f = "usages" -> IsVariable(t, s) /\ ~ IsLocalIn(t, s.node) /\ "definition" \in DOMAIN s
      [] f = "references" -> s.kind \notin {"classReference", "functionCall"} => s.owner = AroundIn(t, s.node, OwnerTypes)

Good(t, f, list) == IsSeq(list) /\ \A i \in 1..Len(list) : Entry(t, f, list[i])
Owned == \A f \in Plain : Good(tree, f, symbols[f])

\* One more.
LEMMA GoodMore ==
  ASSUME NEW t, NEW f, NEW list, Good(t, f, list), NEW s, Entry(t, f, s)
  PROVE  Good(t, f, Append(list, s))
<1>1. IsSeq(list) /\ Len(list) \in Nat /\ \A i \in 1..Len(list) : Entry(t, f, list[i])
  BY DEF Good, IsSeq
<1> DEFINE more == Append(list, s)
<1>2. IsSeq(more) /\ Len(more) = Len(list) + 1 /\ more[Len(list) + 1] = s /\ \A i \in 1..Len(list) : more[i] = list[i]
  BY <1>1, AppendFacts
<1> HIDE DEF more
<1>3. \A i \in 1..Len(more) : Entry(t, f, more[i])
  <2>1. TAKE i \in 1..Len(more)
  <2>2. i \in 1..Len(list) \/ i = Len(list) + 1
    BY <1>1, <1>2
  <2> QED
    BY <1>1, <1>2, <2>2
<1> QED
  BY <1>2, <1>3 DEF Good, more

\* Some more.
LEMMA GoodAll ==
  ASSUME NEW t, NEW f, NEW list, Good(t, f, list), NEW n \in Nat, NEW found, found = [i \in 1..n |-> found[i]],
         \A i \in 1..n : Entry(t, f, found[i])
  PROVE  Good(t, f, list \o found)
<1>1. IsSeq(list) /\ Len(list) \in Nat /\ \A i \in 1..Len(list) : Entry(t, f, list[i])
  BY DEF Good, IsSeq
<1> DEFINE S == {list[i] : i \in 1..Len(list)} \cup {found[i] : i \in 1..n}
<1>2. found \in Seq(S) /\ Len(found) = n
  <2>1. [i \in 1..n |-> found[i]] \in Seq(S) /\ Len([i \in 1..n |-> found[i]]) = n
    OBVIOUS
  <2> HIDE DEF S
  <2> QED
    BY <2>1
<1>3. list \in Seq(S)
  BY <1>1, SeqOfElements
<1> HIDE DEF S
<1>4. /\ list \o found \in Seq(S) /\ Len(list \o found) = Len(list) + n
      /\ \A i \in 1..(Len(list) + n) : (list \o found)[i] = IF i <= Len(list) THEN list[i] ELSE found[i - Len(list)]
  BY <1>2, <1>3
<1>5. IsSeq(list \o found)
  BY <1>4, ElementsOfSeq
<1>6. ASSUME NEW i \in 1..Len(list \o found) PROVE Entry(t, f, (list \o found)[i])
  <2>1. CASE i <= Len(list)
    BY <1>1, <1>4, <2>1
  <2>2. CASE ~ (i <= Len(list))
    <3>1. i - Len(list) \in 1..n
      BY <1>1, <1>4, <2>2
    <3> QED
      BY <1>4, <2>2, <3>1
  <2> QED
    BY <2>1, <2>2
<1> QED
  BY <1>5, <1>6 DEF Good

\* Each may be changed.
LEMMA GoodEach ==
  ASSUME NEW t, NEW f, NEW list, Good(t, f, list), NEW more, more = [i \in DOMAIN list |-> more[i]],
         \A i \in 1..Len(list) : Entry(t, f, more[i])
  PROVE  Good(t, f, more) /\ Len(more) = Len(list) /\ DOMAIN more = 1..Len(list)
<1>1. IsSeq(list) /\ Len(list) \in Nat /\ DOMAIN list = 1..Len(list)
  BY DEF Good, IsSeq
<1>2. more = [i \in 1..Len(list) |-> more[i]]
  BY <1>1
<1> DEFINE S == {more[i] : i \in 1..Len(list)}
<1>3. more \in Seq(S) /\ Len(more) = Len(list)
  <2>1. [i \in 1..Len(list) |-> more[i]] \in Seq(S) /\ Len([i \in 1..Len(list) |-> more[i]]) = Len(list)
    BY <1>1
  <2> HIDE DEF S
  <2> QED
    BY <1>2, <2>1
<1> HIDE DEF S
<1>4. IsSeq(more)
  BY <1>3, ElementsOfSeq
<1> QED
  BY <1>1, <1>2, <1>3, <1>4 DEF Good

\* A symbol that has been changed in other fields than these.
Same(e, s) ==
    DOMAIN e = DOMAIN s /\ \A field \in {"kind", "node", "name", "owner"} \cap DOMAIN s : e[field] = s[field]

\* Such a change leaves what is known of it.
LEMMA SameEntry ==
  ASSUME NEW t, NEW f \in {"properties", "locals", "usages"}, NEW s, Entry(t, f, s), NEW e, Same(e, s)
  PROVE  Entry(t, f, e)
<1>1. IsOfOwner(t, s, IF f = "properties" THEN {"class_declaration"} ELSE OwnerTypes)
  BY DEF Entry, IsVariable
<1>2. e.node = s.node /\ e.owner = s.owner /\ DOMAIN e = DOMAIN s
  BY <1>1 DEF IsOfOwner, Same
<1>3. IsOfOwner(t, e, IF f = "properties" THEN {"class_declaration"} ELSE OwnerTypes)
  BY <1>1, <1>2 DEF IsOfOwner
<1>4. CASE f = "properties"
  BY <1>3, <1>4 DEF Entry
<1>5. CASE f # "properties"
  <2>1. IsVariable(t, s)
    BY <1>5 DEF Entry
  <2>2. e.name = s.name
    BY <2>1 DEF IsVariable, Same
  <2>3. IsVariable(t, e)
    BY <1>2, <1>3, <1>5, <2>1, <2>2 DEF IsVariable
  <2> QED
    BY <1>2, <1>5, <2>3 DEF Entry
<1> QED
  BY <1>4, <1>5

\* Changes of this kind.
LEMMA SameFacts ==
  ASSUME NEW s
  PROVE  /\ Same(s, s) /\ \A type : Same([s EXCEPT !.type = type], s)
         /\ \A definition : Same([s EXCEPT !.definition = definition], s)
         /\ \A source, element : Same([s EXCEPT !.source = source, !.element = element], s)
<1>1. Same(s, s)
  BY DEF Same
<1>2. \A type : Same([s EXCEPT !.type = type], s)
  BY DEF Same
<1>3. \A definition : Same([s EXCEPT !.definition = definition], s)
  BY DEF Same
<1>4. ASSUME NEW source, NEW element PROVE Same([s EXCEPT !.source = source, !.element = element], s)
  <2> DEFINE d == [s EXCEPT !.source = source]
  <2>1. [s EXCEPT !.source = source, !.element = element] = [d EXCEPT !.element = element]
    BY Zenon
  <2>2. Same(d, s)
    BY DEF Same
  <2> HIDE DEF d
  <2>3. Same([d EXCEPT !.element = element], s)
    BY <2>2 DEF Same
  <2> QED
    BY <2>1, <2>3
<1> QED
  BY <1>1, <1>2, <1>3, <1>4

\* At first there is none.
LEMMA OwnedAtFirst == Init => Owned
<1> SUFFICES ASSUME Init PROVE Owned
  OBVIOUS
<1>1. \A f \in Plain : symbols[f] = << >>
  BY DEF Init, Plain
<1>2. \A f : Good(tree, f, << >>)
  <2>1. IsSeq(<< >>) /\ Len(<< >>) = 0
    BY DEF IsSeq
  <2> QED
    BY <2>1 DEF Good
<1> QED
  BY <1>1, <1>2 DEF Owned

\* The places of the listeners that add to these lists.
LEMMA OwnedPlaces ==
  ASSUME NEW l \in 1..12
  PROVE  /\ Listeners[l].of = "class" => l = 3
         /\ Listeners[l].of = "property" => l = 4
         /\ Listeners[l].of = "variable" => l = 10
         /\ Listeners[l].of = "reference" => l = 11
BY DEF Listeners

\* A symbol is added to a list of these.
LEMMA OwnedMore ==
  ASSUME DOMAIN symbols = Lists, Owned, NEW f \in Plain, NEW s, Entry(tree, f, s)
  PROVE  Good(tree, f, With(f, s)[f])
<1>1. f \in Lists
  BY DEF Plain, Lists
<1>2. With(f, s)[f] = Append(symbols[f], s)
  BY <1>1, WithFacts
<1>3. Good(tree, f, symbols[f])
  BY DEF Owned
<1> QED
  BY <1>2, <1>3, GoodMore

\* A class.
LEMMA ClassesOwned ==
  ASSUME Regular, Kept, Owned, DeclareClass
  PROVE  Good(tree, "classes", symbols'.classes)
<1> DEFINE n == At.node
           name == ChildInField(n, "name")
           s == [kind |-> "class", node |-> name, name |-> Qualify(NamespaceOf(RangeOf(n)), Text(name)), scope |-> RangeOf(n)]
<1>1. Told("class", "enter", {"class_declaration"})
  BY DEF DeclareClass
<1>2. Listeners[listener].of = "class" /\ listener \in 1..12 /\ DOMAIN symbols = Lists /\ tree.type[n] \in {"class_declaration"}
  BY <1>1, ToldFacts
<1>3. listener = 3 /\ n \in InPlace(tree)
  BY <1>1, <1>2, OwnedPlaces, ToldInPlace
<1>4. symbols' = IF name # NONE /\ tree.flag[name] # "error" THEN With("classes", s) ELSE symbols
  BY DEF DeclareClass
<1>5. ASSUME name # NONE, tree.flag[name] # "error" PROVE Entry(tree, "classes", s)
  <2>1. HasName(tree, n)
    <3>1. ClassesAreNamed(tree)
      BY DEF Regular, Kept
    <3> QED
      BY <1>2, <1>3, <1>5, <3>1 DEF ClassesAreNamed, ChildInField
  <2>2. Qualify(NamespaceOf(RangeOf(n)), Text(name)) = Governing(name) \o Text(name)
    <3>1. 1 < listener
      BY <1>3
    <3> QED
      BY <1>2, <1>3, <2>1, <3>1, NamespaceFound DEF ChildInField
  <2>3. Governing(name) = GoverningIn(tree, name)
    BY GoverningHere
  <2> HIDE DEF n, name
  <2> QED
    BY <2>2, <2>3 DEF Entry, Text
<1>6. "classes" \in Plain
  BY DEF Plain
<1> HIDE DEF s
<1>7. CASE name # NONE /\ tree.flag[name] # "error"
  BY <1>2, <1>4, <1>5, <1>6, <1>7, OwnedMore
<1>8. CASE ~ (name # NONE /\ tree.flag[name] # "error")
  BY <1>4, <1>6, <1>8 DEF Owned
<1> QED
  BY <1>7, <1>8

\* A property.
LEMMA PropertiesOwned ==
  ASSUME Regular, Kept, Classed, Owned, DeclareProperty
  PROVE  Good(tree, "properties", symbols'.properties)
<1> DEFINE n == At.node
           name == ChildInField(n, "name")
           declared == IF tree.type[n] = "property_element" THEN tree.parent[n] ELSE n
           s == [kind |-> "property", node |-> name, name |-> Text(name), owner |-> Id(ClassOf(RangeOf(n))),
                 type |-> TypeInField(declared, "type")]
<1>1. Told("property", "enter", {"property_element", "property_promotion_parameter"})
  BY DEF DeclareProperty
<1>2. /\ Listeners[listener].of = "property" /\ listener \in 1..12 /\ DOMAIN symbols = Lists /\ tree \in PhpTrees
      /\ n \in Nodes(tree)
  BY <1>1, ToldFacts
<1>3. listener = 4 /\ n \in InPlace(tree)
  BY <1>1, <1>2, OwnedPlaces, ToldInPlace
<1>4. symbols' = IF NodeType(name) = "variable_name" /\ tree.flag[name] # "error" THEN With("properties", s) ELSE symbols
  BY DEF DeclareProperty
<1>5. ASSUME NodeType(name) = "variable_name" PROVE Entry(tree, "properties", s)
  <2>1. name # NONE /\ tree.type[name] = "variable_name"
    BY <1>5 DEF NodeType
  <2>2. name \in Nodes(tree) /\ tree.parent[name] = n
    BY <1>2, <2>1, FieldFacts DEF ChildInField
  <2>3. name # ROOT
    BY <1>2, <2>2, NodeFacts
  <2>4. Id(ClassOf(RangeOf(n))) = AroundIn(tree, n, {"class_declaration"})
    BY <1>3, ClassFound
  <2>5. AroundIn(tree, name, {"class_declaration"}) = AroundIn(tree, tree.parent[name], {"class_declaration"})
    BY <1>2, <2>1, <2>2, <2>3, AroundBelow
  <2> HIDE DEF n, name, declared
  <2> QED
    BY <2>2, <2>4, <2>5 DEF Entry, IsOfOwner
<1>6. "properties" \in Plain
  BY DEF Plain
<1> HIDE DEF s
<1>7. CASE NodeType(name) = "variable_name" /\ tree.flag[name] # "error"
  BY <1>2, <1>4, <1>5, <1>6, <1>7, OwnedMore
<1>8. CASE ~ (NodeType(name) = "variable_name" /\ tree.flag[name] # "error")
  BY <1>4, <1>6, <1>8 DEF Owned
<1> QED
  BY <1>7, <1>8

\* A variable.
LEMMA VariablesOwned ==
  ASSUME Regular, Kept, Classed, Owned, DeclareOrUse
  PROVE  Good(tree, "locals", symbols'.locals) /\ Good(tree, "usages", symbols'.usages)
<1> DEFINE n == At.node
           owner == OwnerOf(RangeOf(n))
           local == [kind |-> "local", node |-> n, name |-> Text(n), owner |-> owner.node,
                     type |-> CreatedType(n), source |-> NONE, element |-> FALSE]
           usage == [kind |-> "usage", node |-> n, name |-> Text(n), owner |-> owner.node,
                     definition |-> NONE, type |-> NONE]
<1>1. Told("variable", "enter", {"variable_name"})
  BY DEF DeclareOrUse
<1>2. Listeners[listener].of = "variable" /\ listener \in 1..12 /\ DOMAIN symbols = Lists
  BY <1>1, ToldFacts
<1>3. listener = 10 /\ n \in InPlace(tree)
  BY <1>1, <1>2, OwnedPlaces, ToldInPlace
<1>4. symbols' = IF /\ owner # NONE /\ owner.kind \in {"method", "function"}
                    /\ tree.type[tree.parent[n]] \notin Parameters \cup {"variadic_parameter"}
                 THEN Variable(n, owner.node) ELSE symbols
  BY DEF DeclareOrUse
<1>5. {"locals", "usages"} \subseteq Plain /\ {"locals", "usages"} \subseteq Lists
  BY DEF Plain, Lists
<1>6. CASE symbols' = symbols
  BY <1>5, <1>6 DEF Owned
<1>7. CASE symbols' # symbols
  <2>1. symbols' = Variable(n, owner.node) /\ owner # NONE /\ tree.type[tree.parent[n]] \notin Parameters
    BY <1>4, <1>7
  <2>2. Id(owner) = AroundIn(tree, n, OwnerTypes)
    <3>1. 8 < listener
      BY <1>3
    <3> QED
      BY <1>3, <3>1, OwnerFound
  <2>3. owner.node = AroundIn(tree, n, OwnerTypes)
    BY <2>1, <2>2 DEF Id
  <2> HIDE DEF n, owner
  <2>4. IsVariable(tree, local) /\ IsVariable(tree, usage)
    BY <1>3, <2>1, <2>3 DEF IsVariable, IsOfOwner, Text
  <2>5. local.node = n /\ usage.node = n /\ "definition" \in DOMAIN usage
    OBVIOUS
  <2>6. IsAssigned(n) \/ IsIterated(n) <=> IsLocalIn(tree, n)
    BY LocalHere
  <2>7. symbols' = IF IsAssigned(n) \/ IsIterated(n) THEN With("locals", local) ELSE With("usages", usage)
    BY <2>1 DEF Variable
  <2> HIDE DEF local, usage
  <2>8. CASE IsLocalIn(tree, n)
    <3>1. symbols' = With("locals", local)
      BY <2>6, <2>7, <2>8
    <3>2. Entry(tree, "locals", local)
      BY <2>4, <2>5, <2>8 DEF Entry
    <3>3. symbols'.usages = symbols.usages
      BY <1>2, <1>5, <3>1, WithFacts
    <3> QED
      BY <1>2, <1>5, <3>1, <3>2, <3>3, OwnedMore DEF Owned
  <2>9. CASE ~ IsLocalIn(tree, n)
    <3>1. symbols' = With("usages", usage)
      BY <2>6, <2>7, <2>9
    <3>2. Entry(tree, "usages", usage)
      BY <2>4, <2>5, <2>9 DEF Entry
    <3>3. symbols'.locals = symbols.locals
      BY <1>2, <1>5, <3>1, WithFacts
    <3> QED
      BY <1>2, <1>5, <3>1, <3>2, <3>3, OwnedMore DEF Owned
  <2> QED
    BY <2>8, <2>9
<1> QED
  BY <1>6, <1>7

\* A reference.
LEMMA ReferencesOwned ==
  ASSUME Regular, Kept, Classed, Owned,
         ReferToFunction \/ ReferToMember \/ ReferToStatic \/ EnterClassName \/ LeafClassName
  PROVE  Good(tree, "references", symbols'.references)
<1>1. "references" \in Plain /\ DOMAIN symbols = Lists
  BY DEF Plain, Kept
<1>2. Good(tree, "references", symbols.references)
  BY <1>1 DEF Owned
<1>3. \A s : Entry(tree, "references", s) <=>
               (s.kind \notin {"classReference", "functionCall"} => s.owner = AroundIn(tree, s.node, OwnerTypes))
  BY DEF Entry
<1>4. CASE ReferToFunction
  <2> DEFINE s == [kind |-> "functionCall", node |-> At.node, name |-> Text(At.node)]
  <2>1. symbols' = With("references", s)
    BY <1>4 DEF ReferToFunction
  <2>2. Entry(tree, "references", s)
    BY <1>3
  <2> HIDE DEF s
  <2> QED
    BY <1>1, <2>1, <2>2, OwnedMore
<1>5. CASE EnterClassName \/ LeafClassName
  <2>1. symbols' = symbols \/ \E n, fqn : symbols' = With("references", ClassReference(n, fqn))
    BY <1>5 DEF EnterClassName, LeafClassName, AddClassReference
  <2>2. \A n, fqn : Entry(tree, "references", ClassReference(n, fqn))
    BY <1>3 DEF ClassReference
  <2> QED
    BY <1>1, <1>2, <2>1, <2>2, OwnedMore
<1>6. ASSUME ReferToMember \/ ReferToStatic PROVE Id(OwnerOf(RangeOf(At.node))) = AroundIn(tree, At.node, OwnerTypes)
  <2>1. Told("reference", "leaf", {"name"})
    BY <1>6 DEF ReferToMember, ReferToStatic
  <2>2. Listeners[listener].of = "reference" /\ listener \in 1..12
    BY <2>1, ToldFacts
  <2>3. 8 < listener
    BY <2>2, OwnedPlaces
  <2>4. At.node \in InPlace(tree)
    BY <2>1, ToldInPlace
  <2> QED
    BY <2>3, <2>4, OwnerFound
<1>7. CASE ReferToMember
  <2> DEFINE s == MemberReference(At.node, At.parent)
  <2>1. symbols' = With("references", s)
    BY <1>7 DEF ReferToMember
  <2>2. s.node = At.node /\ s.owner = Id(OwnerOf(RangeOf(At.node)))
    BY DEF MemberReference
  <2> HIDE DEF s
  <2>3. Entry(tree, "references", s)
    BY <1>3, <1>6, <1>7, <2>2
  <2> QED
    BY <1>1, <2>1, <2>3, OwnedMore
<1>8. CASE ReferToStatic
  <2> DEFINE scope == ChildInField(At.parent, "scope")
             s == StaticCall(At.node, scope)
  <2>1. symbols' = symbols \/ symbols' = With("references", s)
    BY <1>8 DEF ReferToStatic
  <2>2. s.node = At.node /\ s.owner = Id(OwnerOf(RangeOf(At.node)))
    BY DEF StaticCall
  <2> HIDE DEF s
  <2>3. Entry(tree, "references", s)
    BY <1>3, <1>6, <1>8, <2>2
  <2> QED
    BY <1>1, <1>2, <2>1, <2>3, OwnedMore
<1> QED
  BY <1>4, <1>5, <1>7, <1>8

\* References in a comment.
LEMMA DocsOwned ==
  ASSUME Kept, Owned, ReferenceInDoc
  PROVE  Good(tree, "references", symbols'.references)
<1>1. PICK n, classes : symbols' = [symbols EXCEPT !.references = @ \o [i \in 1..Len(classes) |-> ClassReference(n, ClassFqn(classes[i]))]]
  BY DEF ReferenceInDoc
<1> DEFINE found == [i \in 1..Len(classes) |-> ClassReference(n, ClassFqn(classes[i]))]
<1>2. symbols'.references = symbols.references \o found
  <2>1. "references" \in DOMAIN symbols
    BY DEF Kept, Lists
  <2> QED
    BY <1>1, <2>1
<1>3. Good(tree, "references", symbols.references)
  BY DEF Owned, Plain
<1>4. Len(classes) \in Nat /\ found = [i \in 1..Len(classes) |-> found[i]]
  OBVIOUS
<1>5. \A i \in 1..Len(classes) : Entry(tree, "references", found[i])
  BY DEF Entry, ClassReference
<1> HIDE DEF found
<1> QED
  BY <1>2, <1>3, <1>4, <1>5, GoodAll

\* The symbols of a list are changed, but not in what is known of them.
LEMMA OwnedEach ==
  ASSUME Owned, NEW f \in {"properties", "locals", "usages"}, NEW more,
         more = [i \in DOMAIN symbols[f] |-> more[i]], \A i \in 1..Len(symbols[f]) : Same(more[i], symbols[f][i])
  PROVE  Good(tree, f, more)
<1>1. Good(tree, f, symbols[f])
  BY DEF Owned, Plain
<1>2. \A i \in 1..Len(symbols[f]) : Entry(tree, f, symbols[f][i])
  BY <1>1 DEF Good
<1>3. \A i \in 1..Len(symbols[f]) : Entry(tree, f, more[i])
  BY <1>2, SameEntry
<1> QED
  BY <1>1, <1>3, GoodEach

\* The type of a property is in its comment.
LEMMA TypingOwned ==
  ASSUME Kept, Owned, TypeByVarDoc
  PROVE  Good(tree, "properties", symbols'.properties)
<1> DEFINE list == symbols.properties
           Typed(property) ==
             IF IsWithin(RangeOf(property.node), RangeOf(At.node)) /\ VarType(At.node, property) # NONE
             THEN [property EXCEPT !.type = VarType(At.node, property)] ELSE property
           more == [i \in DOMAIN list |-> Typed(list[i])]
<1>1. symbols'.properties = more
  <2>1. "properties" \in DOMAIN symbols
    BY DEF Kept, Lists
  <2>2. symbols' = [symbols EXCEPT !.properties = [i \in DOMAIN @ |-> Typed(@[i])]]
    BY DEF TypeByVarDoc
  <2> HIDE DEF Typed
  <2> QED
    BY <2>1, <2>2
<1>2. \A property : Same(Typed(property), property)
  BY SameFacts
<1>3. DOMAIN list = 1..Len(list)
  BY DEF Owned, Plain, Good, IsSeq
<1> HIDE DEF Typed
<1>4. more = [i \in DOMAIN list |-> more[i]] /\ \A i \in 1..Len(list) : Same(more[i], list[i])
  BY <1>2, <1>3
<1> HIDE DEF more
<1> QED
  BY <1>1, <1>4, OwnedEach

\* The definition of a usage.
LEMMA FillingOwned ==
  ASSUME Kept, Owned, FillDefinitions
  PROVE  Good(tree, "usages", symbols'.usages)
<1> DEFINE list == symbols.usages
           Filled(i) == [list[i] EXCEPT !.definition = Id(DefinitionOf(list[i]))]
           more == [i \in DOMAIN list |-> Filled(i)]
<1>1. symbols'.usages = more
  <2>1. "usages" \in DOMAIN symbols
    BY DEF Kept, Lists
  <2>2. symbols' = [symbols EXCEPT !.usages =
                     [i \in DOMAIN @ |-> [@[i] EXCEPT !.definition = Id(DefinitionOf(symbols.usages[i]))]]]
    BY DEF FillDefinitions
  <2> QED
    BY <2>1, <2>2
<1>2. \A i : Same(Filled(i), list[i])
  BY SameFacts
<1>3. DOMAIN list = 1..Len(list)
  BY DEF Owned, Plain, Good, IsSeq
<1> HIDE DEF Filled
<1>4. more = [i \in DOMAIN list |-> more[i]] /\ \A i \in 1..Len(list) : Same(more[i], list[i])
  BY <1>2, <1>3
<1> HIDE DEF more
<1> QED
  BY <1>1, <1>4, OwnedEach

\* The type of a usage.
LEMMA PropagatingOwned ==
  ASSUME Kept, Owned, PropagateTypes
  PROVE  Good(tree, "usages", symbols'.usages)
<1> DEFINE list == symbols.usages
           OfNode(l, id) == First(l, {i \in DOMAIN l : l[i].node = id})
           Declared(id) == IF OfNode(symbols.parameters, id) # NONE THEN OfNode(symbols.parameters, id)
                           ELSE OfNode(symbols.locals, id)
           Typed(usage) == IF usage.definition = NONE \/ Declared(usage.definition).type = NONE THEN usage
                           ELSE [usage EXCEPT !.type = Declared(usage.definition).type]
           more == [i \in DOMAIN list |-> Typed(list[i])]
<1>1. symbols'.usages = more
  <2>1. "usages" \in DOMAIN symbols
    BY DEF Kept, Lists
  <2>2. symbols' = [symbols EXCEPT !.usages = [i \in DOMAIN @ |-> Typed(@[i])]]
    BY DEF PropagateTypes
  <2> HIDE DEF Typed
  <2> QED
    BY <2>1, <2>2
<1> HIDE DEF Declared
<1>2. \A usage : Same(Typed(usage), usage)
  BY SameFacts
<1>3. DOMAIN list = 1..Len(list)
  BY DEF Owned, Plain, Good, IsSeq
<1> HIDE DEF Typed
<1>4. more = [i \in DOMAIN list |-> more[i]] /\ \A i \in 1..Len(list) : Same(more[i], list[i])
  BY <1>2, <1>3
<1> HIDE DEF more
<1> QED
  BY <1>1, <1>4, OwnedEach

\* What is inferred of a local is its type, or where that comes from.
LEMMA InferredSame ==
  ASSUME NEW local, NEW locals
  PROVE  Same(Inferred(local, locals), local)
<1>1. \A expression, element : Same(InferredFrom(local, expression, element, locals), local)
  BY SameFacts DEF InferredFrom
<1>2. Same(local, local)
  BY SameFacts
<1> QED
  BY <1>1, <1>2 DEF Inferred

\* The locals one after the other.
LEMMA InferringSame ==
  ASSUME Kept, Owned, InferTypes
  PROVE  LET more == symbols'.locals
         IN  more = [j \in DOMAIN symbols.locals |-> more[j]]
             /\ \A j \in 1..Len(symbols.locals) : Same(more[j], symbols.locals[j])
<1> DEFINE list == symbols.locals
           N == Len(list)
           Step(i, x) == [x EXCEPT ![i] = Inferred(@, x)]
           Is(k, g) == g = [i \in 0..k |-> IF i = 0 THEN list ELSE Step(i, g[i - 1])]
<1>1. N \in Nat /\ DOMAIN list = 1..N /\ list = [j \in 1..N |-> list[j]]
  BY DEF Owned, Plain, Good, IsSeq
<1> HIDE DEF Step, list, N
<1>2. \E g : Is(N, g)
  <2> DEFINE bad == {k \in Nat : ~ \E g : Is(k, g)}
  <2> SUFFICES ASSUME bad # {} PROVE FALSE
    BY <1>1
  <2>1. PICK k \in bad : \A l \in bad : k <= l
    <3>1. bad \in SUBSET Nat
      OBVIOUS
    <3> HIDE DEF bad
    <3> QED
      BY <3>1, LeastNumberExists
  <2>2. k \in Nat /\ ~ \E g : Is(k, g)
    BY <2>1
  <2>3. CASE k = 0
    <3> DEFINE g == [i \in 0..0 |-> list]
    <3>1. Is(0, g)
      OBVIOUS
    <3> QED
      BY <2>2, <2>3, <3>1
  <2>4. CASE k # 0
    <3>1. k - 1 \in Nat /\ ~ (k <= k - 1)
      BY <2>2, <2>4
    <3>2. k - 1 \notin bad
      <4> HIDE DEF bad
      <4> QED
        BY <2>1, <3>1
    <3>3. PICK g : Is(k - 1, g)
      BY <3>1, <3>2
    <3> DEFINE h == [i \in 0..k |-> IF i = k THEN Step(k, g[k - 1]) ELSE g[i]]
    <3>4. ASSUME NEW i \in 0..k PROVE h[i] = IF i = 0 THEN list ELSE Step(i, h[i - 1])
      <4>1. CASE i = k
        <5>1. k - 1 \in 0..k /\ k - 1 # k /\ h[k - 1] = g[k - 1]
          BY <2>2, <2>4
        <5> QED
          BY <2>4, <4>1, <5>1
      <4>2. CASE i # k
        <5>1. i \in 0..(k - 1) /\ h[i] = g[i]
          BY <2>2, <4>2
        <5>2. g[i] = IF i = 0 THEN list ELSE Step(i, g[i - 1])
          BY <3>3, <5>1
        <5>3. i # 0 => i - 1 \in 0..k /\ i - 1 # k /\ h[i - 1] = g[i - 1]
          BY <2>2, <5>1
        <5> QED
          BY <5>1, <5>2, <5>3
      <4> QED
        BY <4>1, <4>2
    <3>5. h = [i \in 0..k |-> h[i]]
      OBVIOUS
    <3> HIDE DEF h
    <3>6. Is(k, h)
      BY <3>4, <3>5
    <3> QED
      BY <2>2, <3>6
  <2> QED
    BY <2>3, <2>4
<1> DEFINE inferred == CHOOSE g : Is(N, g)
<1>3. Is(N, inferred)
  <2> HIDE DEF Is
  <2> QED
    BY <1>2
<1>4. symbols'.locals = inferred[N]
  <2>1. "locals" \in DOMAIN symbols
    BY DEF Kept, Lists
  <2>2. symbols' = [symbols EXCEPT !.locals = inferred[N]]
    BY DEF InferTypes, list, N, Step
  <2> HIDE DEF inferred
  <2> QED
    BY <2>1, <2>2
<1>5. inferred[0] = list /\ \A i \in 1..N : inferred[i] = Step(i, inferred[i - 1])
  <2>1. 0 \in 0..N /\ \A i \in 1..N : i \in 0..N /\ i # 0
    BY <1>1
  <2> HIDE DEF inferred
  <2> QED
    BY <1>3, <2>1
<1> HIDE DEF inferred, Is
<1> DEFINE good(x) == x = [j \in 1..N |-> x[j]] /\ \A j \in 1..N : Same(x[j], list[j])
           wrong == {i \in Nat : i <= N /\ ~ good(inferred[i])}
<1>6. good(inferred[0])
  <2>1. \A j \in 1..N : Same(list[j], list[j])
    BY SameFacts
  <2> QED
    BY <1>1, <1>5, <2>1
<1>7. ASSUME NEW i \in 1..N, NEW x, good(x) PROVE good(Step(i, x))
  <2>1. Step(i, x) = [x EXCEPT ![i] = Inferred(x[i], x)]
    BY DEF Step
  <2>2. DOMAIN x = 1..N /\ \A j \in 1..N : Same(x[j], list[j])
    BY <1>7
  <2> DEFINE y == [x EXCEPT ![i] = Inferred(x[i], x)]
  <2>3. y = [j \in 1..N |-> y[j]]
    BY <2>2
  <2>4. \A j \in 1..N : y[j] = IF j = i THEN Inferred(x[i], x) ELSE x[j]
    BY <2>2
  <2> HIDE DEF y
  <2>5. Same(Inferred(x[i], x), x[i])
    BY InferredSame
  <2>6. Same(Inferred(x[i], x), list[i])
    BY <2>2, <2>5 DEF Same
  <2>7. \A j \in 1..N : Same(y[j], list[j])
    BY <2>2, <2>4, <2>6
  <2>8. good(y)
    BY <2>3, <2>7
  <2> QED
    BY <2>1, <2>8 DEF y
<1> HIDE DEF good
<1>8. wrong = {}
  <2> SUFFICES ASSUME wrong # {} PROVE FALSE
    OBVIOUS
  <2>1. PICK k \in wrong : \A l \in wrong : k <= l
    <3>1. wrong \in SUBSET Nat
      OBVIOUS
    <3> HIDE DEF wrong
    <3> QED
      BY <3>1, LeastNumberExists
  <2>2. k \in Nat /\ k <= N /\ ~ good(inferred[k])
    BY <2>1
  <2>3. k # 0
    BY <1>6, <2>2
  <2>4. k - 1 \in Nat /\ ~ (k <= k - 1) /\ k - 1 <= N /\ k \in 1..N
    BY <1>1, <2>2, <2>3
  <2>5. k - 1 \notin wrong
    <3> HIDE DEF wrong
    <3> QED
      BY <2>1, <2>4
  <2>6. good(inferred[k - 1])
    BY <2>4, <2>5
  <2> QED
    BY <1>5, <1>7, <2>2, <2>4, <2>6
<1>9. good(inferred[N])
  BY <1>1, <1>8
<1> DEFINE more == inferred[N]
<1>10. more = [j \in DOMAIN list |-> more[j]] /\ \A j \in 1..Len(list) : Same(more[j], list[j])
  BY <1>1, <1>9 DEF good, N
<1> QED
  BY <1>4, <1>10 DEF list

\* So they stay good.
LEMMA InferringOwned ==
  ASSUME Kept, Owned, InferTypes
  PROVE  Good(tree, "locals", symbols'.locals)
<1> DEFINE more == symbols'.locals
<1>1. more = [j \in DOMAIN symbols.locals |-> more[j]] /\ \A j \in 1..Len(symbols.locals) : Same(more[j], symbols.locals[j])
  BY InferringSame
<1> HIDE DEF more
<1>2. Good(tree, "locals", more)
  BY <1>1, OwnedEach
<1> QED
  BY <1>2 DEF more

\* Every step keeps what is known of the symbols.
LEMMA StepsOwn ==
  ASSUME Regular
  PROVE  Kept /\ Classed /\ Owned /\ [Next]_vars => Owned'
<1> SUFFICES ASSUME Kept, Classed, Owned, [Next]_vars PROVE Owned'
  OBVIOUS
<1>1. tree' = tree /\ DOMAIN symbols = Lists
  BY StepFacts DEF Kept
<1>2. ASSUME NEW f \in Plain PROVE Good(tree, f, symbols'[f])
  <2>1. CASE symbols'[f] = symbols[f]
    BY <2>1 DEF Owned
  <2>2. CASE Changes(f)
    <3>1. CASE f = "classes"
      BY <2>2, <3>1, ClassesOwned DEF Changes
    <3>2. CASE f = "properties"
      BY <2>2, <3>2, PropertiesOwned, TypingOwned DEF Changes
    <3>3. CASE f = "locals"
      BY <2>2, <3>3, VariablesOwned, InferringOwned DEF Changes
    <3>4. CASE f = "usages"
      BY <2>2, <3>4, VariablesOwned, FillingOwned, PropagatingOwned DEF Changes
    <3>5. CASE f = "references"
      BY <2>2, <3>5, ReferencesOwned, DocsOwned DEF Changes
    <3> QED
      BY <3>1, <3>2, <3>3, <3>4, <3>5 DEF Plain
  <2> QED
    BY <1>1, <2>1, <2>2, ListsStay
<1> QED
  BY <1>1, <1>2 DEF Owned

\* What is known of the entries of a list that a stack has been kept for.
LEMMA OwnersOfListed ==
  ASSUME Regular, Kept, NEW k \in {7, 9}, NEW s \in ToSet(symbols[ListOf(k)])
  PROVE  s.owner = Around(s.node, IF k = 7 THEN {"class_declaration"} ELSE OwnerTypes)
<1> DEFINE list == symbols[ListOf(k)]
           types == IF k = 7 THEN {"class_declaration"} ELSE OwnerTypes
<1>1. Listed(tree, listener, coming, k, list, About(k)) /\ tree \in PhpTrees /\ NamesAreFirst(tree) /\ k \in Keepers
  BY DEF Kept, Regular, Keepers
<1>2. PICK i \in 1..Len(list) : s = list[i]
  BY <1>1 DEF Listed, IsSeq, ToSet
<1> HIDE DEF list
<1>3. PICK n \in Nodes(tree) : EntryOf(tree, k, s, n, About(k))
  BY <1>1, <1>2 DEF Listed
<1>4. n \in InPlace(tree) /\ tree.type[n] \in DeclaredBy(k) /\ Names(tree, n) # {} /\ s.node = NameOf(tree, n)
      /\ Shaped(k, s, About(k)[n])
  BY <1>3 DEF EntryOf, IsNamed
<1>5. s.owner = AroundIn(tree, n, types)
  <2>1. s.owner = About(k)[n].owner
    BY <1>4 DEF Shaped
  <2>2. About(k)[n].owner = AroundIn(tree, n, types)
    BY <1>3 DEF About
  <2> QED
    BY <2>1, <2>2
<1>6. s.node \in Nodes(tree) \ {ROOT} /\ tree.parent[s.node] = n
  <2>1. tree.parent[s.node] = n /\ s.node \in Nodes(tree)
    BY <1>1, <1>4, FirstIsName
  <2> QED
    BY <1>1, <1>3, <2>1, NodeFacts
<1>7. tree.type[s.node] \in {"name", "variable_name"}
  <2>1. Names(tree, n) \in SUBSET Nat
    BY <1>1, NodeFacts DEF Names, Below
  <2>2. s.node \in Names(tree, n)
    BY <1>4, <2>1, MinFacts DEF NameOf
  <2>3. tree.type[s.node] = NameKind(tree.type[n])
    BY <2>2 DEF Names
  <2>4. tree.type[n] # "namespace_definition"
    BY <1>4 DEF DeclaredBy, Parameters
  <2> QED
    BY <2>3, <2>4 DEF NameKind
<1>8. tree.type[s.node] \notin types
  BY <1>7 DEF OwnerTypes
<1> HIDE DEF types
<1>9. AroundIn(tree, s.node, types) = AroundIn(tree, n, types)
  BY <1>1, <1>6, <1>8, AroundBelow
<1> QED
  BY <1>5, <1>9, AroundHere DEF types

\* The owners are right while the lists grow.
LEMMA OwnedEncloses ==
  ASSUME Regular, Kept, Owned
  PROVE  OwnersEnclose
<1>1. ASSUME NEW f \in Plain, NEW s \in ToSet(symbols[f])
      PROVE  Entry(tree, f, s)
  <2>1. Good(tree, f, symbols[f])
    BY DEF Owned
  <2>2. PICK i \in 1..Len(symbols[f]) : s = symbols[f][i]
    BY <2>1 DEF Good, IsSeq, ToSet
  <2> QED
    BY <2>1, <2>2 DEF Good
<1>2. Plain = {"classes", "properties", "locals", "usages", "references"}
      /\ ListOf(7) = "methods" /\ ListOf(9) = "parameters"
  BY DEF Plain, ListOf
<1>3. ASSUME NEW s \in Entries({"properties", "methods"})
      PROVE  s.owner = Around(s.node, {"class_declaration"})
  <2>1. CASE s \in ToSet(symbols.methods)
    <3>1. s \in ToSet(symbols[ListOf(7)])
      BY <1>2, <2>1
    <3>2. s.owner = Around(s.node, IF 7 = 7 THEN {"class_declaration"} ELSE OwnerTypes)
      BY <3>1, OwnersOfListed
    <3> QED
      BY <3>2
  <2>2. CASE s \in ToSet(symbols.properties)
    <3>1. Entry(tree, "properties", s)
      BY <1>1, <1>2, <2>2
    <3> QED
      BY <3>1, AroundHere DEF Entry, IsOfOwner
  <2> QED
    BY <2>1, <2>2 DEF Entries
<1>4. ASSUME NEW s \in Entries({"parameters", "locals", "usages", "references"}),
             s.kind \notin {"classReference", "functionCall"}
      PROVE  s.owner = Around(s.node, OwnerTypes)
  <2>1. CASE s \in ToSet(symbols.parameters)
    <3>1. s \in ToSet(symbols[ListOf(9)])
      BY <1>2, <2>1
    <3>2. s.owner = Around(s.node, IF 9 = 7 THEN {"class_declaration"} ELSE OwnerTypes)
      BY <3>1, OwnersOfListed
    <3> QED
      BY <3>2
  <2>2. CASE s \in ToSet(symbols.locals)
    <3>1. Entry(tree, "locals", s)
      BY <1>1, <1>2, <2>2
    <3> QED
      BY <3>1, AroundHere DEF Entry, IsVariable, IsOfOwner
  <2>3. CASE s \in ToSet(symbols.usages)
    <3>1. Entry(tree, "usages", s)
      BY <1>1, <1>2, <2>3
    <3> QED
      BY <3>1, AroundHere DEF Entry, IsVariable, IsOfOwner
  <2>4. CASE s \in ToSet(symbols.references)
    <3>1. Entry(tree, "references", s)
      BY <1>1, <1>2, <2>4
    <3> QED
      BY <1>4, <3>1, AroundHere DEF Entry
  <2> QED
    BY <2>1, <2>2, <2>3, <2>4 DEF Entries
<1>5. ASSUME NEW s \in ToSet(symbols.classes)
      PROVE  s.name = Governing(s.node) \o Text(s.node)
  <2>1. Entry(tree, "classes", s)
    BY <1>1, <1>2
  <2> QED
    BY <2>1, GoverningHere DEF Entry, Text
<1> QED
  BY <1>3, <1>4, <1>5 DEF OwnersEnclose

\* Every symbol belongs to the innermost declaration around it from the moment it is
\* in the collection, and a class is named in the namespace that governs it, in every
\* tree in which the first name of its kind right below a declaration is its name,
\* classes are named and namespaces do not mix.
THEOREM OwnersAlwaysEnclose ==
  ASSUME Regular
  PROVE  Spec => []OwnersEnclose
<1> DEFINE Inv == Kept /\ Classed /\ Owned
<1>1. Init => Inv
  BY KeptAtFirst, ClassedAtFirst, OwnedAtFirst
<1>2. Inv /\ [Next]_vars => Inv'
  BY StepsKeep, StepsClass, StepsOwn
<1>3. Inv => OwnersEnclose
  BY OwnedEncloses
<1> QED
  BY <1>1, <1>2, <1>3, PTL DEF Spec

-----------------------------------------------------------------------------
(* Definitions of usages.                                                  *)

\* What the pass makes of a usage, by the places in the lists of variables.
IsDefined(locals, parameters, u) ==
    LET above == Above(u, locals)
        passed == OfScope(parameters, u.owner, u.name)
    IN  IF above # {}
        THEN \E i \in above : u.definition = locals[i].node /\ \A j \in above : locals[j].node <= locals[i].node
        ELSE IF passed # {} THEN \E i \in passed : u.definition = parameters[i].node
        ELSE u.definition = NONE

WithNode(list, id) == First(list, {i \in DOMAIN list : list[i].node = id})
Declaring(locals, parameters, id) ==
    IF WithNode(parameters, id) # NONE THEN WithNode(parameters, id) ELSE WithNode(locals, id)

HasNodes(list) == IsSeq(list) /\ \A i \in 1..Len(list) : "node" \in DOMAIN list[i] /\ list[i].node \in Nat

\* What is known of the usages in each pass.
Followed ==
    LET list == symbols.usages
    IN  /\ pc \in {"walking", "filling"} => \A i \in 1..Len(list) : list[i].definition = NONE /\ list[i].type = NONE
        /\ pc \notin {"walking", "filling"} =>
             \A i \in 1..Len(list) : IsDefined(symbols.locals, symbols.parameters, list[i])
        /\ pc \in {"typing", "returning", "propagating"} => \A i \in 1..Len(list) : list[i].type = NONE
        /\ pc = "indexed" =>
             \A i \in 1..Len(list) : list[i].definition # NONE =>
               list[i].type = Declaring(symbols.locals, symbols.parameters, list[i].definition).type

\* The first of some places is one of them.
LEMMA FirstFacts ==
  ASSUME NoneIsNoSymbol, NEW list, HasNodes(list), NEW places \in SUBSET (1..Len(list))
  PROVE  /\ places = {} => First(list, places) = NONE
         /\ places # {} => First(list, places) # NONE /\ \E i \in places : First(list, places) = list[i]
<1>1. places \in SUBSET Nat
  BY DEF HasNodes, IsSeq
<1>2. ASSUME places # {} PROVE Min(places) \in places
  BY <1>1, <1>2, MinFacts
<1>3. \A i \in 1..Len(list) : list[i] # NONE
  BY DEF HasNodes, NoneIsNoSymbol
<1> QED
  BY <1>2, <1>3 DEF First

\* The places of variables.
LEMMA ScopeFacts ==
  ASSUME NEW list, HasNodes(list), NEW u
  PROVE  /\ DOMAIN list = 1..Len(list) /\ OfScope(list, u.owner, u.name) \in SUBSET (1..Len(list))
         /\ Above(u, list) \in SUBSET (1..Len(list)) /\ Above(u, list) \subseteq OfScope(list, u.owner, u.name)
<1>1. DOMAIN list = 1..Len(list)
  BY DEF HasNodes, IsSeq
<1> QED
  BY <1>1 DEF OfScope, Above

\* A usage is defined by DefinitionFiller.
LEMMA DefinitionFacts ==
  ASSUME NoneIsNoSymbol, NEW locals, NEW parameters, HasNodes(locals), HasNodes(parameters),
         NEW u, u.node \in Nat, NEW found,
         found = IF AssignedAbove(u, locals) # NONE THEN AssignedAbove(u, locals)
                 ELSE First(parameters, OfScope(parameters, u.owner, u.name)),
         NEW v, v.node = u.node, v.owner = u.owner, v.name = u.name, v.definition = Id(found)
  PROVE  IsDefined(locals, parameters, v)
<1> DEFINE above == Above(u, locals)
           passed == OfScope(parameters, u.owner, u.name)
           last == {i \in above : \A j \in above : locals[j].node <= locals[i].node}
<1>1. above \in SUBSET (1..Len(locals)) /\ passed \in SUBSET (1..Len(parameters)) /\ last \in SUBSET (1..Len(locals))
  BY ScopeFacts
<1>2. \A i \in above : locals[i].node \in Nat /\ locals[i].node <= u.node
  BY <1>1 DEF HasNodes, Above
<1>3. Above(v, locals) = above /\ OfScope(parameters, v.owner, v.name) = passed
  BY DEF Above
<1>4. AssignedAbove(u, locals) = First(locals, last)
  BY DEF AssignedAbove
<1> HIDE DEF above, passed
<1>5. ASSUME above # {} PROVE last # {}
  <2> DEFINE S == {locals[i].node : i \in above}
  <2>1. S \in SUBSET Nat /\ S # {} /\ \A k \in S : k <= u.node
    BY <1>2, <1>5
  <2> HIDE DEF S
  <2>2. PICK g \in S : \A k \in S : k <= g
    BY <2>1, LastExists
  <2>3. PICK i \in above : g = locals[i].node
    BY DEF S
  <2>4. \A j \in above : locals[j].node \in S
    BY DEF S
  <2> QED
    BY <2>2, <2>3, <2>4
<1>6. last # {} => above # {}
  OBVIOUS
<1>7. CASE above # {}
  <2>1. last # {}
    BY <1>5, <1>7
  <2>2. \A i \in last : i \in above /\ \A j \in above : locals[j].node <= locals[i].node
    OBVIOUS
  <2> HIDE DEF last
  <2>3. First(locals, last) # NONE /\ \E i \in last : First(locals, last) = locals[i]
    BY <1>1, <2>1, FirstFacts
  <2>4. PICK i \in last : First(locals, last) = locals[i]
    BY <2>3
  <2>5. v.definition = locals[i].node
    BY <1>4, <2>3, <2>4 DEF Id
  <2> QED
    BY <1>3, <1>7, <2>2, <2>5 DEF IsDefined
<1>8. CASE above = {}
  <2>1. last = {}
    BY <1>6, <1>8
  <2> HIDE DEF last
  <2>2. AssignedAbove(u, locals) = NONE
    BY <1>1, <1>4, <2>1, FirstFacts
  <2>3. v.definition = Id(First(parameters, passed))
    BY <2>2 DEF passed
  <2>4. CASE passed = {}
    <3>1. First(parameters, passed) = NONE
      BY <1>1, <2>4, FirstFacts
    <3> QED
      BY <1>3, <1>8, <2>3, <2>4, <3>1 DEF IsDefined, Id
  <2>5. CASE passed # {}
    <3>1. First(parameters, passed) # NONE /\ \E i \in passed : First(parameters, passed) = parameters[i]
      BY <1>1, <2>5, FirstFacts
    <3> QED
      BY <1>3, <1>8, <2>3, <2>5, <3>1 DEF IsDefined, Id
  <2> QED
    BY <2>4, <2>5
<1> QED
  BY <1>7, <1>8

\* It stays so when the types of the variables change, or its own.
LEMMA DefinedStays ==
  ASSUME NEW locals, HasNodes(locals), NEW more, DOMAIN more = DOMAIN locals,
         \A i \in 1..Len(locals) : more[i].node = locals[i].node /\ more[i].owner = locals[i].owner /\ more[i].name = locals[i].name,
         NEW parameters, NEW u, IsDefined(locals, parameters, u),
         NEW v, v.node = u.node, v.owner = u.owner, v.name = u.name, v.definition = u.definition
  PROVE  IsDefined(more, parameters, v)
<1>1. DOMAIN locals = 1..Len(locals)
  BY DEF HasNodes, IsSeq
<1>2. Above(v, more) = Above(u, locals)
  BY <1>1 DEF Above, OfScope
<1>3. \A i \in Above(u, locals) : more[i].node = locals[i].node
  BY <1>1 DEF Above, OfScope
<1> QED
  BY <1>2, <1>3 DEF IsDefined

\* What is known of the variables and their usages.
LEMMA VariableFacts ==
  ASSUME Regular, Kept, Owned
  PROVE  /\ HasNodes(symbols.locals) /\ HasNodes(symbols.parameters) /\ HasNodes(symbols.usages)
         /\ \A i \in 1..Len(symbols.locals) : IsVariable(tree, symbols.locals[i]) /\ IsLocalIn(tree, symbols.locals[i].node)
         /\ \A i \in 1..Len(symbols.usages) :
              /\ IsVariable(tree, symbols.usages[i]) /\ ~ IsLocalIn(tree, symbols.usages[i].node)
              /\ "definition" \in DOMAIN symbols.usages[i]
         /\ \A i \in 1..Len(symbols.parameters) :
              LET s == symbols.parameters[i]
              IN  /\ s.name = tree.text[s.node] /\ s.owner = AroundIn(tree, s.node, OwnerTypes)
                  /\ tree.type[tree.parent[s.node]] \in Parameters
<1>1. tree \in PhpTrees /\ NamesAreFirst(tree) /\ InPlace(tree) \subseteq Nodes(tree) /\ Nodes(tree) \subseteq Nat
  BY NodeFacts DEF Kept, Regular, InPlace
<1>2. Good(tree, "locals", symbols.locals) /\ Good(tree, "usages", symbols.usages)
  BY DEF Owned, Plain
<1>3. \A i \in 1..Len(symbols.locals) : IsVariable(tree, symbols.locals[i]) /\ IsLocalIn(tree, symbols.locals[i].node)
  BY <1>2 DEF Good, Entry
<1>4. \A i \in 1..Len(symbols.usages) :
         /\ IsVariable(tree, symbols.usages[i]) /\ ~ IsLocalIn(tree, symbols.usages[i].node)
         /\ "definition" \in DOMAIN symbols.usages[i]
  BY <1>2 DEF Good, Entry
<1>5. \A s : IsVariable(tree, s) => "node" \in DOMAIN s /\ s.node \in Nat
  BY <1>1 DEF IsVariable, IsOfOwner
<1>6. HasNodes(symbols.locals) /\ HasNodes(symbols.usages)
  BY <1>2, <1>3, <1>4, <1>5 DEF HasNodes, Good
<1> DEFINE list == symbols.parameters
<1>7. Listed(tree, listener, coming, 9, list, About(9)) /\ 9 \in Keepers
  <2>1. ListOf(9) = "parameters" /\ 9 \in Keepers
    BY DEF ListOf, Keepers
  <2> QED
    BY <2>1 DEF Kept
<1>8. IsSeq(list)
  BY <1>7 DEF Listed
<1>9. ASSUME NEW i \in 1..Len(list)
      PROVE  /\ "node" \in DOMAIN list[i] /\ list[i].node \in Nat /\ list[i].name = tree.text[list[i].node]
             /\ tree.type[tree.parent[list[i].node]] \in Parameters /\ list[i] \in ToSet(list)
  <2>1. PICK n \in Nodes(tree) : EntryOf(tree, 9, list[i], n, About(9))
    BY <1>7, <1>9 DEF Listed
  <2>2. /\ n \in InPlace(tree) /\ tree.type[n] \in DeclaredBy(9) /\ Names(tree, n) # {} /\ list[i].node = NameOf(tree, n)
        /\ list[i].name = tree.text[NameOf(tree, n)] /\ Shaped(9, list[i], About(9)[n])
    BY <2>1 DEF EntryOf, IsNamed
  <2>3. tree.parent[list[i].node] = n /\ list[i].node \in Nodes(tree)
    BY <1>1, <1>7, <2>2, FirstIsName
  <2>4. DeclaredBy(9) = Parameters
    BY DEF DeclaredBy
  <2>5. "node" \in DOMAIN list[i]
    <3> HIDE DEF list
    <3> QED
      BY <2>2 DEF Shaped
  <2>6. list[i] \in ToSet(list)
    BY <1>8, <1>9 DEF IsSeq, ToSet
  <2> QED
    BY <1>1, <2>2, <2>3, <2>4, <2>5, <2>6
<1>10. \A i \in 1..Len(list) : list[i].owner = AroundIn(tree, list[i].node, OwnerTypes)
  <2>1. TAKE i \in 1..Len(list)
  <2>2. list[i] \in ToSet(symbols[ListOf(9)])
    BY <1>9 DEF ListOf
  <2>3. list[i].owner = Around(list[i].node, IF 9 = 7 THEN {"class_declaration"} ELSE OwnerTypes)
    BY <2>2, OwnersOfListed
  <2> QED
    BY <2>3, AroundHere
<1>11. HasNodes(list)
  BY <1>8, <1>9 DEF HasNodes
<1> QED
  BY <1>3, <1>4, <1>6, <1>9, <1>10, <1>11

\* At first there is no usage.
LEMMA FollowedAtFirst == Init => Followed
<1> SUFFICES ASSUME Init PROVE Followed
  OBVIOUS
<1>1. pc = "walking" /\ symbols.usages = << >>
  BY DEF Init
<1> QED
  BY <1>1 DEF Followed

\* While the listeners walk no usage is defined.
LEMMA VariablesFollowed ==
  ASSUME Kept, Owned, Followed, DeclareOrUse
  PROVE  Followed'
<1> DEFINE n == At.node
           owner == OwnerOf(RangeOf(n)).node
           usage == [kind |-> "usage", node |-> n, name |-> Text(n), owner |-> owner, definition |-> NONE, type |-> NONE]
           list == symbols.usages
<1>1. pc = "walking" /\ pc' = "walking" /\ DOMAIN symbols = Lists
  BY DEF DeclareOrUse, Told, Kept
<1>2. symbols' = symbols \/ (\E s : symbols' = With("locals", s)) \/ symbols' = With("usages", usage)
  <2> HIDE DEF owner, n
  <2>1. \A o : Variable(n, o) = With("usages", [kind |-> "usage", node |-> n, name |-> Text(n), owner |-> o,
                                                definition |-> NONE, type |-> NONE])
               \/ \E s : Variable(n, o) = With("locals", s)
    BY DEF Variable
  <2>2. symbols' = symbols \/ symbols' = Variable(n, owner)
    BY DEF DeclareOrUse, n, owner
  <2> QED
    BY <2>1, <2>2
<1>3. usage.definition = NONE /\ usage.type = NONE
  OBVIOUS
<1> HIDE DEF usage
<1>4. symbols'.usages = list \/ symbols'.usages = Append(list, usage)
  <2>1. {"locals", "usages"} \subseteq Lists /\ "usages" \in Lists \ {"locals"}
    BY DEF Lists
  <2> QED
    BY <1>1, <1>2, <2>1, WithFacts
<1>5. IsSeq(list) /\ Len(list) \in Nat
  BY DEF Owned, Plain, Good, IsSeq
<1>6. \A i \in 1..Len(list) : list[i].definition = NONE /\ list[i].type = NONE
  BY <1>1 DEF Followed
<1> HIDE DEF list
<1>7. ASSUME NEW more, more = list \/ more = Append(list, usage)
      PROVE  \A i \in 1..Len(more) : more[i].definition = NONE /\ more[i].type = NONE
  <2>1. CASE more = list
    BY <1>6, <2>1
  <2>2. CASE more = Append(list, usage)
    <3>1. /\ IsSeq(more) /\ Len(more) = Len(list) + 1 /\ more[Len(list) + 1] = usage
          /\ \A i \in 1..Len(list) : more[i] = list[i]
      BY <1>5, <2>2, AppendFacts
    <3>2. TAKE i \in 1..Len(more)
    <3>3. i \in 1..Len(list) \/ i = Len(list) + 1
      BY <1>5, <3>1
    <3> QED
      BY <1>3, <1>6, <3>1, <3>3
  <2> QED
    BY <1>7, <2>1, <2>2
<1>8. \A i \in 1..Len(symbols'.usages) : symbols'.usages[i].definition = NONE /\ symbols'.usages[i].type = NONE
  BY <1>4, <1>7
<1> QED
  BY <1>1, <1>8 DEF Followed

\* A step that adds none.
LEMMA WalkingFollowed ==
  ASSUME Followed, pc \in {"walking", "filling"}, pc' \in {"walking", "filling"}, symbols'.usages = symbols.usages
  PROVE  Followed'
BY DEF Followed

\* The passes change neither the parameters nor, but for their own, the other lists.
LEMMA PassesOnly ==
  ASSUME Kept
  PROVE  /\ FillDefinitions \/ PropagateTypes => symbols'.locals = symbols.locals /\ symbols'.parameters = symbols.parameters
         /\ InferTypes => symbols'.usages = symbols.usages /\ symbols'.parameters = symbols.parameters
         /\ InferReturnTypes => /\ symbols'.locals = symbols.locals /\ symbols'.usages = symbols.usages
                                /\ symbols'.parameters = symbols.parameters
<1>1. DOMAIN symbols = Lists /\ {"usages", "locals", "parameters", "methods", "functions"} \subseteq Lists
  BY DEF Kept, Lists
<1>2. ASSUME FillDefinitions \/ PropagateTypes
      PROVE  symbols'.locals = symbols.locals /\ symbols'.parameters = symbols.parameters
  <2>1. \E s : symbols' = [symbols EXCEPT !["usages"] = s]
    BY <1>2 DEF FillDefinitions, PropagateTypes
  <2> QED
    BY <1>1, <2>1
<1>3. ASSUME InferTypes
      PROVE  symbols'.usages = symbols.usages /\ symbols'.parameters = symbols.parameters
  <2>1. \E s : symbols' = [symbols EXCEPT !["locals"] = s]
    BY <1>3 DEF InferTypes
  <2> QED
    BY <1>1, <2>1
<1>4. ASSUME InferReturnTypes
      PROVE  /\ symbols'.locals = symbols.locals /\ symbols'.usages = symbols.usages
             /\ symbols'.parameters = symbols.parameters
  <2>1. \E a, b : symbols' = [symbols EXCEPT !.methods = a, !.functions = b]
    BY <1>4 DEF InferReturnTypes
  <2>2. PICK a, b : symbols' = [symbols EXCEPT !.methods = a, !.functions = b]
    BY <2>1
  <2> DEFINE once == [symbols EXCEPT !.methods = a]
  <2>3. symbols' = [once EXCEPT !.functions = b]
    BY <2>2, Zenon
  <2>4. DOMAIN once = Lists /\ \A f \in Lists \ {"methods"} : once[f] = symbols[f]
    BY <1>1
  <2> HIDE DEF once
  <2> QED
    BY <1>1, <2>3, <2>4
<1> QED
  BY <1>2, <1>3, <1>4

\* The pass defines each of them.
LEMMA FillingFollowed ==
  ASSUME Regular, Kept, Owned, Followed, FillDefinitions
  PROVE  Followed'
<1> DEFINE list == symbols.usages
           locals == symbols.locals
           parameters == symbols.parameters
           more == symbols'.usages
           found(i) == DefinitionOf(list[i])
<1>1. pc = "filling" /\ pc' = "typing" /\ symbols'.locals = locals /\ symbols'.parameters = parameters
  BY PassesOnly DEF FillDefinitions, Pass
<1>2. more = [i \in DOMAIN list |-> [list[i] EXCEPT !.definition = Id(found(i))]]
  <2>1. "usages" \in DOMAIN symbols
    BY DEF Kept, Lists
  <2>2. symbols' = [symbols EXCEPT !.usages =
                     [i \in DOMAIN @ |-> [@[i] EXCEPT !.definition = Id(DefinitionOf(symbols.usages[i]))]]]
    BY DEF FillDefinitions
  <2> QED
    BY <2>1, <2>2
<1>3. /\ HasNodes(locals) /\ HasNodes(parameters) /\ HasNodes(list)
      /\ \A i \in 1..Len(list) : IsVariable(tree, list[i]) /\ "definition" \in DOMAIN list[i]
  BY VariableFacts
<1>4. DOMAIN list = 1..Len(list) /\ Len(list) \in Nat /\ DOMAIN more = 1..Len(list)
  BY <1>2, <1>3 DEF HasNodes, IsSeq
<1>5. Len(more) = Len(list)
  <2>1. Good(tree, "usages", more)
    BY FillingOwned
  <2>2. DOMAIN more = 1..Len(more) /\ Len(more) \in Nat
    BY <2>1 DEF Good, IsSeq
  <2> HIDE DEF more, list
  <2> QED
    BY <1>4, <2>2
<1>6. \A i \in 1..Len(list) : list[i].type = NONE
  BY <1>1 DEF Followed
<1>7. \A i : found(i) = IF AssignedAbove(list[i], locals) # NONE THEN AssignedAbove(list[i], locals)
                        ELSE First(parameters, OfScope(parameters, list[i].owner, list[i].name))
  BY DEF DefinitionOf
<1> HIDE DEF found, more, list, locals, parameters
<1>8. ASSUME NEW i \in 1..Len(list)
      PROVE  IsDefined(locals, parameters, more[i]) /\ more[i].type = NONE
  <2> DEFINE u == list[i]
             v == more[i]
  <2>1. v = [u EXCEPT !.definition = Id(found(i))] /\ {"node", "owner", "name", "type", "definition"} \subseteq DOMAIN u
    BY <1>2, <1>3, <1>4 DEF IsVariable, IsOfOwner
  <2>2. u.node \in Nat /\ u.type = NONE
    BY <1>3, <1>6 DEF HasNodes
  <2>3. v.node = u.node /\ v.owner = u.owner /\ v.name = u.name /\ v.type = u.type /\ v.definition = Id(found(i))
    <3> HIDE DEF u, v
    <3> QED
      BY <2>1
  <2>4. found(i) = IF AssignedAbove(u, locals) # NONE THEN AssignedAbove(u, locals)
                   ELSE First(parameters, OfScope(parameters, u.owner, u.name))
    BY <1>7
  <2> HIDE DEF u, v
  <2>5. NoneIsNoSymbol
    BY DEF Regular
  <2>6. IsDefined(locals, parameters, v)
    BY <1>3, <2>2, <2>3, <2>4, <2>5, DefinitionFacts
  <2> QED
    BY <2>2, <2>3, <2>6 DEF v
<1> QED
  BY <1>1, <1>5, <1>8 DEF Followed, more, locals, parameters

\* What is inferred of the locals does not matter to it.
LEMMA InferringFollowed ==
  ASSUME Regular, Kept, Owned, Followed, InferTypes
  PROVE  Followed'
<1> DEFINE list == symbols.usages
           locals == symbols.locals
           parameters == symbols.parameters
           more == symbols'.locals
<1>1. pc = "typing" /\ pc' = "returning" /\ symbols'.usages = list /\ symbols'.parameters = parameters
  BY PassesOnly DEF InferTypes, Pass
<1>2. more = [j \in DOMAIN locals |-> more[j]] /\ \A j \in 1..Len(locals) : Same(more[j], locals[j])
  BY InferringSame
<1>3. HasNodes(locals) /\ \A j \in 1..Len(locals) : IsVariable(tree, locals[j])
  BY VariableFacts
<1>4. \A i \in 1..Len(list) : IsDefined(locals, parameters, list[i]) /\ list[i].type = NONE
  BY <1>1 DEF Followed
<1> HIDE DEF more, locals, list, parameters
<1>5. \A j \in 1..Len(locals) : more[j].node = locals[j].node /\ more[j].owner = locals[j].owner /\ more[j].name = locals[j].name
  BY <1>2, <1>3 DEF Same, IsVariable, IsOfOwner
<1>6. DOMAIN more = DOMAIN locals
  BY <1>2
<1>7. \A i \in 1..Len(list) : IsDefined(more, parameters, list[i])
  BY <1>3, <1>4, <1>5, <1>6, DefinedStays
<1> QED
  BY <1>1, <1>4, <1>7 DEF Followed, more, list, parameters

\* Nor do the types of the functions.
LEMMA ReturningFollowed ==
  ASSUME Kept, Followed, InferReturnTypes
  PROVE  Followed'
<1>1. /\ pc = "returning" /\ pc' = "propagating" /\ symbols'.usages = symbols.usages
      /\ symbols'.parameters = symbols.parameters /\ symbols'.locals = symbols.locals
  BY PassesOnly DEF InferReturnTypes, Pass
<1> QED
  BY <1>1 DEF Followed

\* The last pass gives each usage the type of its definition.
LEMMA PropagatingFollowed ==
  ASSUME Regular, Kept, Owned, Followed, PropagateTypes
  PROVE  Followed'
<1> DEFINE list == symbols.usages
           locals == symbols.locals
           parameters == symbols.parameters
           more == symbols'.usages
           declared(i) == Declaring(locals, parameters, list[i].definition)
<1>1. pc = "propagating" /\ pc' = "indexed" /\ symbols'.locals = locals /\ symbols'.parameters = parameters
  BY PassesOnly DEF PropagateTypes, Pass
<1>2. more = [i \in DOMAIN list |-> IF list[i].definition = NONE \/ declared(i).type = NONE THEN list[i]
                                    ELSE [list[i] EXCEPT !.type = declared(i).type]]
  <2>1. "usages" \in DOMAIN symbols
    BY DEF Kept, Lists
  <2> DEFINE Typed(usage) == IF usage.definition = NONE \/ Declaring(locals, parameters, usage.definition).type = NONE
                             THEN usage
                             ELSE [usage EXCEPT !.type = Declaring(locals, parameters, usage.definition).type]
  <2>2. symbols' = [symbols EXCEPT !.usages = [i \in DOMAIN @ |-> Typed(@[i])]]
    BY DEF PropagateTypes, Declaring, WithNode
  <2>3. more = [i \in DOMAIN list |-> Typed(list[i])]
    <3> HIDE DEF Typed
    <3> QED
      BY <2>1, <2>2
  <2> QED
    BY <2>3
<1>3. /\ HasNodes(locals) /\ HasNodes(list)
      /\ \A i \in 1..Len(list) : IsVariable(tree, list[i]) /\ "definition" \in DOMAIN list[i]
  BY VariableFacts
<1>4. DOMAIN list = 1..Len(list) /\ Len(list) \in Nat /\ DOMAIN more = 1..Len(list)
  BY <1>2, <1>3 DEF HasNodes, IsSeq
<1>5. Len(more) = Len(list)
  <2>1. Good(tree, "usages", more)
    BY PropagatingOwned
  <2>2. DOMAIN more = 1..Len(more) /\ Len(more) \in Nat
    BY <2>1 DEF Good, IsSeq
  <2> HIDE DEF more, list
  <2> QED
    BY <1>4, <2>2
<1>6. \A i \in 1..Len(list) : IsDefined(locals, parameters, list[i]) /\ list[i].type = NONE
  BY <1>1 DEF Followed
<1> HIDE DEF more, list, locals, parameters
<1>7. ASSUME NEW i \in 1..Len(list)
      PROVE  /\ IsDefined(locals, parameters, more[i])
             /\ more[i].definition # NONE => more[i].type = Declaring(locals, parameters, more[i].definition).type
  <2> DEFINE u == list[i]
             v == more[i]
             type == declared(i).type
  <2>1. v = (IF u.definition = NONE \/ type = NONE THEN u ELSE [u EXCEPT !.type = type])
        /\ {"node", "owner", "name", "type", "definition"} \subseteq DOMAIN u
    BY <1>2, <1>3, <1>4 DEF IsVariable, IsOfOwner
  <2>2. u.type = NONE /\ IsDefined(locals, parameters, u)
    BY <1>6
  <2>3. type = Declaring(locals, parameters, u.definition).type
    OBVIOUS
  <2> HIDE DEF u, v, type
  <2>4. /\ v.node = u.node /\ v.owner = u.owner /\ v.name = u.name /\ v.definition = u.definition
        /\ u.definition # NONE => v.type = type
    BY <2>1, <2>2
  <2>5. IsDefined(locals, parameters, v)
    BY <1>3, <2>2, <2>4, DefinedStays
  <2> QED
    BY <2>3, <2>4, <2>5 DEF v
<1> QED
  BY <1>1, <1>5, <1>7 DEF Followed, more, locals, parameters

\* Every step keeps what is known of the usages.
LEMMA StepsFollow ==
  ASSUME Regular
  PROVE  Kept /\ Owned /\ Followed /\ [Next]_vars => Followed'
<1> SUFFICES ASSUME Kept, Owned, Followed, [Next]_vars PROVE Followed'
  OBVIOUS
<1>1. CASE DeclareOrUse
  BY <1>1, VariablesFollowed
<1>2. CASE FillDefinitions \/ InferTypes \/ InferReturnTypes \/ PropagateTypes
  BY <1>2, FillingFollowed, InferringFollowed, ReturningFollowed, PropagatingFollowed
<1>3. CASE ~ DeclareOrUse /\ \E of, call, types : Told(of, call, types)
  <2>1. pc = "walking" /\ pc' = pc
    BY <1>3 DEF Told
  <2>2. ~ FillDefinitions /\ ~ PropagateTypes
    BY <2>1 DEF FillDefinitions, PropagateTypes, Pass
  <2>3. "usages" \in Plain /\ DOMAIN symbols = Lists
    BY DEF Plain, Kept
  <2>4. symbols'.usages = symbols.usages
    BY <1>3, <2>2, <2>3, ListsStay DEF Changes
  <2> QED
    BY <2>1, <2>4, WalkingFollowed
<1>4. CASE NextListener \/ EndWalks
  <2>1. pc = "walking" /\ pc' \in {"walking", "filling"} /\ symbols' = symbols
    BY <1>4 DEF NextListener, EndWalks
  <2> QED
    BY <2>1, WalkingFollowed
<1>5. CASE UNCHANGED vars
  BY <1>5 DEF vars, Followed
<1>6. \/ \E of, call, types : Told(of, call, types)
      \/ NextListener
      \/ Later
  BY StepFacts
<1> QED
  BY <1>1, <1>2, <1>3, <1>4, <1>5, <1>6 DEF Later

\* When all is done each usage has its definition, and the type of it.
LEMMA FollowedIsRight ==
  ASSUME Regular, Kept, Owned, Followed
  PROVE  UsagesFollowDefinitions
<1> SUFFICES ASSUME pc = "indexed" PROVE UsagesFollowDefinitions
  BY DEF UsagesFollowDefinitions
<1> DEFINE list == symbols.usages
           locals == symbols.locals
           parameters == symbols.parameters
           SameVariable(d, u) == Text(d.node) = Text(u.node) /\ Around(d.node, OwnerTypes) = Around(u.node, OwnerTypes)
           Assigned(u) == {d \in ToSet(symbols.locals) : SameVariable(d, u) /\ d.node < u.node}
           Passes(u) == {d \in ToSet(symbols.parameters) : SameVariable(d, u)}
           Defining(u) == IF Assigned(u) # {} THEN {d \in Assigned(u) : \A o \in Assigned(u) : o.node <= d.node}
                          ELSE Passes(u)
<1>1. /\ HasNodes(locals) /\ HasNodes(parameters) /\ HasNodes(list)
      /\ \A i \in 1..Len(locals) : IsVariable(tree, locals[i]) /\ IsLocalIn(tree, locals[i].node)
      /\ \A i \in 1..Len(list) : IsVariable(tree, list[i]) /\ ~ IsLocalIn(tree, list[i].node)
      /\ \A i \in 1..Len(parameters) :
           LET s == parameters[i]
           IN  /\ s.name = tree.text[s.node] /\ s.owner = AroundIn(tree, s.node, OwnerTypes)
               /\ tree.type[tree.parent[s.node]] \in Parameters
  BY VariableFacts
<1>2. \A i \in 1..Len(list) : /\ IsDefined(locals, parameters, list[i])
                              /\ list[i].definition # NONE =>
                                   list[i].type = Declaring(locals, parameters, list[i].definition).type
  BY DEF Followed
<1>3. /\ ToSet(locals) = {locals[i] : i \in 1..Len(locals)} /\ ToSet(parameters) = {parameters[i] : i \in 1..Len(parameters)}
      /\ ToSet(list) = {list[i] : i \in 1..Len(list)}
      /\ DOMAIN locals = 1..Len(locals) /\ DOMAIN parameters = 1..Len(parameters)
  BY <1>1 DEF HasNodes, IsSeq, ToSet
<1>4. NoneIsNoSymbol /\ NONE \notin Nat
  BY NoneAssumption DEF Regular
<1>5. \A s : IsVariable(tree, s) => /\ s.name = Text(s.node) /\ s.owner = Around(s.node, OwnerTypes)
                                    /\ tree.type[tree.parent[s.node]] \notin Parameters
  BY AroundHere DEF IsVariable, IsOfOwner, Text
<1>6. \A i \in 1..Len(parameters) : /\ parameters[i].name = Text(parameters[i].node)
                                    /\ parameters[i].owner = Around(parameters[i].node, OwnerTypes)
  BY <1>1, AroundHere DEF Text
<1> HIDE DEF locals, parameters, list
<1>7. ASSUME NEW u \in ToSet(list)
      PROVE  IF Defining(u) = {} THEN u.definition = NONE
             ELSE \E d \in Defining(u) : d.node = u.definition /\ d.type = u.type
  <2> DEFINE above == Above(u, locals)
             passed == OfScope(parameters, u.owner, u.name)
  <2>1. /\ IsVariable(tree, u) /\ ~ IsLocalIn(tree, u.node) /\ u.node \in Nat /\ IsDefined(locals, parameters, u)
        /\ u.definition # NONE => u.type = Declaring(locals, parameters, u.definition).type
    BY <1>1, <1>2, <1>3 DEF HasNodes
  <2>2. u.name = Text(u.node) /\ u.owner = Around(u.node, OwnerTypes)
    BY <1>5, <2>1
  <2>3. ASSUME NEW i \in 1..Len(locals) PROVE i \in above <=> locals[i] \in Assigned(u)
    <3>1. locals[i].node # u.node
      BY <1>1, <2>1
    <3>2. locals[i].node \in Nat /\ locals[i] \in ToSet(locals)
      BY <1>1, <1>3 DEF HasNodes
    <3>3. locals[i].name = Text(locals[i].node) /\ locals[i].owner = Around(locals[i].node, OwnerTypes)
      BY <1>1, <1>5
    <3>4. i \in above <=> locals[i].owner = u.owner /\ locals[i].name = u.name /\ locals[i].node <= u.node
      BY <1>3 DEF Above, OfScope
    <3>5. locals[i].node <= u.node <=> locals[i].node < u.node
      BY <2>1, <3>1, <3>2
    <3> HIDE DEF above
    <3> QED
      BY <2>2, <3>2, <3>3, <3>4, <3>5 DEF locals
  <2>4. ASSUME NEW i \in 1..Len(parameters) PROVE i \in passed <=> parameters[i] \in Passes(u)
    <3>1. parameters[i] \in ToSet(parameters)
      BY <1>3
    <3>2. i \in passed <=> parameters[i].owner = u.owner /\ parameters[i].name = u.name
      BY <1>3 DEF OfScope
    <3> HIDE DEF passed
    <3> QED
      BY <1>6, <2>2, <3>1, <3>2 DEF parameters
  <2>5. above \in SUBSET (1..Len(locals)) /\ passed \in SUBSET (1..Len(parameters))
    BY <1>1, ScopeFacts
  <2>6. \A d \in Assigned(u) : \E i \in above : d = locals[i]
    <3>1. \A d \in Assigned(u) : d \in ToSet(locals)
      BY DEF locals
    <3> HIDE DEF Assigned, above
    <3> QED
      BY <1>3, <2>3, <3>1
  <2>7. \A d \in Passes(u) : \E i \in passed : d = parameters[i]
    <3>1. \A d \in Passes(u) : d \in ToSet(parameters)
      BY DEF parameters
    <3> HIDE DEF Passes, passed
    <3> QED
      BY <1>3, <2>4, <3>1
  <2>8. \A i \in 1..Len(locals) : /\ locals[i].node \in Nat /\ locals[i] # NONE
                                  /\ \A j \in 1..Len(parameters) : parameters[j].node # locals[i].node
    <3>1. \A i \in 1..Len(locals) : locals[i].node \in Nat /\ locals[i] # NONE
      BY <1>1, <1>4 DEF HasNodes, NoneIsNoSymbol
    <3> QED
      BY <1>1, <1>5, <3>1
  <2>9. \A i \in 1..Len(parameters) : parameters[i].node \in Nat /\ parameters[i] # NONE
    BY <1>1, <1>4 DEF HasNodes, NoneIsNoSymbol
  <2> DEFINE id == u.definition
             inLocals == {i \in DOMAIN locals : locals[i].node = id}
             inParameters == {i \in DOMAIN parameters : parameters[i].node = id}
  <2>10. /\ inLocals \in SUBSET (1..Len(locals)) /\ inParameters \in SUBSET (1..Len(parameters))
         /\ \A i \in inLocals : locals[i].node = id
         /\ \A i \in inParameters : parameters[i].node = id
         /\ \A i \in 1..Len(locals) : locals[i].node = id => i \in inLocals
         /\ \A i \in 1..Len(parameters) : parameters[i].node = id => i \in inParameters
    BY <1>3
  <2>11. WithNode(locals, id) = First(locals, inLocals) /\ WithNode(parameters, id) = First(parameters, inParameters)
    BY DEF WithNode
  <2> HIDE DEF inLocals, inParameters, id
  <2>12. /\ inLocals # {} => \E i \in inLocals : WithNode(locals, id) = locals[i]
         /\ inParameters = {} => WithNode(parameters, id) = NONE
         /\ inParameters # {} => WithNode(parameters, id) # NONE /\ \E i \in inParameters : WithNode(parameters, id) = parameters[i]
    <3>1. inLocals # {} => \E i \in inLocals : First(locals, inLocals) = locals[i]
      BY <1>1, <1>4, <2>10, FirstFacts
    <3>2. /\ inParameters = {} => First(parameters, inParameters) = NONE
          /\ inParameters # {} => First(parameters, inParameters) # NONE
                                  /\ \E i \in inParameters : First(parameters, inParameters) = parameters[i]
      BY <1>1, <1>4, <2>10, FirstFacts
    <3> QED
      BY <2>11, <3>1, <3>2
  <2>13. CASE above # {}
    <3>1. PICK i \in above : u.definition = locals[i].node /\ \A j \in above : locals[j].node <= locals[i].node
      BY <2>1, <2>13 DEF IsDefined
    <3>2. i \in 1..Len(locals) /\ id = locals[i].node /\ id \in Nat /\ id # NONE
      BY <1>4, <2>5, <2>8, <3>1 DEF id
    <3>3. inLocals # {} /\ inParameters = {}
      BY <2>8, <2>10, <3>2
    <3>4. PICK k \in inLocals : WithNode(locals, id) = locals[k]
      BY <2>12, <3>3
    <3>5. u.type = locals[k].type
      BY <2>1, <2>12, <3>2, <3>3, <3>4 DEF Declaring, id
    <3>6. k \in 1..Len(locals) /\ locals[k].node = locals[i].node
      BY <2>10, <3>2
    <3>7. locals[i] \in Assigned(u)
      BY <2>3, <3>2
    <3>8. locals[k] \in Assigned(u)
      <4>1. locals[k] \in ToSet(locals)
        BY <1>3, <3>6
      <4> QED
        BY <3>6, <3>7, <4>1 DEF locals
    <3>9. \A o \in Assigned(u) : o.node <= locals[k].node
      <4> HIDE DEF Assigned, above
      <4> QED
        BY <2>6, <3>1, <3>6
    <3> HIDE DEF Assigned, Passes
    <3>10. locals[k] \in Defining(u)
      BY <3>8, <3>9
    <3>11. locals[k].node = u.definition
      BY <3>2, <3>6 DEF id
    <3> QED
      BY <3>5, <3>10, <3>11
  <2>14. CASE above = {} /\ passed # {}
    <3>1. PICK i \in passed : u.definition = parameters[i].node
      BY <2>1, <2>14 DEF IsDefined
    <3>2. i \in 1..Len(parameters) /\ id = parameters[i].node /\ id \in Nat /\ id # NONE
      BY <1>4, <2>5, <2>9, <3>1 DEF id
    <3>3. inParameters # {}
      BY <2>10, <3>2
    <3>4. PICK k \in inParameters : WithNode(parameters, id) = parameters[k] /\ WithNode(parameters, id) # NONE
      BY <2>12, <3>3
    <3>5. u.type = parameters[k].type
      BY <2>1, <3>2, <3>4 DEF Declaring, id
    <3>6. k \in 1..Len(parameters) /\ parameters[k].node = parameters[i].node
      BY <2>10, <3>2
    <3>7. parameters[i] \in Passes(u)
      BY <2>4, <3>2
    <3>8. parameters[k] \in Passes(u)
      <4>1. parameters[k] \in ToSet(parameters)
        BY <1>3, <3>6
      <4> QED
        BY <3>6, <3>7, <4>1 DEF parameters
    <3>9. Assigned(u) = {}
      <4> HIDE DEF Assigned, above
      <4> QED
        BY <2>6, <2>14
    <3> HIDE DEF Assigned, Passes
    <3>10. parameters[k] \in Defining(u)
      BY <3>8, <3>9
    <3>11. parameters[k].node = u.definition
      BY <3>2, <3>6 DEF id
    <3> QED
      BY <3>5, <3>10, <3>11
  <2>15. CASE above = {} /\ passed = {}
    <3>1. u.definition = NONE
      BY <2>1, <2>15 DEF IsDefined
    <3>2. Assigned(u) = {} /\ Passes(u) = {}
      <4> HIDE DEF Assigned, Passes, above, passed
      <4> QED
        BY <2>6, <2>7, <2>15
    <3> HIDE DEF Assigned, Passes
    <3>3. Defining(u) = {}
      BY <3>2
    <3> QED
      BY <3>1, <3>3
  <2> QED
    BY <2>13, <2>14, <2>15
<1> QED
  BY <1>7 DEF UsagesFollowDefinitions, list

\* In the end each usage is defined by the last variable of its function and name that
\* is assigned before it in the text, or else by a parameter, and has the type that
\* this one has got, in the same trees.
THEOREM UsagesAlwaysFollow ==
  ASSUME Regular
  PROVE  Spec => []UsagesFollowDefinitions
<1> DEFINE Inv == Kept /\ Classed /\ Owned /\ Followed
<1>1. Init => Inv
  BY KeptAtFirst, ClassedAtFirst, OwnedAtFirst, FollowedAtFirst
<1>2. Inv /\ [Next]_vars => Inv'
  BY StepsKeep, StepsClass, StepsOwn, StepsFollow
<1>3. Inv => UsagesFollowDefinitions
  BY FollowedIsRight
<1> QED
  BY <1>1, <1>2, <1>3, PTL DEF Spec
=============================================================================
