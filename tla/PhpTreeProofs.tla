--------------------------- MODULE PhpTreeProofs ----------------------------
(***************************************************************************)
(* Syntax trees of any size: recursion over the nodes, their ancestors,    *)
(* and what a listener is to be told of a tree, in which nodes are entered *)
(* and left like brackets.  The theorems about the walk and about the      *)
(* listeners rest on it.                                                   *)
(***************************************************************************)
EXTENDS PhpTree, WellFoundedInduction, FiniteSetTheorems, SequenceTheorems, TLAPS

-----------------------------------------------------------------------------
(* Recursion over the nodes.                                               *)

\* A nonempty set of naturals has a least element.
LEMMA LeastNumberExists ==
  ASSUME NEW S \in SUBSET Nat, S # {}
  PROVE  \E x \in S : \A y \in S : x <= y
<1>1. PICK x \in S : \A y \in S : ~ (<<y, x>> \in OpToRel(<, Nat))
  BY NatLessThanWellFounded, WFMin
<1>2. \A y \in S : x <= y
  <2>1. TAKE y \in S
  <2>2. ~ (<<y, x>> \in OpToRel(<, Nat))
    BY <1>1
  <2>3. ~ (<<y, x>> \in {ss \in Nat \X Nat : ss[1] < ss[2]})
    BY <2>2 DEF OpToRel
  <2>4. ~ (y < x)
    BY <2>3, Zenon
  <2> QED
    BY <2>4
<1> QED
  BY <1>2

\* A definition by recursion over 0..N: what it says at n it says of the value at pred[n].
IsRecursion(N, V, first, pred, next) ==
    /\ first \in V
    /\ pred \in [1..N -> 0..N] /\ \A n \in 1..N : pred[n] < n
    /\ next \in [1..N -> [V -> V]]
Solves(f, N, first, pred, next) == f[0] = first /\ \A n \in 1..N : f[n] = next[n][f[pred[n]]]

\* There is what it defines.
LEMMA RecursionExists ==
  ASSUME NEW N \in Nat, NEW V, NEW first, NEW pred, NEW next, IsRecursion(N, V, first, pred, next)
  PROVE  \E f \in [0..N -> V] : Solves(f, N, first, pred, next)
<1>0. /\ first \in V
      /\ pred \in [1..N -> 0..N] /\ \A n \in 1..N : pred[n] < n
      /\ next \in [1..N -> [V -> V]]
  BY DEF IsRecursion
<1> DEFINE step(f, n) == IF n = 0 THEN first ELSE next[n][f[pred[n]]]
           steps(k, f) == f \in [0..N -> V] /\ \A n \in 0..k : f[n] = step(f, n)
           bad == {j \in Nat : j <= N /\ ~ \E f : steps(j, f)}
<1>1. ASSUME bad # {} PROVE FALSE
  <2>1. PICK j \in bad : \A l \in bad : j <= l
    BY <1>1, LeastNumberExists
  <2>2. j \in Nat /\ j <= N /\ ~ \E f : steps(j, f)
    <3> HIDE DEF steps
    <3> QED
      BY <2>1
  <2>3. CASE j = 0
    <3> DEFINE f == [n \in 0..N |-> first]
    <3>1. f \in [0..N -> V] /\ f[0] = first /\ 0..0 = {0}
      BY <1>0
    <3> HIDE DEF f
    <3>2. steps(j, f)
      BY <2>3, <3>1
    <3> QED
      BY <2>2, <3>2
  <2>4. CASE j # 0
    <3>1. j - 1 \in Nat /\ j - 1 <= N /\ ~ (j <= j - 1) /\ j \in 0..N /\ j \in 1..N
      BY <2>2, <2>4
    <3>2. j - 1 \notin bad
      <4> HIDE DEF bad
      <4> QED
        BY <2>1, <3>1
    <3>3. PICK f : steps(j - 1, f)
      BY <3>1, <3>2
    <3> DEFINE g == [f EXCEPT ![j] = step(f, j)]
    <3>4. step(f, j) \in V
      <4>1. f[pred[j]] \in V /\ next[j] \in [V -> V]
        BY <1>0, <3>1, <3>3
      <4> QED
        BY <2>4, <4>1
    <3>5. g \in [0..N -> V] /\ g[j] = step(f, j) /\ \A n \in 0..N : n # j => g[n] = f[n]
      <4> HIDE DEF step
      <4> QED
        BY <3>1, <3>3, <3>4
    <3> HIDE DEF g
    <3>6. ASSUME NEW n \in 0..j PROVE g[n] = step(g, n)
      <4>1. n \in 0..N /\ n \in Nat
        BY <2>2
      <4>2. CASE n = 0
        <5>1. n # j /\ n \in 0..(j - 1)
          BY <2>4, <3>1, <4>2
        <5> QED
          BY <3>3, <3>5, <4>1, <4>2, <5>1
      <4>3. CASE n # 0
        <5>1. n \in 1..N
          BY <4>1, <4>3
        <5>2. pred[n] \in 0..N /\ pred[n] < n /\ n <= j
          BY <1>0, <5>1
        <5>3. pred[n] # j
          BY <2>2, <4>1, <5>2
        <5>4. g[pred[n]] = f[pred[n]]
          BY <3>5, <5>2, <5>3
        <5>5. CASE n = j
          BY <3>5, <4>3, <5>4, <5>5
        <5>6. CASE n # j
          <6>1. n \in 0..(j - 1)
            BY <2>2, <4>1, <5>2, <5>6
          <6> QED
            BY <3>3, <3>5, <4>1, <4>3, <5>4, <5>6, <6>1
        <5> QED
          BY <5>5, <5>6
      <4> QED
        BY <4>2, <4>3
    <3>7. steps(j, g)
      BY <3>5, <3>6
    <3> QED
      BY <2>2, <3>7
  <2> QED
    BY <2>3, <2>4
<1>2. \E f : steps(N, f)
  <2>1. bad = {}
    BY <1>1
  <2>2. N \notin bad
    BY <2>1
  <2> HIDE DEF steps
  <2> QED
    BY <2>2
<1>3. PICK f : steps(N, f)
  BY <1>2
<1> QED
  BY <1>3 DEF Solves

-----------------------------------------------------------------------------
(* Nodes and their order.                                                  *)

\* The nodes of a set, all and only they, each before those that come later in the text.
LEMMA OrderedFacts ==
  ASSUME NEW t, t.type \in Seq(STRING), NEW nodes
  PROVE  /\ Ordered(t, nodes) \in Seq(nodes \cap Nodes(t))
         /\ \A i, j \in 1..Len(Ordered(t, nodes)) : i < j => Ordered(t, nodes)[i] < Ordered(t, nodes)[j]
         /\ \A n \in nodes \cap Nodes(t) : \E i \in 1..Len(Ordered(t, nodes)) : Ordered(t, nodes)[i] = n
<1> DEFINE N == Len(t.type)
           step(f, n) == IF n = 0 THEN << >> ELSE IF n \in nodes THEN Append(f[n - 1], n) ELSE f[n - 1]
           upto == CHOOSE f : f = [n \in 0..N |-> step(f, n)]
<1>1. N \in Nat /\ Nodes(t) = 1..N
  BY DEF Nodes
<1>2. Ordered(t, nodes) = upto[N]
  BY DEF Ordered
<1> HIDE DEF N
<1>3. \E f : f = [n \in 0..N |-> step(f, n)]
  <2> DEFINE V == Seq(1..N)
             pred == [n \in 1..N |-> n - 1]
             next == [n \in 1..N |-> [s \in V |-> IF n \in nodes THEN Append(s, n) ELSE s]]
  <2>1. << >> \in V
    OBVIOUS
  <2>2. pred \in [1..N -> 0..N] /\ \A n \in 1..N : pred[n] = n - 1 /\ pred[n] < n
    BY <1>1
  <2>3. \A n \in 1..N : \A s \in V : Append(s, n) \in V
    OBVIOUS
  <2>4. /\ next \in [1..N -> [V -> V]]
        /\ \A n \in 1..N : \A s \in V : next[n][s] = IF n \in nodes THEN Append(s, n) ELSE s
    <3> HIDE DEF V
    <3> QED
      BY <2>3
  <2> HIDE DEF V, pred, next
  <2>5. IsRecursion(N, V, << >>, pred, next)
    BY <2>1, <2>2, <2>4 DEF IsRecursion
  <2>6. PICK f \in [0..N -> V] : Solves(f, N, << >>, pred, next)
    BY <1>1, <2>5, RecursionExists
  <2>7. ASSUME NEW n \in 0..N PROVE f[n] = step(f, n)
    <3>1. CASE n = 0
      BY <2>6, <3>1 DEF Solves
    <3>2. CASE n # 0
      <4>1. n \in 1..N /\ n - 1 \in 0..N
        BY <1>1, <3>2
      <4>2. f[n - 1] \in V
        BY <2>5, <4>1
      <4>3. f[n] = next[n][f[n - 1]]
        BY <2>2, <2>6, <3>2, <4>1 DEF Solves
      <4>4. next[n][f[n - 1]] = IF n \in nodes THEN Append(f[n - 1], n) ELSE f[n - 1]
        BY <2>4, <4>1, <4>2
      <4> QED
        BY <3>2, <4>3, <4>4
    <3> QED
      BY <3>1, <3>2
  <2>8. f = [n \in 0..N |-> step(f, n)]
    <3> HIDE DEF step
    <3> QED
      BY <2>6, <2>7
  <2> QED
    BY <2>8
<1>4. \A n \in 0..N : upto[n] = step(upto, n)
  <2> HIDE DEF step
  <2>1. upto = [n \in 0..N |-> step(upto, n)]
    BY <1>3
  <2> HIDE DEF upto
  <2> QED
    BY <2>1
<1> HIDE DEF upto
<1> DEFINE good(n) == /\ upto[n] \in Seq(nodes \cap 1..N)
                      /\ \A i \in 1..Len(upto[n]) : upto[n][i] <= n
                      /\ \A i, j \in 1..Len(upto[n]) : i < j => upto[n][i] < upto[n][j]
                      /\ \A m \in nodes \cap 1..n : \E i \in 1..Len(upto[n]) : upto[n][i] = m
           bad == {n \in Nat : n <= N /\ ~ good(n)}
<1>5. ASSUME bad # {} PROVE FALSE
  <2>1. PICK n \in bad : \A l \in bad : n <= l
    <3> HIDE DEF good
    <3> QED
      BY <1>5, LeastNumberExists
  <2>2. n \in 0..N /\ n \in Nat /\ ~ good(n)
    <3> HIDE DEF good
    <3> QED
      BY <1>1, <2>1
  <2>3. n # 0
    <3> SUFFICES ASSUME n = 0 PROVE FALSE
      OBVIOUS
    <3>1. upto[n] = << >> /\ 1..n = {}
      BY <1>4, <2>2
    <3> QED
      BY <2>2, <3>1
  <2>4. n - 1 \in Nat /\ n - 1 <= N /\ ~ (n <= n - 1) /\ n \in 1..N
    BY <1>1, <2>2, <2>3
  <2>5. n - 1 \notin bad
    <3> HIDE DEF bad
    <3> QED
      BY <2>1, <2>4
  <2>6. good(n - 1)
    <3> HIDE DEF good
    <3> QED
      BY <2>4, <2>5
  <2> DEFINE list == upto[n - 1]
  <2>7. /\ list \in Seq(nodes \cap 1..N)
        /\ \A i \in 1..Len(list) : list[i] <= n - 1
        /\ \A i, j \in 1..Len(list) : i < j => list[i] < list[j]
        /\ \A m \in nodes \cap 1..(n - 1) : \E i \in 1..Len(list) : list[i] = m
    BY <2>6
  <2>8. upto[n] = IF n \in nodes THEN Append(list, n) ELSE list
    BY <1>4, <2>2, <2>3
  <2> HIDE DEF list
  <2>9. Len(list) \in Nat /\ \A i \in 1..Len(list) : list[i] \in Nat
    <3> HIDE DEF good, bad, step
    <3>1. \A i \in 1..Len(list) : list[i] \in nodes \cap 1..N
      BY <2>7
    <3>2. Len(list) \in Nat
      BY <2>7
    <3>3. \A x \in nodes \cap 1..N : x \in Nat
      OBVIOUS
    <3> QED
      BY <3>1, <3>2, <3>3
  <2>10. \A m \in 1..n : m \in 1..(n - 1) \/ m = n
    BY <2>2
  <2>11. CASE n \notin nodes
    <3>1. upto[n] = list
      BY <2>8, <2>11
    <3>2. \A i \in 1..Len(list) : list[i] <= n
      BY <2>2, <2>7, <2>9
    <3>3. \A m \in nodes \cap 1..n : m \in nodes \cap 1..(n - 1)
      BY <2>10, <2>11
    <3>4. good(n)
      BY <2>7, <3>1, <3>2, <3>3
    <3> QED
      BY <2>2, <3>4
  <2>12. CASE n \in nodes
    <3> DEFINE longer == Append(list, n)
    <3>1. upto[n] = longer
      BY <2>8, <2>12
    <3>2. /\ longer \in Seq(nodes \cap 1..N) /\ Len(longer) = Len(list) + 1
          /\ longer[Len(list) + 1] = n /\ \A i \in 1..Len(list) : longer[i] = list[i]
      <4>1. n \in nodes \cap 1..N
        BY <2>4, <2>12
      <4> QED
        BY <2>7, <4>1
    <3> HIDE DEF longer
    <3>3. ASSUME NEW i \in 1..Len(longer) PROVE longer[i] <= n
      <4>1. i \in 1..Len(list) \/ i = Len(list) + 1
        BY <2>9, <3>2
      <4> QED
        BY <2>2, <2>7, <2>9, <3>2, <4>1
    <3>4. ASSUME NEW i \in 1..Len(longer), NEW j \in 1..Len(longer), i < j
          PROVE  longer[i] < longer[j]
      <4>1. i \in 1..Len(list) /\ (j \in 1..Len(list) \/ j = Len(list) + 1)
        <5>1. \A l \in Nat : \A x, y \in 1..(l + 1) : x < y => x \in 1..l /\ (y \in 1..l \/ y = l + 1)
          OBVIOUS
        <5>2. i \in 1..(Len(list) + 1) /\ j \in 1..(Len(list) + 1)
          BY <3>2
        <5> QED
          BY <2>9, <3>4, <5>1, <5>2
      <4>2. CASE j \in 1..Len(list)
        BY <2>7, <3>2, <3>4, <4>1, <4>2
      <4>3. CASE j = Len(list) + 1
        BY <2>2, <2>7, <2>9, <3>2, <4>1, <4>3
      <4> QED
        BY <4>1, <4>2, <4>3
    <3>5. ASSUME NEW m \in nodes \cap 1..n PROVE \E i \in 1..Len(longer) : longer[i] = m
      <4>1. CASE m \in 1..(n - 1)
        <5>1. PICK i \in 1..Len(list) : list[i] = m
          BY <2>7, <4>1
        <5>2. i \in 1..Len(longer)
          BY <2>9, <3>2
        <5> QED
          BY <3>2, <5>1, <5>2
      <4>2. CASE m = n
        <5>1. Len(list) + 1 \in 1..Len(longer)
          BY <2>9, <3>2
        <5> QED
          BY <3>2, <4>2, <5>1
      <4> QED
        BY <2>10, <4>1, <4>2
    <3>6. good(n)
      BY <3>1, <3>2, <3>3, <3>4, <3>5
    <3> QED
      BY <2>2, <3>6
  <2> QED
    BY <2>11, <2>12
<1>6. good(N)
  <2> HIDE DEF good
  <2> QED
    BY <1>1, <1>5
<1> QED
  BY <1>1, <1>2, <1>6

\* The ancestors of a node are its parent's and the node.
LEMMA UpFacts ==
  ASSUME NEW t \in PhpTrees, NEW n \in Nodes(t)
  PROVE  Up(t)[n] = IF n = ROOT THEN {n} ELSE Up(t)[t.parent[n]] \cup {n}
<1>1. \A m \in Nodes(t) \ {ROOT} : t.parent[m] \in Nodes(t)
  <2>1. TAKE m \in Nodes(t) \ {ROOT}
  <2>2. t.parent[m] \in 1..(m - 1) /\ t.type \in Seq(STRING)
    BY PhpTreesAssumption
  <2>3. Nodes(t) = 1..Len(t.type) /\ Len(t.type) \in Nat
    BY <2>2 DEF Nodes
  <2> QED
    BY <2>2, <2>3
<1> DEFINE closed(S) == \A m \in S : m # ROOT => t.parent[m] \in S
           above(m) == {k \in Nodes(t) : \A S \in SUBSET Nodes(t) : closed(S) /\ m \in S => k \in S}
           step(f, m) == IF m = ROOT THEN {m} ELSE f[t.parent[m]] \cup {m}
           up == [m \in Nodes(t) |-> above(m)]
<1>2. ASSUME NEW m \in Nodes(t)
      PROVE  above(m) = IF m = ROOT THEN {m} ELSE above(t.parent[m]) \cup {m}
  <2>1. m \in above(m)
    OBVIOUS
  <2>2. \A k \in Nodes(t) : closed(above(k)) /\ above(k) \in SUBSET Nodes(t) /\ k \in above(k)
    BY <1>1
  <2>3. CASE m = ROOT
    <3>1. closed({m}) /\ {m} \in SUBSET Nodes(t)
      BY <2>3
    <3>2. above(m) \subseteq {m}
      BY <3>1
    <3> QED
      BY <2>1, <2>3, <3>2
  <2>4. CASE m # ROOT
    <3> DEFINE S == above(t.parent[m]) \cup {m}
    <3>1. t.parent[m] \in Nodes(t)
      BY <1>1, <2>4
    <3>2. S \in SUBSET Nodes(t) /\ closed(S) /\ m \in S
      <4> HIDE DEF above
      <4> QED
        BY <2>2, <3>1
    <3>3. above(m) \subseteq S
      <4> HIDE DEF S
      <4> QED
        BY <3>2
    <3>4. above(t.parent[m]) \subseteq above(m)
      BY <2>4
    <3> HIDE DEF above
    <3> QED
      BY <2>1, <2>4, <3>3, <3>4
  <2> QED
    BY <2>3, <2>4
<1> HIDE DEF above
<1>3. up = [m \in Nodes(t) |-> step(up, m)]
  BY <1>1, <1>2
<1>4. Up(t) = CHOOSE f : f = [m \in Nodes(t) |-> step(f, m)]
  BY DEF Up
<1>5. Up(t) = [m \in Nodes(t) |-> step(Up(t), m)]
  <2> HIDE DEF step, up
  <2> QED
    BY <1>3, <1>4
<1> QED
  BY <1>5

\* What is assumed of the trees of the files.
LEMMA NodeFacts ==
  ASSUME NEW t \in PhpTrees
  PROVE  /\ t.type \in Seq(STRING) /\ Len(t.type) \in Nat /\ Nodes(t) = 1..Len(t.type)
         /\ ROOT \in Nodes(t) /\ t.parent[ROOT] = 0
         /\ Nodes(t) \subseteq Nat /\ 0 \notin Nodes(t)
         /\ \A n \in Nodes(t) \ {ROOT} : /\ t.parent[n] \in Nodes(t) /\ t.parent[n] < n
                                         /\ n - 1 \in Nodes(t) /\ t.parent[n] \in Up(t)[n - 1]
<1>1. /\ t.type \in Seq(STRING) /\ t.type # << >> /\ t.parent[ROOT] = 0
      /\ \A n \in Nodes(t) \ {ROOT} : t.parent[n] \in 1..(n - 1) /\ t.parent[n] \in Up(t)[n - 1]
  BY PhpTreesAssumption
<1>2. Nodes(t) = 1..Len(t.type) /\ Len(t.type) \in Nat /\ Len(t.type) > 0
  BY <1>1 DEF Nodes
<1>3. ROOT \in Nodes(t) /\ Nodes(t) \subseteq Nat /\ 0 \notin Nodes(t)
  BY <1>2 DEF ROOT
<1>4. ASSUME NEW n \in Nodes(t) \ {ROOT}
      PROVE  t.parent[n] \in Nodes(t) /\ t.parent[n] < n /\ n - 1 \in Nodes(t)
  <2>1. t.parent[n] \in 1..(n - 1)
    BY <1>1
  <2> QED
    BY <1>2, <2>1 DEF ROOT
<1> QED
  BY <1>1, <1>2, <1>3, <1>4

\* The ancestors of a node come before it, and theirs are its own.
LEMMA UpIsClosed ==
  ASSUME NEW t \in PhpTrees, NEW n \in Nodes(t)
  PROVE  /\ n \in Up(t)[n] /\ ROOT \in Up(t)[n] /\ Up(t)[n] \subseteq Nodes(t)
         /\ \A m \in Up(t)[n] : m <= n /\ Up(t)[m] \subseteq Up(t)[n]
<1> DEFINE good(k) == /\ k \in Up(t)[k] /\ ROOT \in Up(t)[k] /\ Up(t)[k] \subseteq Nodes(t)
                      /\ \A m \in Up(t)[k] : m <= k /\ Up(t)[m] \subseteq Up(t)[k]
           bad == {k \in Nodes(t) : ~ good(k)}
<1>1. ASSUME bad # {} PROVE FALSE
  <2>1. PICK k \in bad : \A l \in bad : k <= l
    <3>1. bad \in SUBSET Nat
      BY NodeFacts
    <3> HIDE DEF bad
    <3> QED
      BY <1>1, <3>1, LeastNumberExists
  <2>2. k \in Nodes(t) /\ ~ good(k)
    <3> HIDE DEF good
    <3> QED
      BY <2>1
  <2>3. Up(t)[k] = IF k = ROOT THEN {k} ELSE Up(t)[t.parent[k]] \cup {k}
    BY <2>2, UpFacts
  <2>4. CASE k = ROOT
    <3>1. k \in Nat
      BY <2>2, NodeFacts
    <3> QED
      BY <2>2, <2>3, <2>4, <3>1
  <2>5. CASE k # ROOT
    <3> DEFINE p == t.parent[k]
    <3>1. p \in Nodes(t) /\ p < k /\ p \in Nat /\ k \in Nat
      BY <2>2, <2>5, NodeFacts
    <3>2. p \notin bad
      <4> HIDE DEF bad
      <4> QED
        BY <2>1, <3>1
    <3> HIDE DEF p
    <3>3. good(p)
      <4> HIDE DEF good
      <4> QED
        BY <3>1, <3>2
    <3>4. Up(t)[k] = Up(t)[p] \cup {k}
      BY <2>3, <2>5 DEF p
    <3>5. \A m \in Up(t)[p] : m \in Nat
      BY <3>3, NodeFacts
    <3>6. \A m \in Up(t)[p] : m <= k /\ Up(t)[m] \subseteq Up(t)[k]
      BY <3>1, <3>3, <3>4, <3>5
    <3>7. k <= k
      BY <3>1
    <3>8. good(k)
      BY <2>2, <3>3, <3>4, <3>6, <3>7
    <3> QED
      BY <2>2, <3>8
  <2> QED
    BY <2>4, <2>5
<1>2. good(n)
  <2> HIDE DEF good
  <2> QED
    BY <1>1
<1> QED
  BY <1>2

\* What stands in a node stands together in the text.
LEMMA UpIsInterval ==
  ASSUME NEW t \in PhpTrees, NEW n \in Nodes(t), NEW c \in Nodes(t), NEW m \in Up(t)[n], m <= c, c <= n
  PROVE  m \in Up(t)[c]
<1> DEFINE good(k) == \A x \in Up(t)[k] : x <= c /\ c <= k => x \in Up(t)[c]
           bad == {k \in Nodes(t) : ~ good(k)}
<1>1. ASSUME bad # {} PROVE FALSE
  <2>1. PICK k \in bad : \A l \in bad : k <= l
    <3>1. bad \in SUBSET Nat
      BY NodeFacts
    <3> HIDE DEF bad
    <3> QED
      BY <1>1, <3>1, LeastNumberExists
  <2>2. k \in Nodes(t) /\ ~ good(k)
    <3> HIDE DEF good
    <3> QED
      BY <2>1
  <2>3. PICK x \in Up(t)[k] : x <= c /\ c <= k /\ x \notin Up(t)[c]
    BY <2>2
  <2>4. x \in Nodes(t) /\ x <= k /\ c \in Nat /\ k \in Nat /\ x \in Nat
    BY <2>2, <2>3, UpIsClosed, NodeFacts
  <2>5. c # k /\ x # k
    BY <2>3, <2>4
  <2>6. k # ROOT
    <3> SUFFICES ASSUME k = ROOT PROVE FALSE
      OBVIOUS
    <3>1. Up(t)[k] = {k}
      BY <2>2, UpFacts
    <3> QED
      BY <2>3, <2>5, <3>1
  <2>7. k - 1 \in Nodes(t) /\ t.parent[k] \in Up(t)[k - 1] /\ ~ (k <= k - 1)
    BY <2>2, <2>4, <2>6, NodeFacts
  <2>8. x \in Up(t)[t.parent[k]]
    <3>1. Up(t)[k] = Up(t)[t.parent[k]] \cup {k}
      BY <2>2, <2>6, UpFacts
    <3> QED
      BY <2>3, <2>5, <3>1
  <2>9. x \in Up(t)[k - 1]
    <3>1. Up(t)[t.parent[k]] \subseteq Up(t)[k - 1]
      BY <2>7, UpIsClosed
    <3> QED
      BY <2>8, <3>1
  <2>10. k - 1 \notin bad
    <3> HIDE DEF bad
    <3> QED
      BY <2>1, <2>7
  <2>11. good(k - 1)
    <3> HIDE DEF good
    <3> QED
      BY <2>7, <2>10
  <2>12. c <= k - 1
    BY <2>3, <2>4, <2>5
  <2> QED
    BY <2>3, <2>9, <2>11, <2>12
<1>2. good(n)
  <2> HIDE DEF good
  <2> QED
    BY <1>1
<1> QED
  BY <1>2

\* A node that stands in another stands in one of its children.
LEMMA ChildToward ==
  ASSUME NEW t \in PhpTrees, NEW n \in Nodes(t), NEW m \in Up(t)[n], m # n
  PROVE  \E d \in Up(t)[n] \ {ROOT} : t.parent[d] = m
<1> DEFINE good(k) == m \in Up(t)[k] /\ m # k => \E d \in Up(t)[k] \ {ROOT} : t.parent[d] = m
           bad == {k \in Nodes(t) : ~ good(k)}
<1>1. ASSUME bad # {} PROVE FALSE
  <2>1. PICK k \in bad : \A l \in bad : k <= l
    <3>1. bad \in SUBSET Nat
      BY NodeFacts
    <3> HIDE DEF bad
    <3> QED
      BY <1>1, <3>1, LeastNumberExists
  <2>2. /\ k \in Nodes(t) /\ m \in Up(t)[k] /\ m # k
        /\ ~ \E d \in Up(t)[k] \ {ROOT} : t.parent[d] = m
    BY <2>1
  <2>3. k # ROOT
    <3> SUFFICES ASSUME k = ROOT PROVE FALSE
      OBVIOUS
    <3>1. Up(t)[k] = {k}
      BY <2>2, UpFacts
    <3> QED
      BY <2>2, <3>1
  <2>4. Up(t)[k] = Up(t)[t.parent[k]] \cup {k}
    BY <2>2, <2>3, UpFacts
  <2>5. t.parent[k] \in Nodes(t) /\ t.parent[k] < k /\ k \in Nat /\ t.parent[k] \in Nat
    BY <2>2, <2>3, NodeFacts
  <2>6. t.parent[k] \notin bad
    <3>1. ~ (k <= t.parent[k])
      BY <2>5
    <3> HIDE DEF bad
    <3> QED
      BY <2>1, <3>1
  <2>7. good(t.parent[k])
    <3> HIDE DEF good
    <3> QED
      BY <2>5, <2>6
  <2>8. t.parent[k] # m
    BY <2>2, <2>3, <2>4
  <2>9. m \in Up(t)[t.parent[k]]
    BY <2>2, <2>4
  <2> QED
    BY <2>2, <2>4, <2>7, <2>8, <2>9
<1>2. good(n)
  <2> HIDE DEF good
  <2> QED
    BY <1>1
<1> QED
  BY <1>2

\* A node is one deeper than its parent.
LEMMA DepthFacts ==
  ASSUME NEW t \in PhpTrees, NEW n \in Nodes(t)
  PROVE  Cardinality(Up(t)[n]) = IF n = ROOT THEN 1 ELSE Cardinality(Up(t)[t.parent[n]]) + 1
<1>1. Up(t)[n] = IF n = ROOT THEN {n} ELSE Up(t)[t.parent[n]] \cup {n}
  BY UpFacts
<1>2. CASE n = ROOT
  BY <1>1, <1>2, FS_Singleton
<1>3. CASE n # ROOT
  <2> DEFINE p == t.parent[n]
  <2>1. p \in Nodes(t) /\ p < n /\ n \in Nat /\ Nodes(t) \subseteq Nat
    BY <1>3, NodeFacts
  <2> HIDE DEF p
  <2>2. Up(t)[p] \subseteq Nodes(t) /\ \A m \in Up(t)[p] : m <= p
    BY <2>1, UpIsClosed
  <2>3. n \notin Up(t)[p]
    BY <2>1, <2>2
  <2>4. IsFiniteSet(Nodes(t))
    <3>1. Len(t.type) \in Nat /\ Nodes(t) = 1..Len(t.type)
      BY NodeFacts
    <3> QED
      BY <3>1, FS_Interval
  <2>5. IsFiniteSet(Up(t)[p])
    BY <2>2, <2>4, FS_Subset
  <2> QED
    BY <1>1, <1>3, <2>3, <2>5, FS_AddElement DEF p
<1> QED
  BY <1>2, <1>3

\* What is in place stands in nodes in place, and a named child of one is in place.
LEMMA InPlaceFacts ==
  ASSUME NEW t \in PhpTrees, NEW n \in Nodes(t)
  PROVE  /\ n \in InPlace(t) => t.flag[n] = "named" /\ Up(t)[n] \subseteq InPlace(t)
         /\ n = ROOT /\ t.flag[n] = "named" => n \in InPlace(t)
         /\ n # ROOT => (n \in InPlace(t) <=> t.flag[n] = "named" /\ t.parent[n] \in InPlace(t))
<1>1. n \in Up(t)[n] /\ Up(t)[n] \subseteq Nodes(t) /\ \A m \in Up(t)[n] : Up(t)[m] \subseteq Up(t)[n]
  BY UpIsClosed
<1>2. Up(t)[n] = IF n = ROOT THEN {n} ELSE Up(t)[t.parent[n]] \cup {n}
  BY UpFacts
<1>3. n # ROOT => t.parent[n] \in Nodes(t)
  BY NodeFacts
<1>4. n \in InPlace(t) => t.flag[n] = "named" /\ Up(t)[n] \subseteq InPlace(t)
  BY <1>1 DEF InPlace
<1>5. n = ROOT /\ t.flag[n] = "named" => n \in InPlace(t)
  BY <1>2 DEF InPlace
<1>6. n # ROOT => (n \in InPlace(t) <=> t.flag[n] = "named" /\ t.parent[n] \in InPlace(t))
  BY <1>2, <1>3 DEF InPlace
<1> QED
  BY <1>4, <1>5, <1>6

-----------------------------------------------------------------------------
(* What is to be told.                                                     *)

AllCalls(t) ==
    {CallOf(t, call, n, m) : call \in {"enter", "extra", "leaf", "exit"}, n \in Nodes(t), m \in Nodes(t)}

\* The exits that follow a node, from that of m up.
LEMMA ExitsFacts ==
  ASSUME NEW t \in PhpTrees, NEW n \in Nodes(t)
  PROVE  \A m \in Nodes(t) \cup {0} :
           /\ Exits(t, n)[m] \in Seq(AllCalls(t))
           /\ Exits(t, n)[m] = IF m = 0 \/ GoesOn(t, m, n) THEN << >>
                               ELSE <<CallOf(t, "exit", m, m)>> \o Exits(t, n)[t.parent[m]]
<1> DEFINE N == Len(t.type)
           V == Seq(AllCalls(t))
           step(f, m) == IF m = 0 \/ GoesOn(t, m, n) THEN << >>
                         ELSE <<CallOf(t, "exit", m, m)>> \o f[t.parent[m]]
           exits == CHOOSE f : f = [m \in Nodes(t) \cup {0} |-> step(f, m)]
           pred == [m \in 1..N |-> t.parent[m]]
           next == [m \in 1..N |-> [s \in V |-> IF GoesOn(t, m, n) THEN << >>
                                                  ELSE <<CallOf(t, "exit", m, m)>> \o s]]
<1>1. N \in Nat /\ Nodes(t) = 1..N /\ Nodes(t) \cup {0} = 0..N
  <2>1. N \in Nat /\ Nodes(t) = 1..N
    BY NodeFacts
  <2>2. \A k \in Nat : 1..k \cup {0} = 0..k
    OBVIOUS
  <2> QED
    BY <2>1, <2>2
<1>2. Exits(t, n) = exits
  BY DEF Exits
<1> HIDE DEF N
<1>3. \A m \in 1..N : t.parent[m] \in 0..N /\ t.parent[m] < m
  <2>1. TAKE m \in 1..N
  <2>2. CASE m = ROOT
    BY <1>1, <2>2, NodeFacts DEF ROOT
  <2>3. CASE m # ROOT
    <3>1. t.parent[m] \in Nodes(t) /\ t.parent[m] < m
      BY <1>1, <2>3, NodeFacts
    <3> QED
      BY <1>1, <3>1
  <2> QED
    BY <2>2, <2>3
<1>4. << >> \in V /\ \A m \in 1..N : \A s \in V : <<CallOf(t, "exit", m, m)>> \o s \in V
  <2>1. \A m \in 1..N : CallOf(t, "exit", m, m) \in AllCalls(t)
    BY <1>1 DEF AllCalls
  <2>2. \A c \in AllCalls(t) : \A s \in V : <<c>> \o s \in V
    OBVIOUS
  <2> QED
    BY <2>1, <2>2
<1>5. pred \in [1..N -> 0..N] /\ \A m \in 1..N : pred[m] = t.parent[m] /\ pred[m] < m
  BY <1>3
<1>6. /\ next \in [1..N -> [V -> V]]
      /\ \A m \in 1..N : \A s \in V : next[m][s] = IF GoesOn(t, m, n) THEN << >>
                                                 ELSE <<CallOf(t, "exit", m, m)>> \o s
  <2> HIDE DEF V
  <2> QED
    BY <1>4
<1> HIDE DEF V, pred, next
<1>7. IsRecursion(N, V, << >>, pred, next)
  BY <1>4, <1>5, <1>6 DEF IsRecursion
<1>8. PICK f \in [0..N -> V] : Solves(f, N, << >>, pred, next)
  BY <1>1, <1>7, RecursionExists
<1>9. ASSUME NEW m \in 0..N PROVE f[m] = step(f, m)
  <2>1. CASE m = 0
    BY <1>8, <2>1 DEF Solves
  <2>2. CASE m # 0
    <3>1. m \in 1..N
      BY <1>1, <2>2
    <3>2. f[m] = next[m][f[t.parent[m]]] /\ f[t.parent[m]] \in V
      BY <1>3, <1>5, <1>8, <3>1 DEF Solves
    <3> QED
      BY <1>6, <2>2, <3>1, <3>2
  <2> QED
    BY <2>1, <2>2
<1>10. f = [m \in Nodes(t) \cup {0} |-> step(f, m)]
  <2> HIDE DEF step
  <2> QED
    BY <1>1, <1>8, <1>9
<1>11. exits = [m \in Nodes(t) \cup {0} |-> step(exits, m)]
  <2> HIDE DEF step
  <2> QED
    BY <1>10
<1> HIDE DEF exits
<1>12. \A m \in 0..N : exits[m] = step(exits, m)
  <2> HIDE DEF step
  <2> QED
    BY <1>1, <1>11
<1> DEFINE bad == {m \in 0..N : exits[m] \notin V}
<1>13. ASSUME bad # {} PROVE FALSE
  <2>1. PICK m \in bad : \A l \in bad : m <= l
    <3>1. bad \in SUBSET Nat
      BY <1>1
    <3> HIDE DEF bad
    <3> QED
      BY <1>13, <3>1, LeastNumberExists
  <2>2. m \in 0..N /\ exits[m] = step(exits, m) /\ exits[m] \notin V
    BY <1>12, <2>1
  <2>3. m # 0 /\ ~ GoesOn(t, m, n)
    BY <1>4, <2>2
  <2>4. m \in 1..N /\ t.parent[m] \in 0..N /\ ~ (m <= t.parent[m])
    BY <1>1, <1>3, <2>2, <2>3
  <2>5. exits[t.parent[m]] \in V
    BY <2>1, <2>4
  <2> QED
    BY <1>4, <2>2, <2>3, <2>4, <2>5
<1>14. \A m \in Nodes(t) \cup {0} : exits[m] \in V
  BY <1>1, <1>13
<1> QED
  BY <1>1, <1>2, <1>12, <1>14 DEF V

\* One sequence begins with another.
LEMMA PrefixFacts ==
  ASSUME NEW S, NEW r \in Seq(S), NEW s \in Seq(S)
  PROVE  IsPrefix(r, s) <=> Len(r) <= Len(s) /\ \A i \in 1..Len(r) : r[i] = s[i]
<1>1. Len(r) \in Nat /\ Len(s) \in Nat
  OBVIOUS
<1>2. CASE Len(r) <= Len(s)
  <2>1. /\ SubSeq(r, 1, Len(r)) = [i \in 1..Len(r) |-> r[i]]
        /\ SubSeq(s, 1, Len(r)) = [i \in 1..Len(r) |-> s[i]]
    <3>1. \A q \in Seq(S) : \A l \in Nat : l <= Len(q) => SubSeq(q, 1, l) = [i \in 1..l |-> q[i]]
      OBVIOUS
    <3>2. Len(r) <= Len(r)
      BY <1>1
    <3> QED
      BY <1>1, <1>2, <3>1, <3>2
  <2>2. ([i \in 1..Len(r) |-> r[i]] = [i \in 1..Len(r) |-> s[i]]) <=> \A i \in 1..Len(r) : r[i] = s[i]
    OBVIOUS
  <2> QED
    BY <1>2, <2>1, <2>2 DEF IsPrefix
<1>3. CASE ~ (Len(r) <= Len(s))
  BY <1>3 DEF IsPrefix
<1> QED
  BY <1>2, <1>3

\* A sequence with something behind it, or in steps.
LEMMA LongerFacts ==
  ASSUME NEW S, NEW r \in Seq(S), NEW s \in Seq(S)
  PROVE  /\ r \o s \in Seq(S) /\ Len(r \o s) = Len(r) + Len(s) /\ IsPrefix(r, r \o s)
         /\ IsPrefix(r, r)
         /\ \A q \in Seq(S) : IsPrefix(q, r) /\ IsPrefix(r, s) => IsPrefix(q, s)
         /\ \A q \in Seq(S) : (q \o r) \o s = q \o (r \o s)
<1> DEFINE both == r \o s
<1>1. /\ both \in Seq(S) /\ Len(both) = Len(r) + Len(s) /\ Len(r) \in Nat /\ Len(s) \in Nat
      /\ \A i \in 1..Len(r) : both[i] = r[i]
  OBVIOUS
<1> HIDE DEF both
<1>2. IsPrefix(r, both)
  <2>1. Len(r) <= Len(both)
    BY <1>1
  <2> QED
    BY <1>1, <2>1, PrefixFacts
<1>3. IsPrefix(r, r)
  <2>1. Len(r) <= Len(r)
    BY <1>1
  <2> QED
    BY <2>1, PrefixFacts
<1>4. ASSUME NEW q \in Seq(S), IsPrefix(q, r), IsPrefix(r, s) PROVE IsPrefix(q, s)
  <2>1. Len(q) <= Len(r) /\ \A i \in 1..Len(q) : q[i] = r[i]
    BY <1>4, PrefixFacts
  <2>2. Len(r) <= Len(s) /\ \A i \in 1..Len(r) : r[i] = s[i]
    BY <1>4, PrefixFacts
  <2>3. Len(q) \in Nat
    OBVIOUS
  <2>4. Len(q) <= Len(s) /\ \A i \in 1..Len(q) : i \in 1..Len(r)
    BY <1>1, <2>1, <2>2, <2>3
  <2> QED
    BY <2>1, <2>2, <2>4, PrefixFacts
<1>5. \A q \in Seq(S) : (q \o r) \o s = q \o (r \o s)
  BY ConcatAssociative
<1> QED
  BY <1>1, <1>2, <1>3, <1>4, <1>5 DEF both

\* The beginning of a node is at least one call.
LEMMA OpeningFacts ==
  ASSUME NEW t \in PhpTrees, NEW n \in Nodes(t)
  PROVE  Opening(t, n) \in Seq(AllCalls(t)) /\ Len(Opening(t, n)) >= 1
<1>1. \A call \in {"enter", "extra", "leaf", "exit"} : \A m \in Nodes(t) : CallOf(t, call, m, n) \in AllCalls(t)
  BY DEF AllCalls
<1>2. CASE t.type[n] \in LeafTypes
  <2>1. CallOf(t, "leaf", n, n) \in AllCalls(t)
    BY <1>1
  <2> QED
    BY <1>2, <2>1 DEF Opening
<1>3. CASE t.type[n] \notin LeafTypes
  <2> DEFINE nodes == {c \in Below(t, n) : t.flag[c] = "extra"}
             extras == Ordered(t, nodes)
             first == <<CallOf(t, "enter", n, n)>>
             told == [i \in DOMAIN extras |-> CallOf(t, "extra", extras[i], n)]
  <2>1. first \in Seq(AllCalls(t)) /\ Len(first) = 1
    BY <1>1
  <2>2. extras \in Seq(nodes \cap Nodes(t))
    <3> HIDE DEF nodes
    <3> QED
      BY NodeFacts, OrderedFacts
  <2> HIDE DEF nodes, extras, first
  <2>3. Len(extras) \in Nat /\ DOMAIN extras = 1..Len(extras) /\ \A i \in 1..Len(extras) : extras[i] \in Nodes(t)
    BY <2>2
  <2>4. \A i \in 1..Len(extras) : CallOf(t, "extra", extras[i], n) \in AllCalls(t)
    BY <1>1, <2>3
  <2>5. told \in Seq(AllCalls(t)) /\ Len(told) \in Nat
    BY <2>3, <2>4
  <2>6. Opening(t, n) = first \o told
    BY <1>3 DEF Opening, extras, nodes, first
  <2> HIDE DEF told
  <2>7. first \o told \in Seq(AllCalls(t)) /\ Len(first \o told) = Len(first) + Len(told)
    BY <2>1, <2>5, LongerFacts
  <2> QED
    BY <2>1, <2>5, <2>6, <2>7
<1> QED
  BY <1>2, <1>3

\* What is to be told as far as a node is what was to be told before it, and of it.
LEMMA TellingFacts ==
  ASSUME NEW t \in PhpTrees
  PROVE  /\ TellingTo(t)[0] = << >>
         /\ \A n \in 0..Len(t.type) : TellingTo(t)[n] \in Seq(AllCalls(t))
         /\ \A n \in Nodes(t) :
              /\ Closing(t, n) \in Seq(AllCalls(t))
              /\ TellingTo(t)[n] = IF n \in InPlace(t) THEN TellingTo(t)[n - 1] \o Opening(t, n) \o Closing(t, n)
                                   ELSE TellingTo(t)[n - 1]
<1> DEFINE N == Len(t.type)
           V == Seq(AllCalls(t))
           told(f, n) == IF n \in InPlace(t) THEN f[n - 1] \o Opening(t, n) \o Closing(t, n) ELSE f[n - 1]
           step(f, n) == IF n = 0 THEN << >> ELSE told(f, n)
           all == CHOOSE f : f = [n \in 0..N |-> step(f, n)]
           pred == [n \in 1..N |-> n - 1]
           next == [n \in 1..N |-> [s \in V |-> IF n \in InPlace(t) THEN s \o Opening(t, n) \o Closing(t, n) ELSE s]]
<1>1. N \in Nat /\ Nodes(t) = 1..N /\ \A n \in 1..N : n - 1 \in 0..N /\ n - 1 < n /\ n \in 0..N
  BY NodeFacts
<1>2. TellingTo(t) = all
  BY DEF TellingTo
<1> HIDE DEF N
<1>3. \A n \in Nodes(t) : Closing(t, n) \in V
  <2>1. TAKE n \in Nodes(t)
  <2>2. t.parent[n] \in Nodes(t) \cup {0}
    BY NodeFacts
  <2>3. (IF t.type[n] \in LeafTypes THEN t.parent[n] ELSE n) \in Nodes(t) \cup {0}
    BY <2>2
  <2> QED
    BY <2>3, ExitsFacts DEF Closing
<1>4. << >> \in V /\ \A n \in 1..N : \A s \in V : s \o Opening(t, n) \o Closing(t, n) \in V
  <2>1. \A n \in 1..N : Opening(t, n) \in V /\ Closing(t, n) \in V
    BY <1>1, <1>3, OpeningFacts
  <2>2. \A r, s \in V : r \o s \in V
    OBVIOUS
  <2>3. << >> \in V
    OBVIOUS
  <2> HIDE DEF V
  <2> QED
    BY <2>1, <2>2, <2>3
<1>5. pred \in [1..N -> 0..N] /\ \A n \in 1..N : pred[n] = n - 1 /\ pred[n] < n
  BY <1>1
<1>6. /\ next \in [1..N -> [V -> V]]
      /\ \A n \in 1..N : \A s \in V :
           next[n][s] = IF n \in InPlace(t) THEN s \o Opening(t, n) \o Closing(t, n) ELSE s
  <2> HIDE DEF V
  <2> QED
    BY <1>4
<1> HIDE DEF V, pred, next
<1>7. IsRecursion(N, V, << >>, pred, next)
  BY <1>4, <1>5, <1>6 DEF IsRecursion
<1>8. PICK f \in [0..N -> V] : Solves(f, N, << >>, pred, next)
  BY <1>1, <1>7, RecursionExists
<1>9. ASSUME NEW n \in 0..N PROVE f[n] = step(f, n)
  <2>1. CASE n = 0
    BY <1>8, <2>1 DEF Solves
  <2>2. CASE n # 0
    <3>1. n \in 1..N
      BY <1>1, <2>2
    <3>2. f[n] = next[n][f[n - 1]] /\ f[n - 1] \in V
      BY <1>1, <1>5, <1>8, <3>1 DEF Solves
    <3> QED
      BY <1>6, <2>2, <3>1, <3>2
  <2> QED
    BY <2>1, <2>2
<1>10. f = [n \in 0..N |-> step(f, n)]
  <2> HIDE DEF step
  <2> QED
    BY <1>8, <1>9
<1>11. all = [n \in 0..N |-> step(all, n)]
  <2> HIDE DEF step
  <2> QED
    BY <1>10
<1> HIDE DEF all
<1>12. \A n \in 0..N : all[n] = step(all, n)
  <2> HIDE DEF step
  <2> QED
    BY <1>11
<1> HIDE DEF told
<1>13. all[0] = << >> /\ \A n \in 1..N : all[n] = told(all, n)
  <2>1. 0 \in 0..N /\ \A n \in 1..N : n # 0 /\ n \in 0..N
    BY <1>1
  <2> QED
    BY <1>12, <2>1
<1> DEFINE bad == {n \in 0..N : all[n] \notin V}
<1>14. ASSUME bad # {} PROVE FALSE
  <2>1. PICK n \in bad : \A l \in bad : n <= l
    <3>1. bad \in SUBSET Nat
      BY <1>1
    <3> HIDE DEF bad
    <3> QED
      BY <1>14, <3>1, LeastNumberExists
  <2>2. n \in 0..N /\ all[n] \notin V
    BY <2>1
  <2>3. n # 0
    BY <1>4, <1>13, <2>2
  <2>4. n \in 1..N /\ n - 1 \in 0..N /\ ~ (n <= n - 1)
    BY <1>1, <2>2, <2>3
  <2>5. all[n - 1] \in V
    BY <2>1, <2>4
  <2> QED
    BY <1>4, <1>13, <2>2, <2>4, <2>5 DEF told
<1>15. \A n \in 0..N : all[n] \in V
  BY <1>14
<1> QED
  BY <1>1, <1>2, <1>3, <1>13, <1>15 DEF V, N, told

\* It begins with what is to be told as far as an earlier node, and is more if
\* a node in place has come.
LEMMA TellingGrows ==
  ASSUME NEW t \in PhpTrees, NEW c \in 0..Len(t.type), NEW d \in 0..Len(t.type), c <= d
  PROVE  /\ IsPrefix(TellingTo(t)[c], TellingTo(t)[d])
         /\ (\A n \in InPlace(t) : ~ (c < n /\ n <= d)) => TellingTo(t)[d] = TellingTo(t)[c]
         /\ (\E n \in InPlace(t) : c < n /\ n <= d) => Len(TellingTo(t)[c]) < Len(TellingTo(t)[d])
<1> DEFINE N == Len(t.type)
           T == TellingTo(t)
           V == Seq(AllCalls(t))
           between(k) == \E n \in InPlace(t) : c < n /\ n <= k
           good(k) == /\ IsPrefix(T[c], T[k])
                      /\ ~ between(k) => T[k] = T[c]
                      /\ between(k) => Len(T[c]) < Len(T[k])
           bad == {k \in 0..N : c <= k /\ ~ good(k)}
<1>1. N \in Nat /\ Nodes(t) = 1..N /\ InPlace(t) \subseteq Nodes(t)
  BY NodeFacts DEF InPlace
<1>2. /\ \A n \in 0..N : T[n] \in V
      /\ \A n \in 1..N : /\ Opening(t, n) \in V /\ Closing(t, n) \in V /\ Len(Opening(t, n)) >= 1
                         /\ T[n] = IF n \in InPlace(t) THEN T[n - 1] \o Opening(t, n) \o Closing(t, n) ELSE T[n - 1]
  BY <1>1, TellingFacts, OpeningFacts
<1> HIDE DEF N, T
<1>3. ASSUME bad # {} PROVE FALSE
  <2>1. PICK k \in bad : \A l \in bad : k <= l
    <3>1. bad \in SUBSET Nat
      BY <1>1
    <3> HIDE DEF bad
    <3> QED
      BY <1>3, <3>1, LeastNumberExists
  <2>2. k \in 0..N /\ c <= k /\ ~ good(k)
    <3> HIDE DEF good
    <3> QED
      BY <2>1
  <2>3. c \in 0..N /\ c \in Nat /\ k \in Nat
    BY <1>1, <2>2 DEF N
  <2>4. T[c] \in V /\ T[k] \in V
    BY <1>2, <2>2, <2>3
  <2>5. CASE k = c
    <3>1. ~ between(k)
      BY <1>1, <2>3, <2>5
    <3>2. IsPrefix(T[c], T[k])
      BY <2>4, <2>5, LongerFacts
    <3> QED
      BY <2>2, <2>5, <3>1, <3>2
  <2>6. CASE k # c
    <3>1. k \in 1..N /\ k - 1 \in 0..N /\ c <= k - 1 /\ ~ (k <= k - 1) /\ c < k
      BY <1>1, <2>2, <2>3, <2>6
    <3>2. k - 1 \notin bad
      <4> HIDE DEF bad
      <4> QED
        BY <2>1, <3>1
    <3>3. good(k - 1) /\ T[k - 1] \in V
      <4> HIDE DEF good
      <4> QED
        BY <1>2, <3>1, <3>2
    <3>4. CASE k \notin InPlace(t)
      <4>1. T[k] = T[k - 1]
        BY <1>2, <3>1, <3>4
      <4>2. between(k) <=> between(k - 1)
        <5>1. \A n \in InPlace(t) : n <= k <=> n <= k - 1
          BY <1>1, <2>3, <3>4
        <5> QED
          BY <5>1
      <4> QED
        BY <2>2, <3>3, <4>1, <4>2
    <3>5. CASE k \in InPlace(t)
      <4> DEFINE O == Opening(t, k)
                 C == Closing(t, k)
      <4>1. O \in V /\ C \in V /\ Len(O) >= 1 /\ T[k] = (T[k - 1] \o O) \o C
        BY <1>2, <3>1, <3>5
      <4> HIDE DEF O, C
      <4>2. /\ T[k - 1] \o O \in V /\ Len(T[k - 1] \o O) = Len(T[k - 1]) + Len(O)
            /\ IsPrefix(T[k - 1], T[k - 1] \o O)
        BY <3>3, <4>1, LongerFacts
      <4> DEFINE opened == T[k - 1] \o O
      <4>3. opened \in V /\ T[k] = opened \o C /\ IsPrefix(T[k - 1], opened)
        BY <4>1, <4>2
      <4> HIDE DEF opened, V
      <4>4. Len(T[k]) = Len(opened) + Len(C) /\ IsPrefix(opened, T[k])
        BY <4>1, <4>3, LongerFacts DEF V
      <4>5. IsPrefix(T[k - 1], T[k])
        <5>1. ASSUME NEW S, NEW q \in Seq(S), NEW r \in Seq(S), NEW s \in Seq(S), IsPrefix(q, r), IsPrefix(r, s)
              PROVE  IsPrefix(q, s)
          BY <5>1, LongerFacts
        <5> QED
          BY <2>4, <3>3, <4>3, <4>4, <5>1 DEF V
      <4>6. IsPrefix(T[c], T[k])
        BY <2>4, <3>3, <4>5, LongerFacts DEF V
      <4>7. Len(T[c]) <= Len(T[k - 1])
        BY <2>4, <3>3, PrefixFacts DEF V
      <4>8. Len(T[c]) < Len(T[k])
        <5>1. Len(T[c]) \in Nat /\ Len(T[k - 1]) \in Nat /\ Len(O) \in Nat /\ Len(C) \in Nat
          BY <2>4, <3>3, <4>1 DEF V
        <5> QED
          BY <4>1, <4>2, <4>4, <4>7, <5>1 DEF opened
      <4>9. between(k)
        BY <2>3, <3>1, <3>5
      <4> QED
        BY <2>2, <4>6, <4>8, <4>9
    <3> QED
      BY <3>4, <3>5
  <2> QED
    BY <2>5, <2>6
<1>4. good(d)
  <2> HIDE DEF good
  <2> QED
    BY <1>3 DEF N
<1> QED
  BY <1>4 DEF T

-----------------------------------------------------------------------------
(* Nodes are entered and left like brackets.                               *)

\* A call that is about a tree.
Fits(t, c) ==
    /\ c.call \in {"enter", "leaf", "extra", "exit"} /\ c.node \in Nodes(t)
    /\ c.call # "extra" => c.node \in InPlace(t) /\ c = CallOf(t, c.call, c.node, c.node)
    /\ c.call = "enter" => t.type[c.node] \notin LeafTypes
    /\ c.call = "leaf" => t.type[c.node] \in LeafTypes
    /\ c.call = "extra" => t.parent[c.node] \in InPlace(t) /\ t.flag[c.node] = "extra"

IsOpening(c) == c.call \in {"enter", "leaf"}

\* What the order of two calls says of their nodes.
Before(t, c, d) ==
    /\ IsOpening(c) /\ IsOpening(d) => c.node < d.node
    /\ c.call = "exit" /\ IsOpening(d) => c.node < d.node /\ c.node \notin Up(t)[d.node]
    /\ IsOpening(c) /\ d.call = "exit" => (d.node <= c.node => d.node \in Up(t)[c.node])
    /\ c.call = "exit" /\ d.call = "exit" => c.node # d.node /\ c.node \notin Up(t)[d.node]

Arranged(t, s) == \A i, j \in 1..Len(s) : i < j => Before(t, s[i], s[j])
ToldIn(s, call, n) == \E i \in 1..Len(s) : s[i].call = call /\ s[i].node = n

\* Calls that are arranged, and others behind them.
LEMMA ArrangedFacts ==
  ASSUME NEW t, NEW S, NEW r \in Seq(S), NEW s \in Seq(S), Arranged(t, r), Arranged(t, s),
         \A i \in 1..Len(r) : \A j \in 1..Len(s) : Before(t, r[i], s[j])
  PROVE  Arranged(t, r \o s)
<1> DEFINE both == r \o s
<1>1. /\ both \in Seq(S) /\ Len(both) = Len(r) + Len(s) /\ Len(r) \in Nat /\ Len(s) \in Nat
      /\ \A i \in 1..Len(r) : both[i] = r[i]
      /\ \A i \in (Len(r) + 1)..Len(both) : i - Len(r) \in 1..Len(s) /\ both[i] = s[i - Len(r)]
  OBVIOUS
<1> HIDE DEF both
<1>2. ASSUME NEW i \in 1..Len(both), NEW j \in 1..Len(both), i < j PROVE Before(t, both[i], both[j])
  <2>1. CASE j <= Len(r)
    <3>1. i \in 1..Len(r) /\ j \in 1..Len(r)
      BY <1>1, <1>2, <2>1
    <3> QED
      BY <1>1, <1>2, <3>1 DEF Arranged
  <2>2. CASE i <= Len(r) /\ ~ (j <= Len(r))
    <3>1. i \in 1..Len(r) /\ j \in (Len(r) + 1)..Len(both)
      BY <1>1, <2>2
    <3> QED
      BY <1>1, <3>1
  <2>3. CASE ~ (i <= Len(r))
    <3>1. i \in (Len(r) + 1)..Len(both) /\ j \in (Len(r) + 1)..Len(both)
      BY <1>1, <1>2, <2>3
    <3>2. i - Len(r) < j - Len(r)
      BY <1>1, <1>2
    <3> QED
      BY <1>1, <3>1, <3>2 DEF Arranged
  <2> QED
    BY <2>1, <2>2, <2>3
<1> QED
  BY <1>2 DEF Arranged, both

\* What is told in two sequences of calls, one behind the other.
LEMMA ToldInBoth ==
  ASSUME NEW S, NEW r \in Seq(S), NEW s \in Seq(S)
  PROVE  /\ \A i \in 1..Len(r \o s) : (\E j \in 1..Len(r) : (r \o s)[i] = r[j]) \/ (\E j \in 1..Len(s) : (r \o s)[i] = s[j])
         /\ \A call, n : ToldIn(r, call, n) \/ ToldIn(s, call, n) => ToldIn(r \o s, call, n)
<1> DEFINE both == r \o s
<1>1. /\ both \in Seq(S) /\ Len(both) = Len(r) + Len(s) /\ Len(r) \in Nat /\ Len(s) \in Nat
      /\ \A i \in 1..Len(r) : both[i] = r[i] /\ i \in 1..Len(both)
      /\ \A i \in 1..Len(s) : both[Len(r) + i] = s[i] /\ Len(r) + i \in 1..Len(both)
      /\ \A i \in (Len(r) + 1)..Len(both) : i - Len(r) \in 1..Len(s) /\ both[i] = s[i - Len(r)]
  OBVIOUS
<1> HIDE DEF both
<1>2. ASSUME NEW i \in 1..Len(both)
      PROVE  (\E j \in 1..Len(r) : both[i] = r[j]) \/ (\E j \in 1..Len(s) : both[i] = s[j])
  <2>1. i \in 1..Len(r) \/ i \in (Len(r) + 1)..Len(both)
    BY <1>1
  <2> QED
    BY <1>1, <2>1
<1>3. \A call, n : ToldIn(r, call, n) \/ ToldIn(s, call, n) => ToldIn(both, call, n)
  BY <1>1 DEF ToldIn
<1> QED
  BY <1>2, <1>3 DEF both

\* If more in place follows of a node, it follows of those around it.
LEMMA GoingOnGoesUp ==
  ASSUME NEW t \in PhpTrees, NEW n \in Nodes(t), NEW m \in Nodes(t), NEW x \in Up(t)[m], GoesOn(t, m, n)
  PROVE  GoesOn(t, x, n)
<1>1. PICK k \in InPlace(t) : k > n /\ m \in Up(t)[k]
  BY DEF GoesOn
<1>2. k \in Nodes(t)
  BY <1>1 DEF InPlace
<1>3. x \in Up(t)[k]
  BY <1>1, <1>2, UpIsClosed
<1> QED
  BY <1>1, <1>3 DEF GoesOn

\* The exits that are due from those of a node up.
AreExits(t, e, n, a) ==
    /\ \A i \in 1..Len(e) : /\ e[i] = CallOf(t, "exit", e[i].node, e[i].node) /\ e[i].call = "exit"
                            /\ e[i].node \in Up(t)[a] /\ ~ GoesOn(t, e[i].node, n)
    /\ \A x \in Up(t)[a] : ~ GoesOn(t, x, n) => ToldIn(e, "exit", x)
    /\ Arranged(t, e)

\* They are the exits of all nodes around it that nothing in place follows of.
LEMMA ExitsAreArranged ==
  ASSUME NEW t \in PhpTrees, NEW n \in Nodes(t), NEW a \in Nodes(t)
  PROVE  AreExits(t, Exits(t, n)[a], n, a)
<1> DEFINE bad == {b \in Nodes(t) : ~ AreExits(t, Exits(t, n)[b], n, b)}
<1>1. ASSUME bad # {} PROVE FALSE
  <2>1. PICK b \in bad : \A l \in bad : b <= l
    <3>1. bad \in SUBSET Nat
      BY NodeFacts
    <3> HIDE DEF bad
    <3> QED
      BY <1>1, <3>1, LeastNumberExists
  <2>2. b \in Nodes(t) /\ ~ AreExits(t, Exits(t, n)[b], n, b) /\ b \in Nat /\ b # 0
    BY <2>1, NodeFacts
  <2> DEFINE e == Exits(t, n)[b]
             p == t.parent[b]
             f == Exits(t, n)[p]
             V == Seq(AllCalls(t))
  <2>3. e \in V /\ e = IF GoesOn(t, b, n) THEN << >> ELSE <<CallOf(t, "exit", b, b)>> \o f
    BY <2>2, ExitsFacts
  <2>4. (p = 0 /\ b = ROOT) \/ (p \in Nodes(t) /\ p < b /\ b # ROOT /\ p # 0)
    <3>1. CASE b = ROOT
      BY <3>1, NodeFacts
    <3>2. CASE b # ROOT
      BY <2>2, <3>2, NodeFacts
    <3> QED
      BY <3>1, <3>2
  <2>5. f \in V /\ (p = 0 => f = << >>)
    BY <2>4, ExitsFacts
  <2>6. p # 0 => AreExits(t, f, n, p)
    <3>1. ASSUME p # 0 PROVE p \notin bad
      <4>1. p \in Nat /\ ~ (b <= p)
        BY <2>2, <2>4, <3>1, NodeFacts
      <4> QED
        BY <2>1, <4>1
    <3> QED
      BY <2>4, <3>1
  <2>7. Up(t)[b] = IF p = 0 THEN {b} ELSE Up(t)[p] \cup {b}
    BY <2>2, <2>4, UpFacts
  <2> HIDE DEF f, e, bad
  <2>8. CASE GoesOn(t, b, n)
    <3>1. e = << >>
      BY <2>3, <2>8
    <3>2. \A x \in Up(t)[b] : GoesOn(t, x, n)
      BY <2>2, <2>8, GoingOnGoesUp
    <3>3. AreExits(t, e, n, b)
      BY <3>1, <3>2 DEF AreExits, Arranged
    <3> QED
      BY <2>2, <3>3 DEF e
  <2>9. CASE ~ GoesOn(t, b, n)
    <3> DEFINE c == CallOf(t, "exit", b, b)
               g == <<c>>
    <3>1. c.call = "exit" /\ c.node = b /\ c = CallOf(t, "exit", c.node, c.node) /\ c \in AllCalls(t)
      BY <2>2 DEF CallOf, AllCalls
    <3> HIDE DEF c
    <3>2. g \in V /\ Len(g) = 1 /\ g[1] = c /\ e = g \o f
      BY <2>3, <2>9, <3>1 DEF c
    <3>3. Arranged(t, g) /\ ToldIn(g, "exit", b)
      BY <3>1, <3>2 DEF Arranged, ToldIn
    <3>4. \A i \in 1..Len(g) : g[i] = c
      BY <3>2
    <3> HIDE DEF g, V
    <3>5. \A i \in 1..Len(e) : (\E j \in 1..Len(g) : e[i] = g[j]) \/ (\E j \in 1..Len(f) : e[i] = f[j])
      BY <2>5, <3>2, ToldInBoth DEF V
    <3>6. \A x : ToldIn(g, "exit", x) \/ ToldIn(f, "exit", x) => ToldIn(e, "exit", x)
      BY <2>5, <3>2, ToldInBoth DEF V
    <3>7. p = 0 => Len(f) = 0
      BY <2>5
    <3>8. Arranged(t, f)
      BY <2>5, <2>6, <3>7 DEF AreExits, Arranged
    <3>9. \A j \in 1..Len(f) : /\ p # 0 /\ f[j] = CallOf(t, "exit", f[j].node, f[j].node) /\ f[j].call = "exit"
                               /\ f[j].node \in Up(t)[p] /\ ~ GoesOn(t, f[j].node, n)
      BY <2>6, <3>7 DEF AreExits
    <3>10. ASSUME NEW j \in 1..Len(f) PROVE Before(t, c, f[j])
      <4>1. p \in Nodes(t) /\ p < b /\ f[j].node \in Up(t)[p]
        BY <2>4, <3>9
      <4>2. f[j].node \in Nodes(t) /\ f[j].node <= p
        BY <4>1, UpIsClosed
      <4>3. f[j].node < b /\ \A x \in Up(t)[f[j].node] : x <= f[j].node /\ x \in Nat
        BY <2>2, <4>1, <4>2, UpIsClosed, NodeFacts
      <4>4. f[j].node # b /\ b \notin Up(t)[f[j].node]
        BY <2>2, <4>2, <4>3, NodeFacts
      <4> QED
        BY <3>1, <3>9, <4>4 DEF Before, IsOpening
    <3>11. Arranged(t, e)
      BY <2>5, <3>2, <3>3, <3>4, <3>8, <3>10, ArrangedFacts DEF V
    <3>12. \A x \in Up(t)[b] : ~ GoesOn(t, x, n) => ToldIn(e, "exit", x)
      BY <2>6, <2>7, <3>3, <3>6 DEF AreExits
    <3>13. \A i \in 1..Len(e) : /\ e[i] = CallOf(t, "exit", e[i].node, e[i].node) /\ e[i].call = "exit"
                                /\ e[i].node \in Up(t)[b] /\ ~ GoesOn(t, e[i].node, n)
      <4>1. TAKE i \in 1..Len(e)
      <4>2. CASE \E j \in 1..Len(g) : e[i] = g[j]
        BY <2>7, <2>9, <3>1, <3>4, <4>2
      <4>3. CASE \E j \in 1..Len(f) : e[i] = f[j]
        BY <2>7, <3>9, <4>3
      <4> QED
        BY <3>5, <4>2, <4>3
    <3> QED
      BY <2>2, <3>11, <3>12, <3>13 DEF AreExits, e
  <2> QED
    BY <2>8, <2>9
<1> QED
  BY <1>1

\* The beginning of a node: it is entered or a leaf, and the comments below it follow.
OpeningOf(t, o, n) ==
    /\ \A i \in 1..Len(o) : Fits(t, o[i]) /\ (o[i].call = "extra" \/ (IsOpening(o[i]) /\ o[i].node = n))
    /\ ToldIn(o, IF t.type[n] \in LeafTypes THEN "leaf" ELSE "enter", n)
    /\ Arranged(t, o)

LEMMA OpeningIsArranged ==
  ASSUME NEW t \in PhpTrees, NEW n \in InPlace(t)
  PROVE  OpeningOf(t, Opening(t, n), n)
<1>1. n \in Nodes(t)
  BY DEF InPlace
<1> DEFINE o == Opening(t, n)
           call == IF t.type[n] \in LeafTypes THEN "leaf" ELSE "enter"
           first == CallOf(t, call, n, n)
           g == <<first>>
<1>2. first.call = call /\ first.node = n /\ first = CallOf(t, first.call, first.node, first.node)
  BY DEF CallOf
<1>3. Fits(t, first) /\ IsOpening(first)
  BY <1>1, <1>2 DEF Fits, IsOpening
<1>4. first \in AllCalls(t)
  BY <1>1 DEF AllCalls
<1> HIDE DEF first
<1>5. g \in Seq(AllCalls(t)) /\ Len(g) = 1 /\ g[1] = first
  BY <1>4
<1>6. ToldIn(g, call, n)
  BY <1>2, <1>5 DEF ToldIn
<1> HIDE DEF g, call
<1>7. ASSUME \A i \in 1..Len(o) : \A j \in 1..Len(o) : i < j => o[j].call = "extra"
      PROVE  Arranged(t, o)
  <2>1. \A c, d : d.call = "extra" => Before(t, c, d)
    BY DEF Before, IsOpening
  <2> HIDE DEF o
  <2> QED
    BY <1>7, <2>1 DEF Arranged
<1>8. CASE t.type[n] \in LeafTypes
  <2>1. o = g
    BY <1>8 DEF Opening, g, first, call
  <2> HIDE DEF o
  <2>2. Arranged(t, o)
    <3>1. Len(o) = 1
      BY <1>5, <2>1
    <3>2. \A i, j \in 1..1 : ~ (i < j)
      OBVIOUS
    <3> QED
      BY <1>7, <3>1, <3>2
  <2>3. \A i \in 1..Len(o) : Fits(t, o[i]) /\ IsOpening(o[i]) /\ o[i].node = n
    BY <1>2, <1>3, <1>5, <2>1
  <2>4. ToldIn(o, IF t.type[n] \in LeafTypes THEN "leaf" ELSE "enter", n)
    BY <1>6, <2>1 DEF call
  <2> QED
    BY <2>2, <2>3, <2>4 DEF OpeningOf, o
<1>9. CASE t.type[n] \notin LeafTypes
  <2> DEFINE nodes == {c \in Below(t, n) : t.flag[c] = "extra"}
             extras == Ordered(t, nodes)
             told == [i \in DOMAIN extras |-> CallOf(t, "extra", extras[i], n)]
  <2>1. extras \in Seq(nodes \cap Nodes(t))
    <3> HIDE DEF nodes
    <3> QED
      BY NodeFacts, OrderedFacts
  <2>2. \A c \in nodes : c \in Nodes(t) /\ t.parent[c] = n /\ t.flag[c] = "extra"
    BY DEF Below
  <2> HIDE DEF nodes, extras
  <2>3. Len(extras) \in Nat /\ DOMAIN extras = 1..Len(extras) /\ \A i \in 1..Len(extras) : extras[i] \in nodes
    BY <2>1
  <2>4. \A c \in nodes : CallOf(t, "extra", c, n) \in AllCalls(t)
    BY <1>1, <2>2 DEF AllCalls
  <2>5. \A c \in nodes : CallOf(t, "extra", c, n).call = "extra" /\ CallOf(t, "extra", c, n).node = c
    BY DEF CallOf
  <2>6. \A c \in nodes : Fits(t, CallOf(t, "extra", c, n))
    BY <2>2, <2>5 DEF Fits
  <2>7. told \in Seq(AllCalls(t)) /\ Len(told) = Len(extras)
    BY <2>3, <2>4
  <2>8. \A i \in 1..Len(told) : told[i].call = "extra" /\ Fits(t, told[i])
    BY <2>3, <2>5, <2>6, <2>7
  <2>9. o = g \o told
    BY <1>9 DEF Opening, extras, nodes, g, first, call
  <2> HIDE DEF told, o
  <2>10. /\ Len(o) = 1 + Len(told) /\ Len(told) \in Nat /\ o[1] = first
         /\ \A i \in 2..Len(o) : i - 1 \in 1..Len(told) /\ o[i] = told[i - 1]
    <3>1. ASSUME NEW S, NEW q \in Seq(S), NEW r \in Seq(S), Len(q) = 1
          PROVE  /\ Len(q \o r) = 1 + Len(r) /\ Len(r) \in Nat /\ (q \o r)[1] = q[1]
                 /\ \A i \in 2..Len(q \o r) : i - 1 \in 1..Len(r) /\ (q \o r)[i] = r[i - 1]
      <4> DEFINE both == q \o r
      <4>1. /\ both \in Seq(S) /\ Len(both) = Len(q) + Len(r) /\ Len(r) \in Nat
            /\ \A i \in 1..Len(q) : both[i] = q[i]
            /\ \A i \in (Len(q) + 1)..Len(both) : i - Len(q) \in 1..Len(r) /\ both[i] = r[i - Len(q)]
        OBVIOUS
      <4> HIDE DEF both
      <4>2. both[1] = q[1] /\ 1 + 1 = 2
        BY <3>1, <4>1
      <4> QED
        BY <3>1, <4>1, <4>2 DEF both
    <3> QED
      BY <1>5, <2>7, <2>9, <3>1
  <2>11. \A i \in 1..Len(o) : i = 1 \/ i \in 2..Len(o)
    BY <2>10
  <2>12. \A i \in 1..Len(o) : \A j \in 1..Len(o) : i < j => j \in 2..Len(o)
    BY <2>10
  <2>13. Arranged(t, o)
    BY <1>7, <2>8, <2>10, <2>12 DEF o
  <2>14. ToldIn(o, call, n)
    <3>1. ToldIn(g, call, n) \/ ToldIn(told, call, n) => ToldIn(g \o told, call, n)
      BY <1>5, <2>7, ToldInBoth
    <3> QED
      BY <1>6, <2>9, <3>1
  <2>15. \A i \in 1..Len(o) : Fits(t, o[i]) /\ (o[i].call = "extra" \/ (IsOpening(o[i]) /\ o[i].node = n))
    BY <1>2, <1>3, <2>8, <2>10, <2>11
  <2> QED
    BY <2>13, <2>14, <2>15 DEF OpeningOf, o, call
<1> QED
  BY <1>8, <1>9

\* What has been told when all has been told as far as a node.
TellsTo(t, s, n) ==
    /\ \A i \in 1..Len(s) : /\ Fits(t, s[i])
                            /\ IsOpening(s[i]) => s[i].node <= n
                            /\ s[i].call = "exit" => s[i].node <= n /\ ~ GoesOn(t, s[i].node, n)
    /\ \A m \in InPlace(t) : m <= n => ToldIn(s, IF t.type[m] \in LeafTypes THEN "leaf" ELSE "enter", m)
    /\ \A m \in InPlace(t) : m <= n /\ t.type[m] \notin LeafTypes /\ ~ GoesOn(t, m, n) => ToldIn(s, "exit", m)
    /\ Arranged(t, s)

\* The end of a node: the exits of it and of those around it that end with it.
ClosingOf(t, e, n) ==
    /\ \A i \in 1..Len(e) : e[i].call = "exit" /\ Fits(t, e[i]) /\ e[i].node \in Up(t)[n] /\ ~ GoesOn(t, e[i].node, n)
    /\ \A x \in Up(t)[n] : t.type[x] \notin LeafTypes /\ ~ GoesOn(t, x, n) => ToldIn(e, "exit", x)
    /\ Arranged(t, e)

LEMMA ClosingIsArranged ==
  ASSUME NEW t \in PhpTrees, NEW n \in InPlace(t)
  PROVE  ClosingOf(t, Closing(t, n), n)
<1>1. n \in Nodes(t)
  BY DEF InPlace
<1> DEFINE a == IF t.type[n] \in LeafTypes THEN t.parent[n] ELSE n
           e == Closing(t, n)
<1>2. e = Exits(t, n)[a]
  BY DEF Closing
<1>3. (a = 0 /\ n = ROOT) \/ (a \in Nodes(t) /\ a # 0)
  <2>1. CASE n = ROOT
    BY <1>1, <2>1, NodeFacts
  <2>2. CASE n # ROOT
    BY <1>1, <2>2, NodeFacts
  <2> QED
    BY <2>1, <2>2
<1>4. Up(t)[n] \subseteq (IF a = 0 THEN {} ELSE Up(t)[a]) \cup {n} /\ (a # 0 => Up(t)[a] \subseteq Up(t)[n])
  <2>1. CASE n = ROOT
    <3>1. Up(t)[n] = {n} /\ t.parent[n] = 0
      BY <1>1, <2>1, UpFacts, NodeFacts
    <3> QED
      BY <2>1, <3>1
  <2>2. CASE n # ROOT
    <3>1. Up(t)[n] = Up(t)[t.parent[n]] \cup {n}
      BY <1>1, <2>2, UpFacts
    <3>2. t.parent[n] # 0
      BY <1>1, <2>2, NodeFacts
    <3>3. a = n \/ a = t.parent[n]
      OBVIOUS
    <3> HIDE DEF a
    <3> QED
      BY <1>3, <2>2, <3>1, <3>2, <3>3
  <2> QED
    BY <2>1, <2>2
<1>5. t.type[n] \notin LeafTypes => a = n
  OBVIOUS
<1>6. a = 0 => e = << >>
  <2> HIDE DEF a
  <2> QED
    BY <1>1, <1>2, ExitsFacts
<1>7. Up(t)[n] \subseteq InPlace(t) /\ InPlace(t) \subseteq Nodes(t)
  BY <1>1, InPlaceFacts DEF InPlace
<1>8. a = 0 => t.type[n] \in LeafTypes /\ Len(e) = 0
  BY <1>1, <1>3, <1>5, <1>6, NodeFacts
<1>9. a # 0 => AreExits(t, e, n, a)
  BY <1>1, <1>2, <1>3, ExitsAreArranged
<1> HIDE DEF a, e
<1>10. CASE a = 0
  <2>1. \A x \in Up(t)[n] : x = n
    BY <1>4, <1>10
  <2> QED
    BY <1>8, <1>10, <2>1 DEF ClosingOf, Arranged, e
<1>11. CASE a # 0
  <2>1. AreExits(t, e, n, a)
    BY <1>9, <1>11
  <2>2. Arranged(t, e)
    BY <2>1 DEF AreExits
  <2>3. \A x \in Up(t)[n] : t.type[x] \notin LeafTypes => x \in Up(t)[a]
    <3>1. a = n \/ t.type[n] \in LeafTypes
      BY <1>5
    <3> QED
      BY <1>4, <1>11, <3>1
  <2>4. \A x \in Up(t)[n] : t.type[x] \notin LeafTypes /\ ~ GoesOn(t, x, n) => ToldIn(e, "exit", x)
    BY <2>1, <2>3 DEF AreExits
  <2>5. ASSUME NEW i \in 1..Len(e)
        PROVE  e[i].call = "exit" /\ Fits(t, e[i]) /\ e[i].node \in Up(t)[n] /\ ~ GoesOn(t, e[i].node, n)
    <3>1. /\ e[i] = CallOf(t, "exit", e[i].node, e[i].node) /\ e[i].call = "exit"
          /\ e[i].node \in Up(t)[n] /\ ~ GoesOn(t, e[i].node, n)
      BY <1>4, <1>11, <2>1 DEF AreExits
    <3>2. Fits(t, e[i])
      BY <1>7, <3>1 DEF Fits
    <3> QED
      BY <3>1, <3>2
  <2> QED
    BY <2>2, <2>4, <2>5 DEF ClosingOf, e
<1> QED
  BY <1>10, <1>11

\* A node in place adds its beginning and its end to what has been told.
LEMMA TellingStep ==
  ASSUME NEW t \in PhpTrees, NEW k \in InPlace(t), NEW s \in Seq(AllCalls(t)), TellsTo(t, s, k - 1)
  PROVE  TellsTo(t, (s \o Opening(t, k)) \o Closing(t, k), k)
<1> DEFINE V == AllCalls(t)
           o == Opening(t, k)
           e == Closing(t, k)
           r == s \o o
           w == r \o e
<1>1. k \in Nodes(t) /\ InPlace(t) \subseteq Nodes(t) /\ Nodes(t) \subseteq Nat
  BY NodeFacts DEF InPlace
<1>2. o \in Seq(V) /\ e \in Seq(V) /\ s \in Seq(V)
  BY <1>1, OpeningFacts, TellingFacts
<1>3. OpeningOf(t, o, k) /\ ClosingOf(t, e, k)
  BY OpeningIsArranged, ClosingIsArranged
<1> HIDE DEF V, o, e
<1>4. r \in Seq(V)
  BY <1>2
<1>5. /\ \A i \in 1..Len(r) : (\E j \in 1..Len(s) : r[i] = s[j]) \/ (\E j \in 1..Len(o) : r[i] = o[j])
      /\ \A call, n : ToldIn(s, call, n) \/ ToldIn(o, call, n) => ToldIn(r, call, n)
  BY <1>2, ToldInBoth
<1> HIDE DEF r
<1>6. /\ \A i \in 1..Len(w) : (\E j \in 1..Len(r) : w[i] = r[j]) \/ (\E j \in 1..Len(e) : w[i] = e[j])
      /\ \A call, n : ToldIn(r, call, n) \/ ToldIn(e, call, n) => ToldIn(w, call, n)
  BY <1>2, <1>4, ToldInBoth
<1> HIDE DEF w
<1>7. \A m \in Nodes(t) : m \in Up(t)[k] => GoesOn(t, m, k - 1)
  BY <1>1 DEF GoesOn
<1>8. \A m \in Nodes(t) : GoesOn(t, m, k) => GoesOn(t, m, k - 1)
  <2>1. \A x \in InPlace(t) : x > k => x > k - 1
    BY <1>1
  <2> QED
    BY <2>1 DEF GoesOn
<1>9. \A m \in Nodes(t) : GoesOn(t, m, k - 1) => GoesOn(t, m, k) \/ m \in Up(t)[k]
  <2>1. \A x \in InPlace(t) : x > k - 1 => x > k \/ x = k
    BY <1>1
  <2> QED
    BY <2>1 DEF GoesOn
<1>10. \A j \in 1..Len(s) : /\ Fits(t, s[j]) /\ s[j].node \in Nodes(t)
                            /\ IsOpening(s[j]) => s[j].node <= k - 1
                            /\ s[j].call = "exit" => s[j].node <= k - 1 /\ ~ GoesOn(t, s[j].node, k - 1)
  BY <1>3 DEF TellsTo, Fits
<1>11. \A j \in 1..Len(o) : Fits(t, o[j]) /\ (o[j].call = "extra" \/ (IsOpening(o[j]) /\ o[j].node = k))
  BY <1>3 DEF OpeningOf
<1>12. \A j \in 1..Len(e) : /\ e[j].call = "exit" /\ Fits(t, e[j]) /\ e[j].node \in Up(t)[k] /\ ~ GoesOn(t, e[j].node, k)
                            /\ e[j].node \in Nodes(t) /\ e[j].node <= k
  BY <1>1, <1>3, UpIsClosed DEF ClosingOf
<1>13. ASSUME NEW i \in 1..Len(s), NEW j \in 1..Len(o) PROVE Before(t, s[i], o[j])
  <2>1. CASE o[j].call = "extra"
    BY <2>1 DEF Before, IsOpening
  <2>2. CASE IsOpening(o[j]) /\ o[j].node = k
    <3>1. o[j].call # "exit"
      BY <2>2 DEF IsOpening
    <3>2. IsOpening(s[i]) => s[i].node < k
      BY <1>1, <1>10
    <3>3. s[i].call = "exit" => s[i].node < k /\ s[i].node \notin Up(t)[k]
      BY <1>1, <1>7, <1>10
    <3> QED
      BY <2>2, <3>1, <3>2, <3>3 DEF Before
  <2> QED
    BY <1>11, <2>1, <2>2
<1>14. Arranged(t, r)
  <2>1. Arranged(t, s) /\ Arranged(t, o)
    BY <1>3 DEF TellsTo, OpeningOf
  <2> QED
    BY <1>2, <1>13, <2>1, ArrangedFacts DEF r
<1>15. \A c : IsOpening(c) => c.call # "exit"
  BY DEF IsOpening
<1>16. ASSUME NEW c, NEW d, Fits(t, c), IsOpening(c), c.node <= k, d.call = "exit", d.node \in Up(t)[k]
       PROVE  Before(t, c, d)
  <2>1. c.node \in Nodes(t) /\ c.call # "exit" /\ ~ IsOpening(d)
    BY <1>16 DEF Fits, IsOpening
  <2>2. d.node <= c.node => d.node \in Up(t)[c.node]
    BY <1>1, <1>16, <2>1, UpIsInterval, UpIsClosed
  <2> QED
    BY <2>1, <2>2 DEF Before
<1>17. ASSUME NEW i \in 1..Len(s), NEW j \in 1..Len(e), s[i].call = "exit" PROVE Before(t, s[i], e[j])
  <2>1. /\ s[i].node \in Nodes(t) /\ ~ GoesOn(t, s[i].node, k - 1) /\ ~ IsOpening(s[i])
        /\ e[j].node \in Up(t)[k] /\ e[j].node \in Nodes(t) /\ ~ IsOpening(e[j])
    BY <1>10, <1>12, <1>15, <1>17
  <2>2. s[i].node \notin Up(t)[k]
    BY <1>7, <2>1
  <2>3. Up(t)[e[j].node] \subseteq Up(t)[k]
    BY <1>1, <2>1, UpIsClosed
  <2> QED
    BY <2>1, <2>2, <2>3 DEF Before
<1>18. ASSUME NEW i \in 1..Len(r), NEW j \in 1..Len(e) PROVE Before(t, r[i], e[j])
  <2>1. e[j].call = "exit" /\ e[j].node \in Up(t)[k]
    BY <1>12
  <2>2. CASE \E l \in 1..Len(s) : r[i] = s[l]
    <3>1. PICK l \in 1..Len(s) : r[i] = s[l]
      BY <2>2
    <3>2. CASE s[l].call = "exit"
      BY <1>17, <3>1, <3>2
    <3>3. CASE IsOpening(s[l])
      <4>1. Fits(t, s[l]) /\ s[l].node <= k
        BY <1>1, <1>10, <3>3
      <4> QED
        BY <1>16, <2>1, <3>1, <3>3, <4>1
    <3>4. CASE s[l].call = "extra"
      BY <3>1, <3>4 DEF Before, IsOpening
    <3>5. s[l].call \in {"enter", "leaf", "extra", "exit"}
      BY <1>10 DEF Fits
    <3> QED
      BY <3>2, <3>3, <3>4, <3>5 DEF IsOpening
  <2>3. CASE \E l \in 1..Len(o) : r[i] = o[l]
    <3>1. PICK l \in 1..Len(o) : r[i] = o[l]
      BY <2>3
    <3>2. CASE o[l].call = "extra"
      BY <3>1, <3>2 DEF Before, IsOpening
    <3>3. CASE IsOpening(o[l]) /\ o[l].node = k
      <4>1. Fits(t, o[l]) /\ o[l].node <= k
        BY <1>1, <1>11, <3>3
      <4> QED
        BY <1>16, <2>1, <3>1, <3>3, <4>1
    <3> QED
      BY <1>11, <3>2, <3>3
  <2> QED
    BY <1>5, <2>2, <2>3
<1>19. Arranged(t, w)
  <2>1. Arranged(t, e)
    BY <1>3 DEF ClosingOf
  <2> QED
    BY <1>2, <1>4, <1>14, <1>18, <2>1, ArrangedFacts DEF w
<1>20. ASSUME NEW i \in 1..Len(w)
       PROVE  /\ Fits(t, w[i])
              /\ IsOpening(w[i]) => w[i].node <= k
              /\ w[i].call = "exit" => w[i].node <= k /\ ~ GoesOn(t, w[i].node, k)
  <2>1. CASE \E j \in 1..Len(e) : w[i] = e[j]
    BY <1>12, <2>1, <1>15
  <2>2. CASE \E j \in 1..Len(s) : w[i] = s[j]
    <3>1. PICK j \in 1..Len(s) : w[i] = s[j]
      BY <2>2
    <3>2. \A n \in Nodes(t) : n <= k - 1 => n <= k
      BY <1>1
    <3> QED
      BY <1>8, <1>10, <3>1, <3>2
  <2>3. CASE \E j \in 1..Len(o) : w[i] = o[j]
    <3>1. PICK j \in 1..Len(o) : w[i] = o[j]
      BY <2>3
    <3>2. k <= k
      BY <1>1
    <3>3. o[j].call # "exit" /\ (IsOpening(o[j]) => o[j].node <= k)
      BY <1>11, <1>15, <3>2 DEF IsOpening
    <3> QED
      BY <1>11, <3>1, <3>3
  <2>4. (\E j \in 1..Len(s) : w[i] = s[j]) \/ (\E j \in 1..Len(o) : w[i] = o[j]) \/ (\E j \in 1..Len(e) : w[i] = e[j])
    <3>1. CASE \E l \in 1..Len(r) : w[i] = r[l]
      <4>1. PICK l \in 1..Len(r) : w[i] = r[l]
        BY <3>1
      <4> QED
        BY <1>5, <4>1
    <3>2. CASE \E j \in 1..Len(e) : w[i] = e[j]
      BY <3>2
    <3> QED
      BY <1>6, <3>1, <3>2
  <2> QED
    BY <2>1, <2>2, <2>3, <2>4
<1>21. ASSUME NEW m \in InPlace(t), m <= k PROVE ToldIn(w, IF t.type[m] \in LeafTypes THEN "leaf" ELSE "enter", m)
  <2>1. CASE m = k
    BY <1>3, <1>5, <1>6, <2>1 DEF OpeningOf
  <2>2. CASE m # k
    <3>1. m <= k - 1
      BY <1>1, <1>21, <2>2
    <3>2. ToldIn(s, IF t.type[m] \in LeafTypes THEN "leaf" ELSE "enter", m)
      BY <3>1 DEF TellsTo
    <3> QED
      BY <1>5, <1>6, <3>2
  <2> QED
    BY <2>1, <2>2
<1>22. ASSUME NEW m \in InPlace(t), m <= k, t.type[m] \notin LeafTypes, ~ GoesOn(t, m, k) PROVE ToldIn(w, "exit", m)
  <2>1. m \in Nodes(t)
    BY <1>1
  <2>2. CASE m \in Up(t)[k]
    <3>1. ToldIn(e, "exit", m)
      BY <1>3, <1>22, <2>2 DEF ClosingOf
    <3> QED
      BY <1>6, <3>1
  <2>3. CASE m \notin Up(t)[k]
    <3>1. m # k
      BY <1>1, <2>3, UpIsClosed
    <3>2. m <= k - 1 /\ ~ GoesOn(t, m, k - 1)
      BY <1>1, <1>9, <1>22, <2>1, <2>3, <3>1
    <3>3. ToldIn(s, "exit", m)
      BY <1>22, <3>2 DEF TellsTo
    <3> QED
      BY <1>5, <1>6, <3>3
  <2> QED
    BY <2>2, <2>3
<1>23. TellsTo(t, w, k)
  BY <1>19, <1>20, <1>21, <1>22 DEF TellsTo
<1> QED
  BY <1>23 DEF w, r, o, e

\* What is to be told as far as a node is arranged like brackets.
LEMMA TellingIsArranged ==
  ASSUME NEW t \in PhpTrees, NEW n \in 0..Len(t.type)
  PROVE  TellsTo(t, TellingTo(t)[n], n)
<1> DEFINE N == Len(t.type)
           T == TellingTo(t)
           bad == {k \in 0..N : ~ TellsTo(t, T[k], k)}
<1>1. N \in Nat /\ Nodes(t) = 1..N /\ InPlace(t) \subseteq Nodes(t)
  BY NodeFacts DEF InPlace
<1>2. /\ T[0] = << >> /\ \A k \in 0..N : T[k] \in Seq(AllCalls(t))
      /\ \A k \in 1..N : T[k] = IF k \in InPlace(t) THEN T[k - 1] \o Opening(t, k) \o Closing(t, k) ELSE T[k - 1]
  BY <1>1, TellingFacts
<1> HIDE DEF N, T
<1>3. ASSUME bad # {} PROVE FALSE
  <2>1. PICK k \in bad : \A l \in bad : k <= l
    <3>1. bad \in SUBSET Nat
      BY <1>1
    <3> HIDE DEF bad
    <3> QED
      BY <1>3, <3>1, LeastNumberExists
  <2>2. k \in 0..N /\ ~ TellsTo(t, T[k], k)
    BY <2>1
  <2>3. CASE k = 0
    <3>1. \A m \in InPlace(t) : ~ (m <= 0)
      BY <1>1
    <3> QED
      BY <1>2, <2>2, <2>3, <3>1 DEF TellsTo, Arranged
  <2>4. CASE k # 0
    <3>1. k \in 1..N /\ k - 1 \in 0..N /\ ~ (k <= k - 1)
      BY <1>1, <2>2, <2>4
    <3>2. TellsTo(t, T[k - 1], k - 1)
      BY <2>1, <3>1
    <3>3. CASE k \in InPlace(t)
      <4>1. T[k] = (T[k - 1] \o Opening(t, k)) \o Closing(t, k) /\ T[k - 1] \in Seq(AllCalls(t))
        BY <1>2, <3>1, <3>3
      <4> QED
        BY <2>2, <3>2, <3>3, <4>1, TellingStep
    <3>4. CASE k \notin InPlace(t)
      <4>1. T[k] = T[k - 1]
        BY <1>2, <3>1, <3>4
      <4>2. \A x \in InPlace(t) : x > k - 1 <=> x > k
        BY <1>1, <3>1, <3>4
      <4>3. \A m : GoesOn(t, m, k - 1) <=> GoesOn(t, m, k)
        BY <4>2 DEF GoesOn
      <4>4. \A m \in InPlace(t) : m <= k => m <= k - 1
        BY <1>1, <3>1, <3>4
      <4>5. \A m \in Nodes(t) : m <= k - 1 => m <= k
        BY <1>1, <3>1
      <4>6. \A c : Fits(t, c) => c.node \in Nodes(t)
        BY DEF Fits
      <4> DEFINE s == T[k - 1]
      <4> HIDE DEF s
      <4>7. TellsTo(t, s, k - 1)
        BY <3>2 DEF s
      <4>8. TellsTo(t, s, k)
        BY <4>3, <4>4, <4>5, <4>6, <4>7 DEF TellsTo
      <4> QED
        BY <2>2, <4>1, <4>8 DEF s
    <3> QED
      BY <3>3, <3>4
  <2> QED
    BY <2>3, <2>4
<1> QED
  BY <1>3 DEF T, N

\* All that is to be told of a tree: of every node in place, like brackets.
LEMMA TellingBrackets ==
  ASSUME NEW t \in PhpTrees
  PROVE  /\ Telling(t) \in Seq(AllCalls(t)) /\ Arranged(t, Telling(t))
         /\ \A i \in 1..Len(Telling(t)) : Fits(t, Telling(t)[i])
         /\ \A m \in InPlace(t) : /\ ToldIn(Telling(t), IF t.type[m] \in LeafTypes THEN "leaf" ELSE "enter", m)
                                  /\ t.type[m] \notin LeafTypes => ToldIn(Telling(t), "exit", m)
<1>1. Len(t.type) \in Nat /\ Len(t.type) \in 0..Len(t.type) /\ Nodes(t) = 1..Len(t.type) /\ InPlace(t) \subseteq Nodes(t)
  BY NodeFacts DEF InPlace
<1>2. Telling(t) \in Seq(AllCalls(t)) /\ TellsTo(t, Telling(t), Len(t.type))
  BY <1>1, TellingFacts, TellingIsArranged DEF Telling
<1>3. \A m \in InPlace(t) : m <= Len(t.type) /\ ~ GoesOn(t, m, Len(t.type))
  <2>1. \A x \in InPlace(t) : ~ (x > Len(t.type)) /\ x <= Len(t.type)
    BY <1>1
  <2> QED
    BY <2>1 DEF GoesOn
<1> QED
  BY <1>2, <1>3 DEF TellsTo
=============================================================================
