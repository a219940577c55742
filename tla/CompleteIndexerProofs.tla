----------------------- MODULE CompleteIndexerProofs ------------------------
(***************************************************************************)
(* What a listener may take from the calls of the walk, for trees of any   *)
(* size: the nodes it has entered and not left are the ancestors; and for  *)
(* the trees of the grammar, as far as errors leave it, the walk tells of  *)
(* all that is in place in the tree, in order, and of nothing else.        *)
(***************************************************************************)
EXTENDS CompleteIndexer, PhpTreeProofs

-----------------------------------------------------------------------------
(* Trees.                                                                  *)

\* What is assumed of the trees of the files, and what slots and the comments are.
LEMMA TreeFacts ==
  ASSUME NEW t \in PhpTrees
  PROVE  /\ ROOT \in Nodes(t) /\ t.parent[ROOT] = 0
         /\ Nodes(t) \subseteq Nat /\ 0 \notin Nodes(t)
         /\ \A n \in Nodes(t) \ {ROOT} : t.parent[n] < n
         /\ \A n \in Nodes(t) : /\ Extras(t, n) \in Seq(Nodes(t))
                                /\ Slots(t, n) \in Seq(Below(t, n))
                                /\ \A i, j \in 1..Len(Slots(t, n)) : i < j => Slots(t, n)[i] < Slots(t, n)[j]
<1>1. /\ t.type \in Seq(STRING) /\ t.type # << >> /\ t.parent[ROOT] = 0
      /\ \A n \in Nodes(t) \ {ROOT} : t.parent[n] \in 1..(n - 1)
  BY PhpTreesAssumption
<1>2. Nodes(t) = 1..Len(t.type) /\ Len(t.type) \in Nat /\ Len(t.type) > 0
  BY <1>1 DEF Nodes
<1>3. ROOT \in Nodes(t) /\ Nodes(t) \subseteq Nat /\ 0 \notin Nodes(t)
  BY <1>2 DEF ROOT
<1>4. \A n \in Nodes(t) \ {ROOT} : t.parent[n] < n
  BY <1>1, <1>2
<1>5. ASSUME NEW n \in Nodes(t)
      PROVE  /\ Extras(t, n) \in Seq(Nodes(t))
             /\ Slots(t, n) \in Seq(Below(t, n))
             /\ \A i, j \in 1..Len(Slots(t, n)) : i < j => Slots(t, n)[i] < Slots(t, n)[j]
  <2> DEFINE slots == {c \in Below(t, n) : \/ t.flag[c] = "named"
                                           \/ t.flag[c] = "token" /\ t.field[c] # NO_FIELD}
             extras == {c \in Below(t, n) : t.flag[c] = "extra"}
  <2>1. Slots(t, n) = Ordered(t, slots) /\ Extras(t, n) = Ordered(t, extras)
    BY DEF Slots, Extras
  <2>2. slots \cap Nodes(t) \subseteq Below(t, n) /\ extras \cap Nodes(t) \subseteq Nodes(t)
    OBVIOUS
  <2> HIDE DEF slots, extras
  <2>3. /\ Ordered(t, slots) \in Seq(slots \cap Nodes(t)) /\ Ordered(t, extras) \in Seq(extras \cap Nodes(t))
        /\ \A i, j \in 1..Len(Ordered(t, slots)) : i < j => Ordered(t, slots)[i] < Ordered(t, slots)[j]
    BY <1>1, OrderedFacts
  <2>4. \A S, T : \A s \in Seq(S) : S \subseteq T => s \in Seq(T)
    OBVIOUS
  <2> QED
    BY <2>1, <2>2, <2>3, <2>4
<1> QED
  BY <1>1, <1>3, <1>4, <1>5

-----------------------------------------------------------------------------
(* Calls.                                                                  *)

Calls(t) ==
    [call : {"enter", "extra", "leaf", "exit"}, node : Nodes(t), depth : Nat, parent : Nodes(t) \cup {0}]

\* Some call of this kind tells of the node, among the first ones or among all.
ToldBefore(cs, call, m, i) == \E j \in DOMAIN cs : j < i /\ cs[j].call = call /\ cs[j].node = m
ToldOf(cs, call, m) == \E j \in DOMAIN cs : cs[j].call = call /\ cs[j].node = m

OpenBefore(t, cs, i) ==
    {m \in Nodes(t) : ToldBefore(cs, "enter", m, i) /\ ~ ToldBefore(cs, "exit", m, i)}
OpenAfter(t, cs) == {m \in Nodes(t) : ToldOf(cs, "enter", m) /\ ~ ToldOf(cs, "exit", m)}

\* OpenAreAncestors of a tree and calls
Ancestry(t, cs) ==
    \A i \in DOMAIN cs :
      cs[i].call \in {"enter", "leaf"} => OpenBefore(t, cs, i) = Up(t)[cs[i].node] \ {cs[i].node}

\* More calls: one, and comments after it.
Follows(ds, cs, c) ==
    /\ Len(ds) > Len(cs)
    /\ \A j \in 1..Len(cs) : ds[j] = cs[j]
    /\ ds[Len(cs) + 1] = c
    /\ \A j \in 1..Len(ds) : j > Len(cs) + 1 => ds[j].call = "extra"

\* They tell of one more node, and leave what was known of the others.
LEMMA MoreCalls ==
  ASSUME NEW t, NEW cs \in Seq(Calls(t)), NEW ds \in Seq(Calls(t)), NEW c, Follows(ds, cs, c)
  PROVE  /\ \A call \in {"enter", "exit"} : \A m :
              ToldOf(ds, call, m) <=> ToldOf(cs, call, m) \/ (c.call = call /\ c.node = m)
         /\ Ancestry(t, cs) /\ (c.call \in {"enter", "leaf"} => OpenAfter(t, cs) = Up(t)[c.node] \ {c.node})
              => Ancestry(t, ds)
<1> DEFINE n == Len(cs)
<1>1. n \in Nat /\ Len(ds) \in Nat /\ DOMAIN cs = 1..n /\ DOMAIN ds = 1..Len(ds)
  OBVIOUS
<1>2. /\ Len(ds) > n /\ \A j \in 1..n : ds[j] = cs[j]
      /\ ds[n + 1] = c
      /\ \A j \in 1..Len(ds) : j > n + 1 => ds[j].call = "extra"
  BY DEF Follows
<1> HIDE DEF n
<1>3. /\ \A j \in 1..n : j \in 1..Len(ds) /\ j < n + 1
      /\ n + 1 \in 1..Len(ds)
      /\ \A j \in 1..Len(ds) : j \in 1..n \/ j = n + 1 \/ j > n + 1
      /\ \A j \in 1..Len(ds) : j < n + 1 => j \in 1..n
  BY <1>1, <1>2
<1>4. ASSUME NEW call \in {"enter", "exit"}, NEW m
      PROVE  ToldOf(ds, call, m) <=> ToldOf(cs, call, m) \/ (c.call = call /\ c.node = m)
  BY <1>1, <1>2, <1>3 DEF ToldOf
<1>5. ASSUME Ancestry(t, cs), c.call \in {"enter", "leaf"} => OpenAfter(t, cs) = Up(t)[c.node] \ {c.node},
             NEW i \in DOMAIN ds, ds[i].call \in {"enter", "leaf"}
      PROVE  OpenBefore(t, ds, i) = Up(t)[ds[i].node] \ {ds[i].node}
  <2>1. i \in 1..n \/ i = n + 1
    BY <1>1, <1>2, <1>3, <1>5
  <2>2. CASE i \in 1..n
    <3>1. \A call, m : ToldBefore(ds, call, m, i) <=> ToldBefore(cs, call, m, i)
      <4>1. \A j \in 1..Len(ds) : j < i => j \in 1..n
        BY <1>1, <2>2
      <4> QED
        BY <1>1, <1>2, <1>3, <4>1 DEF ToldBefore
    <3>2. OpenBefore(t, ds, i) = OpenBefore(t, cs, i)
      BY <3>1 DEF OpenBefore
    <3> QED
      BY <1>1, <1>2, <1>5, <2>2, <3>2 DEF Ancestry
  <2>3. CASE i = n + 1
    <3>1. \A call, m : ToldBefore(ds, call, m, i) <=> ToldOf(cs, call, m)
      BY <1>1, <1>2, <1>3, <2>3 DEF ToldBefore, ToldOf
    <3>2. OpenBefore(t, ds, i) = OpenAfter(t, cs)
      BY <3>1 DEF OpenBefore, OpenAfter
    <3> QED
      BY <1>2, <1>5, <2>3, <3>2
  <2> QED
    BY <2>1, <2>2, <2>3
<1> QED
  BY <1>4, <1>5 DEF Ancestry

-----------------------------------------------------------------------------
(* The walk.                                                               *)

\* The path is a node and its ancestors, and they are the nodes entered and not
\* left.  What the loops have yet to come to has not been entered, and what has
\* been entered has been entered after its parent: no node is entered twice.
Walks(t, p, td, cs) ==
    /\ p \in Seq(Nodes(t)) /\ td \in Seq(Seq(Nodes(t))) /\ Len(td) = Len(p) /\ cs \in Seq(Calls(t))
    /\ \A j, k \in 1..Len(p) : j < k => p[j] < p[k]
    /\ \A k \in 1..Len(p) : Up(t)[p[k]] = {p[j] : j \in 1..k}
    /\ \A k \in 1..Len(p) :
         /\ td[k] \in Seq(Below(t, p[k]))
         /\ \A i, j \in 1..Len(td[k]) : i < j => td[k][i] < td[k][j]
         /\ \A i \in 1..Len(td[k]) : ~ ToldOf(cs, "enter", td[k][i])
    /\ OpenAfter(t, cs) = {p[j] : j \in 1..Len(p)}
    /\ \A m : ToldOf(cs, "exit", m) => ToldOf(cs, "enter", m)
    /\ \A m \in Nodes(t) \ {ROOT} : ToldOf(cs, "enter", m) => ToldOf(cs, "enter", t.parent[m])
    /\ Ancestry(t, cs)

\* The next child of the node the walk is in.
LEMMA NextChild ==
  ASSUME NEW t \in PhpTrees, NEW p, NEW td, NEW cs, Walks(t, p, td, cs), p # << >>, Last(td) # << >>
  PROVE  LET child == Head(Last(td))
             rest == Append(Front(td), Tail(Last(td)))
         IN  /\ Walks(t, p, rest, cs)
             /\ child \in Nodes(t) \ {ROOT} /\ t.parent[child] = p[Len(p)]
             /\ ~ ToldOf(cs, "enter", child)
             /\ \A k \in 1..Len(rest) : \A i \in 1..Len(rest[k]) : rest[k][i] # child
<1> DEFINE n == Len(p)
           list == td[n]
           child == Head(list)
           rest == Append(Front(td), Tail(list))
<1>1. /\ p \in Seq(Nodes(t)) /\ td \in Seq(Seq(Nodes(t))) /\ Len(td) = n /\ n \in Nat /\ n > 0 /\ n \in 1..n
      /\ td # << >>
  BY DEF Walks
<1>2. Last(td) = list /\ list # << >>
  BY <1>1 DEF Last
<1>3. /\ list \in Seq(Below(t, p[n])) /\ \A i, j \in 1..Len(list) : i < j => list[i] < list[j]
      /\ \A i \in 1..Len(list) : ~ ToldOf(cs, "enter", list[i])
  BY <1>1 DEF Walks
<1>4. child = list[1] /\ 1 \in 1..Len(list) /\ Len(list) \in Nat
  BY <1>2, <1>3
<1>5. child \in Below(t, p[n]) /\ ~ ToldOf(cs, "enter", child)
  BY <1>3, <1>4
<1>6. child \in Nodes(t) /\ t.parent[child] = p[n] /\ p[n] \in Nodes(t)
  BY <1>1, <1>5 DEF Below
<1>7. child # ROOT
  BY <1>6, TreeFacts
<1>8. /\ rest \in Seq(Seq(Nodes(t))) /\ Len(rest) = n /\ rest[n] = Tail(list)
      /\ \A k \in 1..(n - 1) : rest[k] = td[k]
  <2>1. Front(td) = SubSeq(td, 1, n - 1)
    BY <1>1 DEF Front
  <2> DEFINE front == SubSeq(td, 1, n - 1)
  <2>2. /\ front \in Seq(Seq(Nodes(t))) /\ Len(front) = n - 1
        /\ \A k \in 1..(n - 1) : front[k] = td[k]
    BY <1>1
  <2>3. Tail(list) \in Seq(Nodes(t))
    <3>1. list \in Seq(Nodes(t))
      BY <1>1
    <3> QED
      BY <1>2, <3>1
  <2> HIDE DEF front, list
  <2>4. /\ Append(front, Tail(list)) \in Seq(Seq(Nodes(t))) /\ Len(Append(front, Tail(list))) = n
        /\ Append(front, Tail(list))[n] = Tail(list)
        /\ \A k \in 1..(n - 1) : Append(front, Tail(list))[k] = front[k]
    BY <1>1, <2>2, <2>3
  <2>5. rest = Append(front, Tail(list))
    BY <2>1 DEF front
  <2> QED
    BY <2>2, <2>4, <2>5
<1>9. /\ Tail(list) \in Seq(Below(t, p[n])) /\ Len(Tail(list)) = Len(list) - 1
      /\ \A i \in 1..Len(Tail(list)) : Tail(list)[i] = list[i + 1] /\ i + 1 \in 1..Len(list)
  <2>1. ASSUME NEW S, NEW s \in Seq(S), s # << >>
        PROVE  /\ Tail(s) \in Seq(S) /\ Len(Tail(s)) = Len(s) - 1
               /\ \A i \in 1..Len(Tail(s)) : Tail(s)[i] = s[i + 1] /\ i + 1 \in 1..Len(s)
    <3>1. Len(s) \in Nat /\ Tail(s) \in Seq(S) /\ Len(Tail(s)) = Len(s) - 1
      BY <2>1
    <3>2. \A i \in 1..(Len(s) - 1) : Tail(s)[i] = s[i + 1] /\ i + 1 \in 1..Len(s)
      BY <2>1, <3>1
    <3> QED
      BY <3>1, <3>2
  <2> HIDE DEF list
  <2> QED
    BY <1>2, <1>3, <2>1
<1> HIDE DEF list, child, rest
<1>10. ASSUME NEW k \in 1..n
       PROVE  /\ rest[k] \in Seq(Below(t, p[k]))
              /\ \A i, j \in 1..Len(rest[k]) : i < j => rest[k][i] < rest[k][j]
              /\ \A i \in 1..Len(rest[k]) : ~ ToldOf(cs, "enter", rest[k][i]) /\ rest[k][i] # child
  <2>1. CASE k = n
    <3>1. ASSUME NEW i \in 1..Len(rest[k]), NEW j \in 1..Len(rest[k]), i < j
          PROVE  rest[k][i] < rest[k][j]
      <4>1. i + 1 < j + 1
        BY <1>4, <1>8, <1>9, <2>1, <3>1
      <4>2. /\ rest[k][i] = list[i + 1] /\ i + 1 \in 1..Len(list)
            /\ rest[k][j] = list[j + 1] /\ j + 1 \in 1..Len(list)
        BY <1>8, <1>9, <2>1
      <4>3. list[i + 1] < list[j + 1]
        BY <1>3, <4>1, <4>2
      <4> QED
        BY <4>2, <4>3
    <3>2. ASSUME NEW i \in 1..Len(rest[k])
          PROVE  ~ ToldOf(cs, "enter", rest[k][i]) /\ rest[k][i] # child
      <4>1. 1 < i + 1
        BY <1>4, <1>8, <1>9, <2>1, <3>2
      <4>2. rest[k][i] = list[i + 1] /\ i + 1 \in 1..Len(list)
        BY <1>8, <1>9, <2>1
      <4>3. list[1] < list[i + 1] /\ list[1] \in Nat
        BY <1>3, <1>4, <1>6, <4>1, <4>2, TreeFacts
      <4> QED
        BY <1>3, <1>4, <4>2, <4>3
    <3> QED
      BY <1>8, <1>9, <2>1, <3>1, <3>2
  <2>2. CASE k # n
    <3>1. k \in 1..(n - 1) /\ k < n
      BY <1>1, <2>2
    <3>2. rest[k] = td[k]
      BY <1>8, <3>1
    <3>3. /\ td[k] \in Seq(Below(t, p[k]))
          /\ \A i, j \in 1..Len(td[k]) : i < j => td[k][i] < td[k][j]
          /\ \A i \in 1..Len(td[k]) : ~ ToldOf(cs, "enter", td[k][i])
      BY DEF Walks
    <3>4. ASSUME NEW i \in 1..Len(td[k]) PROVE td[k][i] # child
      <4>1. t.parent[td[k][i]] = p[k]
        BY <3>3 DEF Below
      <4>2. p[k] < p[n] /\ p[k] \in Nat /\ p[n] \in Nat
        <5>1. p[k] < p[n]
          BY <1>1, <3>1 DEF Walks
        <5>2. p[k] \in Nodes(t) /\ p[n] \in Nodes(t)
          BY <1>1
        <5> QED
          BY <5>1, <5>2, TreeFacts
      <4> SUFFICES ASSUME td[k][i] = child PROVE FALSE
        OBVIOUS
      <4>3. p[k] = p[n]
        BY <1>6, <4>1
      <4> QED
        BY <4>2, <4>3
    <3> QED
      BY <3>2, <3>3, <3>4
  <2> QED
    BY <2>1, <2>2
<1>11. Walks(t, p, rest, cs)
  BY <1>8, <1>10 DEF Walks
<1>12. child = Head(Last(td)) /\ rest = Append(Front(td), Tail(Last(td)))
  BY <1>2 DEF child, rest
<1> HIDE DEF n
<1> QED
  BY <1>5, <1>6, <1>7, <1>8, <1>10, <1>11, <1>12 DEF n

\* Sets of the elements of two sequences that agree.
LEMMA SameElements ==
  ASSUME NEW S, NEW f, NEW g, \A j \in S : f[j] = g[j]
  PROVE  {f[j] : j \in S} = {g[j] : j \in S}
OBVIOUS

\* The elements of a sequence, the last one apart.
LEMMA OneMoreElement ==
  ASSUME NEW S, NEW f, NEW k
  PROVE  {f[j] : j \in S \cup {k}} = {f[j] : j \in S} \cup {f[k]}
OBVIOUS

\* When the walk comes to a child the nodes of the path are its ancestors.
LEMMA PathIsAbove ==
  ASSUME NEW t \in PhpTrees, NEW p, NEW td, NEW cs, Walks(t, p, td, cs), NEW n \in Nodes(t),
         (n = ROOT /\ p = << >>) \/ (n # ROOT /\ p # << >> /\ t.parent[n] = p[Len(p)])
  PROVE  /\ OpenAfter(t, cs) = Up(t)[n] \ {n}
         /\ Up(t)[n] = {p[j] : j \in 1..Len(p)} \cup {n}
         /\ \A j \in 1..Len(p) : p[j] < n
<1>1. p \in Seq(Nodes(t)) /\ Len(p) \in Nat /\ Nodes(t) \subseteq Nat
  BY TreeFacts DEF Walks
<1>2. Up(t)[n] = IF n = ROOT THEN {n} ELSE Up(t)[t.parent[n]] \cup {n}
  BY UpFacts
<1>3. OpenAfter(t, cs) = {p[j] : j \in 1..Len(p)}
  BY DEF Walks
<1>4. CASE n = ROOT /\ p = << >>
  <2>1. 1..Len(p) = {}
    BY <1>4
  <2> QED
    BY <1>2, <1>3, <1>4, <2>1
<1>5. CASE n # ROOT /\ p # << >> /\ t.parent[n] = p[Len(p)]
  <2>1. Len(p) \in 1..Len(p)
    BY <1>1, <1>5
  <2>2. Up(t)[p[Len(p)]] = {p[j] : j \in 1..Len(p)}
    BY <2>1 DEF Walks
  <2>3. p[Len(p)] < n
    BY <1>5, TreeFacts
  <2>4. ASSUME NEW j \in 1..Len(p) PROVE p[j] < n /\ p[j] # n
    <3>1. j < Len(p) => p[j] < p[Len(p)]
      BY <2>1 DEF Walks
    <3>2. p[j] \in Nat /\ p[Len(p)] \in Nat /\ n \in Nat
      BY <1>1, <2>1
    <3>3. j < Len(p) \/ j = Len(p)
      BY <1>1
    <3> QED
      BY <2>3, <3>1, <3>2, <3>3
  <2> QED
    BY <1>2, <1>3, <1>5, <2>2, <2>4
<1> QED
  BY <1>4, <1>5

\* A node is entered.
LEMMA EnterKeeps ==
  ASSUME NEW t \in PhpTrees, NEW p, NEW td, NEW cs, Walks(t, p, td, cs), NEW n \in Nodes(t),
         (n = ROOT /\ p = << >>) \/ (n # ROOT /\ p # << >> /\ t.parent[n] = p[Len(p)]),
         ~ ToldOf(cs, "enter", n),
         \A k \in 1..Len(td) : \A i \in 1..Len(td[k]) : td[k][i] # n,
         NEW ds \in Seq(Calls(t)), NEW c, Follows(ds, cs, c), c.call = "enter", c.node = n
  PROVE  Walks(t, Append(p, n), Append(td, Slots(t, n)), ds)
<1> DEFINE q == Append(p, n)
           ud == Append(td, Slots(t, n))
           l == Len(p)
<1>1. /\ p \in Seq(Nodes(t)) /\ td \in Seq(Seq(Nodes(t))) /\ Len(td) = l /\ cs \in Seq(Calls(t)) /\ l \in Nat
      /\ Ancestry(t, cs)
  BY DEF Walks
<1>2. /\ OpenAfter(t, cs) = Up(t)[n] \ {n}
      /\ Up(t)[n] = {p[j] : j \in 1..l} \cup {n}
      /\ \A j \in 1..l : p[j] < n
  BY PathIsAbove
<1>3. /\ \A call \in {"enter", "exit"} : \A m :
           ToldOf(ds, call, m) <=> ToldOf(cs, call, m) \/ ("enter" = call /\ n = m)
      /\ Ancestry(t, ds)
  <2>1. OpenAfter(t, cs) = Up(t)[c.node] \ {c.node}
    BY <1>2
  <2>2. /\ \A call \in {"enter", "exit"} : \A m :
              ToldOf(ds, call, m) <=> ToldOf(cs, call, m) \/ (c.call = call /\ c.node = m)
        /\ Ancestry(t, ds)
    BY <1>1, <2>1, MoreCalls
  <2> QED
    BY <2>2
<1>4. /\ Slots(t, n) \in Seq(Below(t, n)) /\ Slots(t, n) \in Seq(Nodes(t))
      /\ \A i, j \in 1..Len(Slots(t, n)) : i < j => Slots(t, n)[i] < Slots(t, n)[j]
  <2>1. Below(t, n) \subseteq Nodes(t)
    BY DEF Below
  <2>2. \A S, T : \A s \in Seq(S) : S \subseteq T => s \in Seq(T)
    OBVIOUS
  <2> QED
    BY <2>1, <2>2, TreeFacts
<1>5. /\ q \in Seq(Nodes(t)) /\ Len(q) = l + 1 /\ q[l + 1] = n /\ \A k \in 1..l : q[k] = p[k]
      /\ ud \in Seq(Seq(Nodes(t))) /\ Len(ud) = l + 1 /\ ud[l + 1] = Slots(t, n)
      /\ \A k \in 1..l : ud[k] = td[k]
  BY <1>1, <1>4
<1>6. \A k \in 1..(l + 1) : k \in 1..l \/ k = l + 1
  BY <1>1
<1> HIDE DEF q, ud, l
<1>7. ASSUME NEW j \in 1..Len(q), NEW k \in 1..Len(q), j < k
      PROVE  q[j] < q[k]
  <2>1. j \in 1..l
    BY <1>1, <1>5, <1>7
  <2>2. CASE k \in 1..l
    BY <1>5, <1>7, <2>1, <2>2 DEF Walks, l
  <2>3. CASE k = l + 1
    BY <1>2, <1>5, <2>1, <2>3
  <2> QED
    BY <1>5, <1>6, <2>2, <2>3
<1>8. ASSUME NEW k \in 1..Len(q)
      PROVE  Up(t)[q[k]] = {q[j] : j \in 1..k}
  <2>1. CASE k \in 1..l
    <3>1. Up(t)[p[k]] = {p[j] : j \in 1..k}
      BY <2>1 DEF Walks, l
    <3>2. \A j \in 1..k : q[j] = p[j]
      <4>1. \A j \in 1..k : j \in 1..l
        BY <1>1, <2>1
      <4> QED
        BY <1>5, <4>1
    <3>3. {q[j] : j \in 1..k} = {p[j] : j \in 1..k}
      BY <3>2, SameElements
    <3> QED
      BY <1>5, <2>1, <3>1, <3>3
  <2>2. CASE k = l + 1
    <3>1. 1..k = (1..l) \cup {k}
      BY <1>1, <2>2
    <3>2. {q[j] : j \in 1..k} = {q[j] : j \in 1..l} \cup {q[k]}
      BY <3>1, OneMoreElement
    <3>3. {q[j] : j \in 1..l} = {p[j] : j \in 1..l}
      <4>1. \A j \in 1..l : q[j] = p[j]
        BY <1>5
      <4> QED
        BY <4>1, SameElements
    <3> QED
      BY <1>2, <1>5, <2>2, <3>2, <3>3
  <2> QED
    BY <1>5, <1>6, <2>1, <2>2
<1>9. ASSUME NEW k \in 1..Len(q)
      PROVE  /\ ud[k] \in Seq(Below(t, q[k]))
             /\ \A i, j \in 1..Len(ud[k]) : i < j => ud[k][i] < ud[k][j]
             /\ \A i \in 1..Len(ud[k]) : ~ ToldOf(ds, "enter", ud[k][i])
  <2>1. CASE k \in 1..l
    <3>1. /\ td[k] \in Seq(Below(t, p[k]))
          /\ \A i, j \in 1..Len(td[k]) : i < j => td[k][i] < td[k][j]
          /\ \A i \in 1..Len(td[k]) : ~ ToldOf(cs, "enter", td[k][i])
      BY <2>1 DEF Walks, l
    <3>2. \A i \in 1..Len(td[k]) : td[k][i] # n
      BY <1>1, <2>1
    <3>3. \A i \in 1..Len(td[k]) : ~ ToldOf(ds, "enter", td[k][i])
      BY <1>3, <3>1, <3>2
    <3>4. ud[k] = td[k] /\ q[k] = p[k]
      BY <1>5, <2>1
    <3> QED
      BY <3>1, <3>3, <3>4
  <2>2. CASE k = l + 1
    <3>1. ASSUME NEW i \in 1..Len(Slots(t, n))
          PROVE  ~ ToldOf(ds, "enter", Slots(t, n)[i])
      <4> DEFINE m == Slots(t, n)[i]
      <4>1. m \in Nodes(t) /\ t.parent[m] = n
        <5>1. m \in Below(t, n)
          BY <1>4
        <5> QED
          BY <5>1 DEF Below
      <4> HIDE DEF m
      <4>2. m # ROOT
        BY <4>1, TreeFacts
      <4>3. m # n
        <5>1. n < m /\ m \in Nat /\ n \in Nat
          BY <4>1, <4>2, TreeFacts
        <5> QED
          BY <5>1
      <4>4. ~ ToldOf(cs, "enter", m)
        BY <4>1, <4>2 DEF Walks
      <4> QED
        BY <1>3, <4>3, <4>4 DEF m
    <3> QED
      BY <1>4, <1>5, <2>2, <3>1
  <2> QED
    BY <1>5, <1>6, <2>1, <2>2
<1>10. \A m : ToldOf(cs, "exit", m) => ToldOf(cs, "enter", m)
  BY DEF Walks
<1>11. OpenAfter(t, ds) = {q[j] : j \in 1..Len(q)}
  <2>1. OpenAfter(t, ds) = OpenAfter(t, cs) \cup {n}
    BY <1>3, <1>10 DEF OpenAfter
  <2>2. 1..Len(q) = (1..l) \cup {l + 1}
    <3>1. l \in Nat /\ Len(q) = l + 1
      BY <1>1, <1>5
    <3>2. \A x \in Nat : 1..(x + 1) = (1..x) \cup {x + 1}
      OBVIOUS
    <3> QED
      BY <3>1, <3>2
  <2>3. {q[j] : j \in 1..Len(q)} = {q[j] : j \in 1..l} \cup {q[l + 1]}
    BY <2>2, OneMoreElement
  <2>4. {q[j] : j \in 1..l} = {p[j] : j \in 1..l}
    <3>1. \A j \in 1..l : q[j] = p[j]
      BY <1>5
    <3> QED
      BY <3>1, SameElements
  <2>5. OpenAfter(t, cs) = {p[j] : j \in 1..l}
    BY DEF Walks, l
  <2> QED
    BY <1>5, <2>1, <2>3, <2>4, <2>5
<1>12. \A m : ToldOf(ds, "exit", m) => ToldOf(ds, "enter", m)
  BY <1>3, <1>10
<1>13. ASSUME NEW m \in Nodes(t) \ {ROOT}, ToldOf(ds, "enter", m)
       PROVE  ToldOf(ds, "enter", t.parent[m])
  <2>1. CASE ToldOf(cs, "enter", m)
    BY <1>3, <2>1 DEF Walks
  <2>2. CASE m = n
    <3>1. p # << >> /\ t.parent[n] = p[Len(p)] /\ Len(p) \in 1..Len(p)
      BY <1>1, <2>2
    <3>2. t.parent[n] \in OpenAfter(t, cs)
      BY <3>1 DEF Walks
    <3> QED
      BY <1>3, <2>2, <3>2 DEF OpenAfter
  <2> QED
    BY <1>3, <1>13, <2>1, <2>2
<1>14. Walks(t, q, ud, ds)
  BY <1>3, <1>5, <1>7, <1>8, <1>9, <1>11, <1>12, <1>13 DEF Walks
<1> QED
  BY <1>14 DEF q, ud

\* A leaf is told of.
LEMMA LeafKeeps ==
  ASSUME NEW t \in PhpTrees, NEW p, NEW td, NEW cs, Walks(t, p, td, cs), NEW n \in Nodes(t),
         n # ROOT /\ p # << >> /\ t.parent[n] = p[Len(p)],
         NEW ds \in Seq(Calls(t)), NEW c, Follows(ds, cs, c), c.call = "leaf", c.node = n
  PROVE  Walks(t, p, td, ds)
<1>1. cs \in Seq(Calls(t)) /\ Ancestry(t, cs) /\ OpenAfter(t, cs) = Up(t)[n] \ {n}
  <2>1. OpenAfter(t, cs) = Up(t)[n] \ {n}
    BY PathIsAbove
  <2> QED
    BY <2>1 DEF Walks
<1>2. /\ \A call \in {"enter", "exit"} : \A m :
           ToldOf(ds, call, m) <=> ToldOf(cs, call, m) \/ (c.call = call /\ c.node = m)
      /\ Ancestry(t, ds)
  BY <1>1, MoreCalls
<1>3. \A call \in {"enter", "exit"} : \A m : ToldOf(ds, call, m) <=> ToldOf(cs, call, m)
  BY <1>2
<1>4. OpenAfter(t, ds) = OpenAfter(t, cs)
  BY <1>3 DEF OpenAfter
<1> QED
  BY <1>2, <1>3, <1>4 DEF Walks

\* The last node of the path is left.
LEMMA ExitKeeps ==
  ASSUME NEW t \in PhpTrees, NEW p, NEW td, NEW cs, Walks(t, p, td, cs), p # << >>,
         NEW ds \in Seq(Calls(t)), NEW c, Follows(ds, cs, c), c.call = "exit", c.node = Last(p)
  PROVE  Walks(t, Front(p), Front(td), ds)
<1> DEFINE q == Front(p)
           ud == Front(td)
           l == Len(p) - 1
           n == p[Len(p)]
<1>1. /\ p \in Seq(Nodes(t)) /\ td \in Seq(Seq(Nodes(t))) /\ Len(td) = Len(p) /\ cs \in Seq(Calls(t))
      /\ l \in Nat /\ l + 1 = Len(p) /\ Ancestry(t, cs)
  BY DEF Walks
<1>2. Last(p) = n
  BY DEF Last
<1>3. /\ \A call \in {"enter", "exit"} : \A m :
           ToldOf(ds, call, m) <=> ToldOf(cs, call, m) \/ ("exit" = call /\ n = m)
      /\ Ancestry(t, ds)
  BY <1>1, <1>2, MoreCalls
<1>4. /\ q \in Seq(Nodes(t)) /\ Len(q) = l /\ \A k \in 1..l : q[k] = p[k]
      /\ ud \in Seq(Seq(Nodes(t))) /\ Len(ud) = l /\ \A k \in 1..l : ud[k] = td[k]
  <2>1. ASSUME NEW S, NEW s \in Seq(S), Len(s) = l + 1
        PROVE  Front(s) \in Seq(S) /\ Len(Front(s)) = l /\ \A k \in 1..l : Front(s)[k] = s[k]
    <3>1. Front(s) = SubSeq(s, 1, l)
      BY <1>1, <2>1 DEF Front
    <3> HIDE DEF l
    <3>2. SubSeq(s, 1, l) \in Seq(S) /\ Len(SubSeq(s, 1, l)) = l /\ \A k \in 1..l : SubSeq(s, 1, l)[k] = s[k]
      BY <1>1, <2>1
    <3> QED
      BY <3>1, <3>2
  <2> HIDE DEF l
  <2> QED
    BY <1>1, <2>1
<1>5. \A k \in 1..l : k \in 1..Len(p) /\ k < Len(p) /\ p[k] < n
  <2>1. \A k \in 1..l : k \in 1..Len(p) /\ k < Len(p) /\ Len(p) \in 1..Len(p)
    BY <1>1
  <2> QED
    BY <2>1 DEF Walks
<1>6. 1..Len(p) = (1..l) \cup {Len(p)} /\ n \in Nat /\ \A k \in 1..l : p[k] \in Nat
  <2>1. 1..Len(p) = (1..l) \cup {Len(p)}
    BY <1>1
  <2>2. \A k \in 1..Len(p) : p[k] \in Nat
    BY <1>1, TreeFacts
  <2> QED
    BY <2>1, <2>2
<1> HIDE DEF q, ud, l, n
<1>7. /\ \A j, k \in 1..Len(q) : j < k => q[j] < q[k]
      /\ \A k \in 1..Len(q) : Up(t)[q[k]] = {q[j] : j \in 1..k}
  <2>1. \A j, k \in 1..Len(q) : j < k => q[j] < q[k]
    BY <1>4, <1>5 DEF Walks
  <2>2. ASSUME NEW k \in 1..Len(q) PROVE Up(t)[q[k]] = {q[j] : j \in 1..k}
    <3>1. Up(t)[p[k]] = {p[j] : j \in 1..k}
      BY <1>4, <1>5 DEF Walks
    <3>2. \A j \in 1..k : q[j] = p[j]
      <4>1. \A j \in 1..k : j \in 1..l
        BY <1>1, <1>4
      <4> QED
        BY <1>4, <4>1
    <3>3. {q[j] : j \in 1..k} = {p[j] : j \in 1..k}
      BY <3>2, SameElements
    <3> QED
      BY <1>4, <3>1, <3>3
  <2> QED
    BY <2>1, <2>2
<1>8. ASSUME NEW k \in 1..Len(q)
      PROVE  /\ ud[k] \in Seq(Below(t, q[k]))
             /\ \A i, j \in 1..Len(ud[k]) : i < j => ud[k][i] < ud[k][j]
             /\ \A i \in 1..Len(ud[k]) : ~ ToldOf(ds, "enter", ud[k][i])
  <2>1. /\ td[k] \in Seq(Below(t, p[k]))
        /\ \A i, j \in 1..Len(td[k]) : i < j => td[k][i] < td[k][j]
        /\ \A i \in 1..Len(td[k]) : ~ ToldOf(cs, "enter", td[k][i])
    BY <1>4, <1>5 DEF Walks
  <2> QED
    BY <1>3, <1>4, <2>1
<1>9. OpenAfter(t, ds) = {q[j] : j \in 1..Len(q)}
  <2>1. OpenAfter(t, ds) = OpenAfter(t, cs) \ {n}
    BY <1>3 DEF OpenAfter
  <2>2. OpenAfter(t, cs) = {p[j] : j \in 1..Len(p)}
    BY DEF Walks
  <2>3. {p[j] : j \in 1..Len(p)} \ {n} = {p[j] : j \in 1..l}
    BY <1>5, <1>6 DEF n
  <2>4. {q[j] : j \in 1..Len(q)} = {p[j] : j \in 1..l}
    BY <1>4
  <2> QED
    BY <2>1, <2>2, <2>3, <2>4
<1>10. \A m : ToldOf(ds, "exit", m) => ToldOf(ds, "enter", m)
  <2>1. ToldOf(cs, "enter", n)
    <3>1. n \in OpenAfter(t, cs)
      BY <1>6 DEF Walks, n
    <3> QED
      BY <3>1 DEF OpenAfter
  <2> QED
    BY <1>3, <2>1 DEF Walks
<1>11. \A m \in Nodes(t) \ {ROOT} : ToldOf(ds, "enter", m) => ToldOf(ds, "enter", t.parent[m])
  BY <1>3 DEF Walks
<1>12. Walks(t, q, ud, ds)
  BY <1>3, <1>4, <1>7, <1>8, <1>9, <1>10, <1>11 DEF Walks
<1> QED
  BY <1>12 DEF q, ud

-----------------------------------------------------------------------------
(* The specification.                                                      *)

\* The inductive invariant.
IndInv ==
    /\ tree \in PhpTrees
    /\ pc = "start" => path = << >> /\ todo = << >> /\ calls = << >>
    /\ Walks(tree, path, todo, calls)

\* Before the walk nothing has been told.
LEMMA InitKeeps == Init => IndInv
<1> SUFFICES ASSUME Init PROVE IndInv
  OBVIOUS
<1>1. /\ tree \in PhpTrees /\ path = << >> /\ todo = << >> /\ calls = << >>
      /\ Len(path) = 0 /\ Len(todo) = 0
      /\ path \in Seq(Nodes(tree)) /\ todo \in Seq(Seq(Nodes(tree))) /\ calls \in Seq(Calls(tree))
      /\ 1..0 = {} /\ DOMAIN calls = {}
  BY DEF Init
<1>2. \A call, m : ~ ToldOf(calls, call, m)
  BY <1>1 DEF ToldOf
<1>3. OpenAfter(tree, calls) = {path[j] : j \in 1..Len(path)}
  BY <1>1, <1>2 DEF OpenAfter
<1>4. Ancestry(tree, calls)
  BY <1>1 DEF Ancestry
<1> QED
  BY <1>1, <1>2, <1>3, <1>4 DEF IndInv, Walks

\* What a listener is told is a call.
LEMMA ToldIsCall ==
  ASSUME NEW t \in PhpTrees, NEW call \in {"enter", "extra", "leaf", "exit"}, NEW n \in Nodes(t),
         NEW nodes \in Seq(Nodes(t))
  PROVE  /\ Told(call, n, nodes) \in Calls(t)
         /\ Told(call, n, nodes).call = call /\ Told(call, n, nodes).node = n
<1>1. Len(nodes) \in Nat /\ ParentOn(nodes) \in Nodes(t) \cup {0}
  BY DEF ParentOn
<1> QED
  BY <1>1 DEF Told, Calls

\* One call more.
LEMMA OneCall ==
  ASSUME NEW C, NEW cs \in Seq(C), NEW c \in C
  PROVE  Append(cs, c) \in Seq(C) /\ Follows(Append(cs, c), cs, c)
<1>1. /\ Append(cs, c) \in Seq(C) /\ Len(Append(cs, c)) = Len(cs) + 1 /\ Len(cs) \in Nat
      /\ Append(cs, c)[Len(cs) + 1] = c /\ \A j \in 1..Len(cs) : Append(cs, c)[j] = cs[j]
  OBVIOUS
<1> QED
  BY <1>1 DEF Follows

\* A node and its comments.
LEMMA EnterCalls ==
  ASSUME NEW t \in PhpTrees, NEW cs \in Seq(Calls(t)), NEW n \in Nodes(t), NEW nodes \in Seq(Nodes(t))
  PROVE  LET ds == cs \o <<Told("enter", n, nodes)>>
                      \o [i \in DOMAIN Extras(t, n) |-> Told("extra", Extras(t, n)[i], nodes)]
         IN  ds \in Seq(Calls(t)) /\ Follows(ds, cs, Told("enter", n, nodes))
<1> DEFINE c == Told("enter", n, nodes)
           extras == Extras(t, n)
           told == [i \in DOMAIN extras |-> Told("extra", extras[i], nodes)]
           first == cs \o <<c>>
           ds == first \o told
<1>1. c \in Calls(t)
  BY ToldIsCall
<1>2. extras \in Seq(Nodes(t)) /\ Len(extras) \in Nat /\ DOMAIN extras = 1..Len(extras)
  BY TreeFacts
<1>3. /\ told \in Seq(Calls(t)) /\ Len(told) = Len(extras)
      /\ \A i \in 1..Len(extras) : told[i].call = "extra"
  <2>1. \A i \in 1..Len(extras) : /\ Told("extra", extras[i], nodes) \in Calls(t)
                                  /\ Told("extra", extras[i], nodes).call = "extra"
    <3>1. \A i \in 1..Len(extras) : extras[i] \in Nodes(t)
      BY <1>2
    <3> QED
      BY <3>1, ToldIsCall
  <2> HIDE DEF extras
  <2>2. told \in [1..Len(extras) -> Calls(t)] /\ \A i \in 1..Len(extras) : told[i].call = "extra"
    BY <1>2, <2>1
  <2> HIDE DEF told
  <2> QED
    BY <1>2, <2>2
<1> HIDE DEF c, extras, told
<1>4. /\ first \in Seq(Calls(t)) /\ Len(first) = Len(cs) + 1 /\ Len(cs) \in Nat
      /\ first[Len(cs) + 1] = c /\ \A j \in 1..Len(cs) : first[j] = cs[j]
  BY <1>1
<1> HIDE DEF first
<1>5. /\ ds \in Seq(Calls(t)) /\ Len(ds) = Len(first) + Len(told)
      /\ \A j \in 1..Len(first) : ds[j] = first[j]
      /\ \A j \in 1..Len(told) : ds[Len(first) + j] = told[j]
  <2>1. ASSUME NEW S, NEW s \in Seq(S), NEW r \in Seq(S), NEW both, both = s \o r
        PROVE  /\ both \in Seq(S) /\ Len(both) = Len(s) + Len(r)
               /\ \A j \in 1..Len(s) : both[j] = s[j]
               /\ \A j \in 1..Len(r) : both[Len(s) + j] = r[j]
    BY <2>1
  <2>2. ds = first \o told
    OBVIOUS
  <2>3. first \in Seq(Calls(t)) /\ told \in Seq(Calls(t))
    BY <1>3, <1>4
  <2> HIDE DEF ds
  <2> QED
    BY <2>1, <2>2, <2>3
<1> HIDE DEF ds
<1>6. ASSUME NEW j \in 1..Len(ds), j > Len(cs) + 1 PROVE ds[j].call = "extra"
  <2> DEFINE i == j - Len(first)
  <2>1. i \in 1..Len(told) /\ j = Len(first) + i
    BY <1>2, <1>3, <1>4, <1>5, <1>6
  <2> HIDE DEF i
  <2> QED
    BY <1>3, <1>5, <2>1
<1>7. Follows(ds, cs, c)
  <2>1. Len(ds) > Len(cs) /\ Len(cs) + 1 \in 1..Len(first) /\ \A j \in 1..Len(cs) : j \in 1..Len(first)
    BY <1>2, <1>3, <1>4, <1>5
  <2> QED
    BY <1>4, <1>5, <1>6, <2>1 DEF Follows
<1> QED
  BY <1>5, <1>7 DEF ds, first, c, told, extras

\* The walk begins.
LEMMA BeginKeeps == IndInv /\ Begin => IndInv'
<1> SUFFICES ASSUME IndInv, Begin PROVE IndInv'
  OBVIOUS
<1>1. /\ tree \in PhpTrees /\ tree' = tree /\ pc' = "walking" /\ path = << >> /\ todo = << >> /\ calls = << >>
      /\ Walks(tree, path, todo, calls) /\ calls \in Seq(Calls(tree)) /\ path \in Seq(Nodes(tree))
  BY DEF IndInv, Begin, Walks
<1> DEFINE nodes == Append(path, ROOT)
           ds == calls \o <<Told("enter", ROOT, nodes)>>
                   \o [i \in DOMAIN Extras(tree, ROOT) |-> Told("extra", Extras(tree, ROOT)[i], nodes)]
<1>2. path' = nodes /\ calls' = ds /\ todo' = Append(todo, Slots(tree, ROOT))
  BY <1>1 DEF Begin, EnterAs
<1>3. ROOT \in Nodes(tree)
  BY <1>1, TreeFacts
<1>4. nodes \in Seq(Nodes(tree))
  BY <1>1, <1>3
<1> HIDE DEF nodes
<1>5. ds \in Seq(Calls(tree)) /\ Follows(ds, calls, Told("enter", ROOT, nodes))
  BY <1>1, <1>3, <1>4, EnterCalls
<1>6. Told("enter", ROOT, nodes).call = "enter" /\ Told("enter", ROOT, nodes).node = ROOT
  BY <1>1, <1>3, <1>4, ToldIsCall
<1> HIDE DEF ds
<1>7. ~ ToldOf(calls, "enter", ROOT)
  BY <1>1 DEF ToldOf
<1>8. \A k \in 1..Len(todo) : \A i \in 1..Len(todo[k]) : todo[k][i] # ROOT
  BY <1>1
<1>9. Walks(tree, Append(path, ROOT), Append(todo, Slots(tree, ROOT)), ds)
  <2>1. ROOT = ROOT /\ path = << >>
    BY <1>1
  <2>2. tree \in PhpTrees /\ Walks(tree, path, todo, calls)
    BY <1>1
  <2> QED
    BY <1>3, <1>5, <1>6, <1>7, <1>8, <2>1, <2>2, EnterKeeps
<1> QED
  BY <1>1, <1>2, <1>9 DEF IndInv, nodes

\* The walk comes to a child, whatever it does with it.
LEMMA ChildIsNext ==
  ASSUME IndInv, Walking, Last(todo) # << >>
  PROVE  /\ Walks(tree, path, ChildDone, calls)
         /\ Child \in Nodes(tree) /\ Child # ROOT /\ path # << >> /\ tree.parent[Child] = path[Len(path)]
         /\ ~ ToldOf(calls, "enter", Child)
         /\ \A k \in 1..Len(ChildDone) : \A i \in 1..Len(ChildDone[k]) : ChildDone[k][i] # Child
         /\ tree \in PhpTrees /\ path \in Seq(Nodes(tree)) /\ calls \in Seq(Calls(tree))
<1>1. tree \in PhpTrees /\ Walks(tree, path, todo, calls) /\ path # << >>
  BY DEF IndInv, Walking
<1>2. path \in Seq(Nodes(tree)) /\ calls \in Seq(Calls(tree))
  BY <1>1 DEF Walks
<1> QED
  BY <1>1, <1>2, NextChild DEF Child, ChildDone

\* It enters the child.
LEMMA EnterChildKeeps == IndInv /\ EnterChild => IndInv'
<1> SUFFICES ASSUME IndInv, EnterChild PROVE IndInv'
  OBVIOUS
<1> DEFINE n == Child
           nodes == Append(path, n)
           ds == calls \o <<Told("enter", n, nodes)>>
                   \o [i \in DOMAIN Extras(tree, n) |-> Told("extra", Extras(tree, n)[i], nodes)]
<1>1. /\ tree' = tree /\ pc' = pc /\ pc # "start" /\ Walking /\ Last(todo) # << >>
      /\ path' = nodes /\ calls' = ds /\ todo' = Append(ChildDone, Slots(tree, n))
  BY DEF EnterChild, EnterAs, Walking
<1>2. /\ Walks(tree, path, ChildDone, calls)
      /\ n \in Nodes(tree) /\ n # ROOT /\ path # << >> /\ tree.parent[n] = path[Len(path)]
      /\ ~ ToldOf(calls, "enter", n)
      /\ \A k \in 1..Len(ChildDone) : \A i \in 1..Len(ChildDone[k]) : ChildDone[k][i] # n
      /\ tree \in PhpTrees /\ path \in Seq(Nodes(tree)) /\ calls \in Seq(Calls(tree))
  BY <1>1, ChildIsNext
<1> HIDE DEF n
<1>3. nodes \in Seq(Nodes(tree))
  BY <1>2
<1> HIDE DEF nodes
<1>4. ds \in Seq(Calls(tree)) /\ Follows(ds, calls, Told("enter", n, nodes))
  BY <1>2, <1>3, EnterCalls
<1>5. Told("enter", n, nodes).call = "enter" /\ Told("enter", n, nodes).node = n
  BY <1>2, <1>3, ToldIsCall
<1> HIDE DEF ds
<1>6. Walks(tree, Append(path, n), Append(ChildDone, Slots(tree, n)), ds)
  BY <1>2, <1>4, <1>5, EnterKeeps
<1> QED
  BY <1>1, <1>2, <1>6 DEF IndInv, nodes

\* It tells of a leaf.
LEMMA LeafChildKeeps == IndInv /\ LeafChild => IndInv'
<1> SUFFICES ASSUME IndInv, LeafChild PROVE IndInv'
  OBVIOUS
<1> DEFINE n == Child
           nodes == Append(path, n)
           c == Told("leaf", n, nodes)
<1>1. /\ tree' = tree /\ pc' = pc /\ pc # "start" /\ Walking /\ Last(todo) # << >>
      /\ path' = path /\ calls' = Append(calls, c) /\ todo' = ChildDone
  BY DEF LeafChild, Walking
<1>2. /\ Walks(tree, path, ChildDone, calls)
      /\ n \in Nodes(tree) /\ n # ROOT /\ path # << >> /\ tree.parent[n] = path[Len(path)]
      /\ tree \in PhpTrees /\ path \in Seq(Nodes(tree)) /\ calls \in Seq(Calls(tree))
  BY <1>1, ChildIsNext
<1> HIDE DEF n
<1>3. c \in Calls(tree) /\ c.call = "leaf" /\ c.node = n
  <2>1. nodes \in Seq(Nodes(tree))
    BY <1>2
  <2> HIDE DEF nodes
  <2> QED
    BY <1>2, <2>1, ToldIsCall
<1> HIDE DEF c
<1>4. Append(calls, c) \in Seq(Calls(tree)) /\ Follows(Append(calls, c), calls, c)
  BY <1>2, <1>3, OneCall
<1>5. Walks(tree, path, ChildDone, Append(calls, c))
  BY <1>2, <1>3, <1>4, LeafKeeps
<1> QED
  BY <1>1, <1>2, <1>5 DEF IndInv

\* It passes over the child.
LEMMA PassChildKeeps == IndInv /\ PassChild => IndInv'
<1> SUFFICES ASSUME IndInv, PassChild PROVE IndInv'
  OBVIOUS
<1>1. /\ tree' = tree /\ pc' = pc /\ pc # "start" /\ Walking /\ Last(todo) # << >>
      /\ path' = path /\ calls' = calls /\ todo' = ChildDone
  BY DEF PassChild, Walking
<1>2. Walks(tree, path, ChildDone, calls) /\ tree \in PhpTrees
  BY <1>1, ChildIsNext
<1> QED
  BY <1>1, <1>2 DEF IndInv

\* It leaves the node.
LEMMA ExitNodeKeeps == IndInv /\ ExitNode => IndInv'
<1> SUFFICES ASSUME IndInv, ExitNode PROVE IndInv'
  OBVIOUS
<1> DEFINE c == Told("exit", Last(path), path)
<1>1. /\ tree' = tree /\ pc' \in {pc, "done"} /\ pc # "start" /\ path # << >>
      /\ path' = Front(path) /\ calls' = Append(calls, c) /\ todo' = Front(todo)
  BY DEF ExitNode, Walking
<1>2. /\ Walks(tree, path, todo, calls) /\ tree \in PhpTrees
      /\ path \in Seq(Nodes(tree)) /\ calls \in Seq(Calls(tree))
  BY DEF IndInv, Walks
<1>3. c \in Calls(tree) /\ c.call = "exit" /\ c.node = Last(path)
  <2>1. Last(path) \in Nodes(tree)
    BY <1>1, <1>2 DEF Last
  <2> QED
    BY <1>2, <2>1, ToldIsCall
<1> HIDE DEF c
<1>4. Append(calls, c) \in Seq(Calls(tree)) /\ Follows(Append(calls, c), calls, c)
  BY <1>2, <1>3, OneCall
<1>5. Walks(tree, Front(path), Front(todo), Append(calls, c))
  BY <1>1, <1>2, <1>3, <1>4, ExitKeeps
<1>6. pc' # "start"
  BY <1>1
<1> QED
  BY <1>1, <1>2, <1>5, <1>6 DEF IndInv

\* Every step keeps the invariant.
LEMMA StepKeeps == IndInv /\ [Next]_vars => IndInv'
<1> SUFFICES ASSUME IndInv, [Next]_vars PROVE IndInv'
  OBVIOUS
<1>1. CASE Walk
  BY <1>1, BeginKeeps, EnterChildKeeps, LeafChildKeeps, PassChildKeeps, ExitNodeKeeps DEF Walk
<1>2. CASE UNCHANGED vars
  BY <1>2 DEF IndInv, vars
<1> QED
  BY <1>1, <1>2 DEF Next, Idle

\* The invariant says of the calls what OpenAreAncestors does.
LEMMA IndInvImplies == IndInv => OpenAreAncestors
<1> SUFFICES ASSUME IndInv PROVE OpenAreAncestors
  OBVIOUS
<1>1. Ancestry(tree, calls)
  BY DEF IndInv, Walks
<1>2. ASSUME NEW i \in Visits
      PROVE  {m \in Nodes(tree) : /\ \E j \in VisitsOf(m) : j < i /\ calls[j].call = "enter"
                                  /\ ~\E j \in ExitsOf(m) : j < i}
             = Up(tree)[calls[i].node] \ {calls[i].node}
  <2> DEFINE open == {m \in Nodes(tree) : /\ \E j \in VisitsOf(m) : j < i /\ calls[j].call = "enter"
                                          /\ ~\E j \in ExitsOf(m) : j < i}
  <2>1. \A m : /\ (\E j \in VisitsOf(m) : j < i /\ calls[j].call = "enter") <=> ToldBefore(calls, "enter", m, i)
               /\ (\E j \in ExitsOf(m) : j < i) <=> ToldBefore(calls, "exit", m, i)
    BY DEF VisitsOf, ExitsOf, Visits, ToldBefore
  <2>2. open = OpenBefore(tree, calls, i)
    BY <2>1 DEF OpenBefore
  <2>3. OpenBefore(tree, calls, i) = Up(tree)[calls[i].node] \ {calls[i].node}
    BY <1>1 DEF Ancestry, Visits
  <2> QED
    BY <2>2, <2>3
<1> QED
  BY <1>2 DEF OpenAreAncestors

\* In a tree of any size, with errors and comments anywhere, what the walk has
\* entered and not left is what the node it tells of is in: an enter never stays
\* without its exit, and no node is entered twice.
THEOREM OpenStayAncestors == Spec => []OpenAreAncestors
<1> QED
  BY InitKeeps, StepKeeps, IndInvImplies, PTL DEF Spec

-----------------------------------------------------------------------------
(* The order of the calls.                                                 *)

Top(p) == IF p = << >> THEN 0 ELSE p[Len(p)]
Among(m, s) == \E i \in 1..Len(s) : s[i] = m
FillsSlot(t, n) == t.flag[n] = "named" \/ (t.flag[n] = "token" /\ t.field[n] # NO_FIELD)

\* The children that stand in a slot, and all the named ones do.
LEMMA SlotsFacts ==
  ASSUME NEW t \in PhpTrees, NEW n \in Nodes(t)
  PROVE  /\ \A i \in 1..Len(Slots(t, n)) : Slots(t, n)[i] \in Below(t, n) /\ FillsSlot(t, Slots(t, n)[i])
         /\ \A c \in Below(t, n) : t.flag[c] = "named" => Among(c, Slots(t, n))
<1> DEFINE slots == {c \in Below(t, n) : \/ t.flag[c] = "named"
                                         \/ t.flag[c] = "token" /\ t.field[c] # NO_FIELD}
<1>1. Slots(t, n) = Ordered(t, slots)
  BY DEF Slots
<1>2. /\ \A c \in slots : c \in Below(t, n) /\ c \in Nodes(t) /\ FillsSlot(t, c)
      /\ \A c \in Below(t, n) : t.flag[c] = "named" => c \in slots \cap Nodes(t)
  BY DEF Below, FillsSlot
<1> HIDE DEF slots
<1>3. /\ Ordered(t, slots) \in Seq(slots \cap Nodes(t))
      /\ \A c \in slots \cap Nodes(t) : \E i \in 1..Len(Ordered(t, slots)) : Ordered(t, slots)[i] = c
  BY NodeFacts, OrderedFacts
<1>4. \A i \in 1..Len(Ordered(t, slots)) : Ordered(t, slots)[i] \in slots
  BY <1>3
<1> QED
  BY <1>1, <1>2, <1>3, <1>4 DEF Among

\* The visit method of a node of the grammar accepts each child, as what it is.
LEMMA GrammarFacts ==
  ASSUME NEW t \in PhpTrees, Grammatical(t), VisitorsFollowGrammar,
         NEW p \in InPlace(t), NEW n \in Below(t, p), FillsSlot(t, n)
  PROVE  /\ t.type[p] \in InnerTypes /\ t.type[p] \notin LeafTypes
         /\ Accepts(Slot(t.type[p], t.field[n]), t.type[n])
         /\ VisitorIn(Slot(t.type[p], t.field[n]), t.type[n]) = t.type[n]
         /\ t.flag[n] = "named" => t.type[n] \in NodeTypes
         /\ t.flag[n] = "token" => t.type[n] = TOKEN
<1>1. n \in Nodes(t) \ {ROOT} /\ t.parent[n] = p
  <2>1. n \in Nodes(t) /\ t.parent[n] = p /\ p \in Nodes(t)
    BY DEF Below, InPlace
  <2>2. n # ROOT
    BY <2>1, NodeFacts
  <2> QED
    BY <2>1, <2>2
<1>2. /\ t.type[p] \in DOMAIN G!Grammar
      /\ t.field[n] \in DOMAIN G!Grammar[t.type[p]]
      /\ t.type[n] \in G!Grammar[t.type[p]][t.field[n]]
      /\ (t.flag[n] = "token") = (t.type[n] = TOKEN)
  BY <1>1 DEF Grammatical, FillsSlot
<1>3. /\ LeafTypes \cap InnerTypes = {} /\ DOMAIN G!Grammar \subseteq InnerTypes
      /\ \A parent \in DOMAIN G!Grammar : \A field \in DOMAIN G!Grammar[parent] :
           \A child \in G!Grammar[parent][field] :
             /\ child \in NodeTypes \cup {TOKEN}
             /\ Accepts(Slot(parent, field), child) /\ VisitorIn(Slot(parent, field), child) = child
  BY DEF VisitorsFollowGrammar
<1>4. /\ t.type[n] \in NodeTypes \cup {TOKEN}
      /\ Accepts(Slot(t.type[p], t.field[n]), t.type[n])
      /\ VisitorIn(Slot(t.type[p], t.field[n]), t.type[n]) = t.type[n]
  BY <1>2, <1>3
<1>5. t.type[p] \in InnerTypes /\ t.type[p] \notin LeafTypes
  BY <1>2, <1>3
<1>6. /\ t.flag[n] = "named" => t.type[n] \in NodeTypes
      /\ t.flag[n] = "token" => t.type[n] = TOKEN
  BY <1>2, <1>4
<1> QED
  BY <1>4, <1>5, <1>6

\* Nothing in place stands in a leaf.
LEMMA LeafHasNothing ==
  ASSUME NEW t \in PhpTrees, Grammatical(t), VisitorsFollowGrammar,
         NEW n \in InPlace(t), t.type[n] \in LeafTypes
  PROVE  ~ GoesOn(t, n, n)
<1> SUFFICES ASSUME NEW k \in InPlace(t), k > n, n \in Up(t)[k] PROVE FALSE
  BY DEF GoesOn
<1>1. k \in Nodes(t) /\ n \in Nodes(t) /\ n \in Nat /\ n # k
  <2>1. k \in Nodes(t) /\ n \in Nodes(t)
    BY DEF InPlace
  <2> QED
    BY <2>1, NodeFacts
<1>2. PICK d \in Up(t)[k] \ {ROOT} : t.parent[d] = n
  BY <1>1, ChildToward
<1>3. d \in InPlace(t) /\ d \in Nodes(t)
  BY <1>1, <1>2, InPlaceFacts, UpIsClosed
<1>4. d \in Below(t, n) /\ FillsSlot(t, d)
  BY <1>2, <1>3, InPlaceFacts DEF Below, FillsSlot
<1> QED
  BY <1>4, GrammarFacts

\* The walk has come as far as c: it has told what is to be told up to there, but
\* for the exits from the last node of the path up; and what is in place behind c,
\* right below a node of the path, is what its loop has yet to come to.
InOrder(t, p, td, vs, cs, c) ==
    /\ c \in InPlace(t) /\ cs \in Seq(AllCalls(t))
    /\ TellingTo(t)[c] = cs \o Exits(t, c)[Top(p)]
    /\ p # << >> => Top(p) \in Up(t)[c]
    /\ \A m \in Up(t)[c] : Among(m, p) \/ ~ GoesOn(t, m, c)
    /\ \A k \in 1..Len(p) : /\ p[k] \in InPlace(t) /\ t.type[p[k]] \notin LeafTypes
                            /\ t.parent[p[k]] = IF k = 1 THEN 0 ELSE p[k - 1]
                            /\ Cardinality(Up(t)[p[k]]) = k
    /\ vs \in Seq(NodeTypes) /\ Len(vs) = Len(p) /\ \A k \in 1..Len(p) : vs[k] = t.type[p[k]]
    /\ \A k \in 1..Len(p) : /\ \A i \in 1..Len(td[k]) : td[k][i] > c /\ FillsSlot(t, td[k][i])
                            /\ \A n \in InPlace(t) : n > c /\ t.parent[n] = p[k] => Among(n, td[k])

\* The nodes of the path are the last one and its ancestors.
LEMMA PathFacts ==
  ASSUME NEW t \in PhpTrees, NEW p, NEW td, NEW cs, Walks(t, p, td, cs), p # << >>
  PROVE  /\ Len(p) \in 1..Len(p) /\ Len(p) \in Nat /\ Top(p) = p[Len(p)] /\ Last(p) = p[Len(p)]
         /\ \A k \in 1..Len(p) : p[k] \in Nodes(t) /\ p[k] \in Up(t)[p[Len(p)]] /\ p[k] <= p[Len(p)]
         /\ Among(ROOT, p)
<1>1. Len(p) \in 1..Len(p) /\ Len(p) \in Nat /\ p \in Seq(Nodes(t))
  BY DEF Walks
<1>2. \A k \in 1..Len(p) : p[k] \in Nodes(t)
  BY <1>1
<1>3. Up(t)[p[Len(p)]] = {p[j] : j \in 1..Len(p)}
  BY <1>1 DEF Walks
<1>4. \A k \in 1..Len(p) : p[k] \in Up(t)[p[Len(p)]]
  BY <1>3
<1>5. ROOT \in Up(t)[p[Len(p)]] /\ \A k \in 1..Len(p) : p[k] <= p[Len(p)]
  BY <1>1, <1>2, <1>4, UpIsClosed
<1>6. Among(ROOT, p)
  BY <1>3, <1>5 DEF Among
<1> QED
  BY <1>1, <1>2, <1>4, <1>5, <1>6 DEF Top, Last

\* The later children of the other nodes of the path come behind the last one and
\* all that stands in it.
LEMMA NoneBeside ==
  ASSUME NEW t \in PhpTrees, NEW p, NEW td, NEW cs, Walks(t, p, td, cs), p # << >>,
         \A j \in 1..Len(p) : t.parent[p[j]] = IF j = 1 THEN 0 ELSE p[j - 1],
         NEW k \in 1..Len(p), k < Len(p),
         NEW d \in Nodes(t) \ {ROOT}, t.parent[d] = p[k], p[Len(p)] < d,
         NEW x \in Nodes(t), p[Len(p)] \in Up(t)[x], d <= x
  PROVE  FALSE
<1>1. /\ Len(p) \in 1..Len(p) /\ Len(p) \in Nat
      /\ \A j \in 1..Len(p) : p[j] \in Nodes(t) /\ p[j] \in Up(t)[p[Len(p)]] /\ p[j] <= p[Len(p)]
  BY PathFacts
<1> DEFINE q == p[k + 1]
<1>2. k + 1 \in 1..Len(p) /\ k \in 1..Len(p) /\ k < k + 1
  BY <1>1
<1>3. q \in Nodes(t) /\ q \in Up(t)[p[Len(p)]] /\ q <= p[Len(p)] /\ p[k] < q
  <2>1. p[k] < p[k + 1]
    BY <1>2 DEF Walks
  <2> QED
    BY <1>1, <1>2, <2>1
<1>4. q \in Up(t)[x]
  BY <1>3, UpIsClosed
<1>5. q < d /\ q \in Nat /\ d \in Nat /\ p[k] \in Nat /\ p[Len(p)] \in Nat
  <2>1. q \in Nat /\ d \in Nat /\ p[k] \in Nat /\ p[Len(p)] \in Nat
    BY <1>1, <1>2, <1>3, NodeFacts
  <2> QED
    BY <1>3, <2>1
<1> HIDE DEF q
<1>6. q \in Up(t)[d]
  <2>1. q <= d
    BY <1>5
  <2> QED
    BY <1>4, <2>1, UpIsInterval
<1>7. q \in Up(t)[p[k]]
  <2>1. Up(t)[d] = Up(t)[t.parent[d]] \cup {d}
    <3>1. d \in Nodes(t) /\ d # ROOT
      OBVIOUS
    <3> QED
      BY <3>1, UpFacts
  <2> QED
    BY <1>5, <1>6, <2>1
<1>8. q <= p[k]
  BY <1>2, <1>1, <1>7, UpIsClosed
<1> QED
  BY <1>3, <1>5, <1>8

\* If there is something in place, behind c and no further than a node that stands
\* in the last one of the path, a child of the last one is waiting, no further away.
LEMMA SomeIsWaiting ==
  ASSUME NEW t \in PhpTrees, NEW p, NEW td, NEW vs, NEW cs, NEW c, Walks(t, p, td, cs), p # << >>,
         InOrder(t, p, td, vs, cs, c),
         NEW k \in InPlace(t), c < k, NEW x \in Nodes(t), k <= x, p[Len(p)] \in Up(t)[x]
  PROVE  \E d \in Nodes(t) : d <= k /\ Among(d, td[Len(p)])
<1>1. /\ Len(p) \in 1..Len(p) /\ Len(p) \in Nat /\ Top(p) = p[Len(p)]
      /\ \A j \in 1..Len(p) : p[j] \in Nodes(t) /\ p[j] \in Up(t)[p[Len(p)]] /\ p[j] <= p[Len(p)]
      /\ Among(ROOT, p)
  BY PathFacts
<1>2. /\ c \in Nodes(t) /\ p[Len(p)] \in Up(t)[c] /\ k \in Nodes(t)
      /\ \A m \in Up(t)[c] : Among(m, p) \/ ~ GoesOn(t, m, c)
      /\ \A j \in 1..Len(p) : t.parent[p[j]] = IF j = 1 THEN 0 ELSE p[j - 1]
      /\ \A j \in 1..Len(p) : \A n \in InPlace(t) : n > c /\ t.parent[n] = p[j] => Among(n, td[j])
  BY <1>1 DEF InOrder, InPlace
<1>3. c \in Nat /\ k \in Nat /\ x \in Nat /\ p[Len(p)] <= c /\ \A j \in 1..Len(p) : p[j] \in Nat
  BY <1>1, <1>2, UpIsClosed, NodeFacts
<1> DEFINE off == {d \in Up(t)[k] : ~ Among(d, p)}
<1>4. /\ k \in Up(t)[k] /\ Up(t)[k] \subseteq Nodes(t)
      /\ \A m \in Up(t)[k] : m <= k /\ Up(t)[m] \subseteq Up(t)[k]
  BY <1>2, UpIsClosed
<1>5. k \in off
  <2> SUFFICES ASSUME Among(k, p) PROVE FALSE
    BY <1>4
  <2>1. PICK j \in 1..Len(p) : p[j] = k
    BY DEF Among
  <2>2. p[j] <= p[Len(p)] /\ p[j] \in Nat /\ p[Len(p)] \in Nat
    BY <1>1, <1>3
  <2> QED
    BY <1>3, <2>1, <2>2
<1>6. PICK d \in off : \A m \in off : d <= m
  <2>1. off \in SUBSET Nat
    BY <1>4, NodeFacts
  <2> HIDE DEF off
  <2> QED
    BY <1>5, <2>1, LeastNumberExists
<1>7. d \in Up(t)[k] /\ ~ Among(d, p) /\ d \in Nodes(t) /\ d <= k /\ d \in Nat
  BY <1>4, <1>6, NodeFacts
<1>8. d # ROOT
  BY <1>1, <1>7
<1>9. PICK j \in 1..Len(p) : t.parent[d] = p[j]
  <2>1. t.parent[d] \in Nodes(t) /\ t.parent[d] < d /\ t.parent[d] \in Nat
    BY <1>7, <1>8, NodeFacts
  <2>2. t.parent[d] \in Up(t)[k]
    <3>1. Up(t)[d] = Up(t)[t.parent[d]] \cup {d}
      BY <1>7, <1>8, UpFacts
    <3>2. t.parent[d] \in Up(t)[d]
      BY <2>1, <3>1, UpIsClosed
    <3> QED
      BY <1>4, <1>7, <3>2
  <2>3. ~ (d <= t.parent[d])
    BY <1>7, <2>1
  <2>4. t.parent[d] \notin off
    BY <1>6, <2>3
  <2>5. Among(t.parent[d], p)
    BY <2>2, <2>4
  <2> QED
    BY <2>5 DEF Among
<1>10. d \in InPlace(t)
  BY <1>2, <1>7, InPlaceFacts
<1>11. c < d
  <2> SUFFICES ASSUME d <= c PROVE FALSE
    BY <1>3, <1>7
  <2>1. c <= k
    BY <1>3
  <2>2. d \in Up(t)[c]
    BY <1>2, <1>7, <2>1, UpIsInterval
  <2>3. GoesOn(t, d, c)
    BY <1>3, <1>7 DEF GoesOn
  <2> QED
    BY <1>2, <1>7, <2>2, <2>3
<1>12. j = Len(p)
  <2> SUFFICES ASSUME j # Len(p) PROVE FALSE
    OBVIOUS
  <2>1. j < Len(p)
    BY <1>1
  <2>2. p[Len(p)] < d /\ d <= x
    BY <1>1, <1>3, <1>7, <1>11
  <2> QED
    BY <1>2, <1>7, <1>8, <1>9, <2>1, <2>2, NoneBeside
<1>13. Among(d, td[j])
  BY <1>2, <1>3, <1>7, <1>9, <1>10, <1>11
<1> QED
  BY <1>7, <1>12, <1>13

\* The loops are the same but for the child the walk comes to.
LEMMA RestFacts ==
  ASSUME NEW t \in PhpTrees, NEW p, NEW td, NEW cs, Walks(t, p, td, cs), p # << >>, Last(td) # << >>
  PROVE  LET rest == Append(Front(td), Tail(Last(td)))
             n == Head(Last(td))
         IN  /\ Len(rest) = Len(p) /\ rest \in Seq(Seq(Nodes(t))) /\ Last(td) = td[Len(p)] /\ Among(n, td[Len(p)])
             /\ \A i \in 1..Len(td[Len(p)]) : n <= td[Len(p)][i]
             /\ \A k \in 1..Len(p) : /\ \A i \in 1..Len(rest[k]) : Among(rest[k][i], td[k])
                                     /\ \A m : Among(m, td[k]) /\ m # n => Among(m, rest[k])
<1> DEFINE l == Len(p)
           list == td[l]
           n == Head(list)
           rest == Append(Front(td), Tail(list))
<1>1. /\ td \in Seq(Seq(Nodes(t))) /\ Len(td) = l /\ l \in Nat /\ l > 0 /\ l \in 1..l /\ td # << >>
      /\ p \in Seq(Nodes(t))
  BY DEF Walks
<1>2. Last(td) = list /\ list # << >>
  BY <1>1 DEF Last
<1>3. /\ list \in Seq(Below(t, p[l])) /\ list \in Seq(Nodes(t))
      /\ \A i, j \in 1..Len(list) : i < j => list[i] < list[j]
  <2>1. list \in Seq(Nodes(t))
    BY <1>1
  <2>2. list \in Seq(Below(t, p[l])) /\ \A i, j \in 1..Len(list) : i < j => list[i] < list[j]
    BY <1>1 DEF Walks
  <2> QED
    BY <2>1, <2>2
<1>4. /\ Front(td) \in Seq(Seq(Nodes(t))) /\ Len(Front(td)) = l - 1
      /\ \A k \in 1..(l - 1) : Front(td)[k] = td[k]
  <2> HIDE DEF l
  <2>1. Front(td) = SubSeq(td, 1, l - 1)
    BY <1>1 DEF Front
  <2> QED
    BY <1>1, <2>1
<1> DEFINE front == Front(td)
<1> HIDE DEF l, list, front
<1>5. ASSUME NEW S, NEW s \in Seq(S), s # << >>
      PROVE  /\ Tail(s) \in Seq(S) /\ Len(Tail(s)) = Len(s) - 1 /\ Len(s) \in Nat /\ Len(s) > 0 /\ Head(s) = s[1]
             /\ \A i \in 1..(Len(s) - 1) : Tail(s)[i] = s[i + 1]
  BY <1>5
<1>6. /\ Tail(list) \in Seq(Nodes(t)) /\ Len(Tail(list)) = Len(list) - 1 /\ Len(list) \in Nat /\ Len(list) > 0
      /\ n = list[1] /\ \A i \in 1..(Len(list) - 1) : Tail(list)[i] = list[i + 1]
  BY <1>2, <1>3, <1>5
<1>7. /\ rest \in Seq(Seq(Nodes(t))) /\ Len(rest) = l /\ rest[l] = Tail(list)
      /\ \A k \in 1..(l - 1) : rest[k] = td[k]
  <2>1. /\ front \in Seq(Seq(Nodes(t))) /\ Len(front) = l - 1
        /\ \A k \in 1..(l - 1) : front[k] = td[k]
    BY <1>4 DEF front
  <2>2. /\ Append(front, Tail(list)) \in Seq(Seq(Nodes(t))) /\ Len(Append(front, Tail(list))) = l
        /\ Append(front, Tail(list))[l] = Tail(list)
        /\ \A k \in 1..(l - 1) : Append(front, Tail(list))[k] = front[k]
    BY <1>1, <1>6, <2>1
  <2> QED
    BY <2>1, <2>2 DEF front
<1> HIDE DEF n, rest
<1>8. \A i \in 1..Len(list) : i = 1 \/ (i - 1 \in 1..(Len(list) - 1) /\ 1 < i)
  BY <1>6
<1>9. 1 \in 1..Len(list) /\ \A i \in 1..(Len(list) - 1) : i + 1 \in 1..Len(list)
  BY <1>6
<1>10. \A i \in 1..Len(list) : n <= list[i]
  <2>1. TAKE i \in 1..Len(list)
  <2>2. list[i] \in Nat /\ n \in Nat
    BY <1>3, <1>6, <1>9, NodeFacts
  <2>3. CASE i = 1
    BY <1>6, <2>2, <2>3
  <2>4. CASE 1 < i
    <3>1. list[1] < list[i]
      BY <1>3, <1>9, <2>4
    <3> QED
      BY <1>6, <2>2, <3>1
  <2> QED
    BY <1>8, <2>3, <2>4
<1>11. ASSUME NEW k \in 1..l
       PROVE  /\ \A i \in 1..Len(rest[k]) : Among(rest[k][i], td[k])
              /\ \A m : Among(m, td[k]) /\ m # n => Among(m, rest[k])
  <2>1. CASE k = l
    <3>1. ASSUME NEW i \in 1..Len(rest[k]) PROVE Among(rest[k][i], td[k])
      <4>1. rest[k][i] = list[i + 1] /\ i + 1 \in 1..Len(list)
        BY <1>6, <1>7, <1>9, <2>1
      <4> QED
        BY <2>1, <4>1 DEF Among, list
    <3>2. ASSUME NEW m, Among(m, td[k]), m # n PROVE Among(m, rest[k])
      <4>1. PICK i \in 1..Len(list) : list[i] = m
        BY <2>1, <3>2 DEF Among, list
      <4>2. i # 1
        BY <1>6, <3>2, <4>1
      <4>3. i - 1 \in 1..(Len(list) - 1) /\ (i - 1) + 1 = i
        BY <1>6, <1>8, <4>2
      <4>4. i - 1 \in 1..Len(rest[k]) /\ rest[k][i - 1] = m
        BY <1>6, <1>7, <2>1, <4>1, <4>3
      <4> QED
        BY <4>4 DEF Among
    <3> QED
      BY <3>1, <3>2
  <2>2. CASE k # l
    <3>1. k \in 1..(l - 1)
      BY <1>1, <2>2
    <3>2. rest[k] = td[k]
      BY <1>7, <3>1
    <3> QED
      BY <3>2 DEF Among
  <2> QED
    BY <2>1, <2>2
<1>12. Among(n, list)
  BY <1>6, <1>9 DEF Among
<1>13. Last(td) = td[Len(p)] /\ n = Head(Last(td)) /\ rest = Append(Front(td), Tail(Last(td)))
  BY <1>2 DEF l, list, n, rest
<1> QED
  BY <1>7, <1>10, <1>11, <1>12, <1>13 DEF l, list

\* When the walk comes to a child in place it has told what is to be told before it,
\* and the nodes of the path are those the child stands in.
LEMMA Arrival ==
  ASSUME NEW t \in PhpTrees, NEW p, NEW td, NEW vs, NEW cs, NEW c, Walks(t, p, td, cs), p # << >>,
         InOrder(t, p, td, vs, cs, c), NEW n \in InPlace(t), Last(td) # << >>, n = Head(Last(td))
  PROVE  /\ c < n /\ cs = TellingTo(t)[n - 1]
         /\ n \in Nodes(t) \ {ROOT} /\ t.parent[n] = Top(p) /\ Top(p) \in Up(t)[n]
         /\ \A m \in Up(t)[n] : m = n \/ Among(m, p)
<1>1. /\ Len(p) \in 1..Len(p) /\ Len(p) \in Nat /\ Top(p) = p[Len(p)]
      /\ \A j \in 1..Len(p) : p[j] \in Nodes(t)
  BY PathFacts
<1>2. n \in Nodes(t) \ {ROOT} /\ t.parent[n] = p[Len(p)]
  BY NextChild
<1>3. c \in InPlace(t) /\ c \in Nodes(t) /\ p[Len(p)] \in Up(t)[c] /\ cs \in Seq(AllCalls(t))
      /\ TellingTo(t)[c] = cs \o Exits(t, c)[Top(p)]
      /\ \A i \in 1..Len(td[Len(p)]) : td[Len(p)][i] > c
  BY <1>1 DEF InOrder, InPlace
<1>4. Among(n, td[Len(p)]) /\ \A i \in 1..Len(td[Len(p)]) : n <= td[Len(p)][i]
  BY RestFacts
<1>5. c < n /\ c \in Nat /\ n \in Nat
  <2>1. c \in Nat /\ n \in Nat
    BY <1>2, <1>3, NodeFacts
  <2>2. n > c
    BY <1>3, <1>4 DEF Among
  <2> QED
    BY <2>1, <2>2
<1>6. Up(t)[n] = Up(t)[p[Len(p)]] \cup {n}
  BY <1>2, UpFacts
<1>7. p[Len(p)] \in Up(t)[n]
  BY <1>1, <1>6, UpIsClosed
<1>8. cs = TellingTo(t)[c]
  <2>1. GoesOn(t, p[Len(p)], c)
    BY <1>5, <1>7 DEF GoesOn
  <2>2. Exits(t, c)[Top(p)] = << >>
    BY <1>1, <1>3, <2>1, ExitsFacts
  <2>3. \A s \in Seq(AllCalls(t)) : s \o << >> = s
    OBVIOUS
  <2> QED
    BY <1>3, <2>2, <2>3
<1>9. \A k \in InPlace(t) : ~ (c < k /\ k <= n - 1)
  <2> SUFFICES ASSUME NEW k \in InPlace(t), c < k, k <= n - 1 PROVE FALSE
    OBVIOUS
  <2>1. k \in Nat /\ k <= n /\ ~ (n <= k)
    <3>1. k \in Nat
      BY NodeFacts DEF InPlace
    <3> QED
      BY <1>5, <3>1
  <2>2. PICK d \in Nodes(t) : d <= k /\ Among(d, td[Len(p)])
    BY <1>2, <1>7, <2>1, SomeIsWaiting
  <2>3. n <= d /\ d \in Nat
    BY <1>4, <2>2, NodeFacts DEF Among
  <2> QED
    BY <1>5, <2>1, <2>2, <2>3
<1>10. cs = TellingTo(t)[n - 1]
  <2>1. /\ c \in 0..Len(t.type) /\ n - 1 \in 0..Len(t.type) /\ c <= n - 1
    <3>1. Nodes(t) = 1..Len(t.type) /\ Len(t.type) \in Nat
      BY NodeFacts
    <3> QED
      BY <1>2, <1>3, <1>5, <3>1
  <2> QED
    BY <1>8, <1>9, <2>1, TellingGrows
<1>11. \A m \in Up(t)[n] : m = n \/ Among(m, p)
  <2>1. Up(t)[p[Len(p)]] = {p[j] : j \in 1..Len(p)}
    BY <1>1 DEF Walks
  <2> QED
    BY <1>6, <2>1 DEF Among
<1> QED
  BY <1>1, <1>2, <1>5, <1>7, <1>10, <1>11

\* All that is known of the nodes of the path and of the visit methods that run.
OnPath(t, p, vs) ==
    /\ \A k \in 1..Len(p) : /\ p[k] \in InPlace(t) /\ t.type[p[k]] \notin LeafTypes
                            /\ t.parent[p[k]] = IF k = 1 THEN 0 ELSE p[k - 1]
                            /\ Cardinality(Up(t)[p[k]]) = k
    /\ vs \in Seq(NodeTypes) /\ Len(vs) = Len(p) /\ \A k \in 1..Len(p) : vs[k] = t.type[p[k]]

\* What the loops have yet to come to, when the walk has come as far as c.
Waiting(t, p, td, c) ==
    \A k \in 1..Len(p) : /\ \A i \in 1..Len(td[k]) : td[k][i] > c /\ FillsSlot(t, td[k][i])
                         /\ \A n \in InPlace(t) : n > c /\ t.parent[n] = p[k] => Among(n, td[k])

\* The walk is about to tell of n.
Ready(t, p, td, vs, cs, n) ==
    /\ p \in Seq(Nodes(t)) /\ td \in Seq(Seq(Nodes(t))) /\ Len(td) = Len(p)
    /\ n \in InPlace(t) /\ cs = TellingTo(t)[n - 1]
    /\ t.parent[n] = Top(p) /\ Cardinality(Up(t)[n]) = Len(p) + 1
    /\ \A m \in Up(t)[n] : m = n \/ Among(m, p)
    /\ p # << >> => Top(p) \in Up(t)[n]
    /\ OnPath(t, p, vs) /\ Waiting(t, p, td, n)

\* When the walk comes to a child in place it is about to tell of it.
LEMMA ChildIsReady ==
  ASSUME NEW t \in PhpTrees, NEW p, NEW td, NEW vs, NEW cs, NEW c, Walks(t, p, td, cs), p # << >>,
         InOrder(t, p, td, vs, cs, c), NEW n \in InPlace(t), Last(td) # << >>, n = Head(Last(td))
  PROVE  Ready(t, p, Append(Front(td), Tail(Last(td))), vs, cs, n)
<1> DEFINE rest == Append(Front(td), Tail(Last(td)))
<1>1. /\ Len(p) \in 1..Len(p) /\ Len(p) \in Nat /\ Top(p) = p[Len(p)] /\ p \in Seq(Nodes(t))
      /\ \A k \in 1..Len(p) : p[k] \in Nodes(t) /\ p[k] <= p[Len(p)]
  BY PathFacts DEF Walks
<1>2. /\ Len(rest) = Len(p) /\ rest \in Seq(Seq(Nodes(t))) /\ Among(n, td[Len(p)])
      /\ \A i \in 1..Len(td[Len(p)]) : n <= td[Len(p)][i]
      /\ \A k \in 1..Len(p) : /\ \A i \in 1..Len(rest[k]) : Among(rest[k][i], td[k])
                              /\ \A m : Among(m, td[k]) /\ m # n => Among(m, rest[k])
  BY RestFacts
<1>3. /\ \A k \in 1..Len(rest) : \A i \in 1..Len(rest[k]) : rest[k][i] # n
  BY NextChild
<1> HIDE DEF rest
<1>4. /\ c < n /\ cs = TellingTo(t)[n - 1]
      /\ n \in Nodes(t) \ {ROOT} /\ t.parent[n] = Top(p) /\ Top(p) \in Up(t)[n]
      /\ \A m \in Up(t)[n] : m = n \/ Among(m, p)
  BY Arrival
<1>5. OnPath(t, p, vs) /\ Waiting(t, p, td, c) /\ c \in InPlace(t) /\ p[Len(p)] \in Up(t)[c]
  BY <1>1 DEF InOrder, OnPath, Waiting
<1>6. Cardinality(Up(t)[n]) = Len(p) + 1
  <2>1. Cardinality(Up(t)[p[Len(p)]]) = Len(p)
    BY <1>1, <1>5 DEF OnPath
  <2>2. Cardinality(Up(t)[n]) = Cardinality(Up(t)[t.parent[n]]) + 1
    BY <1>4, DepthFacts
  <2> QED
    BY <1>1, <1>4, <2>1, <2>2
<1>7. c \in Nodes(t) /\ c \in Nat /\ n \in Nat /\ p[Len(p)] <= c
  BY <1>4, <1>5, UpIsClosed, NodeFacts DEF InPlace
<1>8. ASSUME NEW k \in 1..Len(p), NEW i \in 1..Len(rest[k])
      PROVE  rest[k][i] > n /\ FillsSlot(t, rest[k][i])
  <2> DEFINE d == rest[k][i]
  <2>1. Among(d, td[k]) /\ d # n
    BY <1>2, <1>3
  <2> HIDE DEF d
  <2>2. d > c /\ FillsSlot(t, d)
    BY <1>5, <2>1 DEF Among, Waiting
  <2>3. d \in Nodes(t) /\ t.parent[d] = p[k]
    <3>1. td[k] \in Seq(Below(t, p[k]))
      BY DEF Walks
    <3>2. d \in Below(t, p[k])
      BY <2>1, <3>1 DEF Among
    <3> QED
      BY <3>2 DEF Below
  <2>4. d # ROOT /\ d \in Nat
    BY <1>1, <2>3, NodeFacts
  <2>5. d > n
    <3> SUFFICES ASSUME d < n PROVE FALSE
      BY <1>7, <2>1, <2>4
    <3>1. CASE k = Len(p)
      <4>1. n <= d
        BY <1>2, <2>1, <3>1 DEF Among
      <4> QED
        BY <1>7, <2>4, <4>1
    <3>2. CASE k # Len(p)
      <4>1. k < Len(p)
        BY <1>1, <3>2
      <4>2. p[Len(p)] < d /\ d <= n
        BY <1>1, <1>7, <2>2, <2>4, NodeFacts
      <4>3. \A j \in 1..Len(p) : t.parent[p[j]] = IF j = 1 THEN 0 ELSE p[j - 1]
        BY <1>5 DEF OnPath
      <4>4. n \in Nodes(t) /\ p[Len(p)] \in Up(t)[n] /\ d \in Nodes(t) \ {ROOT} /\ t.parent[d] = p[k]
        BY <1>1, <1>4, <2>3, <2>4
      <4> QED
        BY <4>1, <4>2, <4>3, <4>4, NoneBeside
    <3> QED
      BY <3>1, <3>2
  <2> QED
    BY <2>2, <2>5 DEF d
<1>9. ASSUME NEW k \in 1..Len(p), NEW m \in InPlace(t), m > n, t.parent[m] = p[k]
      PROVE  Among(m, rest[k])
  <2>1. m \in Nat
    BY NodeFacts DEF InPlace
  <2>2. m > c /\ m # n
    BY <1>4, <1>7, <1>9, <2>1
  <2>3. Among(m, td[k])
    BY <1>5, <1>9, <2>2 DEF Waiting
  <2> QED
    BY <1>2, <2>2, <2>3
<1>10. Waiting(t, p, rest, n)
  BY <1>8, <1>9 DEF Waiting
<1> QED
  BY <1>1, <1>2, <1>4, <1>5, <1>6, <1>10 DEF Ready, rest

\* Before the walk it is about to tell of the root.
LEMMA RootIsReady ==
  ASSUME NEW t \in PhpTrees, Grammatical(t)
  PROVE  Ready(t, << >>, << >>, << >>, << >>, ROOT)
<1>1. ROOT \in Nodes(t) /\ t.parent[ROOT] = 0 /\ t.flag[ROOT] = "named"
  BY NodeFacts DEF Grammatical
<1>2. ROOT \in InPlace(t)
  BY <1>1, InPlaceFacts
<1>3. TellingTo(t)[ROOT - 1] = << >>
  <2>1. ROOT - 1 = 0
    BY DEF ROOT
  <2> QED
    BY <2>1, TellingFacts
<1>4. Cardinality(Up(t)[ROOT]) = 1 /\ Up(t)[ROOT] = {ROOT}
  BY <1>1, DepthFacts, UpFacts
<1>5. Len(<< >>) = 0 /\ 1..0 = {} /\ << >> \in Seq(Nodes(t)) /\ << >> \in Seq(Seq(Nodes(t))) /\ << >> \in Seq(NodeTypes)
  OBVIOUS
<1>6. OnPath(t, << >>, << >>) /\ Waiting(t, << >>, << >>, ROOT)
  BY <1>5 DEF OnPath, Waiting
<1> QED
  BY <1>1, <1>2, <1>3, <1>4, <1>5, <1>6 DEF Ready, Top

\* What the listener is told of a node is what is to be told of it.
LEMMA ToldAsItIs ==
  ASSUME NEW t \in PhpTrees, NEW p \in Seq(Nodes(t)), NEW n \in Nodes(t),
         t.parent[n] = Top(p), Cardinality(Up(t)[n]) = Len(p) + 1, NEW call, NEW m
  PROVE  Told(call, m, Append(p, n)) = CallOf(t, call, m, n)
<1> DEFINE nodes == Append(p, n)
<1>1. Len(nodes) = Len(p) + 1 /\ Len(p) \in Nat /\ \A k \in 1..Len(p) : nodes[k] = p[k]
  OBVIOUS
<1> HIDE DEF nodes
<1>2. ParentOn(nodes) = t.parent[n]
  <2>1. CASE p = << >>
    <3>1. Len(nodes) < 2
      BY <1>1, <2>1
    <3> QED
      BY <2>1, <3>1 DEF ParentOn, Top
  <2>2. CASE p # << >>
    <3>1. Len(p) > 0
      BY <2>2
    <3>2. ~ (Len(nodes) < 2) /\ Len(nodes) - 1 = Len(p) /\ Len(p) \in 1..Len(p)
      BY <1>1, <3>1
    <3> QED
      BY <1>1, <2>2, <3>2 DEF ParentOn, Top
  <2> QED
    BY <2>1, <2>2
<1> QED
  BY <1>1, <1>2 DEF Told, CallOf, nodes

\* It enters the node, and waits for the children in its slots.
LEMMA EnterOrder ==
  ASSUME NEW t \in PhpTrees, Grammatical(t), VisitorsFollowGrammar,
         NEW p, NEW td, NEW vs, NEW cs, NEW n, Ready(t, p, td, vs, cs, n),
         t.type[n] \in NodeTypes, t.type[n] \notin LeafTypes
  PROVE  LET nodes == Append(p, n)
         IN  InOrder(t, nodes, Append(td, Slots(t, n)), Append(vs, t.type[n]),
                     cs \o <<Told("enter", n, nodes)>>
                        \o [i \in DOMAIN Extras(t, n) |-> Told("extra", Extras(t, n)[i], nodes)], n)
<1> DEFINE l == Len(p)
           q == Append(p, n)
           ud == Append(td, Slots(t, n))
           us == Append(vs, t.type[n])
           ds == cs \o <<Told("enter", n, q)>> \o [i \in DOMAIN Extras(t, n) |-> Told("extra", Extras(t, n)[i], q)]
<1>1. /\ p \in Seq(Nodes(t)) /\ td \in Seq(Seq(Nodes(t))) /\ Len(td) = l /\ l \in Nat
      /\ n \in InPlace(t) /\ n \in Nodes(t) /\ cs = TellingTo(t)[n - 1]
      /\ t.parent[n] = Top(p) /\ Cardinality(Up(t)[n]) = l + 1
      /\ \A m \in Up(t)[n] : m = n \/ Among(m, p)
      /\ OnPath(t, p, vs) /\ Waiting(t, p, td, n)
  BY DEF Ready, InPlace
<1>2. /\ vs \in Seq(NodeTypes) /\ Len(vs) = l /\ \A k \in 1..l : vs[k] = t.type[p[k]]
      /\ \A k \in 1..l : /\ p[k] \in InPlace(t) /\ t.type[p[k]] \notin LeafTypes
                         /\ t.parent[p[k]] = IF k = 1 THEN 0 ELSE p[k - 1]
                         /\ Cardinality(Up(t)[p[k]]) = k
  BY <1>1 DEF OnPath
<1>3. Slots(t, n) \in Seq(Nodes(t))
  <2>1. Slots(t, n) \in Seq(Below(t, n)) /\ Below(t, n) \subseteq Nodes(t)
    BY <1>1, TreeFacts DEF Below
  <2>2. \A S, T : \A s \in Seq(S) : S \subseteq T => s \in Seq(T)
    OBVIOUS
  <2> QED
    BY <2>1, <2>2
<1>4. /\ Len(q) = l + 1 /\ q[l + 1] = n /\ \A k \in 1..l : q[k] = p[k]
      /\ ud \in Seq(Seq(Nodes(t))) /\ Len(ud) = l + 1 /\ ud[l + 1] = Slots(t, n) /\ \A k \in 1..l : ud[k] = td[k]
  BY <1>1, <1>3
<1>5. us \in Seq(NodeTypes) /\ Len(us) = l + 1 /\ us[l + 1] = t.type[n] /\ \A k \in 1..l : us[k] = vs[k]
  BY <1>1, <1>2
<1>6. \A k \in 1..(l + 1) : k \in 1..l \/ k = l + 1
  BY <1>1
<1>7. ds = cs \o Opening(t, n) /\ cs \in Seq(AllCalls(t)) /\ ds \in Seq(AllCalls(t))
  <2> DEFINE extras == Ordered(t, {c \in Below(t, n) : t.flag[c] = "extra"})
             first == <<CallOf(t, "enter", n, n)>>
             told == [i \in DOMAIN extras |-> CallOf(t, "extra", extras[i], n)]
  <2>1. Opening(t, n) = first \o told
    BY DEF Opening
  <2>2. \A call, m : Told(call, m, q) = CallOf(t, call, m, n)
    BY <1>1, ToldAsItIs
  <2>3. ds = (cs \o first) \o told
    <3>1. Extras(t, n) = extras
      BY DEF Extras
    <3> HIDE DEF q, extras
    <3> QED
      BY <2>2, <3>1
  <2>4. cs \in Seq(AllCalls(t))
    <3>1. n - 1 \in 0..Len(t.type)
      BY <1>1, NodeFacts
    <3> QED
      BY <1>1, <3>1, TellingFacts
  <2>5. first \in Seq(AllCalls(t)) /\ told \in Seq(AllCalls(t))
    <3>1. \A call \in {"enter", "extra", "leaf", "exit"} : \A m \in Nodes(t) : CallOf(t, call, m, n) \in AllCalls(t)
      BY <1>1 DEF AllCalls
    <3>2. extras \in Seq(Nodes(t))
      <4>1. Extras(t, n) \in Seq(Nodes(t))
        BY <1>1, TreeFacts
      <4> QED
        BY <4>1 DEF Extras
    <3> HIDE DEF extras
    <3>3. DOMAIN extras = 1..Len(extras) /\ Len(extras) \in Nat /\ \A i \in DOMAIN extras : extras[i] \in Nodes(t)
      BY <3>2
    <3>4. told \in [1..Len(extras) -> AllCalls(t)]
      BY <3>1, <3>3
    <3>5. told \in Seq(AllCalls(t))
      <4> HIDE DEF told
      <4> QED
        BY <3>3, <3>4
    <3>6. first \in Seq(AllCalls(t))
      BY <1>1, <3>1
    <3> QED
      BY <3>5, <3>6
  <2> HIDE DEF first, told, ds
  <2>6. (cs \o first) \o told = cs \o (first \o told)
    BY <2>4, <2>5, LongerFacts
  <2>7. ds = cs \o Opening(t, n)
    BY <2>1, <2>3, <2>6
  <2>8. Opening(t, n) \in Seq(AllCalls(t))
    BY <1>1, OpeningFacts
  <2>9. cs \o Opening(t, n) \in Seq(AllCalls(t))
    BY <2>4, <2>8, LongerFacts
  <2> QED
    BY <2>4, <2>7, <2>9
<1> HIDE DEF q, ud, us, ds, l
<1>8. Top(q) = n
  <2>1. q # << >>
    BY <1>1, <1>4
  <2> QED
    BY <1>4, <2>1 DEF Top
<1>9. TellingTo(t)[n] = ds \o Exits(t, n)[Top(q)]
  <2>1. TellingTo(t)[n] = TellingTo(t)[n - 1] \o Opening(t, n) \o Closing(t, n)
    BY <1>1, TellingFacts
  <2>2. Closing(t, n) = Exits(t, n)[n]
    BY DEF Closing
  <2> QED
    BY <1>1, <1>7, <1>8, <2>1, <2>2
<1>10. ASSUME NEW m \in Up(t)[n] PROVE Among(m, q)
  <2>1. CASE m = n
    <3>1. l + 1 \in 1..Len(q)
      BY <1>1, <1>4
    <3> QED
      BY <1>4, <2>1, <3>1 DEF Among
  <2>2. CASE Among(m, p)
    <3>1. PICK k \in 1..l : p[k] = m
      BY <2>2 DEF Among, l
    <3>2. k \in 1..Len(q) /\ q[k] = m
      BY <1>1, <1>4, <3>1
    <3> QED
      BY <3>2 DEF Among
  <2> QED
    BY <1>1, <2>1, <2>2
<1>11. ASSUME NEW k \in 1..Len(q)
       PROVE  /\ q[k] \in InPlace(t) /\ t.type[q[k]] \notin LeafTypes
              /\ t.parent[q[k]] = IF k = 1 THEN 0 ELSE q[k - 1]
              /\ Cardinality(Up(t)[q[k]]) = k
  <2>1. CASE k \in 1..l
    <3>1. k # 1 => k - 1 \in 1..l
      BY <1>1, <2>1
    <3> QED
      BY <1>2, <1>4, <2>1, <3>1
  <2>2. CASE k = l + 1
    <3>1. t.parent[n] = IF k = 1 THEN 0 ELSE q[k - 1]
      <4>1. CASE p = << >>
        <5>1. l = 0
          BY <4>1 DEF l
        <5> QED
          BY <1>1, <2>2, <4>1, <5>1 DEF Top
      <4>2. CASE p # << >>
        <5>1. l # 0
          BY <1>1, <4>2 DEF l
        <5>2. k # 1 /\ k - 1 = l /\ l \in 1..l
          BY <1>1, <2>2, <5>1
        <5> QED
          BY <1>1, <1>4, <4>2, <5>2 DEF Top, l
      <4> QED
        BY <4>1, <4>2
    <3> QED
      BY <1>1, <1>4, <2>2, <3>1
  <2> QED
    BY <1>4, <1>6, <2>1, <2>2
<1>12. ASSUME NEW k \in 1..Len(q)
       PROVE  us[k] = t.type[q[k]]
  BY <1>2, <1>4, <1>5, <1>6
<1>13. \A d \in Below(t, n) : d > n
  <2>1. TAKE d \in Below(t, n)
  <2>2. d \in Nodes(t) /\ t.parent[d] = n
    BY DEF Below
  <2>3. d # ROOT
    BY <1>1, <2>2, NodeFacts
  <2>4. n < d /\ n \in Nat /\ d \in Nat
    BY <1>1, <2>2, <2>3, NodeFacts
  <2> QED
    BY <2>4
<1>14. ASSUME NEW k \in 1..Len(q)
       PROVE  /\ \A i \in 1..Len(ud[k]) : ud[k][i] > n /\ FillsSlot(t, ud[k][i])
              /\ \A m \in InPlace(t) : m > n /\ t.parent[m] = q[k] => Among(m, ud[k])
  <2>1. CASE k \in 1..l
    BY <1>1, <1>4, <2>1 DEF Waiting, l
  <2>2. CASE k = l + 1
    <3>1. \A i \in 1..Len(Slots(t, n)) : Slots(t, n)[i] > n /\ FillsSlot(t, Slots(t, n)[i])
      BY <1>1, <1>13, SlotsFacts
    <3>2. ASSUME NEW m \in InPlace(t), t.parent[m] = n PROVE Among(m, Slots(t, n))
      <4>1. m \in Below(t, n) /\ t.flag[m] = "named"
        <5>1. m \in Nodes(t)
          BY DEF InPlace
        <5> QED
          BY <3>2, <5>1, InPlaceFacts DEF Below
      <4> QED
        BY <1>1, <4>1, SlotsFacts
    <3> QED
      BY <1>4, <2>2, <3>1, <3>2
  <2> QED
    BY <1>4, <1>6, <2>1, <2>2
<1>15. Len(us) = Len(q) /\ n \in Up(t)[n]
  BY <1>1, <1>4, <1>5, UpIsClosed
<1>16. InOrder(t, q, ud, us, ds, n)
  BY <1>1, <1>5, <1>7, <1>8, <1>9, <1>10, <1>11, <1>12, <1>14, <1>15 DEF InOrder
<1> QED
  BY <1>16 DEF q, ud, us, ds

\* It tells of a leaf.
LEMMA LeafOrder ==
  ASSUME NEW t \in PhpTrees, Grammatical(t), VisitorsFollowGrammar,
         NEW p, NEW td, NEW vs, NEW cs, NEW n, Ready(t, p, td, vs, cs, n), t.type[n] \in LeafTypes
  PROVE  InOrder(t, p, td, vs, Append(cs, Told("leaf", n, Append(p, n))), n)
<1> DEFINE c == CallOf(t, "leaf", n, n)
<1>1. /\ p \in Seq(Nodes(t)) /\ n \in InPlace(t) /\ n \in Nodes(t) /\ cs = TellingTo(t)[n - 1]
      /\ t.parent[n] = Top(p) /\ Cardinality(Up(t)[n]) = Len(p) + 1
      /\ \A m \in Up(t)[n] : m = n \/ Among(m, p)
      /\ p # << >> => Top(p) \in Up(t)[n]
      /\ OnPath(t, p, vs) /\ Waiting(t, p, td, n)
  BY DEF Ready, InPlace
<1>2. Told("leaf", n, Append(p, n)) = c
  BY <1>1, ToldAsItIs
<1>3. cs \in Seq(AllCalls(t)) /\ c \in AllCalls(t) /\ Opening(t, n) = <<c>>
  <2>1. n - 1 \in 0..Len(t.type)
    BY <1>1, NodeFacts
  <2>2. c \in AllCalls(t)
    BY <1>1 DEF AllCalls
  <2> QED
    BY <1>1, <2>1, <2>2, TellingFacts DEF Opening
<1> HIDE DEF c
<1>4. Append(cs, c) = cs \o <<c>> /\ Append(cs, c) \in Seq(AllCalls(t))
  BY <1>3, AppendIsConcat, AppendProperties
<1>5. TellingTo(t)[n] = Append(cs, c) \o Exits(t, n)[Top(p)]
  <2>1. TellingTo(t)[n] = TellingTo(t)[n - 1] \o Opening(t, n) \o Closing(t, n)
    BY <1>1, TellingFacts
  <2>2. Closing(t, n) = Exits(t, n)[Top(p)]
    BY <1>1 DEF Closing
  <2> QED
    BY <1>1, <1>3, <1>4, <2>1, <2>2
<1>6. ~ GoesOn(t, n, n)
  BY <1>1, LeafHasNothing
<1>7. InOrder(t, p, td, vs, Append(cs, c), n)
  BY <1>1, <1>4, <1>5, <1>6 DEF InOrder, OnPath, Waiting
<1> QED
  BY <1>2, <1>7

\* It passes over a child that is not in place.
LEMMA PassOrder ==
  ASSUME NEW t \in PhpTrees, NEW p, NEW td, NEW vs, NEW cs, NEW c, Walks(t, p, td, cs), p # << >>,
         InOrder(t, p, td, vs, cs, c), Last(td) # << >>, Head(Last(td)) \notin InPlace(t)
  PROVE  InOrder(t, p, Append(Front(td), Tail(Last(td))), vs, cs, c)
<1> DEFINE rest == Append(Front(td), Tail(Last(td)))
           n == Head(Last(td))
<1>1. \A k \in 1..Len(p) : /\ \A i \in 1..Len(rest[k]) : Among(rest[k][i], td[k])
                           /\ \A m : Among(m, td[k]) /\ m # n => Among(m, rest[k])
  BY RestFacts
<1>2. n \notin InPlace(t)
  OBVIOUS
<1> HIDE DEF rest, n
<1>3. \A k \in 1..Len(p) : /\ \A i \in 1..Len(td[k]) : td[k][i] > c /\ FillsSlot(t, td[k][i])
                           /\ \A m \in InPlace(t) : m > c /\ t.parent[m] = p[k] => Among(m, td[k])
  BY DEF InOrder
<1>4. ASSUME NEW k \in 1..Len(p), NEW i \in 1..Len(rest[k]) PROVE rest[k][i] > c /\ FillsSlot(t, rest[k][i])
  <2>1. PICK j \in 1..Len(td[k]) : td[k][j] = rest[k][i]
    BY <1>1 DEF Among
  <2> QED
    BY <1>3, <2>1
<1>5. \A k \in 1..Len(p) : \A m \in InPlace(t) : m > c /\ t.parent[m] = p[k] => Among(m, rest[k])
  BY <1>1, <1>2, <1>3
<1>6. InOrder(t, p, rest, vs, cs, c)
  BY <1>4, <1>5 DEF InOrder
<1> QED
  BY <1>6 DEF rest

\* What the walk coming as far as c amounts to, for the paths of other walks.
LEMMA IsInOrder ==
  ASSUME NEW t, NEW p, NEW td, NEW vs, NEW cs, NEW c,
         c \in InPlace(t), cs \in Seq(AllCalls(t)), TellingTo(t)[c] = cs \o Exits(t, c)[Top(p)],
         p # << >> => Top(p) \in Up(t)[c],
         \A m \in Up(t)[c] : Among(m, p) \/ ~ GoesOn(t, m, c),
         \A k \in 1..Len(p) : /\ p[k] \in InPlace(t) /\ t.type[p[k]] \notin LeafTypes
                              /\ t.parent[p[k]] = IF k = 1 THEN 0 ELSE p[k - 1]
                              /\ Cardinality(Up(t)[p[k]]) = k,
         vs \in Seq(NodeTypes), Len(vs) = Len(p), \A k \in 1..Len(p) : vs[k] = t.type[p[k]],
         \A k \in 1..Len(p) : /\ \A i \in 1..Len(td[k]) : td[k][i] > c /\ FillsSlot(t, td[k][i])
                              /\ \A n \in InPlace(t) : n > c /\ t.parent[n] = p[k] => Among(n, td[k])
  PROVE  InOrder(t, p, td, vs, cs, c)
  BY DEF InOrder

\* It leaves the last node of the path, in which nothing in place is behind c.
LEMMA ExitOrder ==
  ASSUME NEW t \in PhpTrees, NEW p, NEW td, NEW vs, NEW cs, NEW c, Walks(t, p, td, cs), p # << >>,
         InOrder(t, p, td, vs, cs, c), Last(td) = << >>
  PROVE  InOrder(t, Front(p), Front(td), Front(vs), Append(cs, Told("exit", Last(p), p)), c)
<1>n. PICK n : n = p[Len(p)]
  OBVIOUS
<1>l. PICK l \in Nat : l + 1 = Len(p)
  <2>1. Len(p) \in 1..Len(p) /\ Len(p) \in Nat
    BY PathFacts
  <2>2. Len(p) - 1 \in Nat /\ (Len(p) - 1) + 1 = Len(p)
    BY <2>1
  <2> QED
    BY <2>2
<1> DEFINE q == Front(p)
           ud == Front(td)
           us == Front(vs)
           x == CallOf(t, "exit", n, n)
<1>1. /\ Len(p) \in 1..Len(p) /\ Len(p) \in Nat /\ Top(p) = n /\ Last(p) = n /\ l \in Nat /\ l + 1 = Len(p)
      /\ \A k \in 1..Len(p) : p[k] \in Nodes(t)
      /\ p \in Seq(Nodes(t)) /\ td \in Seq(Seq(Nodes(t))) /\ Len(td) = Len(p) /\ td # << >>
  <2>1. /\ Len(p) \in 1..Len(p) /\ Len(p) \in Nat /\ Top(p) = n /\ Last(p) = n
        /\ \A k \in 1..Len(p) : p[k] \in Nodes(t)
    BY <1>n, PathFacts
  <2>2. p \in Seq(Nodes(t)) /\ td \in Seq(Seq(Nodes(t))) /\ Len(td) = Len(p)
    BY DEF Walks
  <2>4. td # << >>
    BY <2>1, <2>2
  <2> QED
    BY <1>l, <2>1, <2>2, <2>4
<1>2. /\ c \in InPlace(t) /\ c \in Nodes(t) /\ cs \in Seq(AllCalls(t))
      /\ TellingTo(t)[c] = cs \o Exits(t, c)[Top(p)]
      /\ Top(p) \in Up(t)[c]
      /\ \A m \in Up(t)[c] : Among(m, p) \/ ~ GoesOn(t, m, c)
      /\ \A k \in 1..Len(p) : /\ p[k] \in InPlace(t) /\ t.type[p[k]] \notin LeafTypes
                              /\ t.parent[p[k]] = IF k = 1 THEN 0 ELSE p[k - 1]
                              /\ Cardinality(Up(t)[p[k]]) = k
      /\ vs \in Seq(NodeTypes) /\ Len(vs) = Len(p) /\ \A k \in 1..Len(p) : vs[k] = t.type[p[k]]
      /\ \A k \in 1..Len(p) : /\ \A i \in 1..Len(td[k]) : td[k][i] > c /\ FillsSlot(t, td[k][i])
                              /\ \A m \in InPlace(t) : m > c /\ t.parent[m] = p[k] => Among(m, td[k])
  BY <1>1 DEF InOrder, InPlace
<1>3. td[Len(p)] = << >>
  BY <1>1, <1>n DEF Last
<1>4. ~ GoesOn(t, n, c)
  <2> SUFFICES ASSUME NEW k \in InPlace(t), k > c, n \in Up(t)[k] PROVE FALSE
    BY DEF GoesOn
  <2>1. k \in Nodes(t) /\ k \in Nat /\ c \in Nat /\ c < k /\ k <= k
    <3>1. k \in Nodes(t) /\ k \in Nat /\ c \in Nat
      BY <1>2, NodeFacts DEF InPlace
    <3> QED
      BY <3>1
  <2>2. PICK d \in Nodes(t) : Among(d, td[Len(p)])
    BY <1>n, <2>1, SomeIsWaiting
  <2> QED
    BY <1>3, <2>2 DEF Among
<1>5. ASSUME NEW S, NEW s \in Seq(S), Len(s) = l + 1
      PROVE  Front(s) \in Seq(S) /\ Len(Front(s)) = l /\ \A k \in 1..l : Front(s)[k] = s[k]
  <2>1. Front(s) = SubSeq(s, 1, l)
    BY <1>l, <1>5 DEF Front
  <2>2. SubSeq(s, 1, l) \in Seq(S) /\ Len(SubSeq(s, 1, l)) = l /\ \A k \in 1..l : SubSeq(s, 1, l)[k] = s[k]
    BY <1>1, <1>5
  <2> QED
    BY <2>1, <2>2
<1>6. /\ q \in Seq(Nodes(t)) /\ Len(q) = l /\ \A k \in 1..l : q[k] = p[k]
      /\ Len(ud) = l /\ \A k \in 1..l : ud[k] = td[k]
      /\ us \in Seq(NodeTypes) /\ Len(us) = l /\ \A k \in 1..l : us[k] = vs[k]
  <2> QED
    BY <1>1, <1>2, <1>5
<1> HIDE DEF q, ud, us
<1>7. /\ \A k \in 1..l : k \in 1..Len(p) /\ (k # 1 => k - 1 \in 1..l)
      /\ \A k \in 1..Len(p) : k \in 1..l \/ k = Len(p)
  <2>1. \A y \in Nat : /\ \A k \in 1..y : k \in 1..(y + 1) /\ (k # 1 => k - 1 \in 1..y)
                       /\ \A k \in 1..(y + 1) : k \in 1..y \/ k = y + 1
    OBVIOUS
  <2> QED
    BY <1>1, <2>1
<1>9. Top(q) = t.parent[n] /\ (q # << >> => Top(q) \in Up(t)[c])
  <2>1. t.parent[n] = IF Len(p) = 1 THEN 0 ELSE p[Len(p) - 1]
    BY <1>1, <1>2, <1>n
  <2>2. l = 0 \/ l \in 1..l
    BY <1>1
  <2>3. CASE l = 0
    <3>1. q = << >>
      BY <1>6, <2>3
    <3>2. Len(p) = 1
      BY <1>1, <2>3
    <3> QED
      BY <2>1, <3>1, <3>2 DEF Top
  <2>4. CASE l \in 1..l
    <3>1. Len(p) # 1 /\ Len(p) - 1 = l /\ Len(q) # 0
      <4>1. l # 0 /\ l + 1 # 1 /\ (l + 1) - 1 = l
        BY <2>4
      <4> QED
        BY <1>6, <1>l, <4>1
    <3>2. Top(q) = p[l]
      <4>1. q # << >>
        BY <3>1
      <4> QED
        BY <1>6, <2>4, <4>1 DEF Top
    <3>3. p[l] \in Up(t)[n]
      BY <1>7, <1>n, <2>4, PathFacts
    <3>4. Up(t)[n] \subseteq Up(t)[c]
      BY <1>1, <1>2, UpIsClosed
    <3>5. t.parent[n] = p[l]
      BY <2>1, <3>1
    <3> QED
      BY <3>2, <3>3, <3>4, <3>5
  <2> QED
    BY <2>2, <2>3, <2>4
<1>10. Told("exit", Last(p), p) = x
  <2>1. Len(p) = Cardinality(Up(t)[n])
    BY <1>1, <1>2, <1>n
  <2>2. ParentOn(p) = t.parent[n]
    <3>1. t.parent[n] = IF Len(p) = 1 THEN 0 ELSE p[Len(p) - 1]
      BY <1>1, <1>2, <1>n
    <3>2. Len(p) < 2 <=> Len(p) = 1
      <4>1. \A y \in Nat : y \in 1..y => (y < 2 <=> y = 1)
        OBVIOUS
      <4> QED
        BY <1>1, <4>1
    <3> QED
      BY <3>1, <3>2 DEF ParentOn
  <2> QED
    BY <1>1, <2>1, <2>2 DEF Told, CallOf
<1>11. x \in AllCalls(t) /\ n \in Nodes(t) /\ n # 0
  <2>1. n \in Nodes(t)
    BY <1>1, <1>n
  <2> QED
    BY <2>1, NodeFacts DEF AllCalls
<1>12. /\ Append(cs, x) = cs \o <<x>> /\ Append(cs, x) \in Seq(AllCalls(t))
       /\ TellingTo(t)[c] = Append(cs, x) \o Exits(t, c)[Top(q)]
  <2>1. Append(cs, x) = cs \o <<x>> /\ Append(cs, x) \in Seq(AllCalls(t))
    BY <1>2, <1>11, AppendIsConcat, AppendProperties
  <2>2. c \in Nodes(t) /\ cs \in Seq(AllCalls(t))
    BY <1>2
  <2>3. t.parent[n] \in Nodes(t) \cup {0}
    BY <1>11, NodeFacts
  <2>4. Exits(t, c)[n] = <<x>> \o Exits(t, c)[t.parent[n]]
    BY <1>4, <1>11, <2>2, ExitsFacts
  <2>5. <<x>> \in Seq(AllCalls(t)) /\ Exits(t, c)[t.parent[n]] \in Seq(AllCalls(t))
    <3> HIDE DEF x
    <3>1. <<x>> \in Seq(AllCalls(t))
      BY <1>11
    <3> QED
      BY <2>2, <2>3, <3>1, ExitsFacts
  <2>6. (cs \o <<x>>) \o Exits(t, c)[t.parent[n]] = cs \o (<<x>> \o Exits(t, c)[t.parent[n]])
    <3> DEFINE one == <<x>>
               others == Exits(t, c)[t.parent[n]]
    <3>2. one \in Seq(AllCalls(t)) /\ others \in Seq(AllCalls(t))
      BY <2>5
    <3> HIDE DEF one, others
    <3>1. ASSUME NEW S, NEW a \in Seq(S), NEW b \in Seq(S), NEW d \in Seq(S)
          PROVE  (a \o b) \o d = a \o (b \o d)
      BY LongerFacts
    <3>3. (cs \o one) \o others = cs \o (one \o others)
      BY <2>2, <3>1, <3>2
    <3> QED
      BY <3>3 DEF one, others
  <2> QED
    BY <1>1, <1>2, <1>9, <2>1, <2>4, <2>6
<1>13. ASSUME NEW m \in Up(t)[c] PROVE Among(m, q) \/ ~ GoesOn(t, m, c)
  <2> SUFFICES ASSUME GoesOn(t, m, c) PROVE Among(m, q)
    OBVIOUS
  <2>1. PICK k \in 1..Len(p) : p[k] = m
    BY <1>2 DEF Among
  <2>2. k \in 1..l
    BY <1>4, <1>7, <1>n, <2>1
  <2> QED
    BY <1>6, <2>1, <2>2 DEF Among
<1>14. ASSUME NEW k \in 1..Len(q)
       PROVE  /\ q[k] \in InPlace(t) /\ t.type[q[k]] \notin LeafTypes
              /\ t.parent[q[k]] = IF k = 1 THEN 0 ELSE q[k - 1]
              /\ Cardinality(Up(t)[q[k]]) = k
  <2>1. k \in 1..Len(p) /\ q[k] = p[k] /\ (k # 1 => q[k - 1] = p[k - 1])
    BY <1>6, <1>7
  <2>2. /\ p[k] \in InPlace(t) /\ t.type[p[k]] \notin LeafTypes
        /\ t.parent[p[k]] = IF k = 1 THEN 0 ELSE p[k - 1]
        /\ Cardinality(Up(t)[p[k]]) = k
    BY <1>2, <2>1
  <2> QED
    BY <2>1, <2>2
<1>15. \A k \in 1..Len(q) : us[k] = t.type[q[k]]
  BY <1>2, <1>6, <1>7
<1>16. ASSUME NEW k \in 1..Len(q)
       PROVE  /\ \A i \in 1..Len(ud[k]) : ud[k][i] > c /\ FillsSlot(t, ud[k][i])
              /\ \A m \in InPlace(t) : m > c /\ t.parent[m] = q[k] => Among(m, ud[k])
  <2>1. k \in 1..l /\ k \in 1..Len(p) /\ q[k] = p[k] /\ ud[k] = td[k]
    BY <1>6, <1>7
  <2>2. /\ \A i \in 1..Len(td[k]) : td[k][i] > c /\ FillsSlot(t, td[k][i])
        /\ \A m \in InPlace(t) : m > c /\ t.parent[m] = p[k] => Among(m, td[k])
    BY <1>2, <2>1
  <2> QED
    BY <2>1, <2>2
<1>17. c \in InPlace(t) /\ Len(us) = Len(q) /\ us \in Seq(NodeTypes)
  BY <1>2, <1>6
<1> HIDE DEF x
<1>18. InOrder(t, q, ud, us, Append(cs, x), c)
  BY <1>9, <1>12, <1>13, <1>14, <1>15, <1>16, <1>17, IsInOrder
<1> QED
  BY <1>10, <1>18 DEF q, ud, us

\* What it has told is the beginning of what is to be told, and is all of it when
\* it has left the root.
LEMMA ToldSoFar ==
  ASSUME NEW t \in PhpTrees, NEW p, NEW td, NEW vs, NEW cs, NEW c, InOrder(t, p, td, vs, cs, c), p \in Seq(Nodes(t))
  PROVE  IsPrefix(cs, Telling(t)) /\ (cs = Telling(t) <=> p = << >>)
<1> DEFINE N == Len(t.type)
           T == TellingTo(t)
           more == Exits(t, c)[Top(p)]
<1>1. /\ c \in InPlace(t) /\ c \in Nodes(t) /\ cs \in Seq(AllCalls(t)) /\ T[c] = cs \o more
      /\ \A m \in Up(t)[c] : Among(m, p) \/ ~ GoesOn(t, m, c)
      /\ Top(p) \in Nodes(t) \cup {0} /\ (p # << >> => Top(p) \in Nodes(t))
  <2>1. p # << >> => Top(p) \in Nodes(t)
    BY DEF Top
  <2> QED
    BY <2>1 DEF InOrder, InPlace, Top
<1>2. N \in Nat /\ Nodes(t) = 1..N /\ c \in 0..N /\ N \in 0..N /\ c <= N
  <2>1. N \in Nat /\ Nodes(t) = 1..N
    BY NodeFacts
  <2> QED
    BY <1>1, <2>1
<1>3. /\ T[c] \in Seq(AllCalls(t)) /\ T[N] \in Seq(AllCalls(t)) /\ more \in Seq(AllCalls(t))
      /\ Telling(t) = T[N]
  BY <1>1, <1>2, TellingFacts, ExitsFacts DEF Telling
<1>4. /\ IsPrefix(T[c], T[N])
      /\ (\A n \in InPlace(t) : ~ (c < n /\ n <= N)) => T[N] = T[c]
      /\ (\E n \in InPlace(t) : c < n /\ n <= N) => Len(T[c]) < Len(T[N])
  BY <1>2, TellingGrows
<1>5. more = IF Top(p) = 0 \/ GoesOn(t, Top(p), c) THEN << >>
             ELSE <<CallOf(t, "exit", Top(p), Top(p))>> \o Exits(t, c)[t.parent[Top(p)]]
  BY <1>1, ExitsFacts
<1> HIDE DEF N, T, more
<1>6. Len(T[c]) = Len(cs) + Len(more) /\ IsPrefix(cs, T[c])
  BY <1>1, <1>3, LongerFacts
<1>7. IsPrefix(cs, T[N])
  <2>1. ASSUME NEW S, NEW q \in Seq(S), NEW r \in Seq(S), NEW s \in Seq(S), IsPrefix(q, r), IsPrefix(r, s)
        PROVE  IsPrefix(q, s)
    BY <2>1, LongerFacts
  <2> QED
    BY <1>1, <1>3, <1>4, <1>6, <2>1
<1>8. ASSUME p = << >> PROVE cs = T[N]
  <2>1. Top(p) = 0 /\ ~ Among(ROOT, p)
    BY <1>8 DEF Top, Among
  <2>2. ~ GoesOn(t, ROOT, c)
    BY <1>1, <2>1, UpIsClosed
  <2>3. \A n \in InPlace(t) : ~ (c < n /\ n <= N)
    <3> SUFFICES ASSUME NEW n \in InPlace(t), c < n PROVE FALSE
      OBVIOUS
    <3>1. n \in Nodes(t) /\ n \in Nat /\ c \in Nat
      BY <1>1, NodeFacts DEF InPlace
    <3>2. n > c /\ ROOT \in Up(t)[n]
      BY <3>1, UpIsClosed
    <3> QED
      BY <2>2, <3>2 DEF GoesOn
  <2>4. more = << >>
    BY <1>5, <2>1
  <2>5. \A s \in Seq(AllCalls(t)) : s \o << >> = s
    OBVIOUS
  <2> QED
    BY <1>1, <1>4, <2>3, <2>4, <2>5
<1>9. ASSUME p # << >> PROVE cs # T[N]
  <2>1. Top(p) \in Nodes(t) /\ Top(p) # 0
    BY <1>1, <1>9, NodeFacts
  <2>2. Len(cs) \in Nat /\ Len(more) \in Nat /\ Len(T[c]) \in Nat /\ Len(T[N]) \in Nat
    BY <1>1, <1>3
  <2>3. Len(T[c]) <= Len(T[N])
    BY <1>3, <1>4, PrefixFacts
  <2>4. CASE GoesOn(t, Top(p), c)
    <3>1. PICK n \in InPlace(t) : n > c
      BY <2>4 DEF GoesOn
    <3>2. c < n /\ n <= N
      <4>1. n \in 1..N /\ c \in 1..N
        BY <1>1, <1>2 DEF InPlace
      <4> QED
        BY <1>2, <3>1, <4>1
    <3>3. Len(T[c]) < Len(T[N])
      BY <1>4, <3>2
    <3> QED
      BY <1>6, <2>2, <3>3
  <2>5. CASE ~ GoesOn(t, Top(p), c)
    <3> DEFINE x == CallOf(t, "exit", Top(p), Top(p))
               rest == Exits(t, c)[t.parent[Top(p)]]
    <3>1. more = <<x>> \o rest
      BY <1>5, <2>1, <2>5
    <3>2. <<x>> \in Seq(AllCalls(t)) /\ Len(<<x>>) = 1
      <4>1. x \in AllCalls(t)
        BY <2>1 DEF AllCalls
      <4> HIDE DEF x
      <4> QED
        BY <4>1
    <3>3. rest \in Seq(AllCalls(t))
      <4>1. t.parent[Top(p)] \in Nodes(t) \cup {0}
        BY <2>1, NodeFacts
      <4> QED
        BY <1>1, <4>1, ExitsFacts
    <3> HIDE DEF x, rest
    <3>4. Len(more) = 1 + Len(rest) /\ Len(rest) \in Nat
      BY <3>1, <3>2, <3>3, LongerFacts
    <3> QED
      BY <1>6, <2>2, <2>3, <3>4
  <2> QED
    BY <2>4, <2>5
<1> QED
  BY <1>3, <1>7, <1>8, <1>9

-----------------------------------------------------------------------------
(* The walk tells of the tree.                                             *)

\* The second part of the inductive invariant: how far the walk has come.
OrderInv ==
    /\ pc \in {"start", "walking", "done"}
    /\ pc = "start" => path = << >> /\ todo = << >> /\ visitor = << >> /\ calls = << >>
    /\ pc # "start" => /\ pc = "done" <=> path = << >>
                       /\ \E c : InOrder(tree, path, todo, visitor, calls, c)

\* The calls so far are the beginning of what is to be told, and all of it at the end.
SoFar ==
    pc # "start" => IsPrefix(calls, Telling(tree)) /\ (calls = Telling(tree) <=> pc = "done")

\* One call more, and the comments after it.
LEMMA FollowsIsLonger ==
  ASSUME NEW S, NEW cs \in Seq(S), NEW ds \in Seq(S), NEW c, Follows(ds, cs, c)
  PROVE  Len(cs) < Len(ds) /\ IsPrefix(cs, ds)
<1>1. Len(ds) > Len(cs) /\ \A j \in 1..Len(cs) : ds[j] = cs[j]
  BY DEF Follows
<1>2. Len(cs) \in Nat /\ Len(ds) \in Nat
  OBVIOUS
<1>3. Len(cs) < Len(ds) /\ Len(cs) <= Len(ds)
  BY <1>1, <1>2
<1>4. \A i \in 1..Len(cs) : cs[i] = ds[i]
  BY <1>1
<1> QED
  BY <1>3, <1>4, PrefixFacts

\* No type of the grammar is both kinds, or that of a token.
LEMMA TypesAreApart ==
  ASSUME VisitorsFollowGrammar
  PROVE  /\ LeafTypes \cap InnerTypes = {} /\ TOKEN \notin NodeTypes
         /\ LeafTypes \subseteq NodeTypes /\ InnerTypes \subseteq NodeTypes
         /\ \A type \in NodeTypes : type \in LeafTypes \/ type \in InnerTypes
<1>1. LeafTypes \cap InnerTypes = {} /\ TOKEN \notin NodeTypes
  BY DEF VisitorsFollowGrammar
<1> QED
  BY <1>1 DEF NodeTypes

\* The child the walk comes to is accepted as what it is, and is in place unless it
\* is a token.
LEMMA ChildFacts ==
  ASSUME VisitorsFollowGrammar, Grammatical(tree),
         IndInv, OrderInv, Walking, Last(todo) # << >>
  PROVE  /\ tree \in PhpTrees /\ path # << >> /\ Walks(tree, path, todo, calls)
         /\ path \in Seq(Nodes(tree)) /\ calls \in Seq(Calls(tree))
         /\ \E c : InOrder(tree, path, todo, visitor, calls, c)
         /\ Accepts(SlotOf(Child), tree.type[Child]) /\ VisitorOf(Child) = tree.type[Child]
         /\ Child \in Nodes(tree)
         /\ Child \in InPlace(tree) => tree.type[Child] \in NodeTypes
         /\ Child \notin InPlace(tree) => tree.type[Child] = TOKEN
<1>1. /\ tree \in PhpTrees /\ path # << >> /\ Walks(tree, path, todo, calls)
      /\ path \in Seq(Nodes(tree)) /\ calls \in Seq(Calls(tree)) /\ pc # "start"
  BY DEF IndInv, Walking, Walks
<1>2. PICK c : InOrder(tree, path, todo, visitor, calls, c)
  BY <1>1 DEF OrderInv
<1> DEFINE n == Head(Last(todo))
           p == path[Len(path)]
<1>3. Len(path) \in 1..Len(path) /\ Len(path) \in Nat
  BY <1>1, PathFacts
<1>4. n \in Nodes(tree) /\ n # ROOT /\ tree.parent[n] = p
  BY <1>1, NextChild
<1>5. Among(n, todo[Len(path)])
  BY <1>1, RestFacts
<1>6. /\ FillsSlot(tree, n) /\ p \in InPlace(tree) /\ visitor[Len(path)] = tree.type[p]
      /\ visitor \in Seq(NodeTypes) /\ Len(visitor) = Len(path)
  BY <1>2, <1>3, <1>5 DEF InOrder, Among
<1>7. Last(visitor) = tree.type[p]
  <2>1. visitor # << >>
    BY <1>3, <1>6
  <2> QED
    BY <1>6, <2>1 DEF Last
<1>8. n \in Below(tree, p)
  BY <1>4 DEF Below
<1> HIDE DEF n, p
<1>9. /\ Accepts(Slot(tree.type[p], tree.field[n]), tree.type[n])
      /\ VisitorIn(Slot(tree.type[p], tree.field[n]), tree.type[n]) = tree.type[n]
      /\ tree.flag[n] = "named" => tree.type[n] \in NodeTypes
      /\ tree.flag[n] = "token" => tree.type[n] = TOKEN
  BY <1>1, <1>6, <1>8, GrammarFacts
<1>10. n \in InPlace(tree) <=> tree.flag[n] = "named"
  BY <1>1, <1>4, <1>6, InPlaceFacts
<1>11. tree.flag[n] # "named" => tree.flag[n] = "token"
  BY <1>6 DEF FillsSlot
<1> QED
  BY <1>1, <1>2, <1>4, <1>7, <1>9, <1>10, <1>11 DEF n, Child, SlotOf, VisitorOf

\* The walk begins with the root, as what it is.
LEMMA BeginTells ==
  ASSUME VisitorsFollowGrammar, Grammatical(tree), IndInv, OrderInv, Begin
  PROVE  OrderInv' /\ Len(calls) < Len(calls') /\ IsPrefix(calls, calls')
<1>1. /\ tree \in PhpTrees /\ tree' = tree /\ pc' = "walking" /\ visitor = << >>
      /\ path = << >> /\ todo = << >> /\ calls = << >>
      /\ tree.type[ROOT] \in InnerTypes /\ EnterAs(Visit[tree.type[ROOT]], ROOT, << >>)
  BY DEF IndInv, OrderInv, Begin
<1>2. tree.type[ROOT] \in NodeTypes /\ tree.type[ROOT] \notin LeafTypes
  BY <1>1, TypesAreApart
<1>3. Visit[tree.type[ROOT]] = tree.type[ROOT]
  BY <1>2 DEF Visit, OneOf
<1> DEFINE nodes == Append(path, ROOT)
           ds == calls \o <<Told("enter", ROOT, nodes)>>
                   \o [i \in DOMAIN Extras(tree, ROOT) |-> Told("extra", Extras(tree, ROOT)[i], nodes)]
<1>4. /\ path' = nodes /\ calls' = ds /\ todo' = Append(todo, Slots(tree, ROOT))
      /\ visitor' = Append(visitor, tree.type[ROOT])
  BY <1>1, <1>3 DEF EnterAs
<1>5. Ready(tree, path, todo, visitor, calls, ROOT)
  BY <1>1, RootIsReady
<1>6. InOrder(tree, nodes, Append(todo, Slots(tree, ROOT)), Append(visitor, tree.type[ROOT]), ds, ROOT)
  BY <1>1, <1>2, <1>5, EnterOrder
<1>7. ROOT \in Nodes(tree) /\ path \in Seq(Nodes(tree)) /\ calls \in Seq(Calls(tree))
  BY <1>1, TreeFacts
<1>8. nodes \in Seq(Nodes(tree)) /\ nodes # << >>
  BY <1>7
<1> HIDE DEF nodes
<1>9. ds \in Seq(Calls(tree)) /\ Follows(ds, calls, Told("enter", ROOT, nodes))
  BY <1>1, <1>7, <1>8, EnterCalls
<1> HIDE DEF ds
<1>10. Len(calls) < Len(ds) /\ IsPrefix(calls, ds)
  BY <1>7, <1>9, FollowsIsLonger
<1>11. OrderInv'
  BY <1>1, <1>4, <1>6, <1>8 DEF OrderInv
<1> QED
  BY <1>4, <1>10, <1>11

\* It enters a child.
LEMMA EnterChildTells ==
  ASSUME VisitorsFollowGrammar, Grammatical(tree), IndInv, OrderInv, EnterChild
  PROVE  OrderInv' /\ Len(calls) < Len(calls') /\ IsPrefix(calls, calls')
<1> DEFINE n == Child
           nodes == Append(path, n)
           ds == calls \o <<Told("enter", n, nodes)>>
                   \o [i \in DOMAIN Extras(tree, n) |-> Told("extra", Extras(tree, n)[i], nodes)]
<1>1. /\ tree' = tree /\ pc' = pc /\ pc # "start" /\ pc # "done" /\ Walking /\ Last(todo) # << >>
      /\ VisitorOf(n) \in InnerTypes
      /\ path' = nodes /\ calls' = ds /\ todo' = Append(ChildDone, Slots(tree, n))
      /\ visitor' = Append(visitor, VisitorOf(n))
  BY DEF EnterChild, EnterAs, Walking
<1>2. /\ tree \in PhpTrees /\ path # << >> /\ Walks(tree, path, todo, calls)
      /\ path \in Seq(Nodes(tree)) /\ calls \in Seq(Calls(tree))
      /\ \E c : InOrder(tree, path, todo, visitor, calls, c)
      /\ VisitorOf(n) = tree.type[n] /\ n \in Nodes(tree)
      /\ n \notin InPlace(tree) => tree.type[n] = TOKEN
  BY <1>1, ChildFacts
<1>3. PICK c : InOrder(tree, path, todo, visitor, calls, c)
  BY <1>2
<1>4. /\ n \in InPlace(tree) /\ tree.type[n] \in NodeTypes /\ tree.type[n] \notin LeafTypes
  BY <1>1, <1>2, TypesAreApart
<1>5. n = Head(Last(todo)) /\ ChildDone = Append(Front(todo), Tail(Last(todo)))
  BY DEF Child, ChildDone
<1> HIDE DEF n
<1>6. Ready(tree, path, ChildDone, visitor, calls, n)
  BY <1>1, <1>2, <1>3, <1>4, <1>5, ChildIsReady
<1>7. InOrder(tree, nodes, Append(ChildDone, Slots(tree, n)), Append(visitor, tree.type[n]), ds, n)
  BY <1>2, <1>4, <1>6, EnterOrder
<1>8. nodes \in Seq(Nodes(tree)) /\ nodes # << >>
  BY <1>2
<1> HIDE DEF nodes
<1>9. ds \in Seq(Calls(tree)) /\ Follows(ds, calls, Told("enter", n, nodes))
  BY <1>2, <1>8, EnterCalls
<1> HIDE DEF ds
<1>10. Len(calls) < Len(ds) /\ IsPrefix(calls, ds)
  BY <1>2, <1>9, FollowsIsLonger
<1>11. OrderInv'
  <2>1. pc \in {"start", "walking", "done"}
    BY DEF OrderInv
  <2> QED
    BY <1>1, <1>2, <1>7, <1>8, <2>1 DEF OrderInv
<1> QED
  BY <1>1, <1>10, <1>11

\* It tells of a leaf.
LEMMA LeafChildTells ==
  ASSUME VisitorsFollowGrammar, Grammatical(tree), IndInv, OrderInv, LeafChild
  PROVE  OrderInv' /\ Len(calls) < Len(calls') /\ IsPrefix(calls, calls')
<1> DEFINE n == Child
           nodes == Append(path, n)
           x == Told("leaf", n, nodes)
           ds == Append(calls, x)
<1>1. /\ tree' = tree /\ pc' = pc /\ pc # "start" /\ pc # "done" /\ Walking /\ Last(todo) # << >>
      /\ VisitorOf(n) \in LeafTypes
      /\ path' = path /\ calls' = ds /\ todo' = ChildDone /\ visitor' = visitor
  BY DEF LeafChild, Walking
<1>2. /\ tree \in PhpTrees /\ path # << >> /\ Walks(tree, path, todo, calls)
      /\ path \in Seq(Nodes(tree)) /\ calls \in Seq(Calls(tree))
      /\ \E c : InOrder(tree, path, todo, visitor, calls, c)
      /\ VisitorOf(n) = tree.type[n] /\ n \in Nodes(tree)
      /\ n \notin InPlace(tree) => tree.type[n] = TOKEN
  BY <1>1, ChildFacts
<1>3. PICK c : InOrder(tree, path, todo, visitor, calls, c)
  BY <1>2
<1>4. n \in InPlace(tree) /\ tree.type[n] \in LeafTypes
  BY <1>1, <1>2, TypesAreApart
<1>5. n = Head(Last(todo)) /\ ChildDone = Append(Front(todo), Tail(Last(todo)))
  BY DEF Child, ChildDone
<1> HIDE DEF n
<1>6. Ready(tree, path, ChildDone, visitor, calls, n)
  BY <1>1, <1>2, <1>3, <1>4, <1>5, ChildIsReady
<1>7. InOrder(tree, path, ChildDone, visitor, ds, n)
  BY <1>2, <1>4, <1>6, LeafOrder
<1>8. nodes \in Seq(Nodes(tree))
  BY <1>2
<1> HIDE DEF nodes
<1>9. x \in Calls(tree)
  BY <1>2, <1>8, ToldIsCall
<1> HIDE DEF x
<1>10. ds \in Seq(Calls(tree)) /\ Follows(ds, calls, x)
  BY <1>2, <1>9, OneCall
<1> HIDE DEF ds
<1>11. Len(calls) < Len(ds) /\ IsPrefix(calls, ds)
  BY <1>2, <1>10, FollowsIsLonger
<1>12. OrderInv'
  <2>1. pc \in {"start", "walking", "done"}
    BY DEF OrderInv
  <2> QED
    BY <1>1, <1>2, <1>7, <2>1 DEF OrderInv
<1> QED
  BY <1>1, <1>11, <1>12

\* It passes over a token.
LEMMA PassChildTells ==
  ASSUME VisitorsFollowGrammar, Grammatical(tree), IndInv, OrderInv, PassChild
  PROVE  OrderInv' /\ tree' = tree /\ calls' = calls /\ pc' = pc
<1>1. /\ tree' = tree /\ pc' = pc /\ pc # "start" /\ pc # "done" /\ Walking /\ Last(todo) # << >>
      /\ Accepts(SlotOf(Child), tree.type[Child]) => VisitorOf(Child) = TOKEN
      /\ path' = path /\ calls' = calls /\ todo' = ChildDone /\ visitor' = visitor
  BY DEF PassChild, Walking
<1>2. /\ tree \in PhpTrees /\ path # << >> /\ Walks(tree, path, todo, calls)
      /\ \E c : InOrder(tree, path, todo, visitor, calls, c)
      /\ Accepts(SlotOf(Child), tree.type[Child]) /\ VisitorOf(Child) = tree.type[Child]
      /\ Child \in InPlace(tree) => tree.type[Child] \in NodeTypes
  BY <1>1, ChildFacts
<1>3. PICK c : InOrder(tree, path, todo, visitor, calls, c)
  BY <1>2
<1>4. Child \notin InPlace(tree)
  BY <1>1, <1>2, TypesAreApart
<1>5. Child = Head(Last(todo)) /\ ChildDone = Append(Front(todo), Tail(Last(todo)))
  BY DEF Child, ChildDone
<1>6. InOrder(tree, path, ChildDone, visitor, calls, c)
  BY <1>1, <1>2, <1>3, <1>4, <1>5, PassOrder
<1>7. OrderInv'
  <2>1. pc \in {"start", "walking", "done"}
    BY DEF OrderInv
  <2> QED
    BY <1>1, <1>2, <1>6, <2>1 DEF OrderInv
<1> QED
  BY <1>1, <1>7

\* It leaves a node.
LEMMA ExitNodeTells ==
  ASSUME IndInv, OrderInv, ExitNode
  PROVE  OrderInv' /\ tree' = tree /\ Len(calls) < Len(calls') /\ IsPrefix(calls, calls')
<1> DEFINE x == Told("exit", Last(path), path)
           ds == Append(calls, x)
<1>1. /\ tree' = tree /\ pc' = (IF Len(path) = 1 THEN "done" ELSE pc) /\ pc # "start" /\ pc # "done"
      /\ path # << >> /\ Last(todo) = << >>
      /\ path' = Front(path) /\ calls' = ds /\ todo' = Front(todo) /\ visitor' = Front(visitor)
  BY DEF ExitNode, Walking
<1>2. /\ tree \in PhpTrees /\ Walks(tree, path, todo, calls)
      /\ path \in Seq(Nodes(tree)) /\ calls \in Seq(Calls(tree))
  BY DEF IndInv, Walks
<1>3. PICK c : InOrder(tree, path, todo, visitor, calls, c)
  BY <1>1 DEF OrderInv
<1>4. InOrder(tree, Front(path), Front(todo), Front(visitor), ds, c)
  BY <1>1, <1>2, <1>3, ExitOrder
<1>5. x \in Calls(tree)
  <2>1. Last(path) \in Nodes(tree)
    BY <1>1, <1>2 DEF Last
  <2> QED
    BY <1>2, <2>1, ToldIsCall
<1> HIDE DEF x
<1>6. ds \in Seq(Calls(tree)) /\ Follows(ds, calls, x)
  BY <1>2, <1>5, OneCall
<1> HIDE DEF ds
<1>7. Len(calls) < Len(ds) /\ IsPrefix(calls, ds)
  BY <1>2, <1>6, FollowsIsLonger
<1>8. Front(path) = << >> <=> Len(path) = 1
  <2>1. Front(path) = SubSeq(path, 1, Len(path) - 1) /\ Len(path) \in Nat /\ Len(path) > 0
    BY <1>1, <1>2 DEF Front
  <2>2. ASSUME NEW S, NEW s \in Seq(S), NEW l \in Nat, l <= Len(s)
        PROVE  SubSeq(s, 1, l) = << >> <=> l = 0
    <3> DEFINE front == SubSeq(s, 1, l)
    <3>1. front \in Seq(S) /\ Len(front) = l
      BY <2>2
    <3> HIDE DEF front
    <3>2. front = << >> <=> Len(front) = 0
      BY <3>1, EmptySeq
    <3> QED
      BY <3>1, <3>2 DEF front
  <2>3. Len(path) - 1 \in Nat /\ Len(path) - 1 <= Len(path) /\ (Len(path) - 1 = 0 <=> Len(path) = 1)
    BY <2>1
  <2> QED
    BY <1>2, <2>1, <2>2, <2>3
<1>9. OrderInv'
  <2>1. pc \in {"start", "walking", "done"}
    BY DEF OrderInv
  <2>2. pc' \in {"walking", "done"} /\ (pc' = "done" <=> path' = << >>)
    BY <1>1, <1>8, <2>1
  <2> QED
    BY <1>1, <1>4, <2>2 DEF OrderInv
<1> QED
  BY <1>1, <1>7, <1>9

\* How far it has come is what it has told.
LEMMA OrderImplies == IndInv /\ OrderInv => SoFar
<1> SUFFICES ASSUME IndInv, OrderInv, pc # "start"
             PROVE  IsPrefix(calls, Telling(tree)) /\ (calls = Telling(tree) <=> pc = "done")
  BY DEF SoFar
<1>1. tree \in PhpTrees /\ path \in Seq(Nodes(tree)) /\ (pc = "done" <=> path = << >>)
  BY DEF IndInv, OrderInv, Walks
<1>2. PICK c : InOrder(tree, path, todo, visitor, calls, c)
  BY DEF OrderInv
<1> QED
  BY <1>1, <1>2, ToldSoFar

\* The trees are the same to the telling.
LEMMA SameTelling == \A t : Abstract!Telling(t) = Telling(t)
<1>1. Abstract!LeafTypes = LeafTypes
  BY DEF Abstract!LeafTypes, LeafTypes
<1>2. \A t : Abstract!Nodes(t) = Nodes(t)
  BY DEF Abstract!Nodes, Nodes
<1>3. \A t, n : Abstract!Below(t, n) = Below(t, n)
  BY <1>2 DEF Abstract!Below, Below
<1>4. \A t, s : Abstract!Ordered(t, s) = Ordered(t, s)
  BY DEF Abstract!Ordered, Ordered
<1>5. \A t : Abstract!Up(t) = Up(t)
  BY <1>2 DEF Abstract!Up, Up, Abstract!ROOT, ROOT
<1>6. \A t : Abstract!InPlace(t) = InPlace(t)
  BY <1>2, <1>5 DEF Abstract!InPlace, InPlace
<1>7. \A t, call, n, m : Abstract!CallOf(t, call, n, m) = CallOf(t, call, n, m)
  BY <1>5 DEF Abstract!CallOf, CallOf, Abstract!Cardinality, Cardinality
<1>8. \A t, m, n : Abstract!GoesOn(t, m, n) = GoesOn(t, m, n)
  BY <1>5, <1>6 DEF Abstract!GoesOn, GoesOn
<1>9. \A t, n : Abstract!Opening(t, n) = Opening(t, n)
  BY <1>1, <1>3, <1>4, <1>7 DEF Abstract!Opening, Opening
<1>10. \A t, n : Abstract!Exits(t, n) = Exits(t, n)
  BY <1>2, <1>7, <1>8 DEF Abstract!Exits, Exits
<1>11. \A t, n : Abstract!Closing(t, n) = Closing(t, n)
  BY <1>1, <1>10 DEF Abstract!Closing, Closing
<1>12. \A t : Abstract!TellingTo(t) = TellingTo(t)
  BY <1>6, <1>9, <1>11 DEF Abstract!TellingTo, TellingTo
<1> QED
  BY <1>12 DEF Abstract!Telling, Telling

\* Every step is one of the telling, or tells nothing.
LEMMA StepTells ==
  ASSUME VisitorsFollowGrammar, \A t \in PhpTrees : Grammatical(t)
  PROVE  IndInv /\ OrderInv /\ [Next]_vars =>
           OrderInv' /\ (SoFar' => [Abstract!Next]_(Abstract!vars))
<1> SUFFICES ASSUME IndInv, OrderInv, [Next]_vars
             PROVE  OrderInv' /\ (SoFar' => [Abstract!Next]_(Abstract!vars))
  OBVIOUS
<1>1. Grammatical(tree)
  BY DEF IndInv
<1>2. ASSUME OrderInv', pc # "done", pc' # "start", tree' = tree, Len(calls) < Len(calls'), IsPrefix(calls, calls'), SoFar'
      PROVE  Abstract!Next
  <2>1. IsPrefix(calls', Telling(tree)) /\ ((pc' = "done") = (calls' = Telling(tree)))
    BY <1>2 DEF SoFar
  <2>2. \A r, s : Abstract!IsPrefix(r, s) = IsPrefix(r, s)
    BY DEF Abstract!IsPrefix, IsPrefix
  <2> QED
    BY <1>2, <2>1, <2>2, SameTelling DEF Abstract!Next, Abstract!Tell
<1>3. CASE Begin
  <2>1. OrderInv' /\ Len(calls) < Len(calls') /\ IsPrefix(calls, calls')
    BY <1>1, <1>3, BeginTells
  <2>2. pc # "done" /\ pc' # "start" /\ tree' = tree
    BY <1>3 DEF Begin
  <2> QED
    BY <1>2, <2>1, <2>2
<1>4. CASE EnterChild
  <2>1. OrderInv' /\ Len(calls) < Len(calls') /\ IsPrefix(calls, calls')
    BY <1>1, <1>4, EnterChildTells
  <2>2. pc # "done" /\ pc' # "start" /\ tree' = tree
    BY <1>4 DEF EnterChild, Walking
  <2> QED
    BY <1>2, <2>1, <2>2
<1>5. CASE LeafChild
  <2>1. OrderInv' /\ Len(calls) < Len(calls') /\ IsPrefix(calls, calls')
    BY <1>1, <1>5, LeafChildTells
  <2>2. pc # "done" /\ pc' # "start" /\ tree' = tree
    BY <1>5 DEF LeafChild, Walking
  <2> QED
    BY <1>2, <2>1, <2>2
<1>6. CASE PassChild
  <2>1. OrderInv' /\ tree' = tree /\ calls' = calls /\ pc' = pc
    BY <1>1, <1>6, PassChildTells
  <2> QED
    BY <2>1 DEF Abstract!vars
<1>7. CASE ExitNode
  <2>1. OrderInv' /\ Len(calls) < Len(calls') /\ IsPrefix(calls, calls') /\ tree' = tree
    BY <1>7, ExitNodeTells
  <2>2. pc # "done" /\ pc' # "start"
    BY <1>7 DEF ExitNode, Walking
  <2> QED
    BY <1>2, <2>1, <2>2
<1>8. CASE UNCHANGED vars
  <2>1. /\ tree' = tree /\ path' = path /\ todo' = todo /\ visitor' = visitor
        /\ calls' = calls /\ pc' = pc
    BY <1>8 DEF vars
  <2>2. OrderInv'
    BY <2>1 DEF OrderInv
  <2> QED
    BY <2>1, <2>2 DEF Abstract!vars
<1> QED
  BY <1>3, <1>4, <1>5, <1>6, <1>7, <1>8 DEF Next, Walk, Idle

\* Whatever the tree, the listener is told of all that is in place in it, in the
\* order of the text and as what it is, and of nothing else: the walk implements
\* the telling of the tree.  The trees are those of the grammar, as far as errors
\* leave it, and the visit methods have a case for all that the grammar allows.
THEOREM WalkTellsTheTree ==
  ASSUME VisitorsFollowGrammar, \A t \in PhpTrees : Grammatical(t)
  PROVE  Spec => IsTreeWalk
<1>1. Init => OrderInv /\ Abstract!Init
  BY DEF Init, OrderInv, Abstract!Init
<1>2. IndInv /\ OrderInv => SoFar
  BY OrderImplies
<1>3. IndInv /\ OrderInv /\ [Next]_vars => OrderInv' /\ (SoFar' => [Abstract!Next]_(Abstract!vars))
  BY StepTells
<1> QED
  BY <1>1, <1>2, <1>3, InitKeeps, StepKeeps, PTL DEF Spec, IsTreeWalk, Abstract!Spec
=============================================================================
