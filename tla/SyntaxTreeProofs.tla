------------------------- MODULE SyntaxTreeProofs --------------------------
(***************************************************************************)
(* Theorems about SyntaxTree, for all the trees that are numbered in       *)
(* preorder: the C loop keeps its variable at the cursor, fills the rows   *)
(* in their order, and leaves an array that is the tree.                   *)
(***************************************************************************)
EXTENDS SyntaxTree, TLAPS, WellFoundedInduction

-----------------------------------------------------------------------------
(* Trees in preorder.                                                      *)

\* The node after one that is not a leaf is its first child.
LEMMA FirstChildFollows ==
    ASSUME NEW t, Preorder(t), NEW i \in Nodes(t), i < t.last[i]
    PROVE  i + 1 \in Nodes(t) /\ t.parent[i + 1] = i
<1>1. t.last[i] \in Nodes(t) BY DEF Preorder
<1>2. i + 1 \in Nodes(t) \ {0} /\ i + 1 \in Below(t, i) BY <1>1 DEF Nodes, Below, Preorder
<1> QED BY <1>2 DEF Preorder, Below, Nodes

\* A node is below its parent, with all that is below it.
LEMMA ParentReaches ==
    ASSUME NEW t, Preorder(t), NEW i \in Nodes(t) \ {0}
    PROVE  /\ t.parent[i] \in Nodes(t)
           /\ t.parent[i] < i
           /\ i \in Below(t, t.parent[i])
           /\ t.last[i] <= t.last[t.parent[i]]
<1> DEFINE p == t.parent[i]
<1>0. t.size \in Nat \ {0} /\ i \in 1..(t.size - 1) BY DEF Preorder, Nodes
<1>1. p \in Nodes(t) /\ p < i BY DEF Preorder, Nodes
<1>2. i \in Below(t, p) BY <1>1 DEF Preorder
<1>3. t.last[i] \in Nodes(t) /\ i <= t.last[i] BY DEF Preorder
<1>4. t.last[p] \in Nodes(t) BY <1>1 DEF Preorder
<1>5. ASSUME t.last[p] < t.last[i] PROVE FALSE
  <2> DEFINE k == t.last[p] + 1
  <2>1. i <= t.last[p] BY <1>2, <1>4 DEF Below, Nodes, Preorder
  <2>2. k \in Nodes(t) \ {0} /\ k \in Below(t, i) BY <2>1, <1>0, <1>1, <1>3, <1>4, <1>5 DEF Nodes, Below
  <2>3. t.parent[k] \in {i} \cup Below(t, i) BY <2>2 DEF Preorder
  <2>4. t.parent[k] \in 0..(k - 1) BY <2>2 DEF Preorder
  <2>5. t.parent[k] \in Below(t, p) BY <1>1, <1>2, <1>3, <1>4, <2>1, <2>3, <2>4 DEF Below, Nodes
  <2>6. k \in Below(t, p) BY <2>2, <2>5, <1>1 DEF Preorder
  <2> QED BY <2>6, <1>4 DEF Below, Nodes
<1> QED BY <1>1, <1>2, <1>3, <1>4, <1>5 DEF Nodes

\* The node after the last one below a node is its next sibling, unless the
\* parent ends there too.
LEMMA NextSiblingFollows ==
    ASSUME NEW t, Preorder(t), NEW i \in Nodes(t) \ {0}, t.last[i] < t.last[t.parent[i]]
    PROVE  t.last[i] + 1 \in Nodes(t) /\ t.parent[t.last[i] + 1] = t.parent[i]
<1> DEFINE p == t.parent[i]
           k == t.last[i] + 1
<1>0. t.size \in Nat \ {0} /\ i \in 1..(t.size - 1) BY DEF Preorder, Nodes
<1>1. p \in Nodes(t) /\ p < i /\ i \in Below(t, p) BY ParentReaches
<1>2. t.last[i] \in Nodes(t) /\ i <= t.last[i] /\ t.last[p] \in Nodes(t) BY <1>1 DEF Preorder
<1>3. k \in Nodes(t) \ {0} /\ k \in Below(t, p) BY <1>0, <1>1, <1>2 DEF Nodes, Below
<1> DEFINE q == t.parent[k]
<1>4. q \in {p} \cup Below(t, p) BY <1>1, <1>3 DEF Preorder
<1>5. q \in 0..(k - 1) /\ q \in Nodes(t)
  <2>1. q \in 0..(k - 1) BY <1>3 DEF Preorder
  <2> QED BY <2>1, <1>0, <1>3 DEF Nodes
<1>6. ~(k \in Below(t, i)) BY <1>2 DEF Below, Nodes
<1>7. ~(q \in {i} \cup Below(t, i)) BY <1>3, <1>6 DEF Preorder
<1>8. q < i BY <1>2, <1>5, <1>7 DEF Below, Nodes
<1>9. ASSUME q # p PROVE FALSE
  <2>1. q \in Below(t, p) BY <1>4, <1>9
  <2>2. p < q /\ q # 0 BY <2>1, <1>1, <1>5 DEF Below, Nodes
  <2>3. k \in Below(t, q) BY <1>3, <1>5 DEF Preorder
  <2>a. t.last[q] \in Nodes(t) BY <1>5 DEF Preorder
  <2>4. i \in Below(t, q) BY <1>0, <1>2, <1>8, <2>3, <2>a, <1>5 DEF Below, Nodes
  <2>5. p \in {q} \cup Below(t, q) BY <2>4, <1>5 DEF Preorder
  <2> QED BY <2>2, <2>5, <1>1, <1>5 DEF Below, Nodes
<1> QED BY <1>3, <1>9

\* The later siblings of a node come after all that is below it.
LEMMA SiblingsAreApart ==
    ASSUME NEW t, Preorder(t), NEW i \in Nodes(t) \ {0}, NEW j \in LaterSiblings(t, i)
    PROVE  t.last[i] < j /\ j <= t.last[t.parent[i]] /\ j \in Nodes(t) \ {0}
<1>1. j \in Nodes(t) \ {0} /\ i < j /\ t.parent[j] = t.parent[i] BY DEF LaterSiblings, Nodes
<1>2. t.parent[i] \in Nodes(t) /\ t.parent[i] < i /\ j \in Below(t, t.parent[i]) BY <1>1, ParentReaches
<1>3. t.last[i] \in Nodes(t) /\ t.last[t.parent[i]] \in Nodes(t) BY <1>2 DEF Preorder
<1>4. j \notin Below(t, i)
  <2>1. t.parent[i] \notin {i} \cup Below(t, i) BY <1>2 DEF Below, Nodes
  <2> QED BY <1>1, <2>1 DEF Preorder
<1> QED BY <1>1, <1>2, <1>3, <1>4 DEF Below, Nodes

\* A set of natural numbers has a least element.
LEMMA LeastExists ==
    ASSUME NEW S \in SUBSET Nat, S # {}
    PROVE  \E x \in S : \A y \in S : x <= y
<1>1. PICK x \in S : \A y \in S : ~ (<<y, x>> \in OpToRel(<, Nat))
  BY NatLessThanWellFounded, WFMin
<1>2. \A y \in S : x <= y
  <2>1. TAKE y \in S
  <2>2. ~ (<<y, x>> \in OpToRel(<, Nat)) BY <1>1
  <2>3. ~ (<<y, x>> \in {ss \in Nat \X Nat : ss[1] < ss[2]}) BY <2>2 DEF OpToRel
  <2>4. ~ (y < x) BY <2>3, Zenon
  <2> QED BY <2>4
<1> QED BY <1>2

\* So a set of numbers below a bound has a greatest one.
LEMMA GreatestExists ==
    ASSUME NEW n \in Nat, NEW S \in SUBSET (0..n), S # {}
    PROVE  \E x \in S : \A y \in S : y <= x
<1> DEFINE R == {n - x : x \in S}
<1>1. \A x \in S : n - x \in Nat OBVIOUS
<1>2. R \subseteq Nat /\ R # {} BY <1>1
<1>3. PICK m \in R : \A r \in R : m <= r BY <1>2, LeastExists
<1>4. PICK x \in S : m = n - x OBVIOUS
<1>5. \A y \in S : n - x <= n - y BY <1>3, <1>4
<1> QED BY <1>4, <1>5

-----------------------------------------------------------------------------
(* The walk.                                                               *)

IndInv ==
    /\ tree \in Trees
    /\ pc \in {"start", "descend", "climb", "flat", "search", "found"}
    /\ cursor \in Nodes(tree)
    /\ rows = [i \in DOMAIN rows |-> [parent |-> rows[i].parent, next |-> rows[i].next]]
    /\ pc = "start" => rows = << >> /\ cursor = 0
    /\ pc \in {"flat", "search", "found"} => DOMAIN rows = Nodes(tree)
    /\ NodeIsCursor
    /\ RowsFillUp
    /\ RowsFollowTree

\* The tree as it is parsed satisfies the invariant.
LEMMA InitEstablishes == Init => IndInv
<1> SUFFICES ASSUME Init PROVE IndInv OBVIOUS
<1>1. Preorder(tree) BY TreesAssumption DEF Init
<1>2. 0 \in Nodes(tree) BY <1>1 DEF Preorder, Nodes
<1>3. DOMAIN rows = {} /\ rows = [i \in DOMAIN rows |-> [parent |-> rows[i].parent, next |-> rows[i].next]]
  BY DEF Init
<1> QED BY <1>2, <1>3 DEF Init, IndInv, NodeIsCursor, RowsFillUp, RowsFollowTree

\* Every step keeps the invariant.
LEMMA StepKeeps == IndInv /\ [Next]_vars => IndInv'
<1> SUFFICES ASSUME IndInv, [Next]_vars PROVE IndInv' OBVIOUS
<1> USE DEF NONE
<1>0. Preorder(tree) BY TreesAssumption DEF IndInv
<1>1. tree.size \in Nat \ {0} /\ \A i \in Nodes(tree) : tree.last[i] \in Nodes(tree) /\ i <= tree.last[i]
  BY <1>0 DEF Preorder
<1>2. CASE VisitRoot
  <2>1. tree.parent[0] = NONE BY <1>0 DEF Preorder
  <2>2. rows' = [j \in {0} |-> [parent |-> NONE, next |-> NONE]]
    BY <1>2 DEF VisitRoot, Visit, IndInv
  <2>3. DOMAIN rows' = {0} /\ rows'[0] = [parent |-> NONE, next |-> NONE] BY <2>2
  <2>4. tree' = tree /\ pc' = "descend" /\ node' = 0 /\ cursor' = 0 BY <1>2 DEF VisitRoot, IndInv
  <2>5. RowsFillUp' BY <2>3, <2>4 DEF RowsFillUp
  <2>6. RowsFollowTree' BY <2>1, <2>3, <2>4 DEF RowsFollowTree, HasNextSibling, NextSibling, Nodes
  <2>7. rows' = [i \in DOMAIN rows' |-> [parent |-> rows'[i].parent, next |-> rows'[i].next]] BY <2>2
  <2>8. tree \in Trees /\ cursor \in Nodes(tree) /\ cursor' = cursor BY <1>2 DEF IndInv, VisitRoot
  <2>9. NodeIsCursor' BY <2>4 DEF NodeIsCursor
  <2>10. tree' \in Trees /\ cursor' \in Nodes(tree)' BY <2>4, <2>8 DEF Nodes
  <2>11. /\ pc' \in {"start", "descend", "climb", "flat", "search", "found"}
         /\ pc' # "start" /\ pc' \notin {"flat", "search", "found"}
    BY <2>4
  <2> QED BY <2>5, <2>6, <2>7, <2>9, <2>10, <2>11, Zenon DEF IndInv
<1>3. CASE VisitFirstChild
  <2> DEFINE k == cursor + 1
  <2>1. /\ pc = "descend" /\ pc' = "descend" /\ tree' = tree /\ cursor' = k /\ node' = k
        /\ node = cursor /\ cursor \in Nodes(tree) /\ cursor < tree.last[cursor]
        /\ DOMAIN rows = 0..cursor
    BY <1>3 DEF VisitFirstChild, IndInv, NodeIsCursor, RowsFillUp, HasFirstChild
  <2>2. k \in Nodes(tree) /\ tree.parent[k] = cursor BY <1>0, <2>1, FirstChildFollows
  <2>3. rows' = [j \in (0..cursor) \cup {k} |-> IF j = k THEN [parent |-> cursor, next |-> NONE] ELSE rows[j]]
    BY <1>3, <2>1 DEF VisitFirstChild, Visit
  <2>4. DOMAIN rows' = 0..k BY <2>1, <2>3 DEF Nodes
  <2>5. ASSUME NEW i \in 0..k
        PROVE  /\ rows'[i].parent = tree.parent[i]
               /\ rows'[i].next = IF HasNextSibling(i) /\ NextSibling(i) \in 0..k
                                  THEN NextSibling(i) ELSE NONE
    <3>1. i \in Nodes(tree) BY <1>1, <2>1, <2>2 DEF Nodes
    <3>2. CASE i = k
      <4>1. rows'[i] = [parent |-> cursor, next |-> NONE] BY <2>3, <3>2
      <4>2. NextSibling(i) \notin 0..k BY <1>1, <2>2, <3>2 DEF NextSibling, Nodes
      <4> QED BY <2>2, <3>2, <4>1, <4>2
    <3>3. CASE i # k
      <4>1. i \in 0..cursor /\ rows'[i] = rows[i] BY <2>1, <2>3, <3>3 DEF Nodes
      <4>2. /\ rows[i].parent = tree.parent[i]
            /\ rows[i].next = IF HasNextSibling(i) /\ NextSibling(i) \in 0..cursor
                              THEN NextSibling(i) ELSE NONE
        BY <2>1, <4>1 DEF IndInv, RowsFollowTree
      <4>3. ASSUME HasNextSibling(i), NextSibling(i) = k PROVE FALSE
        <5>1. i \in Nodes(tree) \ {0} /\ tree.last[i] < tree.last[tree.parent[i]]
          BY <3>1, <4>3 DEF HasNextSibling
        <5>2. tree.parent[k] = tree.parent[i] BY <1>0, <4>3, <5>1, NextSiblingFollows DEF NextSibling
        <5>3. tree.parent[i] < i BY <1>0, <5>1, ParentReaches
        <5> QED BY <2>1, <2>2, <4>1, <5>2, <5>3 DEF Nodes
      <4>4. NextSibling(i) \in 0..k <=> NextSibling(i) \in 0..cursor \/ NextSibling(i) = k
        BY <1>1, <2>1, <3>1 DEF NextSibling, Nodes
      <4> QED BY <4>1, <4>2, <4>3, <4>4
    <3> QED BY <3>2, <3>3
  <2>6. RowsFollowTree'
    BY <2>1, <2>4, <2>5 DEF RowsFollowTree, HasNextSibling, NextSibling
  <2>7. RowsFillUp' /\ NodeIsCursor' BY <2>1, <2>4 DEF RowsFillUp, NodeIsCursor
  <2>8. rows' = [i \in DOMAIN rows' |-> [parent |-> rows'[i].parent, next |-> rows'[i].next]]
    BY <2>1, <2>3 DEF IndInv
  <2> QED BY <2>1, <2>2, <2>6, <2>7, <2>8 DEF IndInv
<1>4. CASE ReachLeaf
  <2>1. tree.last[cursor] = cursor BY <1>1, <1>4 DEF ReachLeaf, HasFirstChild, IndInv, Nodes
  <2> QED BY <1>4, <2>1 DEF ReachLeaf, walkVars, searchVars, IndInv, NodeIsCursor, RowsFillUp,
        RowsFollowTree, HasNextSibling, NextSibling
<1>5. CASE Climb
  <2>1. cursor \in Nodes(tree) \ {0} /\ node = cursor /\ DOMAIN rows = 0..tree.last[cursor]
    BY <1>5 DEF Climb, IndInv, NodeIsCursor, RowsFillUp
  <2>2. rows[node].parent = tree.parent[cursor]
    BY <1>1, <2>1 DEF IndInv, RowsFollowTree, Nodes
  <2>3. tree.parent[cursor] \in Nodes(tree) /\ tree.last[cursor] = tree.last[tree.parent[cursor]]
    BY <1>0, <1>1, <1>5, <2>1, ParentReaches DEF Climb, HasNextSibling, Nodes
  <2> QED BY <1>5, <2>1, <2>2, <2>3 DEF Climb, searchVars, IndInv, NodeIsCursor, RowsFillUp,
        RowsFollowTree, HasNextSibling, NextSibling
<1>6. CASE VisitSibling
  <2> DEFINE k == tree.last[cursor] + 1
  <2>1. /\ pc = "climb" /\ pc' = "descend" /\ tree' = tree /\ cursor' = k /\ node' = k
        /\ node = cursor /\ cursor \in Nodes(tree) \ {0}
        /\ tree.last[cursor] < tree.last[tree.parent[cursor]]
        /\ DOMAIN rows = 0..tree.last[cursor]
    BY <1>6 DEF VisitSibling, IndInv, NodeIsCursor, RowsFillUp, HasNextSibling, NextSibling
  <2>2. k \in Nodes(tree) /\ tree.parent[k] = tree.parent[cursor] BY <1>0, <2>1, NextSiblingFollows
  <2>3. cursor \in 0..tree.last[cursor] /\ rows[cursor].parent = tree.parent[cursor] /\ cursor # k
    BY <1>1, <2>1 DEF IndInv, RowsFollowTree, Nodes
  <2>4. rows' = [j \in (0..tree.last[cursor]) \cup {k} |->
                   IF j = cursor THEN [rows[cursor] EXCEPT !.next = k]
                   ELSE IF j = k THEN [parent |-> tree.parent[cursor], next |-> NONE] ELSE rows[j]]
    BY <1>6, <2>1, <2>3 DEF VisitSibling, Visit, NextSibling
  <2>5. DOMAIN rows' = 0..k BY <1>1, <2>1, <2>4 DEF Nodes
  <2>6. ASSUME NEW i \in 0..k
        PROVE  /\ rows'[i].parent = tree.parent[i]
               /\ rows'[i].next = IF HasNextSibling(i) /\ NextSibling(i) \in 0..k
                                  THEN NextSibling(i) ELSE NONE
    <3>1. i \in Nodes(tree) BY <1>1, <2>1, <2>2 DEF Nodes
    <3>2. CASE i = k
      <4>1. rows'[i] = [parent |-> tree.parent[cursor], next |-> NONE] BY <2>3, <2>4, <3>2
      <4>2. NextSibling(i) \notin 0..k BY <1>1, <2>2, <3>2 DEF NextSibling, Nodes
      <4> QED BY <2>2, <3>2, <4>1, <4>2
    <3>3. CASE i = cursor
      <4>1. rows'[i] = [rows[cursor] EXCEPT !.next = k] BY <2>3, <2>4, <3>3
      <4>2. rows[cursor] = [parent |-> rows[cursor].parent, next |-> rows[cursor].next]
        BY <2>1, <2>3 DEF IndInv
      <4>3. rows'[i].parent = tree.parent[i] /\ rows'[i].next = k BY <2>3, <3>3, <4>1, <4>2
      <4>4. HasNextSibling(i) /\ NextSibling(i) = k /\ k \in 0..k
        BY <1>1, <2>1, <2>2, <3>3 DEF HasNextSibling, NextSibling, Nodes
      <4> QED BY <4>3, <4>4
    <3>4. CASE i # k /\ i # cursor
      <4>1. i \in 0..tree.last[cursor] /\ rows'[i] = rows[i] BY <1>1, <2>1, <2>4, <3>4 DEF Nodes
      <4>2. /\ rows[i].parent = tree.parent[i]
            /\ rows[i].next = IF HasNextSibling(i) /\ NextSibling(i) \in 0..tree.last[cursor]
                              THEN NextSibling(i) ELSE NONE
        BY <2>1, <4>1 DEF IndInv, RowsFollowTree
      <4>3. ASSUME HasNextSibling(i), NextSibling(i) = k PROVE FALSE
        <5>1. i \in Nodes(tree) \ {0} /\ tree.last[i] < tree.last[tree.parent[i]]
          BY <3>1, <4>3 DEF HasNextSibling
        <5>2. tree.parent[cursor] = tree.parent[i] /\ tree.last[i] = tree.last[cursor]
          BY <1>0, <1>1, <2>1, <2>2, <4>3, <5>1, NextSiblingFollows DEF NextSibling, Nodes
        <5>3. CASE i < cursor
          <6>1. cursor \in LaterSiblings(tree, i) BY <2>1, <5>2, <5>3 DEF LaterSiblings
          <6> QED BY <1>0, <1>1, <2>1, <5>1, <5>2, <6>1, SiblingsAreApart DEF Nodes
        <5>4. CASE cursor < i
          <6>1. i \in LaterSiblings(tree, cursor) BY <5>1, <5>2, <5>4 DEF LaterSiblings
          <6> QED BY <1>0, <1>1, <2>1, <5>1, <5>2, <6>1, SiblingsAreApart DEF Nodes
        <5> QED BY <1>1, <2>1, <3>1, <3>4, <5>3, <5>4 DEF Nodes
      <4>4. NextSibling(i) \in 0..k <=> NextSibling(i) \in 0..tree.last[cursor] \/ NextSibling(i) = k
        BY <1>1, <2>1, <3>1 DEF NextSibling, Nodes
      <4> QED BY <4>1, <4>2, <4>3, <4>4
    <3> QED BY <3>2, <3>3, <3>4
  <2>7. RowsFollowTree'
    BY <2>1, <2>5, <2>6 DEF RowsFollowTree, HasNextSibling, NextSibling
  <2>8. RowsFillUp' /\ NodeIsCursor' BY <2>1, <2>5 DEF RowsFillUp, NodeIsCursor
  <2>9. rows' = [i \in DOMAIN rows' |-> [parent |-> rows'[i].parent, next |-> rows'[i].next]]
    <3>1. \A i \in 0..tree.last[cursor] : rows[i] = [parent |-> rows[i].parent, next |-> rows[i].next]
      BY <2>1 DEF IndInv
    <3>2. rows' = [i \in DOMAIN rows' |-> rows'[i]] BY <2>4
    <3>3. ASSUME NEW i \in DOMAIN rows'
          PROVE  rows'[i] = [parent |-> rows'[i].parent, next |-> rows'[i].next]
      <4>1. CASE i = cursor
        <5>1. rows'[i] = [rows[cursor] EXCEPT !.next = k] BY <2>3, <2>4, <4>1
        <5>2. rows[cursor] = [parent |-> rows[cursor].parent, next |-> rows[cursor].next]
          BY <2>3, <3>1
        <5>3. rows'[i] = [parent |-> rows[cursor].parent, next |-> k] BY <5>1, <5>2
        <5> QED BY <5>3
      <4>2. CASE i = k
        <5>1. rows'[i] = [parent |-> tree.parent[cursor], next |-> NONE] BY <2>3, <2>4, <4>2
        <5> QED BY <5>1
      <4>3. CASE i # cursor /\ i # k
        <5>1. i \in 0..tree.last[cursor] /\ rows'[i] = rows[i] BY <2>4, <4>3
        <5> QED BY <3>1, <5>1
      <4> QED BY <4>1, <4>2, <4>3
    <3> QED BY <3>2, <3>3
  <2> QED BY <2>1, <2>2, <2>7, <2>8, <2>9 DEF IndInv
<1>7. CASE EndWalk
  <2>1. node = 0 /\ cursor = 0 /\ DOMAIN rows = 0..tree.last[0]
    BY <1>7 DEF EndWalk, IndInv, NodeIsCursor, RowsFillUp
  <2>2. DOMAIN rows = Nodes(tree) BY <1>0, <2>1 DEF Preorder, Nodes
  <2> QED BY <1>7, <2>2 DEF EndWalk, walkVars, searchVars, IndInv, NodeIsCursor, RowsFillUp,
        RowsFollowTree, HasNextSibling, NextSibling
<1>8. CASE Search \/ Idle \/ (\E i \in Nodes(tree) : Ask(i)) \/ UNCHANGED vars
  <2>1. UNCHANGED <<tree, walkVars>>
    BY <1>8 DEF Search, PassChild, EnterChild, Answer, Idle, Ask, vars, walkVars
  <2>2. pc' = pc \/ (pc \in {"flat", "search", "found"} /\ pc' \in {"flat", "search", "found"})
    BY <1>8 DEF Search, PassChild, EnterChild, Answer, Idle, Ask, vars
  <2> QED BY <2>1, <2>2 DEF walkVars, IndInv, NodeIsCursor, RowsFillUp,
        RowsFollowTree, HasNextSibling, NextSibling
<1> QED BY <1>2, <1>3, <1>4, <1>5, <1>6, <1>7, <1>8 DEF Next, Walk

\* The invariant of the walk and the search holds for any tree and any question.
THEOREM IndInvHolds == Spec => []IndInv
BY InitEstablishes, StepKeeps, PTL DEF Spec

\* The variable of the C loop is the position of the cursor, in every tree.
THEOREM NodeStaysAtCursor == Spec => []NodeIsCursor
<1>1. IndInv => NodeIsCursor BY DEF IndInv
<1> QED BY <1>1, IndInvHolds, PTL

-----------------------------------------------------------------------------
(* The array.                                                              *)

\* firstChild leads to the first of the children.
LEMMA FirstChildIsLeast ==
    ASSUME IndInv, DOMAIN rows = Nodes(tree), NEW i \in Nodes(tree)
    PROVE  IsLeast(FirstChild(i), Children(tree, i))
<1>0. Preorder(tree) BY TreesAssumption DEF IndInv
<1>1. \A j \in Nodes(tree) : rows[j].parent = tree.parent[j] BY DEF IndInv, RowsFollowTree
<1>2. tree.size \in Nat \ {0} /\ tree.last[i] \in Nodes(tree) /\ tree.parent[0] = NONE BY <1>0 DEF Preorder
<1>3. \A j \in Children(tree, i) : j \in Nodes(tree) /\ i < j /\ i < tree.last[i]
  <2>1. TAKE j \in Children(tree, i)
  <2>2. j \in Nodes(tree) \ {0} BY <1>2 DEF Children, Nodes, NONE
  <2>3. i < j /\ j \in Below(tree, i) BY <1>0, <2>2, ParentReaches DEF Children
  <2> QED BY <1>2, <2>2, <2>3 DEF Below, Nodes
<1>4. CASE i + 1 \in Nodes(tree) /\ tree.parent[i + 1] = i
  <2>1. FirstChild(i) = i + 1 BY <1>1, <1>4 DEF FirstChild
  <2>2. i + 1 \in Children(tree, i) BY <1>4 DEF Children
  <2>3. \A j \in Children(tree, i) : i + 1 <= j BY <1>3 DEF Nodes
  <2> QED BY <2>1, <2>2, <2>3 DEF IsLeast
<1>5. CASE ~(i + 1 \in Nodes(tree) /\ tree.parent[i + 1] = i)
  <2>1. FirstChild(i) = NONE BY <1>1, <1>5 DEF FirstChild
  <2>2. ~(i < tree.last[i]) BY <1>0, <1>5, FirstChildFollows
  <2>3. Children(tree, i) = {} BY <1>3, <2>2
  <2> QED BY <2>1, <2>3 DEF IsLeast
<1> QED BY <1>4, <1>5

\* The NEXT column leads to the nearest later sibling.
LEMMA NextIsLeast ==
    ASSUME IndInv, DOMAIN rows = Nodes(tree), NEW i \in Nodes(tree)
    PROVE  IsLeast(rows[i].next, LaterSiblings(tree, i))
<1>0. Preorder(tree) BY TreesAssumption DEF IndInv
<1>1. rows[i].next = IF HasNextSibling(i) /\ NextSibling(i) \in Nodes(tree) THEN NextSibling(i) ELSE NONE
  BY DEF IndInv, RowsFollowTree
<1>2. /\ tree.size \in Nat \ {0} /\ tree.parent[0] = NONE
      /\ tree.last[i] \in Nodes(tree) /\ i <= tree.last[i]
      /\ \A j \in Nodes(tree) \ {0} : tree.parent[j] \in 0..(j - 1)
  BY <1>0 DEF Preorder
<1>3. CASE i = 0
  <2>1. LaterSiblings(tree, i) = {} BY <1>2, <1>3 DEF LaterSiblings, Nodes, NONE
  <2> QED BY <1>1, <1>3, <2>1 DEF HasNextSibling, IsLeast
<1>4. CASE i # 0 /\ tree.last[i] < tree.last[tree.parent[i]]
  <2>1. tree.last[i] + 1 \in Nodes(tree) /\ tree.parent[tree.last[i] + 1] = tree.parent[i]
    BY <1>0, <1>4, NextSiblingFollows
  <2>2. rows[i].next = tree.last[i] + 1 BY <1>1, <1>4, <2>1 DEF HasNextSibling, NextSibling
  <2>3. tree.last[i] + 1 \in LaterSiblings(tree, i) BY <1>2, <2>1 DEF LaterSiblings, Nodes
  <2>4. \A j \in LaterSiblings(tree, i) : tree.last[i] + 1 <= j
    <3>1. TAKE j \in LaterSiblings(tree, i)
    <3>2. tree.last[i] < j /\ j \in Nodes(tree) BY <1>0, <1>4, SiblingsAreApart
    <3> QED BY <1>2, <3>2 DEF Nodes
  <2> QED BY <2>2, <2>3, <2>4 DEF IsLeast
<1>5. CASE i # 0 /\ ~(tree.last[i] < tree.last[tree.parent[i]])
  <2>1. tree.last[tree.parent[i]] \in Nodes(tree) BY <1>0, <1>5, ParentReaches DEF Preorder
  <2>2. ASSUME NEW j \in LaterSiblings(tree, i) PROVE FALSE
    <3>1. tree.last[i] < j /\ j <= tree.last[tree.parent[i]] /\ j \in Nodes(tree)
      BY <1>0, <1>5, SiblingsAreApart
    <3> QED BY <1>2, <1>5, <2>1, <3>1 DEF Nodes
  <2>3. LaterSiblings(tree, i) = {} BY <2>2
  <2> QED BY <1>1, <1>5, <2>3 DEF HasNextSibling, IsLeast
<1> QED BY <1>3, <1>4, <1>5

\* The sibling whose NEXT column leads here is the nearest earlier one.
LEMMA PrevIsGreatest ==
    ASSUME IndInv, DOMAIN rows = Nodes(tree), NEW i \in Nodes(tree)
    PROVE  IsGreatest(PrevSibling(i), {j \in Nodes(tree) : i \in LaterSiblings(tree, j)})
<1> DEFINE E == {j \in Nodes(tree) : i \in LaterSiblings(tree, j)}
<1>0. tree.size \in Nat \ {0} BY TreesAssumption DEF IndInv, Preorder
<1>1. \A j \in Nodes(tree) : IsLeast(rows[j].next, LaterSiblings(tree, j)) BY NextIsLeast
<1>2. i # NONE BY DEF Nodes, NONE
<1>3. \A j \in Nodes(tree) : rows[j].next = i => j \in E BY <1>1, <1>2 DEF IsLeast
<1>4. CASE E = {}
  <2>1. PrevSibling(i) = NONE BY <1>3, <1>4 DEF PrevSibling
  <2> QED BY <1>4, <2>1 DEF IsGreatest
<1>5. CASE E # {}
  <2>1. E \in SUBSET (0..(tree.size - 1)) /\ tree.size - 1 \in Nat BY <1>0 DEF Nodes
  <2> HIDE DEF E
  <2>2. PICK g \in E : \A y \in E : y <= g BY <1>5, <2>1, GreatestExists
  <2>3. rows[g].next = i
    <3>1. g \in Nodes(tree) /\ i \in LaterSiblings(tree, g) BY DEF E
    <3>2. /\ rows[g].next \in LaterSiblings(tree, g)
          /\ \A j \in LaterSiblings(tree, g) : rows[g].next <= j
      BY <1>1, <3>1 DEF IsLeast
    <3>3. rows[g].next \in Nodes(tree) /\ g < rows[g].next /\ rows[g].next <= i
      BY <3>1, <3>2 DEF LaterSiblings
    <3>4. ASSUME rows[g].next # i PROVE FALSE
      <4>1. rows[g].next < i BY <3>3, <3>4 DEF Nodes
      <4>2. rows[g].next \in E BY <3>1, <3>2, <3>3, <4>1 DEF E, LaterSiblings
      <4> QED BY <2>2, <3>1, <3>3, <4>2 DEF Nodes
    <3> QED BY <3>4
  <2>4. \E j \in DOMAIN rows : rows[j].next = i BY <2>3 DEF E
  <2> DEFINE h == PrevSibling(i)
  <2>5. h \in Nodes(tree) /\ rows[h].next = i BY <2>4 DEF PrevSibling
  <2> HIDE DEF h
  <2>6. h \in E BY <1>3, <2>5
  <2>7. ASSUME NEW y \in E PROVE y <= h
    <3>1. /\ y \in Nodes(tree) /\ i \in LaterSiblings(tree, y) /\ i \in LaterSiblings(tree, h)
      BY <2>6 DEF E
    <3>2. \A j \in LaterSiblings(tree, h) : i <= j BY <1>1, <2>5, <3>1 DEF IsLeast
    <3>3. ASSUME h < y PROVE FALSE
      <4>1. y \in LaterSiblings(tree, h) BY <3>1, <3>3 DEF LaterSiblings
      <4>2. i <= y /\ y < i BY <3>1, <3>2, <4>1 DEF LaterSiblings
      <4> QED BY <3>1, <4>2 DEF Nodes
    <3> QED BY <2>5, <3>1, <3>3 DEF Nodes
  <2> QED BY <1>5, <2>6, <2>7 DEF IsGreatest, E, h
<1> QED BY <1>4, <1>5

\* Of every tree the finished walk leaves an array that is the tree.
THEOREM ArrayIsTheTree == Spec => []RowsAreTheTree
<1>1. IndInv => RowsAreTheTree
  <2> SUFFICES ASSUME IndInv, pc \in {"flat", "search", "found"} PROVE RowsAreTheTree!2
    BY DEF RowsAreTheTree
  <2>1. DOMAIN rows = Nodes(tree) BY DEF IndInv
  <2>2. \A i \in Nodes(tree) : rows[i].parent = tree.parent[i] BY <2>1 DEF IndInv, RowsFollowTree
  <2> QED BY <2>1, <2>2, FirstChildIsLeast, NextIsLeast, PrevIsGreatest
<1> QED BY <1>1, IndInvHolds, PTL

\* No step changes a row but to link it to its next sibling.
THEOREM RowsStay == Spec => RowsNeverChange
<1>1. IndInv /\ IndInv' /\ [Next]_vars =>
        [\A i \in DOMAIN rows :
           /\ i \in DOMAIN rows' /\ rows'[i].parent = rows[i].parent
           /\ rows[i].next # NONE => rows'[i].next = rows[i].next]_vars
  <2> SUFFICES ASSUME IndInv, IndInv', [Next]_vars, NEW i \in DOMAIN rows
               PROVE  /\ i \in DOMAIN rows' /\ rows'[i].parent = rows[i].parent
                      /\ rows[i].next # NONE => rows'[i].next = rows[i].next
    OBVIOUS
  <2>1. tree' = tree /\ DOMAIN rows \subseteq DOMAIN rows'
    BY DEF Next, Walk, Search, VisitRoot, VisitFirstChild, ReachLeaf, Climb, VisitSibling, EndWalk,
           Ask, PassChild, EnterChild, Answer, Idle, Visit, vars, walkVars, searchVars
  <2> QED BY <2>1 DEF IndInv, RowsFollowTree, HasNextSibling, NextSibling
<1> QED BY <1>1, IndInvHolds, PTL DEF Spec, RowsNeverChange

-----------------------------------------------------------------------------
(* The search.                                                             *)

\* What is below a node lies within it.
LEMMA BelowIsWithin ==
    ASSUME NEW t, Preorder(t), Placed(t), NEW i \in Nodes(t), NEW j \in Below(t, i)
    PROVE  j \in Nodes(t) \ {0} /\ t.start[i] <= t.start[j] /\ t.end[j] <= t.end[i]
<1> DEFINE S == {k \in Below(t, i) : ~(t.start[i] <= t.start[k] /\ t.end[k] <= t.end[i])}
<1>1. t.size \in Nat \ {0} /\ t.last[i] \in Nodes(t) BY DEF Preorder
<1>2. \A k \in Below(t, i) : k \in Nodes(t) \ {0} /\ i < k BY <1>1 DEF Below, Nodes
<1>3. ASSUME S # {} PROVE FALSE
  <2>1. S \in SUBSET Nat BY <1>2 DEF Nodes
  <2> HIDE DEF S
  <2>2. PICK m \in S : \A k \in S : m <= k BY <1>3, <2>1, LeastExists
  <2>3. m \in Below(t, i) /\ m \in Nodes(t) \ {0} BY <1>2 DEF S
  <2> DEFINE p == t.parent[m]
  <2>4. p \in {i} \cup Below(t, i) /\ p \in Nodes(t) /\ p < m BY <2>3, ParentReaches DEF Preorder
  <2>5. p \notin S BY <2>1, <2>2, <2>4 DEF Nodes
  <2>6. t.start[i] \in Nat /\ t.end[i] \in Nat /\ t.start[p] \in Nat /\ t.end[p] \in Nat
        /\ t.start[m] \in Nat /\ t.end[m] \in Nat
    BY <2>3, <2>4 DEF Placed
  <2>7. t.start[i] <= t.start[p] /\ t.end[p] <= t.end[i] BY <2>4, <2>5, <2>6 DEF S
  <2>8. t.start[p] <= t.start[m] /\ t.end[m] <= t.end[p] BY <2>3 DEF Placed
  <2>9. t.start[i] <= t.start[m] /\ t.end[m] <= t.end[i] BY <2>6, <2>7, <2>8
  <2> QED BY <2>2, <2>9 DEF S
<1> QED BY <1>2, <1>3

\* The way from a node to one below it begins with a child.
LEMMA ChildToward ==
    ASSUME NEW t, Preorder(t), NEW i \in Nodes(t), NEW j \in Below(t, i)
    PROVE  \E c \in Children(t, i) : j \in {c} \cup Below(t, c)
<1> DEFINE S == {k \in Below(t, i) : ~ \E c \in Children(t, i) : k \in {c} \cup Below(t, c)}
<1>1. t.size \in Nat \ {0} /\ t.last[i] \in Nodes(t) BY DEF Preorder
<1>2. \A k \in Below(t, i) : k \in Nodes(t) \ {0} BY <1>1 DEF Below, Nodes
<1>3. ASSUME S # {} PROVE FALSE
  <2>1. S \in SUBSET Nat BY <1>2 DEF Nodes
  <2> HIDE DEF S
  <2>2. PICK m \in S : \A k \in S : m <= k BY <1>3, <2>1, LeastExists
  <2>3. m \in Below(t, i) /\ m \in Nodes(t) \ {0} BY <1>2 DEF S
  <2> DEFINE p == t.parent[m]
  <2>4. p \in {i} \cup Below(t, i) /\ p \in Nodes(t) /\ p < m BY <2>3, ParentReaches DEF Preorder
  <2>5. p \notin S BY <2>1, <2>2, <2>4 DEF Nodes
  <2>6. CASE p = i
    <3>1. m \in Children(t, i) BY <2>3, <2>6 DEF Children
    <3> QED BY <2>2, <3>1 DEF S
  <2>7. CASE p \in Below(t, i)
    <3>1. PICK c \in Children(t, i) : p \in {c} \cup Below(t, c) BY <2>5, <2>7 DEF S
    <3>2. m \in Below(t, c) BY <2>3, <3>1 DEF Preorder, Children
    <3> QED BY <2>2, <3>1, <3>2 DEF S
  <2> QED BY <2>4, <2>6, <2>7
<1> QED BY <1>3

\* The node asked for, the node reached, the children still to be looked at.  The
\* node reached has the range in it; it is on the way to the node asked for or
\* below that; all its children before the next one have been passed.
SearchInv ==
    /\ pc = "search" =>
         /\ asked \in Nodes(tree) /\ at \in Nodes(tree)
         /\ tree.start[asked] < tree.end[asked]
         /\ tree.start[at] <= tree.start[asked] /\ tree.end[asked] <= tree.end[at]
         /\ asked \in {at} \cup Below(tree, at) \/ at \in Below(tree, asked)
         /\ child = NONE \/ child \in Children(tree, at)
         /\ \A k \in Children(tree, at) : child = NONE \/ k < child => IsPassed(k)
    /\ AnswerHasTheRange

\* The facts about the tree that every step of the search needs.
LEMMA Facts ==
    ASSUME IndInv
    PROVE  /\ Preorder(tree) /\ Placed(tree)
           /\ \A i \in Nodes(tree) : /\ tree.start[i] \in Nat /\ tree.end[i] \in Nat /\ i \in Nat
                                     /\ tree.start[i] <= tree.end[i]
           /\ 0 \in Nodes(tree)
           /\ \A i \in Nodes(tree) : \A c \in Children(tree, i) : c \in Nodes(tree) \ {0} /\ c \in Below(tree, i)
<1>1. Preorder(tree) /\ Placed(tree) BY TreesAssumption DEF IndInv
<1>2. tree.size \in Nat \ {0} BY <1>1 DEF Preorder
<1>3. ASSUME NEW i \in Nodes(tree), NEW c \in Children(tree, i)
      PROVE  c \in Nodes(tree) \ {0} /\ c \in Below(tree, i)
  <2>1. c \in Nodes(tree) \ {0} BY <1>1, <1>3 DEF Children, Preorder, Nodes, NONE
  <2> QED BY <1>1, <1>3, <2>1, ParentReaches DEF Children
<1> QED BY <1>1, <1>2, <1>3 DEF Placed, Nodes

\* A child that has the range in it is not passed, nor is one after the next child
\* that does: the search cannot miss it.
LEMMA RangeIsAhead ==
    ASSUME IndInv, SearchInv, pc = "search", NEW c \in Children(tree, at),
           tree.start[c] <= tree.start[asked], tree.end[asked] <= tree.end[c]
    PROVE  /\ child # NONE /\ child \in Nodes(tree)
           /\ tree.start[child] <= tree.start[asked]
           /\ child = c \/ tree.end[child] <= tree.start[asked]
<1>1. /\ asked \in Nodes(tree) /\ at \in Nodes(tree) /\ tree.start[asked] < tree.end[asked]
      /\ child = NONE \/ child \in Children(tree, at)
      /\ \A k \in Children(tree, at) : child = NONE \/ k < child => IsPassed(k)
  BY DEF SearchInv
<1>2. c \in Nodes(tree) \ {0} /\ (child # NONE => child \in Nodes(tree) \ {0}) BY <1>1, Facts
<1>3. ~IsPassed(c) BY <1>1, <1>2, Facts DEF IsPassed
<1>4. child # NONE /\ child <= c BY <1>1, <1>2, <1>3, Facts
<1>5. CASE child = c BY <1>2, <1>4, <1>5
<1>6. CASE child < c
  <2>1. c \in LaterSiblings(tree, child) BY <1>1, <1>2, <1>4, <1>6 DEF LaterSiblings, Children
  <2>2. tree.end[child] <= tree.start[c] BY <1>2, <1>4, <2>1, Facts DEF Placed
  <2> QED BY <1>1, <1>2, <1>4, <2>2, Facts
<1> QED BY <1>1, <1>2, <1>4, <1>5, <1>6, Facts

\* A step of the search keeps what the answer rests on.
LEMMA SearchKeeps == IndInv /\ IndInv' /\ SearchInv /\ [Next]_vars => SearchInv'
<1> SUFFICES ASSUME IndInv, IndInv', SearchInv, [Next]_vars PROVE SearchInv'
  OBVIOUS
<1>1. CASE Walk
  <2>1. pc' \notin {"search", "found"}
    BY <1>1 DEF Walk, VisitRoot, VisitFirstChild, ReachLeaf, Climb, VisitSibling, EndWalk
  <2> QED BY <2>1 DEF SearchInv, AnswerHasTheRange
<1>2. ASSUME NEW i \in Nodes(tree), Ask(i) PROVE SearchInv'
  <2>1. tree' = tree /\ pc' = "search" /\ asked' = i /\ at' = 0 /\ child' = FirstChild(0)
        /\ tree.start[i] < tree.end[i] /\ DOMAIN rows = Nodes(tree)
    BY <1>2 DEF Ask, IndInv
  <2>2. i \in {0} \cup Below(tree, 0) BY Facts DEF Below, Nodes, Preorder
  <2>3. tree.start[0] <= tree.start[i] /\ tree.end[i] <= tree.end[0] BY <2>2, Facts, BelowIsWithin
  <2>4. IsLeast(FirstChild(0), Children(tree, 0)) BY <2>1, Facts, FirstChildIsLeast
  <2>5. \A k \in Children(tree, 0) : ~(FirstChild(0) = NONE \/ k < FirstChild(0))
    BY <2>4, Facts DEF IsLeast, NONE
  <2>6. FirstChild(0) = NONE \/ FirstChild(0) \in Children(tree, 0) BY <2>4 DEF IsLeast
  <2> QED BY <2>1, <2>2, <2>3, <2>5, <2>6, Facts DEF SearchInv, AnswerHasTheRange
<1>3. CASE PassChild
  <2>1. /\ pc = "search" /\ pc' = "search" /\ tree' = tree /\ asked' = asked /\ at' = at
        /\ child # NONE /\ IsPassed(child) /\ child' = rows[child].next /\ DOMAIN rows = Nodes(tree)
    BY <1>3 DEF PassChild, IndInv, walkVars
  <2>2. child \in Children(tree, at) /\ child \in Nodes(tree) \ {0} /\ at \in Nodes(tree)
    BY <2>1, Facts DEF SearchInv
  <2>3. IsLeast(child', LaterSiblings(tree, child)) BY <2>1, <2>2, NextIsLeast
  <2>4. child' = NONE \/ child' \in Children(tree, at) BY <2>2, <2>3 DEF IsLeast, LaterSiblings, Children
  <2>5. ASSUME NEW k \in Children(tree, at), child' = NONE \/ k < child' PROVE IsPassed(k)
    <3>1. k \in Nodes(tree) BY DEF Children
    <3>2. CASE k < child BY <2>1, <3>2 DEF SearchInv
    <3>3. CASE child < k
      <4>1. k \in LaterSiblings(tree, child) BY <2>2, <3>1, <3>3 DEF LaterSiblings, Children
      <4>2. child' \in Nodes(tree) /\ child' <= k BY <2>3, <4>1 DEF IsLeast, LaterSiblings
      <4> QED BY <2>5, <3>1, <4>2, Facts DEF NONE
    <3> QED BY <2>1, <2>2, <3>1, <3>2, <3>3, Facts
  <2>6. \A k \in Nodes(tree) : IsPassed(k)' <=> IsPassed(k) BY <2>1 DEF IsPassed
  <2>7. \A k \in Children(tree, at) : k \in Nodes(tree) BY DEF Children
  <2> QED BY <2>1, <2>4, <2>5, <2>6, <2>7 DEF SearchInv, AnswerHasTheRange
<1>4. CASE EnterChild
  <2> DEFINE c == child
  <2>1. /\ pc = "search" /\ pc' = "search" /\ tree' = tree /\ asked' = asked /\ at' = c /\ child' = FirstChild(c)
        /\ c # NONE /\ ~IsPassed(c) /\ tree.start[c] <= tree.start[asked] /\ DOMAIN rows = Nodes(tree)
    BY <1>4 DEF EnterChild, IndInv, walkVars
  <2>2. /\ c \in Children(tree, at) /\ asked \in Nodes(tree) /\ at \in Nodes(tree)
        /\ tree.start[asked] < tree.end[asked]
        /\ asked \in {at} \cup Below(tree, at) \/ at \in Below(tree, asked)
    BY <2>1 DEF SearchInv
  <2>3. c \in Nodes(tree) \ {0} /\ tree.parent[c] = at BY <2>2, Facts DEF Children
  <2>4. tree.end[asked] <= tree.end[c] BY <2>1, <2>2, <2>3, Facts DEF IsPassed
  <2>5. asked \in {c} \cup Below(tree, c) \/ c \in Below(tree, asked)
    <3>1. CASE at \in {asked} \cup Below(tree, asked) BY <2>2, <2>3, <3>1, Facts DEF Preorder
    <3>2. CASE asked \in Below(tree, at)
      <4>1. PICK d \in Children(tree, at) : asked \in {d} \cup Below(tree, d)
        BY <2>2, <3>2, Facts, ChildToward
      <4>2. d \in Nodes(tree) BY DEF Children
      <4>3. tree.start[d] <= tree.start[asked] /\ tree.end[asked] <= tree.end[d]
        BY <2>2, <4>1, <4>2, Facts, BelowIsWithin
      <4>4. c = d \/ tree.end[c] <= tree.start[asked] BY <2>1, <4>3, RangeIsAhead
      <4>5. c = d BY <2>2, <2>3, <2>4, <4>4, Facts
      <4> QED BY <4>1, <4>5
    <3> QED BY <2>2, <3>1, <3>2
  <2>6. IsLeast(FirstChild(c), Children(tree, c)) BY <2>1, <2>3, FirstChildIsLeast
  <2>7. \A k \in Children(tree, c) : ~(FirstChild(c) = NONE \/ k < FirstChild(c))
    BY <2>3, <2>6, Facts DEF IsLeast, NONE
  <2>8. FirstChild(c) = NONE \/ FirstChild(c) \in Children(tree, c) BY <2>6 DEF IsLeast
  <2> QED BY <2>1, <2>2, <2>3, <2>4, <2>5, <2>7, <2>8 DEF SearchInv, AnswerHasTheRange
<1>5. CASE Answer
  <2>1. /\ pc = "search" /\ pc' = "found" /\ tree' = tree /\ asked' = asked /\ at' = at
        /\ child # NONE => tree.start[asked] < tree.start[child]
    BY <1>5 DEF Answer, walkVars, searchVars
  <2>2. /\ asked \in Nodes(tree) /\ at \in Nodes(tree)
        /\ tree.start[asked] < tree.end[asked]
        /\ tree.start[at] <= tree.start[asked] /\ tree.end[asked] <= tree.end[at]
        /\ asked \in {at} \cup Below(tree, at) \/ at \in Below(tree, asked)
    BY <2>1 DEF SearchInv
  <2>3. ASSUME NEW j \in Below(tree, at),
               tree.start[j] <= tree.start[asked], tree.end[asked] <= tree.end[j]
        PROVE  FALSE
    <3>1. PICK c \in Children(tree, at) : j \in {c} \cup Below(tree, c) BY <2>2, Facts, ChildToward
    <3>2. c \in Nodes(tree) BY DEF Children
    <3>3. j \in Nodes(tree) BY <2>2, Facts, BelowIsWithin
    <3>4. tree.start[c] <= tree.start[j] /\ tree.end[j] <= tree.end[c] BY <3>1, <3>2, Facts, BelowIsWithin
    <3>5. tree.start[c] <= tree.start[asked] /\ tree.end[asked] <= tree.end[c]
      BY <2>2, <2>3, <3>2, <3>3, <3>4, Facts
    <3>6. child # NONE /\ child \in Nodes(tree) /\ tree.start[child] <= tree.start[asked]
      BY <2>1, <3>5, RangeIsAhead
    <3> QED BY <2>1, <2>2, <3>6, Facts
  <2>4. at \in {asked} \cup Below(tree, asked) BY <2>2, <2>3, Facts
  <2>5. SameRange(at, asked)
    <3>1. tree.start[asked] <= tree.start[at] /\ tree.end[at] <= tree.end[asked]
      BY <2>2, <2>4, Facts, BelowIsWithin
    <3> QED BY <2>2, <3>1, Facts DEF SameRange
  <2>6. \A j \in Below(tree, at) : ~SameRange(j, asked)
    <3> SUFFICES ASSUME NEW j \in Below(tree, at), SameRange(j, asked) PROVE FALSE
      OBVIOUS
    <3>1. tree.start[j] <= tree.start[asked] /\ tree.end[asked] <= tree.end[j]
      BY <2>2, Facts DEF SameRange
    <3> QED BY <2>3, <3>1
  <2> QED BY <2>1, <2>4, <2>5, <2>6 DEF SearchInv, AnswerHasTheRange, SameRange
<1>6. CASE Idle \/ UNCHANGED vars
  BY <1>6 DEF Idle, vars, walkVars, searchVars, SearchInv, AnswerHasTheRange, SameRange, IsPassed
<1> QED BY <1>1, <1>2, <1>3, <1>4, <1>5, <1>6 DEF Next, Search

\* In every tree, whatever empty nodes and neighbours touch a range that is not
\* empty, the search gives the innermost node that has the range.
THEOREM RangeIsFound == Spec => []AnswerHasTheRange
<1>1. Init => SearchInv BY DEF Init, SearchInv, AnswerHasTheRange
<1>2. SearchInv => AnswerHasTheRange BY DEF SearchInv
<1> QED BY <1>1, <1>2, SearchKeeps, IndInvHolds, PTL DEF Spec
=============================================================================
