--------------------------- MODULE MCSyntaxTree ---------------------------
(* All the trees of up to Shaped nodes, every node one point longer than   *)
(* what it holds, and all the trees of Ranged nodes with every way to      *)
(* place them, empty nodes and shared edges included, on the points        *)
(* 0..Points.                                                              *)
EXTENDS SyntaxTree, FiniteSets

Shaped == 6
Ranged == 4
Points == 3

\* subtrees as intervals: one inside the other or apart
Lasts(n) ==
    {f \in [0..(n - 1) -> 0..(n - 1)] :
       /\ f[0] = n - 1
       /\ \A i \in 0..(n - 1) : i <= f[i] /\ \A j \in (i + 1)..f[i] : f[j] <= f[i]}

ParentIn(f, i) ==
    IF i = 0 THEN NONE
    ELSE CHOOSE j \in 0..(i - 1) : f[j] >= i /\ \A k \in (j + 1)..(i - 1) : f[k] < i

Tree(n, f, start, end) ==
    [size |-> n, last |-> f, parent |-> [i \in 0..(n - 1) |-> ParentIn(f, i)],
     start |-> start, end |-> end]

Wide(n) ==
    {Tree(n, f, [i \in 0..(n - 1) |-> i], [i \in 0..(n - 1) |-> f[i] + 1]) : f \in Lasts(n)}

Placements(n) == [0..(n - 1) -> {r \in (0..Points) \X (0..Points) : r[1] <= r[2]}]

Touching(n) ==
    {t \in {Tree(n, f, [i \in 0..(n - 1) |-> r[i][1]], [i \in 0..(n - 1) |-> r[i][2]]) :
              f \in Lasts(n), r \in Placements(n)} : Placed(t)}

MCTrees == Touching(Ranged) \cup UNION {Wide(n) : n \in 1..Shaped}
=============================================================================
