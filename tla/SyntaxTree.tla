----------------------------- MODULE SyntaxTree -----------------------------
(***************************************************************************)
(* The syntax tree of one file: walk and visit of tsjni.c, which copy the  *)
(* tree of tree-sitter into an array of rows in one pass of a cursor, and  *)
(* the part of Tree.java and Node.java that finds its way in these rows.   *)
(*                                                                         *)
(* A node is its index in a walk of the tree in preorder, as tree-sitter   *)
(* counts it (ts_tree_cursor_current_descendant_index), so that the        *)
(* strict descendants of i are i+1 .. last[i].  Of the eleven columns of a *)
(* row the two links, PARENT and NEXT, are modelled; the others are copied *)
(* from the node and are taken from the tree itself.  A Point is a number: *)
(* row and column matter through their order only.                         *)
(***************************************************************************)
EXTENDS Integers

CONSTANT Trees   \* the trees the parser makes: [size, parent, last, start, end]

NONE == -1

Nodes(t) == 0..(t.size - 1)
Below(t, i) == (i + 1)..t.last[i]
Children(t, i) == {j \in Nodes(t) : t.parent[j] = i}
LaterSiblings(t, i) == {j \in Nodes(t) : t.parent[j] = t.parent[i] /\ i < j}

\* What tree-sitter promises.  Numbering in preorder: j is below i when its
\* parent is i or is below i.
Preorder(t) ==
    /\ t.size \in Nat \ {0}
    /\ t.parent \in [Nodes(t) -> Nodes(t) \cup {NONE}]
    /\ t.last \in [Nodes(t) -> Nodes(t)]
    /\ t.parent[0] = NONE /\ t.last[0] = t.size - 1
    /\ \A i \in Nodes(t) : i <= t.last[i]
    /\ \A j \in Nodes(t) \ {0} :
         /\ t.parent[j] \in 0..(j - 1)
         /\ \A i \in Nodes(t) : j \in Below(t, i) <=> t.parent[j] \in {i} \cup Below(t, i)

\* A child lies within its parent, after the children before it; only a node
\* the parser made up (MISSING) is empty.
Placed(t) ==
    /\ t.start \in [Nodes(t) -> Nat] /\ t.end \in [Nodes(t) -> Nat]
    /\ \A i \in Nodes(t) : t.start[i] <= t.end[i]
    /\ \A j \in Nodes(t) \ {0} :
         /\ t.start[t.parent[j]] <= t.start[j] /\ t.end[j] <= t.end[t.parent[j]]
         /\ \A k \in LaterSiblings(t, j) : t.end[j] <= t.start[k]

ASSUME TreesAssumption == \A t \in Trees : Preorder(t) /\ Placed(t)

VARIABLES
    tree,     \* what tree-sitter parsed
    cursor,   \* the position of the TSTreeCursor
    node,     \* the variable `node` of walk
    rows,     \* the rows visited so far: [parent, next]
    pc,       \* "start", "descend", "climb", "flat", "search" or "found"
    asked,    \* the node whose range getDescendant is called with
    at,       \* the variable `node` of getDescendant
    child     \* the variable `child` of getDescendant

walkVars == <<cursor, node, rows>>
searchVars == <<asked, at, child>>
vars == <<tree, walkVars, pc, searchVars>>

-----------------------------------------------------------------------------
\* The cursor of tree-sitter.
HasFirstChild(i) == i < tree.last[i]
HasNextSibling(i) == i # 0 /\ tree.last[i] < tree.last[tree.parent[i]]
NextSibling(i) == tree.last[i] + 1

Visit(table, i, parent) ==
    [j \in DOMAIN table \cup {i} |->
       IF j = i THEN [parent |-> parent, next |-> NONE] ELSE table[j]]

Init ==
    /\ tree \in Trees
    /\ cursor = 0 /\ node = NONE /\ rows = << >>
    /\ pc = "start"
    /\ asked = NONE /\ at = NONE /\ child = NONE

\* ts_tree_cursor_new and the visit of the root
VisitRoot ==
    /\ pc = "start"
    /\ rows' = Visit(rows, cursor, NONE)
    /\ node' = 0
    /\ pc' = "descend"
    /\ UNCHANGED <<tree, cursor, searchVars>>

\* goto_first_child moves: visit the child and go on from there
VisitFirstChild ==
    /\ pc = "descend" /\ HasFirstChild(cursor)
    /\ cursor' = cursor + 1
    /\ rows' = Visit(rows, cursor', node)
    /\ node' = cursor'
    /\ UNCHANGED <<tree, pc, searchVars>>

\* goto_first_child fails
ReachLeaf ==
    /\ pc = "descend" /\ ~HasFirstChild(cursor)
    /\ pc' = "climb"
    /\ UNCHANGED <<tree, walkVars, searchVars>>

\* Mutant: the cursor climbs, the variable does not.
ClimbAlone ==
    /\ pc = "climb" /\ ~HasNextSibling(cursor) /\ cursor # 0
    /\ cursor' = tree.parent[cursor]
    /\ UNCHANGED <<tree, node, rows, pc, searchVars>>

\* one turn of the while loop: no next sibling, goto_parent moves
Climb ==
    /\ pc = "climb" /\ ~HasNextSibling(cursor) /\ cursor # 0
    /\ cursor' = tree.parent[cursor]
    /\ node' = rows[node].parent
    /\ UNCHANGED <<tree, rows, pc, searchVars>>

\* Mutant: the link to the sibling goes into the row of the parent.
LinkParent ==
    /\ pc = "climb" /\ HasNextSibling(cursor) /\ node # 0
    /\ cursor' = NextSibling(cursor)
    /\ rows' = [Visit(rows, cursor', rows[node].parent) EXCEPT ![rows[node].parent].next = cursor']
    /\ node' = cursor'
    /\ pc' = "descend"
    /\ UNCHANGED <<tree, searchVars>>

\* goto_next_sibling moves and ends the while loop: visit the sibling and link
\* the row to it
VisitSibling ==
    /\ pc = "climb" /\ HasNextSibling(cursor) /\ node # 0
    /\ cursor' = NextSibling(cursor)
    /\ rows' = [Visit(rows, cursor', rows[node].parent) EXCEPT ![node].next = cursor']
    /\ node' = cursor'
    /\ pc' = "descend"
    /\ UNCHANGED <<tree, searchVars>>

\* Mutant: the loop is left by the end of a row of siblings only.
EndAtSibling ==
    /\ pc = "climb" /\ node = 0 /\ HasNextSibling(cursor)
    /\ pc' = "flat"
    /\ UNCHANGED <<tree, walkVars, searchVars>>

\* no more siblings and no parent, or `node` back at the root: break
EndWalk ==
    /\ pc = "climb" /\ node = 0
    /\ HasNextSibling(cursor) \/ cursor = 0
    /\ pc' = "flat"
    /\ UNCHANGED <<tree, walkVars, searchVars>>

-----------------------------------------------------------------------------
\* Mutant: the row that follows is taken for a child.
NextRow(i) == IF i + 1 \in DOMAIN rows THEN i + 1 ELSE NONE

\* Tree.firstChild, Node.getParent, Node.getPrevSibling
FirstChild(i) ==
    IF i + 1 \in DOMAIN rows /\ rows[i + 1].parent = i THEN i + 1 ELSE NONE

\* the iteration over childNodes stops at i and remembers the one before
PrevSibling(i) ==
    IF \E j \in DOMAIN rows : rows[j].next = i
    THEN CHOOSE j \in DOMAIN rows : rows[j].next = i
    ELSE NONE

\* Mutant: a node that begins in time is entered, however early it ends.
PassedOnlyBefore(i) == tree.end[i] < tree.start[asked]

\* the child ends before the range does, or where it begins
IsPassed(i) ==
    \/ tree.end[i] < tree.end[asked]
    \/ tree.end[i] < tree.start[asked]
    \/ tree.end[i] = tree.start[asked] /\ tree.start[i] # tree.end[i]

\* root.getDescendant(range of a node the parser did not make up)
Ask(i) ==
    /\ pc = "flat"
    /\ tree.start[i] < tree.end[i]
    /\ asked' = i
    /\ at' = 0
    /\ child' = FirstChild(0)
    /\ pc' = "search"
    /\ UNCHANGED <<tree, walkVars>>

PassChild ==
    /\ pc = "search" /\ child # NONE /\ IsPassed(child)
    /\ child' = rows[child].next
    /\ UNCHANGED <<tree, walkVars, pc, asked, at>>

EnterChild ==
    /\ pc = "search" /\ child # NONE /\ ~IsPassed(child)
    /\ tree.start[child] <= tree.start[asked]
    /\ at' = child
    /\ child' = FirstChild(child)
    /\ UNCHANGED <<tree, walkVars, pc, asked>>

Answer ==
    /\ pc = "search"
    /\ child # NONE => ~IsPassed(child) /\ tree.start[asked] < tree.start[child]
    /\ pc' = "found"
    /\ UNCHANGED <<tree, walkVars, searchVars>>

\* the caller has its answer, or nothing to ask
Idle == pc \in {"flat", "found"} /\ UNCHANGED vars

Walk ==
    \/ VisitRoot
    \/ VisitFirstChild
    \/ ReachLeaf
    \/ Climb
    \/ VisitSibling
    \/ EndWalk

Search == PassChild \/ EnterChild \/ Answer

Next ==
    \/ Walk
    \/ \E i \in Nodes(tree) : Ask(i)
    \/ Search
    \/ Idle

Spec == Init /\ [][Next]_vars

\* walk is a loop of one thread
LiveSpec == Spec /\ WF_vars(Walk)

-----------------------------------------------------------------------------
\* `node` is the position of the cursor whenever a row is about to be visited or
\* linked: the C variable is moved by hand, along the PARENT column, and only
\* the loop's order of calls keeps the two together.
NodeIsCursor == pc \in {"descend", "climb"} => node = cursor

\* Rows are visited in the order they are in, each one once: what has been
\* visited is a prefix of the array, and the walk is at its end or climbing back
\* from it.
RowsFillUp ==
    /\ pc = "descend" => DOMAIN rows = 0..cursor
    /\ pc = "climb" => DOMAIN rows = 0..tree.last[cursor]

\* The rows say where each node is: its parent, its next sibling if that has
\* been visited.
RowsFollowTree ==
    \A i \in DOMAIN rows :
      /\ rows[i].parent = tree.parent[i]
      /\ rows[i].next = IF HasNextSibling(i) /\ NextSibling(i) \in DOMAIN rows
                        THEN NextSibling(i)
                        ELSE NONE

\* Once the array is full, firstChild, the NEXT column, getParent and
\* getPrevSibling lead through it as through the tree: to the parent, the first
\* of the children, the nearest sibling on either side.  firstChild reads the
\* row after that of the parent and trusts its PARENT column alone.
IsLeast(i, nodes) == IF nodes = {} THEN i = NONE ELSE i \in nodes /\ \A j \in nodes : i <= j
IsGreatest(i, nodes) == IF nodes = {} THEN i = NONE ELSE i \in nodes /\ \A j \in nodes : j <= i

RowsAreTheTree ==
    pc \in {"flat", "search", "found"} =>
      /\ DOMAIN rows = Nodes(tree)
      /\ \A i \in Nodes(tree) :
           /\ rows[i].parent = tree.parent[i]
           /\ IsLeast(FirstChild(i), Children(tree, i))
           /\ IsLeast(rows[i].next, LaterSiblings(tree, i))
           /\ IsGreatest(PrevSibling(i), {j \in Nodes(tree) : i \in LaterSiblings(tree, j)})

\* PhpTypeInferer and PhpReturnTypeInferer keep no nodes: they look the node of
\* a symbol up again by its range.  getDescendant gives it back, or the
\* innermost node in it that has the same range, whatever empty nodes and
\* neighbours touch the range.
SameRange(i, j) == tree.start[i] = tree.start[j] /\ tree.end[i] = tree.end[j]

AnswerHasTheRange ==
    pc = "found" =>
      /\ at \in {asked} \cup Below(tree, asked)
      /\ SameRange(at, asked)
      /\ \A i \in Below(tree, at) : ~SameRange(i, asked)

\* A row is written once, but for its link to the next sibling, which is set
\* once: nothing the callers could hold changes under them.
RowsNeverChange ==
    [][\A i \in DOMAIN rows :
         /\ i \in DOMAIN rows' /\ rows'[i].parent = rows[i].parent
         /\ rows[i].next # NONE => rows'[i].next = rows[i].next]_vars

\* The walk ends: the loop in C leaves on the node being the root again, so a variable that
\* had drifted from the cursor would never let it.
WalkEnds == <>(pc = "flat")
=============================================================================
