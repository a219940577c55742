-------------------------- MODULE CompleteIndexer --------------------------
(***************************************************************************)
(* The walk of CompleteIndexer.java over the syntax tree of a file, as one *)
(* of the twelve listeners of Workspace.indexInto sees it.  A listener     *)
(* never looks at the tree from its root: what it knows of the place of a  *)
(* node is the depth of the walk and the node the walk came from, and it   *)
(* keeps stacks of its own which are right only if every enter has its     *)
(* exit.                                                                   *)
(*                                                                         *)
(* The recursion of the visit methods is the pair of path and todo.        *)
(***************************************************************************)
EXTENDS PhpTree

VARIABLES
    tree,    \* what is walked
    path,    \* Ctx.path
    todo,    \* for each node of the path, the slots its loop has yet to come to
    visitor, \* for each node of the path, whose visit method is running
    calls,   \* history: the calls of the listener, [call, node, depth, parent]
    pc       \* "start", "walking" or "done"

vars == <<tree, path, todo, visitor, calls, pc>>

-----------------------------------------------------------------------------
\* the children that stand in a slot
Slots(t, n) ==
    Ordered(t, {c \in Below(t, n) : \/ t.flag[c] = "named"
                                    \/ t.flag[c] = "token" /\ t.field[c] # NO_FIELD})
Extras(t, n) == Ordered(t, {c \in Below(t, n) : t.flag[c] = "extra"})

\* Ctx.parent
ParentOn(nodes) == IF Len(nodes) < 2 THEN 0 ELSE nodes[Len(nodes) - 1]

\* what the listener is told when the path is `nodes`
Told(call, node, nodes) == [call |-> call, node |-> node, depth |-> Len(nodes), parent |-> ParentOn(nodes)]

Init ==
    /\ tree \in PhpTrees
    /\ path = << >> /\ todo = << >> /\ visitor = << >> /\ calls = << >>
    /\ pc = "start"

\* enter, and the loop of slots over the children, which tells of all their
\* comments before the first of them is visited
EnterAs(v, node, rest) ==
    LET nodes == Append(path, node)
    IN  /\ path' = nodes
        /\ todo' = Append(rest, Slots(tree, node))
        /\ visitor' = Append(visitor, v)
        /\ calls' = calls \o <<Told("enter", node, nodes)>>
                          \o [i \in DOMAIN Extras(tree, node) |-> Told("extra", Extras(tree, node)[i], nodes)]

\* walk: visit of the root
Begin ==
    /\ pc = "start"
    /\ tree.type[ROOT] \in InnerTypes
    /\ EnterAs(Visit[tree.type[ROOT]], ROOT, << >>)
    /\ pc' = "walking"
    /\ UNCHANGED tree

Walking == pc = "walking" /\ path # << >>
Child == Head(Last(todo))
SlotOf(child) == Slot(Last(visitor), tree.field[child])
VisitorOf(child) == VisitorIn(SlotOf(child), tree.type[child])
ChildDone == Append(Front(todo), Tail(Last(todo)))

EnterChild ==
    /\ Walking /\ Last(todo) # << >>
    /\ Accepts(SlotOf(Child), tree.type[Child]) /\ VisitorOf(Child) \in InnerTypes
    /\ EnterAs(VisitorOf(Child), Child, ChildDone)
    /\ UNCHANGED <<tree, pc>>

LeafChild ==
    /\ Walking /\ Last(todo) # << >>
    /\ Accepts(SlotOf(Child), tree.type[Child]) /\ VisitorOf(Child) \in LeafTypes
    /\ calls' = Append(calls, Told("leaf", Child, Append(path, Child)))
    /\ todo' = ChildDone
    /\ UNCHANGED <<tree, path, visitor, pc>>

\* token, unexpected or unknown: no listener cares
PassChild ==
    /\ Walking /\ Last(todo) # << >>
    /\ Accepts(SlotOf(Child), tree.type[Child]) => VisitorOf(Child) = TOKEN
    /\ todo' = ChildDone
    /\ UNCHANGED <<tree, path, visitor, calls, pc>>

\* Mutant: a node with an error in it has no exit.
ExitIfSound ==
    /\ Walking /\ Last(todo) = << >>
    /\ calls' = IF \E c \in Nodes(tree) : tree.parent[c] = Last(path) /\ tree.flag[c] = "error"
                THEN calls ELSE Append(calls, Told("exit", Last(path), path))
    /\ path' = Front(path)
    /\ todo' = Front(todo)
    /\ visitor' = Front(visitor)
    /\ pc' = IF Len(path) = 1 THEN "done" ELSE pc
    /\ UNCHANGED tree

ExitNode ==
    /\ Walking /\ Last(todo) = << >>
    /\ calls' = Append(calls, Told("exit", Last(path), path))
    /\ path' = Front(path)
    /\ todo' = Front(todo)
    /\ visitor' = Front(visitor)
    /\ pc' = IF Len(path) = 1 THEN "done" ELSE pc
    /\ UNCHANGED tree

Idle == pc = "done" /\ UNCHANGED vars

Walk ==
    \/ Begin
    \/ EnterChild
    \/ LeafChild
    \/ PassChild
    \/ ExitNode

Next == Walk \/ Idle

Spec == Init /\ [][Next]_vars

-----------------------------------------------------------------------------
Visits == {i \in DOMAIN calls : calls[i].call \in {"enter", "leaf"}}
VisitsOf(n) == {i \in Visits : calls[i].node = n}
ExitsOf(n) == {i \in DOMAIN calls : calls[i].call = "exit" /\ calls[i].node = n}

\* The nodes entered and not left, as seen by a listener that pushes on enter and
\* polls on exit, are the ancestors of the node it is told of: a listener's
\* stack of open declarations is the declarations around the node.
OpenAreAncestors ==
    \A i \in Visits :
      LET n == calls[i].node
          open == {m \in Nodes(tree) : /\ \E j \in VisitsOf(m) : j < i /\ calls[j].call = "enter"
                                       /\ ~\E j \in ExitsOf(m) : j < i}
      IN  open = Up(tree)[n] \ {n}

\* "A walk of the whole PHP grammar, transcribed from node-types.json": whatever
\* the visit methods do with path, slots and fields by hand, what a listener sees
\* is the tree.  Every node of the grammar that no error, comment or token contains
\* is told of once, as a node of its own type, in the order of the text (the first
\* to claim a name is the first in the file), and is left once; nothing else is.
Abstract == INSTANCE TreeWalk WITH ended <- pc = "done"
IsTreeWalk == Abstract!Spec
=============================================================================
