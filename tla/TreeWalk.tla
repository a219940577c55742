------------------------------ MODULE TreeWalk ------------------------------
(***************************************************************************)
(* What the listeners of Workspace.indexInto take CompleteIndexer.walk to  *)
(* be: they are told of the tree, all of it, in the order of the text, with *)
(* the depth and the parent that each node really has, and then no more.   *)
(***************************************************************************)
EXTENDS PhpTree

VARIABLES
    tree,   \* what is walked, a tree of the file's
    calls,  \* the calls of the listener so far, [call, node, depth, parent]
    ended   \* walk has returned

vars == <<tree, calls, ended>>

Init == calls = << >> /\ ended = FALSE

\* the next calls; the last of them, the exit of the root, ends the walk
Tell ==
    /\ ~ended
    /\ Len(calls) < Len(calls') /\ IsPrefix(calls, calls') /\ IsPrefix(calls', Telling(tree))
    /\ ended' = (calls' = Telling(tree))
    /\ UNCHANGED tree

Next == Tell

Spec == Init /\ [][Next]_vars
=============================================================================
