------------------------------- MODULE PhpTree -------------------------------
(***************************************************************************)
(* The syntax tree of a file, and what a listener has to be told of it:    *)
(* Listener.java and the Node class as the listeners use it.               *)
(*                                                                         *)
(* The nodes of a tree are numbered in preorder from 1, the order of the   *)
(* text.  flag says what slots asks of a child first: "error" for an ERROR *)
(* or a MISSING node, "extra" for a comment, "named" for the other nodes   *)
(* of the grammar and "token" for punctuation and keywords.                *)
(***************************************************************************)
EXTENDS PhpVisitors, Naturals, SequencesExt

CONSTANT PhpTrees   \* the trees of the files: [type, field, parent, flag], sequences by node

ROOT == 1
NO_FIELD == "none"

Nodes(t) == DOMAIN t.type
Below(t, n) == {c \in Nodes(t) : t.parent[c] = n}

\* the nodes of a set in the order of the text
Ordered(t, nodes) ==
    LET upto[n \in 0..Len(t.type)] ==
          IF n = 0 THEN << >> ELSE IF n \in nodes THEN Append(upto[n - 1], n) ELSE upto[n - 1]
    IN  upto[Len(t.type)]
Children(t, n) == Ordered(t, Below(t, n))

\* the ancestors of a node and the node
Up(t) == LET up[n \in Nodes(t)] == IF n = ROOT THEN {n} ELSE up[t.parent[n]] \cup {n} IN up

ASSUME PhpTreesAssumption ==
    \A t \in PhpTrees :
      /\ t.type \in Seq(STRING) /\ t.type # << >> /\ t.parent[ROOT] = 0
      /\ \A n \in Nodes(t) \ {ROOT} : t.parent[n] \in 1..(n - 1) /\ t.parent[n] \in Up(t)[n - 1]
      /\ \A n \in Nodes(t) : t.flag[n] \in {"named", "token", "extra", "error"}

\* the nodes of the grammar that no error, comment or token contains
InPlace(t) == {n \in Nodes(t) : \A m \in Up(t)[n] : t.flag[m] = "named"}

-----------------------------------------------------------------------------
\* The depth and the parent of a comment are those of the node it stands in.
CallOf(t, call, n, place) ==
    [call |-> call, node |-> n, depth |-> Cardinality(Up(t)[place]), parent |-> t.parent[place]]

Opening(t, n) ==
    IF t.type[n] \in LeafTypes THEN <<CallOf(t, "leaf", n, n)>>
    ELSE LET extras == Ordered(t, {c \in Below(t, n) : t.flag[c] = "extra"})
         IN  <<CallOf(t, "enter", n, n)>> \o [i \in DOMAIN extras |-> CallOf(t, "extra", extras[i], n)]

\* m has more in place behind n
GoesOn(t, m, n) == \E k \in InPlace(t) : k > n /\ m \in Up(t)[k]

\* the exits that follow n, from that of m up, as far as the nodes end with n
Exits(t, n) ==
    LET exits[m \in Nodes(t) \cup {0}] ==
          IF m = 0 \/ GoesOn(t, m, n) THEN << >> ELSE <<CallOf(t, "exit", m, m)>> \o exits[t.parent[m]]
    IN  exits
Closing(t, n) == Exits(t, n)[IF t.type[n] \in LeafTypes THEN t.parent[n] ELSE n]

\* what is to be told of a tree as far as a node
TellingTo(t) ==
    LET told[n \in 0..Len(t.type)] ==
          IF n = 0 THEN << >>
          ELSE IF n \in InPlace(t) THEN told[n - 1] \o Opening(t, n) \o Closing(t, n)
          ELSE told[n - 1]
    IN  told

\* Everything a listener is to be told of a tree, in order: of each node in place
\* when it is entered and left, or that it is there if it is a leaf; and of the
\* comments below a node as soon as that is entered.
Telling(t) == TellingTo(t)[Len(t.type)]

-----------------------------------------------------------------------------
\* The tree is one of the grammar of PHP, as far as errors leave it in place.
G == INSTANCE PhpGrammar

Grammatical(t) ==
    /\ t.flag[ROOT] = "named" /\ t.type[ROOT] \in InnerTypes
    /\ \A n \in Nodes(t) \ {ROOT} :
         LET parent == t.parent[n]
             inSlot == t.flag[n] = "named" \/ (t.flag[n] = "token" /\ t.field[n] # NO_FIELD)
         IN  parent \in InPlace(t) /\ inSlot =>
               /\ t.type[parent] \in DOMAIN G!Grammar
               /\ t.field[n] \in DOMAIN G!Grammar[t.type[parent]]
               /\ t.type[n] \in G!Grammar[t.type[parent]][t.field[n]]
               /\ (t.flag[n] = "token") = (t.type[n] = TOKEN)

\* The visit methods have a case of its own for every child the grammar allows.
VisitorsFollowGrammar ==
    /\ LeafTypes \cap InnerTypes = {} /\ TOKEN \notin NodeTypes
    /\ DOMAIN G!Grammar \subseteq InnerTypes
    /\ \A parent \in DOMAIN G!Grammar : \A field \in DOMAIN G!Grammar[parent] :
         \A child \in G!Grammar[parent][field] :
           LET slot == Slot(parent, field)
           IN  child \in NodeTypes \cup {TOKEN} /\ Accepts(slot, child) /\ VisitorIn(slot, child) = child
=============================================================================
