------------------------- MODULE MCCompleteIndexer -------------------------
(* Trees for CompleteIndexer: every child the grammar of PHP allows in every *)
(* field of every type of node, and damaged copies of one small file.        *)
EXTENDS CompleteIndexer

MCRules == G!Grammar

MCFlag(type) == IF type = TOKEN THEN "token" ELSE "named"

\* one child for each field a node of the type has, to hang below it
MCBelow ==
    [type \in NodeTypes \cup {TOKEN} |->
       IF type \notin DOMAIN MCRules THEN << >>
       ELSE FoldSet(LAMBDA f, below : Append(below, [field |-> f, type |-> CHOOSE c \in MCRules[type][f] : TRUE]),
                    << >>, DOMAIN MCRules[type])]

\* a node with a comment, a child, and what the child may have below it
MCGrammatical(parent, field, child) ==
    LET below == MCBelow[child]
    IN  [type |-> <<parent, "comment", child>> \o [i \in DOMAIN below |-> below[i].type],
         field |-> <<NO_FIELD, NO_FIELD, field>> \o [i \in DOMAIN below |-> below[i].field],
         parent |-> <<0, 1, 1>> \o [i \in DOMAIN below |-> 3],
         flag |-> <<"named", "extra", MCFlag(child)>> \o [i \in DOMAIN below |-> MCFlag(below[i].type)]]

MCGrammar ==
    UNION {UNION {{MCGrammatical(p, f, c) : c \in MCRules[p][f]} : f \in DOMAIN MCRules[p]}
             : p \in DOMAIN MCRules}

\* <?php $a = $b; with any of its nodes an error or a comment
MCDamaged ==
    {[type |-> <<"program", "expression_statement", "assignment_expression", "variable_name", "name",
                 "variable_name", "name">>,
      field |-> <<NO_FIELD, NO_FIELD, NO_FIELD, "left", NO_FIELD, "right", NO_FIELD>>,
      parent |-> <<0, 1, 2, 3, 4, 3, 6>>,
      flag |-> <<"named">> \o flags] : flags \in [1..6 -> {"named", "error", "extra"}]}

MCTrees == MCGrammar \cup MCDamaged

ASSUME TreesAreGrammatical == \A t \in MCTrees : Grammatical(t)
=============================================================================
