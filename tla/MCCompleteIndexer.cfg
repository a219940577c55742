SPECIFICATION Spec
CONSTANT PhpTrees <- MCTrees
INVARIANTS
    OpenAreAncestors
PROPERTIES
    IsTreeWalk
