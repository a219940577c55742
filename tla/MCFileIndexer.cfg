SPECIFICATION Spec
CONSTANTS
    NONE = NONE
    PhpTrees <- MCTrees
INVARIANTS
    OwnersEnclose
    NamesAreOwn
    UsagesFollowDefinitions
    ChainsAreWhole
    TextsAreTheirSymbols
