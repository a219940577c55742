SPECIFICATION Spec
CONSTANTS
    NONE = NONE
    PhpTrees <- ShadowedTrees
INVARIANTS
    UsagesPointAtTheirParameter
