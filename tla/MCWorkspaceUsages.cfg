SPECIFICATION Spec
CONSTANTS
    NumFiles = 3
    Texts <- SomeTexts
    Parse <- Symbols
    Empty = ""
    MaxReparses = 1
    NONE = NONE
CHECK_DEADLOCK FALSE
INVARIANTS
    UsageTakesItsDefinitionType
