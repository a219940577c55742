SPECIFICATION LiveSpec
CONSTANTS
    NumFiles = 3
    Texts <- SomeTexts
    Parse <- Symbols
    Empty = ""
    MaxReparses = 3
    NONE = NONE
CHECK_DEADLOCK FALSE
INVARIANTS
    TypeOK
    CollectionIsCurrent
    NoDanglingDefinition
    DefinitionsAreFresh
    LocalTypesAreFresh
    UsageTypesFollowDefinitions
    StartupIsDeterministic
PROPERTIES
    NoStolenDefinition
    StartupEnds
