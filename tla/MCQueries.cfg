SPECIFICATION Spec
CONSTANTS
    NumFiles = 3
    Texts <- QueryTexts
    Parse <- QuerySymbols
    Tokens <- QueryTokens
    Empty = ""
    MaxReparses = 1
    NONE = NONE
CHECK_DEADLOCK FALSE
INVARIANTS
    DefinitionLeadsToTheName
    ReferencesAndDefinitionAgree
    HoverFollowsDeclaration
    CompletionOffersWhatResolves
    CompletionOffersVariablesInUse
