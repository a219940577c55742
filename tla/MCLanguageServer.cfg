SPECIFICATION MainSpec
CONSTANTS
    NONE = NONE
    BadId = BadId
    NumFiles = 2
    Texts <- SomeTexts
    Parse <- Symbols
    Empty = ""
    MaxReparses = 2
PROPERTIES
    AnswersAreFresh
    IndexIsWorkspace
