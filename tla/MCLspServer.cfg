SPECIFICATION LiveSpec
CONSTANTS
    NONE = NONE
    BadId = BadId
    Uris = {u1}
    Texts = {t1, t2}
    MaxMessages = 3
    MaxChanges = 1
INVARIANTS
    TypeOK
    ResponsesInOrder
    OnlyRequestsAnswered
    NoRequestDropped
    DocumentsFollowEditor
    AnswersSeeTheirTexts
    CrashCauses
PROPERTIES
    RequestsAnswered
    ServerEndsWithClient
