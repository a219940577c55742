SPECIFICATION Spec
CONSTANTS
    NONE = NONE
    BadId = BadId
    Uris = {u1, u2}
    Texts = {t1, t2}
    MaxMessages = 2
    MaxChanges = 2
INVARIANTS
    DocumentsFollowEditor
