SPECIFICATION Spec
CONSTANTS
    Key <- MCKeyWithMax
    Payload = {"p"}
    kEndSentinel_ <- MCEndSentinel
    kLowest <- MCLowest
    max_slots_ = 6
    allow_duplicates = FALSE
    MaxLoad = 1
    MaxRetrained = 6
INVARIANT FindKeyReturnsAKey
