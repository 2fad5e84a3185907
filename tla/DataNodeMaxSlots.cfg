SPECIFICATION Spec
CONSTANTS
    Key <- MCKey
    Payload = {"p"}
    kEndSentinel_ <- MCEndSentinel
    kLowest <- MCLowest
    max_slots_ = 4
    allow_duplicates = FALSE
    MaxLoad = 3
    MaxRetrained = 8
PROPERTY ExpandsWithinMaxSlots
