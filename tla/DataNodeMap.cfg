SPECIFICATION Spec
CONSTANTS
    Key <- MCUniqueKey
    Payload = {"p"}
    kEndSentinel_ <- MCEndSentinel
    kLowest <- MCLowest
    max_slots_ = 6
    allow_duplicates = FALSE
    MaxLoad = 3
    MaxRetrained = 5
INVARIANTS RoomToInsert
PROPERTIES InsertExpandsWithinMaxSlots IsOrderedMultimap
