SPECIFICATION Spec
CONSTANTS
    Key <- MCKey
    Payload = {"p", "q"}
    kEndSentinel_ <- MCEndSentinel
    kLowest <- MCLowest
    max_slots_ = 6
    allow_duplicates = TRUE
    MaxLoad = 2
    MaxRetrained = 5
INVARIANTS TypeOK SlotsSorted GapsRepeatNextKey CountMatchesBitmap LookupsExact KeysWithinMinMax
PROPERTIES ErasureKeepsDensity IsOrderedMultimap
