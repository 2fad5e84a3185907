SPECIFICATION SpecLoops
CONSTANTS
    Key <- MCKey
    Payload = {"p"}
    kEndSentinel_ <- MCEndSentinel
    kLowest <- MCLowest
    max_slots_ = 8
    allow_duplicates = TRUE
    Capacity <- MCCapacity
    MaxKeys = 4
    Density = {6, 8}
    Overshoot = 2
    Shape <- MCShape
    Iterated <- MCIterated
    Neighbours <- MCNeighbours
INVARIANTS TypeOK RestFits EndsWithALayout IInv SearchIsExact ReadsStayInArray
    ScanTypeOK NextFilledIsFirst ClosestGapIsClosest CountsRange
PROPERTIES SearchReturns IteratesInOrder
CHECK_DEADLOCK FALSE
