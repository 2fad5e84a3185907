SPECIFICATION Spec
CONSTANTS
    Span = 16
    MaxLevel = 3
    Load <- MCLoad
    Low <- MCLow
    Key <- MCKey
    max_slots_ = 3
    MaxSaved = 3
    MaxFanout = 8
INVARIANTS TypeOK UsedNodesPartition IndexHasItsKeys FaultsHaveCauses
CHECK_DEADLOCK FALSE
