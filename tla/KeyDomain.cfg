SPECIFICATION Spec
CONSTANTS
    Key <- MCKey
    Copy = {1, 2}
    kLowest = 0
    kMax = 15
    kMinOutOfDomainKeys = 2
    kMaxOutOfDomainKeys = 3
    kOutOfDomainToleranceFactor = 3
    kMaxFactor = 8
    Load <- MCLoad
    MaxCounted = 3
INVARIANTS TypeOK CountersFollowKeysOutside KeysOutsideAreFew NoFaultInProperDomain
PROPERTIES DomainOnlyGrows ExpansionTakesAllIn
CHECK_DEADLOCK FALSE
