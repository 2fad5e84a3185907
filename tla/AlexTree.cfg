SPECIFICATION Spec
CONSTANTS
    Key <- MCKey
    kLowest <- MCLowest
    kMax <- MCMax
    max_fanout = 4
    Misrounded <- MCNone
    Load <- MCLoad
    Policies <- MCPolicies
    MinLevel <- MCMinLevel
    MaxLevel = 3
INVARIANTS TypeOK PointersRepeatByDuplicationFactor ChainFollowsTree KeysAreRouted
    ModelsCoverTheirBuckets InsertIsTriedWhereLookupsGo
PROPERTIES IsKeySet
VIEW MCView
