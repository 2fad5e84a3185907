SPECIFICATION Spec
CONSTANTS
    Key <- MCCloseKey
    kLowest <- MCLowest
    kMax <- MCMax
    max_fanout = 8
    Misrounded <- MCNone
    Load <- MCCloseLoad
    Policies <- MCUpwardsPolicy
    MinLevel <- MCMinLevel
    MaxLevel = 3
CONSTRAINT MCAllLoaded
INVARIANTS StalePathIsNotUsed
\* The model stops at a stale path.
CHECK_DEADLOCK FALSE
VIEW MCView
