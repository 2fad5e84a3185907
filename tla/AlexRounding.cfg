SPECIFICATION Spec
CONSTANTS
    Key <- MCMiddleKey
    kLowest <- MCLowest
    kMax <- MCMax
    max_fanout = 4
    Misrounded = {8}
    Load <- MCMiddleLoad
    Policies <- MCDefaultPolicy
    MinLevel <- MCMinLevel
    MaxLevel = 2
INVARIANTS KeysAreInOneLeaf
VIEW MCView
