SPECIFICATION Spec
CONSTANTS
    Key <- MCPathKey
    kLowest <- MCLowest
    kMax <- MCMax
    max_fanout = 2
    Misrounded = {8}
    Load <- MCPathLoad
    Policies <- MCDefaultPolicy
    MinLevel <- MCMinLevel
    MaxLevel = 2
INVARIANTS PathLeadsToLeaf
VIEW MCView
