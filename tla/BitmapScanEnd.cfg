SPECIFICATION Spec
CONSTANTS
    Shape <- MCEndShape
INVARIANT FindReturnsAPosition
