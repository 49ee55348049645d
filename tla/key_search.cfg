SPECIFICATION Spec
CONSTANTS
    Key <- Key7
    MaxLen = 6
INVARIANTS
    Bracket
    ResultIsRank
PROPERTY Halves
CHECK_DEADLOCK FALSE
