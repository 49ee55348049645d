SPECIFICATION Spec
CONSTANTS
    Key = {k1, k2, k3}
    NBits = {8, 12}
    NKeys = {6, 11}
    HashValue = {0, 8, 23}
    W32 = 32
    W64 = 128
INVARIANTS
    NoFalseNegatives
    PositivesAreExplained
    InsideFile
