SPECIFICATION Spec
CONSTANTS
    k1 = k1
    k2 = k2
    Keys <- MCKeys
    Limits = {0, 2}
    Window = 2
    MaxTime = 7
SYMMETRY MCSymmetry
INVARIANTS
    TypeOK
    NeverMoreThanLimit
    BucketIsBounded
PROPERTIES
    RefusesOnlyAtLimit
