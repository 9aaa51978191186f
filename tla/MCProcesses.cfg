CONSTANTS
    Procs = {p1, p2}
    MaxCount = 2
    MaxTargets = 1
    Vectors <- MCVectors
    MaxInt = 3

SYMMETRY Symmetric
SPECIFICATION Spec

INVARIANTS
    TypeOK
    ProfileWhole
    OutputAccounted

PROPERTIES
    ReadableUnlessTorn
    TranslationKeepsTargets
