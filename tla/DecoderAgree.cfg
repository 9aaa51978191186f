CONSTANTS
    Tops = {0, 1, 2, 31, 32, 63, 256, 287, 384, 1023, 1024, 1056, 2047, 2048, 4095}
    Rds = {0, 1, 2, 16, 31}
    Rs1s = {0, 1, 31}
SPECIFICATION Spec
INVARIANTS
    EnginesAgree
    TableUnambiguous
    ImmediatesFaithful
CHECK_DEADLOCK FALSE
