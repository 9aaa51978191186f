CONSTANTS
    Half = 32
    Engine = "translated"
SPECIFICATION Spec
INVARIANTS
    DivisionExact
CHECK_DEADLOCK FALSE
