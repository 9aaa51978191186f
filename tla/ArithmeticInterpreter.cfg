CONSTANTS
    Half = 32
    Engine = "interpreter"
SPECIFICATION Spec
INVARIANTS
    ProductExact
    DivisionExact
CHECK_DEADLOCK FALSE
