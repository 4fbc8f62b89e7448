SPECIFICATION Spec
CONSTANTS
    Texts = {"1", ";", "while", "end"}
    MaxInput = 7
    Garbage = {0}
    deterministic = FALSE
INVARIANTS
    EveryOrderPossible
CHECK_DEADLOCK FALSE
