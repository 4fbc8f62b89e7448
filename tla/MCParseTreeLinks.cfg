SPECIFICATION Spec
CONSTANTS
    Texts = {"1", ";", "(", ")"}
    MaxInput = 3
    Garbage = {0, 1}
    deterministic = FALSE
INVARIANTS
    ChildrenCanBeFound
CHECK_DEADLOCK FALSE
