\* One pass over one token.
SPECIFICATION Spec
CONSTANTS
    NVec = 1
    MaxTokens = 1
INVARIANTS
    WholeWhenRemoved
CHECK_DEADLOCK FALSE
