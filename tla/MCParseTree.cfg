\* Inputs of up to seven tokens, so that two brackets can be nested or follow
\* each other and a bracket can hold a sequence that is extended, over two
\* brackets with different ends, one of them shuffled; the memory of a new node
\* holds one of two values.
SPECIFICATION Spec
CONSTANTS
    Texts = {"1", ";", "(", ")", "while", "end", "x"}
    MaxInput = 7
    Garbage = {0, 1}
    deterministic = FALSE
INVARIANTS
    TreeOK
    NothingLost
    Recognizes
PROPERTIES
    PassEnds
CHECK_DEADLOCK FALSE
