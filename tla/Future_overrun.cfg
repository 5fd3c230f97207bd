\* waitAnyN with N = 1 over two inputs.
CONSTANTS
    In <- MCIn
    Progs <- MCProgs
    Modes = {"anyN"}
    Timeouts = TRUE
    AnyN = 1
SPECIFICATION Spec
INVARIANT
    NoOverrun
CHECK_DEADLOCK FALSE
