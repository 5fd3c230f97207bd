\* A timed get() whose timer expires while the producer sets the value.
CONSTANTS
    In <- MCIn
    Progs <- MCProgs
    Modes = {"all"}
    Timeouts = TRUE
    AnyN = 2
SPECIFICATION Spec
PROPERTY
    DoneIsFinal
CHECK_DEADLOCK FALSE
