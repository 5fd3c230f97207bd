\* then() on f1, a timed get() of f1 that may time out, then T.get().
CONSTANTS
    In <- MCIn
    Progs <- MCPollProgs
    Modes = {"all"}
    Timeouts = TRUE
    AnyN = 2
SPECIFICATION Spec
PROPERTY
    ConsumerFinishes
\* the consumer's program ends and the pool goes idle
CHECK_DEADLOCK FALSE
