\* waitAll, waitAny and waitAnyN over two inputs, with then() and timed gets.
CONSTANTS
    In <- MCIn
    Progs <- MCProgs
    Modes = {"all", "any", "anyN"}
    Timeouts = TRUE
    AnyN = 2
SPECIFICATION Spec
INVARIANTS
    TypeOK
    AllInOrder
    OutputSetOnce
PROPERTY
    ConsumerFinishes
\* the consumer's program ends and the pool goes idle
CHECK_DEADLOCK FALSE
