\* Two streams accepted before either handler fiber has run.
SPECIFICATION Spec
CONSTANTS
    N = 2
    MaxSend = 0
    Timeouts = FALSE
    Faults = FALSE
    WriterYield = {}
    OwnerCloses = FALSE
INVARIANT
    HandlerGetsItsStream
CHECK_DEADLOCK FALSE
