\* A connection reset while a stream is being opened.
SPECIFICATION Spec
CONSTANTS
    N = 1
    MaxSend = 0
    Timeouts = FALSE
    Faults = TRUE
    WriterYield = {}
    OwnerCloses = TRUE
PROPERTY
    SessionShutdown
CHECK_DEADLOCK FALSE
