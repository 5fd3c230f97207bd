\* One stream without data: closing and shutting down always finish.
SPECIFICATION Spec
CONSTANTS
    N = 1
    MaxSend = 0
    Timeouts = FALSE
    Faults = FALSE
    WriterYield = {}
    OwnerCloses = TRUE
PROPERTIES
    RecvReleased
    CloseReturns
    SessionShutdown
