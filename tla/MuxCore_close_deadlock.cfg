\* Two client streams: one is opened while the other is closed and its peer's frame arrives.
SPECIFICATION Spec
CONSTANTS
    N = 2
    MaxSend = 0
    Timeouts = FALSE
    Faults = FALSE
    WriterYield = {}
    OwnerCloses = FALSE
PROPERTY
    CloseReturns
CHECK_DEADLOCK FALSE
