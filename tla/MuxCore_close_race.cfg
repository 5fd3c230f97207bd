\* Both ends close the one stream at the same time.
SPECIFICATION Spec
CONSTANTS
    N = 1
    MaxSend = 0
    Timeouts = FALSE
    Faults = FALSE
    WriterYield = {}
    OwnerCloses = TRUE
INVARIANT
    NoProtocolError
