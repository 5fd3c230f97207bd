\* Two sends on one stream; send may time out.
SPECIFICATION Spec
CONSTANTS
    N = 1
    MaxSend = 2
    Timeouts = TRUE
    Faults = FALSE
    WriterYield = {}
    OwnerCloses = TRUE
INVARIANT
    SendSuccessWritten
