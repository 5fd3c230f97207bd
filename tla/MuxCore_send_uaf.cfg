\* The owner closes the session while a send is queued.
SPECIFICATION Spec
CONSTANTS
    N = 1
    MaxSend = 1
    Timeouts = FALSE
    Faults = FALSE
    WriterYield = {}
    OwnerCloses = TRUE
INVARIANT
    NoUseAfterDelete
