\* The peer closes its session between a Data header and its body.
SPECIFICATION Spec
CONSTANTS
    N = 1
    MaxSend = 1
    Timeouts = FALSE
    Faults = FALSE
    WriterYield = {"C", "S"}
    OwnerCloses = TRUE
INVARIANT
    RecvLockReleased
CHECK_DEADLOCK FALSE
