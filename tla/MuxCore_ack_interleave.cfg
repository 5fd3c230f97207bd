\* Two streams with data; socket writes may suspend.
SPECIFICATION Spec
CONSTANTS
    N = 2
    MaxSend = 1
    Timeouts = FALSE
    Faults = FALSE
    WriterYield = {"C", "S"}
    OwnerCloses = TRUE
INVARIANT
    FrameIntegrity
