\* Two client streams: opens racing the receiver for the stream table, two
\* handler fibers on the server, the closes of both streams interleaved.
\* The session can deadlock here (see the close_deadlock run), so deadlock
\* is not checked.
SPECIFICATION Spec
CONSTANTS
    N = 2
    MaxSend = 0
    Timeouts = FALSE
    Faults = FALSE
    WriterYield = {}
    OwnerCloses = FALSE
INVARIANTS
    ClientNoUseAfterDelete
CHECK_DEADLOCK FALSE
