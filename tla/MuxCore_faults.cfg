\* The connection may be reset at any point and socket writes may suspend
\* between a Data header and its body.  Deadlock is not checked: a failed
\* open makes the send loop wait on itself (the open_selfwait run) and a
\* peer that closes mid-frame leaves recv_lock_ held (MuxCore_rlock_leak.cfg).
SPECIFICATION Spec
CONSTANTS
    N = 1
    MaxSend = 1
    Timeouts = FALSE
    Faults = TRUE
    WriterYield = {"C", "S"}
    OwnerCloses = FALSE
INVARIANTS
    EofMeansDrained
    SendSuccessWritten
CHECK_DEADLOCK FALSE
