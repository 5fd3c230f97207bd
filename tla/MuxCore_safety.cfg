\* One stream, one unit each way, a reliable connection; open_stream and
\* send may time out, the client's body writes may suspend after their
\* header, and the owner may close the session at any point.  Deadlock is
\* not checked: a close between a Data header and its body leaves the
\* peer's recv_lock_ held (MuxCore_rlock_leak.cfg).
SPECIFICATION Spec
CONSTANTS
    N = 1
    MaxSend = 1
    Timeouts = TRUE
    Faults = FALSE
    WriterYield = {"C"}
    OwnerCloses = TRUE
INVARIANTS
    TypeOK
    EofMeansDrained
CHECK_DEADLOCK FALSE
