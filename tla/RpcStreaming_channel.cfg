\* Client and server StreamingConnections over a socket stream (close()
\* of the fd ends the transport), three application scenarios.
CONSTANTS
    Ends <- MCEnds
    Msgs <- MCMsgs
    Progs <- MCProgs
    Nil = Nil
    FdCloses = TRUE
    MaxPings = 1
SPECIFICATION Spec
INVARIANTS
    TypeOK
    NilLast
PROPERTIES
    Refines
