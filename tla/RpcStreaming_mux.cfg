\* The same applications over a MultiplexingStream: get_fd() is -1, so
\* close_wc_connection() leaves the transport open. An end whose receiver
\* waits for EOF then waits for good, which is the hang this run shows.
CONSTANTS
    Ends <- MCEnds
    Msgs <- MCMsgs
    Progs <- MCProgs
    Nil = Nil
    FdCloses = FALSE
    MaxPings = 0
SPECIFICATION Spec
CHECK_DEADLOCK FALSE
PROPERTY
    DestroyReturns
