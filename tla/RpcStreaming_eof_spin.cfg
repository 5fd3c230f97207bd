\* The channel model, checking only that ~StreamingConnection() returns:
\* read_frame_head() at EOF decodes an uninitialised header, and a PING or
\* PONG opcode there makes the receiver spin on its thread for ever.
CONSTANTS
    Ends <- MCEnds
    Msgs <- MCMsgs
    Progs <- MCProgs
    Nil = Nil
    FdCloses = TRUE
    MaxPings = 1
SPECIFICATION Spec
PROPERTIES
    DestroyReturns
