\* Frames of a client connection with and without a close, one heartbeat ping.
CONSTANTS
    Progs <- MCProgs
    Keys <- MCKeys
    ServerSide = FALSE
    MaxPings = 1
SPECIFICATION Spec
\* The connection idles once every call is made and every frame is read.
CHECK_DEADLOCK FALSE
INVARIANTS
    TypeOK
    HeadersAgree
    MessagesIntact
PROPERTY
    AllDelivered
