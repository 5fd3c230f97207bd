\* A ping with data desynchronises recv_loop(), which reads no ping payload.
CONSTANTS
    Progs <- MCPingProgs
    Keys <- MCKeys
    ServerSide = FALSE
    MaxPings = 0
SPECIFICATION Spec
\* The connection idles once every call is made and every frame is read.
CHECK_DEADLOCK FALSE
PROPERTY
    AllDelivered
