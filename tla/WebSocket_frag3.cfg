\* A middle continuation frame is an unknown opcode to recv_loop().
CONSTANTS
    Progs <- MCFrag3Progs
    Keys <- MCKeys
    ServerSide = FALSE
    MaxPings = 0
SPECIFICATION Spec
\* The connection idles once every call is made and every frame is read.
CHECK_DEADLOCK FALSE
PROPERTY
    AllDelivered
