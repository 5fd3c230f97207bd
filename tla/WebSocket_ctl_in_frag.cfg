\* A ping between fragments clears opcode_, so the last fragment ends the loop.
CONSTANTS
    Progs <- MCCtlProgs
    Keys <- MCKeys
    ServerSide = FALSE
    MaxPings = 0
SPECIFICATION Spec
\* The connection idles once every call is made and every frame is read.
CHECK_DEADLOCK FALSE
PROPERTY
    AllDelivered
