\* Worker-pool tasks may run OnMessage out of order.
CONSTANTS
    Progs <- MCTwoProgs
    Keys <- MCKeys
    ServerSide = FALSE
    MaxPings = 0
SPECIFICATION Spec
\* The connection idles once every call is made and every frame is read.
CHECK_DEADLOCK FALSE
INVARIANT
    InOrder
