\* Teardown after a close can drop a message still queued on the worker pool.
CONSTANTS
    Progs <- MCCloseProgs
    Keys <- MCKeys
    ServerSide = FALSE
    MaxPings = 0
SPECIFICATION Spec
\* The connection idles once every call is made and every frame is read.
CHECK_DEADLOCK FALSE
PROPERTY
    DeliveredBeforeClose
