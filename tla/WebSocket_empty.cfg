\* An empty message makes read_frame_data() fail and ends the connection.
CONSTANTS
    Progs <- MCEmptyProgs
    Keys <- MCKeys
    ServerSide = FALSE
    MaxPings = 0
SPECIFICATION Spec
\* The connection idles once every call is made and every frame is read.
CHECK_DEADLOCK FALSE
PROPERTY
    AllDelivered
