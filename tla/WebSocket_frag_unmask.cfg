\* read_frame_data() unmasks the start of the buffer, not the fragment just read.
CONSTANTS
    Progs <- MCFragProgs
    Keys <- MCKeys
    ServerSide = FALSE
    MaxPings = 0
SPECIFICATION Spec
\* The connection idles once every call is made and every frame is read.
CHECK_DEADLOCK FALSE
INVARIANT
    MessagesIntact
