\* The client sends a message that serializes to zero bytes, then another.
CONSTANTS
    Ends <- MCEnds
    Msgs <- MCEmptyMsgs
    Progs <- MCEmptyProgs
    Nil = Nil
    FdCloses = TRUE
    MaxPings = 0
SPECIFICATION Spec
INVARIANT
    ReceivedInOrder
