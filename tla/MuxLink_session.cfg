\* Both sessions ping once, the client sends 1 then 2 units into a window
\* of 2, and the client's owner may close at any point.
SPECIFICATION Spec
CONSTANTS
    MaxWindow = 2
    Sends <- MCSends
    MaxPings = 1
INVARIANTS
    TypeOK
PROPERTIES
    ShutdownEnds
