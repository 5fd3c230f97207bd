\* The client sends 1 then 2 units into a window of 2; no keepalive.
SPECIFICATION Spec
CONSTANTS
    MaxWindow = 2
    Sends <- MCSends
    MaxPings = 0
INVARIANT
    WindowRespected
