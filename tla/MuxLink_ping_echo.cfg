\* Both sessions ping once while the client sends 2 units.
SPECIFICATION Spec
CONSTANTS
    MaxWindow = 2
    Sends <- MCPingSends
    MaxPings = 1
INVARIANT
    AckEchoesPing
