\* Two GETs of a 200 route on a keep-alive session.
CONSTANTS
    Calls <- MCKeepCalls
    KeepAlive = TRUE
    FollowLocation = FALSE
SPECIFICATION Spec
INVARIANT
    KeptAliveCallsSucceed
