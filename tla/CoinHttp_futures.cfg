\* Two Future_Get calls on one session, both in flight.
CONSTANTS
    Calls <- MCFutureCalls
    KeepAlive = TRUE
    FollowLocation = FALSE
SPECIFICATION Spec
INVARIANT
    ResponseMatches
CHECK_DEADLOCK FALSE
