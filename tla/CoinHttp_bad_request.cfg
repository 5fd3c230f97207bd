\* A keep-alive session whose first call reaches a handler answering 400.
CONSTANTS
    Calls <- MCBadCalls
    KeepAlive = TRUE
    FollowLocation = FALSE
SPECIFICATION Spec
PROPERTY
    CallsReturn
CHECK_DEADLOCK FALSE
