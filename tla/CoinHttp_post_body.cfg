\* One POST with a two-byte body.  Both ends may stop for good, so deadlock
\* is not checked.
CONSTANTS
    Calls <- MCPostCalls
    KeepAlive = FALSE
    FollowLocation = FALSE
SPECIFICATION Spec
PROPERTY
    CallsReturn
CHECK_DEADLOCK FALSE
