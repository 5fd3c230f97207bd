\* One keep-alive session with follow_location_: five calls without a
\* request body, the last one a Future_Get.
CONSTANTS
    Calls <- MCCalls
    KeepAlive = TRUE
    FollowLocation = TRUE
SPECIFICATION Spec
INVARIANTS
    ResponseMatches
PROPERTIES
    CallsReturn
    ServerReleases
