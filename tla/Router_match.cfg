\* Registration of up to three routes in any order; every request path is
\* matched against the trie each registration produces.
CONSTANTS
    Segs <- MCSegs
    Names = {"x", "y"}
    Regexes <- MCRegexes
    ReSet <- MCReSet
    Methods = {"GET"}
    Patterns <- MCPatterns
    Paths <- MCPaths
    MaxRegs = 3
    MaxFallbackDepth = 100
SPECIFICATION Spec
INVARIANTS
    TypeOK
    RouteSound
    RouteComplete
\* registration ends after MaxRegs routes
CHECK_DEADLOCK FALSE
