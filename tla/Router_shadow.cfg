\* Registration of up to three routes; a colon route shadowed by the literal endpoint a use() creates.
CONSTANTS
    Segs <- MCSegs
    Names = {"x", "y"}
    Regexes <- MCRegexes
    ReSet <- MCReSet
    Methods = {"GET"}
    Patterns <- MCPatterns
    Paths <- MCPaths
    MaxRegs = 3
    MaxFallbackDepth = 100
SPECIFICATION Spec
INVARIANT
    RouteReachable
\* registration ends after MaxRegs routes
CHECK_DEADLOCK FALSE
