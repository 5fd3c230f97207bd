\* Registration of up to three routes; the params handed to the handler of a match found by fallback.
CONSTANTS
    Segs <- MCSegs
    Names = {"x", "y"}
    Regexes <- MCRegexes
    ReSet <- MCReSet
    Methods = {"GET"}
    Patterns <- MCPatterns
    Paths <- MCPaths
    MaxRegs = 3
    MaxFallbackDepth = 100
SPECIFICATION Spec
INVARIANT
    ParamsBound
\* registration ends after MaxRegs routes
CHECK_DEADLOCK FALSE
