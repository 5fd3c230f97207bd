------------------------------ MODULE MCRouter ------------------------------
(* Router instantiated for TLC: routes of one or two fragments over one    *)
(* literal, two parameter names and one regex (no name twice in a route),  *)
(* and every request path of up to three segments over a matching, a      *)
(* non-matching and the empty segment.                                     *)
EXTENDS Router

MCSegs == {"a", "c", ""}
MCRegexes == {"", "r"}
\* the regex "r" accepts the segment "a" only
MCReSet == ("" :> MCSegs) @@ ("r" :> {"a"})

\* one fragment of a route: a literal, or a parameter with or without a regex
RouteFrags == {Lit("a"), Param("x", ""), Param("y", ""), Param("x", "r")}

MCPatterns ==
    {<<e>> : e \in RouteFrags \cup {Lit("")}}
        \cup {<<e, f>> \in RouteFrags \X (RouteFrags \cup {Lit("")}) :
                 e.name = "" \/ e.name # f.name}

MCPaths == {s \in BoundedSeq(MCSegs, 3) : Len(s) >= 1}
=============================================================================
