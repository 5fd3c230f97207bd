------------------------------- MODULE Router -------------------------------
(***************************************************************************)
(* The HTTP routing trie (src/http/trie.cc, node.cc) and the Router that   *)
(* registers handlers in it and dispatches requests (src/http/router.cc).  *)
(*                                                                         *)
(* A route pattern is the sequence of its '/'-separated fragments after    *)
(* add_node() has trimmed the leading slashes and split it: a fragment is  *)
(* a literal segment, "" for a trailing slash, or a colon parameter with   *)
(* its name and regex.  A request path is likewise the sequence of its     *)
(* segments after the leading "/".  A trie node is named by its path from  *)
(* the root: the key of each exact child, or Colon for a colon_child, so   *)
(* find_child() and colon_child are membership tests on trie.nodes.        *)
(*                                                                         *)
(* Registration is the state machine; Trie::match() and Router::handle()   *)
(* are operators evaluated on every reachable trie for every request.      *)
(***************************************************************************)
EXTENDS Integers, Sequences, SequencesExt, FiniteSets, TLC

CONSTANTS
    Segs,             \* literal segments, "" (trailing slash) included
    Names,            \* colon parameter names
    Regexes,          \* regex strings of colon fragments; "" is no regex
    ReSet,            \* ReSet[r]: the segments regex r matches in full
    Methods,          \* HTTP methods
    Patterns,         \* the route patterns the application registers
    Paths,            \* the request paths
    MaxRegs,          \* bound on registrations
    MaxFallbackDepth  \* Trie::_max_fallback_depth

Colon == ":"
ASSUME Colon \notin Segs

Lit(s) == [seg |-> s, name |-> "", re |-> ""]
Param(n, r) == [seg |-> Colon, name |-> n, re |-> r]

VARIABLES
    trie,      \* [nodes, info, endpoint]: info[n] is the node's name and regex
    handlers,  \* node -> methods with a handler (Node::handlers)
    routes,    \* the patterns add_node() accepted (history, for the properties)
    served,    \* <<method, pattern>> registered by a handler that did not throw
    regs       \* registrations made so far

vars == <<trie, handlers, routes, served, regs>>

Root == <<>>
NoInfo == [name |-> "", re |-> ""]

(* is_str_match_regex() with the empty-regex case of get_colon_node().    *)
ReMatch(r, s) == r = "" \/ s \in ReSet[r]

Label(e) == e.seg
NodeOf(pat) == [i \in DOMAIN pat |-> Label(pat[i])]

(***************************************************************************)
(* Trie::_get_or_new_node(): the existing exact child, the new one, or     *)
(* for a colon fragment the parent's colon_child if name and regex agree   *)
(* (_check_colon_child), else the "conflict" exception.  ok = FALSE is the *)
(* throw; t keeps whatever was created before it.                          *)
(***************************************************************************)
GetOrNewNode(T, p, e) ==
    LET c == p \o <<Label(e)>>
        new == [T EXCEPT !.nodes = @ \cup {c},
                         !.info = (c :> [name |-> e.name, re |-> e.re]) @@ @]
    IN  CASE c \in T.nodes /\ e.seg # Colon -> [ok |-> TRUE, n |-> c, t |-> T]
          [] c \in T.nodes -> [ok |-> T.info[c] = [name |-> e.name, re |-> e.re],
                               n |-> c, t |-> T]
          [] OTHER -> [ok |-> TRUE, n |-> c, t |-> new]

(* Trie::_insert_node(): one node per fragment, the last one an endpoint. *)
RECURSIVE InsertNode(_, _, _)
InsertNode(T, p, frags) ==
    LET r == GetOrNewNode(T, p, Head(frags))
    IN  IF ~r.ok THEN r
        ELSE IF Len(frags) = 1
             THEN [r EXCEPT !.t.endpoint = @ \cup {r.n}]
             ELSE InsertNode(r.t, r.n, Tail(frags))

(* Trie::add_node() *)
AddNode(T, pat) == InsertNode(T, Root, pat)

(***************************************************************************)
(* Trie::find_matched_child(): the node to descend to, the colon node to   *)
(* remember, and is_same when the colon node is the one descended to.  An  *)
(* absent node is {}.                                                      *)
(***************************************************************************)
FindMatchedChild(T, p, s) ==
    LET child == {p \o <<s>>} \cap T.nodes
        colon == {c \in {p \o <<Colon>>} \cap T.nodes : ReMatch(T.info[c].re, s)}
    IN  IF child # {} THEN [node |-> child, colon |-> colon, same |-> FALSE]
                      ELSE [node |-> colon, colon |-> colon, same |-> TRUE]

TheNode(S) == CHOOSE n \in S : TRUE

\* Mutation of Descend: a colon alternative is never pushed on the stack.
RECURSIVE DescendNoPush(_, _, _, _, _, _, _)
DescendNoPush(T, segs, i, p, params, stack, record) ==
    IF i > Len(segs)
    THEN [found |-> TRUE, node |-> p, params |-> params, stack |-> stack]
    ELSE LET m == FindMatchedChild(T, p, segs[i])
         IN  IF m.node = {}
             THEN [found |-> FALSE, node |-> p, params |-> params, stack |-> stack]
             ELSE LET n == TheNode(m.node)
                      prm == IF record /\ T.info[n].name # ""
                             THEN (T.info[n].name :> segs[i]) @@ params
                             ELSE params
                  IN  DescendNoPush(T, segs, i + 1, n, prm, stack, record)

(***************************************************************************)
(* The segment loop shared by _match() (record = TRUE: a named node's      *)
(* segment goes into params) and fallback_lookup() (record = FALSE), from  *)
(* segment i at node p.  Every colon alternative passed by is pushed on    *)
(* the fallback stack with its segment index.                              *)
(***************************************************************************)
RECURSIVE Descend(_, _, _, _, _, _, _)
Descend(T, segs, i, p, params, stack, record) ==
    IF i > Len(segs)
    THEN [found |-> TRUE, node |-> p, params |-> params, stack |-> stack]
    ELSE LET m == FindMatchedChild(T, p, segs[i])
             stk == IF m.colon # {} /\ ~m.same
                    THEN Append(stack, <<i, TheNode(m.colon)>>) ELSE stack
         IN  IF m.node = {}
             THEN [found |-> FALSE, node |-> p, params |-> params, stack |-> stk]
             ELSE LET n == TheNode(m.node)
                      prm == IF record /\ T.info[n].name # ""
                             THEN (T.info[n].name :> segs[i]) @@ params
                             ELSE params
                  IN  Descend(T, segs, i + 1, n, prm, stk, record)

\* Mutation of Fallback: the walk resumes at the colon node's own segment
\* ("<" for "<=" in fallback_lookup()).
RECURSIVE FallbackFromIdx(_, _, _, _, _, _)
FallbackFromIdx(T, segs, params, stack, depth, first) ==
    IF depth > MaxFallbackDepth
    THEN [node |-> {}, params |-> first, error |-> TRUE]
    ELSE IF stack = <<>>
    THEN [node |-> {}, params |-> params, error |-> FALSE]
    ELSE LET idx == Last(stack)[1]
             c == Last(stack)[2]
             prm == IF T.info[c].name # ""
                    THEN (T.info[c].name :> segs[idx]) @@ params ELSE params
             w == Descend(T, segs, idx, c, prm, Front(stack), FALSE)
         IN  IF w.found /\ w.node \in T.endpoint
             THEN [node |-> {w.node}, params |-> prm, error |-> FALSE]
             ELSE IF w.stack = <<>>
             THEN [node |-> {}, params |-> prm, error |-> FALSE]
             ELSE FallbackFromIdx(T, segs, prm, w.stack, depth + 1, first)

(***************************************************************************)
(* The fallback loop of _match() with fallback_lookup(): pop the last      *)
(* colon alternative, mix its parameter into params (mixin() writes into   *)
(* the caller's map), and walk on from the next segment.  first is the     *)
(* params of the first walk, which an error return leaves in matched.      *)
(***************************************************************************)
RECURSIVE Fallback(_, _, _, _, _, _)
Fallback(T, segs, params, stack, depth, first) ==
    IF depth > MaxFallbackDepth
    THEN [node |-> {}, params |-> first, error |-> TRUE]
    ELSE IF stack = <<>>
    THEN [node |-> {}, params |-> params, error |-> FALSE]
    ELSE LET idx == Last(stack)[1]
             c == Last(stack)[2]
             prm == IF T.info[c].name # ""
                    THEN (T.info[c].name :> segs[idx]) @@ params ELSE params
             w == Descend(T, segs, idx + 1, c, prm, Front(stack), FALSE)
         IN  IF w.found /\ w.node \in T.endpoint
             THEN [node |-> {w.node}, params |-> prm, error |-> FALSE]
             ELSE IF w.stack = <<>>
             THEN [node |-> {}, params |-> prm, error |-> FALSE]
             ELSE Fallback(T, segs, prm, w.stack, depth + 1, first)

(* Trie::_match(), entered with the params matched already holds. *)
MatchOnce(T, segs, params0) ==
    LET w == Descend(T, segs, 1, Root, params0, <<>>, TRUE)
    IN  IF w.found /\ w.node \in T.endpoint
        THEN [node |-> {w.node}, params |-> w.params, error |-> FALSE]
        ELSE Fallback(T, segs, w.params, w.stack, 1, w.params)

(***************************************************************************)
(* Trie::match() with _strict_route: a path ending in '/' that found no    *)
(* node is matched again without the slash, into the same Matched.         *)
(***************************************************************************)
Match(T, segs) ==
    LET r == MatchOnce(T, segs, <<>>)
    IN  IF r.node = {} /\ segs # <<>> /\ Last(segs) = ""
        THEN LET r2 == MatchOnce(T, Front(segs), r.params)
             IN  [node |-> r2.node, params |-> r2.params,
                  error |-> r.error \/ r2.error, segs |-> Front(segs)]
        ELSE [node |-> r.node, params |-> r.params, error |-> r.error,
              segs |-> segs]

(***************************************************************************)
(* Router::handle(): 500 on a match error, 404 without a node or without a *)
(* handler for the method, else the node's handlers run with params.       *)
(***************************************************************************)
Dispatch(m, segs) ==
    LET r == Match(trie, segs)
    IN  CASE r.error -> [status |-> 500, node |-> {}, params |-> <<>>]
          [] r.node = {} -> [status |-> 404, node |-> {}, params |-> <<>>]
          [] <<TheNode(r.node), m>> \notin handlers
                -> [status |-> 404, node |-> {}, params |-> <<>>]
          [] OTHER -> [status |-> 200, node |-> r.node, params |-> r.params]

-----------------------------------------------------------------------------
Init ==
    /\ trie = [nodes |-> {Root}, info |-> (Root :> NoInfo), endpoint |-> {}]
    /\ handlers = {}
    /\ routes = {}
    /\ served = {}
    /\ regs = 0

\* Mutation of HandleRoute: the handler is attached even when add_node()
\* threw.
HandleRouteNoThrow(m, pat) ==
    /\ regs < MaxRegs
    /\ regs' = regs + 1
    /\ LET r == AddNode(trie, pat)
       IN  /\ trie' = r.t
           /\ routes' = IF r.ok THEN routes \cup {pat} ELSE routes
           /\ IF <<r.n, m>> \notin handlers
              THEN /\ handlers' = handlers \cup {<<r.n, m>>}
                   /\ served' = served \cup {<<m, pat>>}
              ELSE UNCHANGED <<handlers, served>>

(***************************************************************************)
(* Router::init_basic_method() (get(), post(), ...): add_node(), then      *)
(* Node::handle(), which throws if the node has a handler for the method.  *)
(* A throw from either leaves the nodes already created in the trie.       *)
(***************************************************************************)
HandleRoute(m, pat) ==
    /\ regs < MaxRegs
    /\ regs' = regs + 1
    /\ LET r == AddNode(trie, pat)
       IN  /\ trie' = r.t
           /\ routes' = IF r.ok THEN routes \cup {pat} ELSE routes
           /\ IF r.ok /\ <<r.n, m>> \notin handlers
              THEN /\ handlers' = handlers \cup {<<r.n, m>>}
                   /\ served' = served \cup {<<m, pat>>}
              ELSE UNCHANGED <<handlers, served>>

(***************************************************************************)
(* Router::use() with a non-empty path: add_node(), then Node::use() adds  *)
(* a middleware, which the model does not track.  The path "" uses the    *)
(* root node and changes nothing modelled.                                 *)
(***************************************************************************)
UseRoute(pat) ==
    /\ regs < MaxRegs
    /\ regs' = regs + 1
    /\ LET r == AddNode(trie, pat)
       IN  /\ trie' = r.t
           /\ routes' = IF r.ok THEN routes \cup {pat} ELSE routes
    /\ UNCHANGED <<handlers, served>>

Next ==
    \/ \E m \in Methods, pat \in Patterns : HandleRoute(m, pat)
    \/ \E pat \in Patterns : UseRoute(pat)

Spec == Init /\ [][Next]_vars

-----------------------------------------------------------------------------
Frag == {Lit(s) : s \in Segs} \cup {Param(n, r) : n \in Names, r \in Regexes}

TypeOK ==
    /\ trie.nodes \subseteq Seq(Segs \cup {Colon})
    /\ Root \in trie.nodes
    /\ DOMAIN trie.info = trie.nodes
    /\ trie.endpoint \subseteq trie.nodes
    /\ handlers \subseteq trie.endpoint \X Methods
    /\ routes \subseteq Patterns
    /\ served \subseteq Methods \X routes
    /\ regs \in 0..MaxRegs

(* The reference matcher: a pattern matches a path segment by segment.    *)
RefMatch(pat, segs) ==
    /\ Len(pat) = Len(segs)
    /\ \A i \in DOMAIN pat :
          IF pat[i].seg = Colon THEN ReMatch(pat[i].re, segs[i])
                                ELSE pat[i].seg = segs[i]

(* The parameters a matching pattern binds; a repeated name keeps its last. *)
Binding(pat, segs) ==
    LET named == {i \in DOMAIN pat : pat[i].name # ""}
        last(n) == CHOOSE i \in named : pat[i].name = n
                       /\ \A j \in named : pat[j].name = n => j <= i
    IN  [n \in {pat[i].name : i \in named} |-> segs[last(n)]]

(* The route a node stands for. *)
RouteOf(n) == CHOOSE pat \in routes : NodeOf(pat) = n

(***************************************************************************)
(* Trie::match() finds only registered routes that match: the node it     *)
(* returns is the endpoint of a route matching the path (or, after the     *)
(* strict-route retry, the path without its trailing slash).  This is what *)
(* the index bookkeeping of fallback_lookup() ("should use <= not <") and  *)
(* the colon regex check must get right.                                   *)
(***************************************************************************)
RouteSound ==
    \A segs \in Paths :
        LET r == Match(trie, segs)
        IN  r.node # {} =>
              \E pat \in routes : NodeOf(pat) = TheNode(r.node)
                                  /\ RefMatch(pat, r.segs)

(***************************************************************************)
(* Trie::match() misses no route: when some registered route matches the   *)
(* path, match() returns a node without an error, however the exact and    *)
(* colon children and the fallback stack have to be explored to find it.   *)
(***************************************************************************)
RouteComplete ==
    \A segs \in Paths :
        (\E pat \in routes : RefMatch(pat, segs)) =>
            LET r == Match(trie, segs) IN r.node # {} /\ ~r.error

(* r binds each parameter of the route it found as that route would. *)
BoundIn(r) ==
    r.node # {} =>
        LET b == Binding(RouteOf(TheNode(r.node)), r.segs)
        IN  \A n \in DOMAIN b : n \in DOMAIN r.params /\ r.params[n] = b[n]

(***************************************************************************)
(* The params Router::handle() hands to the handler (req.params) bind     *)
(* every colon parameter of the matched route to that route's own segment *)
(* of the path.                                                            *)
(***************************************************************************)
ParamsBound == \A segs \in Paths : BoundIn(Match(trie, segs))

(***************************************************************************)
(* A request is served whenever a handler for its method was registered on *)
(* a route that matches its path.                                          *)
(***************************************************************************)
RouteReachable ==
    \A m \in Methods, segs \in Paths :
        (\E <<mm, pat>> \in served : mm = m /\ RefMatch(pat, segs)) =>
            Dispatch(m, segs).status = 200

=============================================================================
