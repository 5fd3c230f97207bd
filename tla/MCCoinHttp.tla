----------------------------- MODULE MCCoinHttp -----------------------------
(***************************************************************************)
(* Instances of CoinHttp for TLC: the calls a user makes on one session.  *)
(***************************************************************************)
EXTENDS CoinHttp

Get(p) == [path |-> p, body |-> 0, fut |-> FALSE]
FutureGet(p) == [path |-> p, body |-> 0, fut |-> TRUE]
PostBody(p, n) == [path |-> p, body |-> n, fut |-> FALSE]

\* Requests without a body, one at a time: a 200, both kinds of 302 under
\* follow_location_, an empty path, and a Future_Get waited for before the
\* session goes.
MCCalls ==
    <<Get("ok"), Get("movedNoLoc"), Get("moved"), Get("empty"), FutureGet("ok")>>


\* One POST with a two-byte body.
MCPostCalls == <<PostBody("ok", 2)>>

\* Two Future_Get calls on the session, in flight together.
MCFutureCalls == <<FutureGet("ok"), FutureGet("ok")>>

\* A handler answering 400.
MCBadCalls == <<Get("bad"), Get("ok")>>

\* Two plain GETs on a keep-alive session.
MCKeepCalls == <<Get("ok"), Get("ok")>>

=============================================================================
