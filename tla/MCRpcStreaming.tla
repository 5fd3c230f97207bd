--------------------------- MODULE MCRpcStreaming ---------------------------
(***************************************************************************)
(* Instances of RpcStreaming for TLC: a client and a server connection,    *)
(* three messages of a few bytes, and applications that stream in either   *)
(* direction, close first from either side, or destroy at the same time.   *)
(***************************************************************************)
EXTENDS RpcStreaming

MCEnds == {"cli", "srv"}

A == [id |-> "a", len |-> 3]
B == [id |-> "b", len |-> 5]
C == [id |-> "c", len |-> 2]
\* a message whose fields are all default: it serializes to zero bytes
Empty == [id |-> "e", len |-> 0]

MCMsgs == {A, B, C}
MCEmptyMsgs == {A, Empty}

Send(m) == <<"send", m>>
Recv == <<"recv">>

MCProgs == {
    \* the client streams two requests, the server answers, the client closes
    [cli |-> <<Send(A), Send(B), Recv, <<"destroy">>>>,
     srv |-> <<Recv, Recv, Send(C), <<"destroy">>>>],
    \* the server streams, calls close_streaming(), sends again and leaves
    [cli |-> <<Recv, Recv, <<"destroy">>>>,
     srv |-> <<Send(C), <<"close">>, Send(A), <<"destroy">>>>],
    \* both send one message and destroy at once
    [cli |-> <<Send(A), <<"destroy">>>>,
     srv |-> <<Send(C), <<"destroy">>>>]
}

\* the client sends an empty message, then another; the server reads two
MCEmptyProgs == {
    [cli |-> <<Send(Empty), Send(A), <<"destroy">>>>,
     srv |-> <<Recv, Recv, <<"destroy">>>>]
}

=============================================================================
