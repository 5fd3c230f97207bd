------------------------------ MODULE MsgChannel ------------------------------
(***************************************************************************)
(* What a streaming RPC connection promises its two applications: one FIFO *)
(* queue of messages per direction. A message is accepted into the queue  *)
(* of its sender's direction and taken, in order, by the other side. Once  *)
(* the connection has broken, nothing more is accepted and each queue may  *)
(* lose a suffix (the messages still in flight), never a message before    *)
(* one that is still delivered. Nothing is duplicated, reordered or made   *)
(* up. RpcStreaming.tla is shown to implement this module.                 *)
(***************************************************************************)
EXTENDS Sequences, SequencesExt

CONSTANTS
    Ends,   \* the two endpoints of the connection
    Msgs    \* the messages the applications send

VARIABLES
    q,      \* q[e]: accepted from e's application, not yet taken by the peer's
    down    \* the connection has broken

vars == <<q, down>>

Init ==
    /\ q = [e \in Ends |-> <<>>]
    /\ down = FALSE

\* e's application hands m to the connection, which accepts it.
Accept(e, m) ==
    /\ ~down
    /\ q' = [q EXCEPT ![e] = Append(@, m)]
    /\ UNCHANGED down

\* The peer's application takes the oldest message of direction e.
Take(e) ==
    /\ q[e] # <<>>
    /\ q' = [q EXCEPT ![e] = Tail(@)]
    /\ UNCHANGED down

\* The connection breaks (or breaks further): every queue keeps a prefix.
Break ==
    /\ down' = TRUE
    /\ q' \in [Ends -> Seq(Msgs)]
    /\ \A e \in Ends : IsPrefix(q'[e], q[e])

Next ==
    \/ \E e \in Ends, m \in Msgs : Accept(e, m)
    \/ \E e \in Ends : Take(e)
    \/ Break

Spec == Init /\ [][Next]_vars

=============================================================================
