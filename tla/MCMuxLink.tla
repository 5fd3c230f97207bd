----------------------------- MODULE MCMuxLink -----------------------------
(* MuxLink instantiated for TLC: a window of two units, and the client's  *)
(* send() sizes for each run.                                             *)
EXTENDS MuxLink

\* Two sends that together overrun the window: the second Data frame is
\* read against what is left of recv_window_.
MCSends == <<1, 2>>
\* One send of two units, a length no ping id below 2 equals.
MCPingSends == <<2>>
=============================================================================
