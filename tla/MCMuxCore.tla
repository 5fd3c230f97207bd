----------------------------- MODULE MCMuxCore -----------------------------
(* MuxCore instantiated for TLC: the client opens one or two streams and  *)
(* sends at most MaxSend units on each.                                   *)
EXTENDS MuxCore

\* Every fiber's pc and every queue and history are finite once the
\* application has made its bounded number of calls, so no constraint is
\* needed beyond N and MaxSend.
=============================================================================
