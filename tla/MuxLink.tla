------------------------------ MODULE MuxLink ------------------------------
(***************************************************************************)
(* The session-level traffic of two multiplexing sessions joined by one    *)
(* TCP connection (src/mux_session.cpp, src/mux_stream.cpp): each          *)
(* session's keepalive fiber (ping(), handle_ping()) and the flow-control  *)
(* windows of one stream that both ends have opened.  The client "C"       *)
(* application sends on the stream, the server "S" application reads it.  *)
(*                                                                         *)
(* Each session runs three fibers: the send loop, which runs the tasks of  *)
(* send_chan_ in order and is the only writer of frames; the recv loop,    *)
(* which decodes one header (and a Data frame's body) into its local       *)
(* Header hdr and dispatches it; and the keepalive loop.  A handler runs   *)
(* without suspending, so each fiber step here is one whole handler.  The  *)
(* stream open handshake, which MuxCore models, moves no window credit:    *)
(* both WindowUpdates carry delta 0 (send_window_update() computes         *)
(* max - 0 - max), so the stream starts Established with both windows at   *)
(* MaxWindow.                                                              *)
(***************************************************************************)
EXTENDS Integers, Sequences, SequencesExt

CONSTANTS
    MaxWindow,  \* FLAGS_MaxStreamWindowSize, in units of data
    Sends,      \* the sizes the client application passes to send()
    MaxPings    \* keepalive intervals that elapse per session

ASSUME MaxWindow \in Nat \ {0} /\ MaxPings \in Nat
ASSUME Sends \in Seq(1..MaxWindow)

Peers == {"C", "S"}
Other(p) == IF p = "C" THEN "S" ELSE "C"

\* Frames on the wire; GoAway never reaches it (see SendStep).
Frames == [t : {"data"}, fl : {"none"}, len : 1..MaxWindow]
          \cup [t : {"ping"}, fl : {"SYN", "ACK"}, len : 0..MaxWindow]
NoHdr == [t |-> "none", fl |-> "none", len |-> 0]

\* Tasks in send_chan_: the closures of send(), ping(), handle_ping() and
\* the protocol-error path, and the nullptr close() pushes.
Tasks == [k : {"data"}, n : 1..MaxWindow] \cup [k : {"ping", "ack", "goaway", "stop"}]
Task(k) == [k |-> k]
Stop == Task("stop")

Fibers == {"rx", "tx", "ka", "owner"}

VARIABLES
    sendq,     \* send_chan_
    wire,      \* wire[p]: frames p wrote that the peer has not read
    sock,      \* p's socket is open
    shut,      \* shut_down_
    closer,    \* the fiber that ran close() first ("none": nobody)
    cret,      \* that close() has returned from wg_.wait()
    hdr,       \* the recv loop's Header hdr, last frame decoded
    rl, sl,    \* recv loop / send loop: "run" or "done" (wg_.done())
    ka,        \* keepalive fiber: "sleep", "wait" (in ping()), "done"
    kaChan,    \* keep_alive_chan_ holds close()'s push
    kaId,      \* ping()'s local id
    nextPing,  \* ping_.ping_id
    pings,     \* ids in ping_.pings
    acked,     \* ids whose fiber_tbox an ACK has pushed
    sst,       \* the stream's state_: "Established" or "Closed"
    sw,        \* the stream's send_window_
    rw,        \* the stream's recv_window_
    rbuf,      \* units in the stream's recv_buff_
    snote,     \* the stream's send_done_notify_
    apc,       \* index of the client application's next send()
    aw         \* the client application is blocked in send()

vars == <<sendq, wire, sock, shut, closer, cret, hdr, rl, sl, ka, kaChan,
          kaId, nextPing, pings, acked, sst, sw, rw, rbuf, snote, apc, aw>>
kaVars == <<ka, kaChan, kaId, nextPing, pings, acked>>
strmVars == <<sw, rw, rbuf>>

Init ==
    /\ sendq = [p \in Peers |-> <<>>]
    /\ wire = [p \in Peers |-> <<>>]
    /\ sock = [p \in Peers |-> TRUE]
    /\ shut = [p \in Peers |-> FALSE]
    /\ closer = [p \in Peers |-> "none"]
    /\ cret = [p \in Peers |-> FALSE]
    /\ hdr = [p \in Peers |-> NoHdr]
    /\ rl = [p \in Peers |-> "run"]
    /\ sl = [p \in Peers |-> "run"]
    /\ ka = [p \in Peers |-> "sleep"]
    /\ kaChan = [p \in Peers |-> FALSE]
    /\ kaId = [p \in Peers |-> 0]
    /\ nextPing = [p \in Peers |-> 0]
    /\ pings = [p \in Peers |-> {}]
    /\ acked = [p \in Peers |-> {}]
    /\ sst = [p \in Peers |-> "Established"]
    /\ sw = [p \in Peers |-> MaxWindow]
    /\ rw = [p \in Peers |-> MaxWindow]
    /\ rbuf = [p \in Peers |-> 0]
    /\ snote = [p \in Peers |-> <<>>]
    /\ apc = 1
    /\ aw = FALSE

-----------------------------------------------------------------------------
(* close() and exit_err().                                                 *)

\* close() that leaves out the nullptr for send_chan_: the send loop then
\* never learns of the shutdown.
CloseNoStop(p, who, q, sn) ==
    /\ shut' = [shut EXCEPT ![p] = TRUE]
    /\ sst' = [sst EXCEPT ![p] = "Closed"]
    /\ snote' = [snote EXCEPT ![p] = Append(sn, "nil")]
    /\ sendq' = [sendq EXCEPT ![p] = q]
    /\ sock' = [sock EXCEPT ![p] = FALSE]
    /\ kaChan' = [kaChan EXCEPT ![p] = TRUE]
    /\ closer' = [closer EXCEPT ![p] = who]

\* close() up to wg_.wait(), run by fiber who on session p: shut_down_, the
\* stream's set_close() (state Closed, nullptr to its waiters), nullptr to
\* send_chan_ behind q, the socket closed, and keep_alive_chan_ pushed.
Close(p, who, q, sn) ==
    /\ shut' = [shut EXCEPT ![p] = TRUE]
    /\ sst' = [sst EXCEPT ![p] = "Closed"]
    /\ snote' = [snote EXCEPT ![p] = Append(sn, "nil")]
    /\ sendq' = [sendq EXCEPT ![p] = q \o <<Stop>>]
    /\ sock' = [sock EXCEPT ![p] = FALSE]
    /\ kaChan' = [kaChan EXCEPT ![p] = TRUE]
    /\ closer' = [closer EXCEPT ![p] = who]

\* exit_err(): close(), which returns at once once shut_down_ is set.  q and
\* sn are send_chan_ and send_done_notify_ as the caller left them.
ExitErr(p, who, q, sn) ==
    IF shut[p]
    THEN /\ sendq' = [sendq EXCEPT ![p] = q]
         /\ snote' = [snote EXCEPT ![p] = sn]
         /\ UNCHANGED <<shut, sst, sock, kaChan, closer>>
    ELSE Close(p, who, q, sn)

\* The fiber in close() passes wg_.wait() once the three loops are done.
CloseReturn(p) ==
    /\ closer[p] # "none" /\ ~cret[p]
    /\ rl[p] = "done" /\ sl[p] = "done" /\ ka[p] = "done"
    /\ cret' = [cret EXCEPT ![p] = TRUE]
    /\ UNCHANGED <<sendq, wire, sock, shut, closer, hdr, rl, sl, kaVars,
                   sst, strmVars, snote, apc, aw>>

\* The owner of the client session destroys it.
OwnerClose ==
    /\ ~shut["C"]
    /\ Close("C", "owner", sendq["C"], snote["C"])
    /\ UNCHANGED <<wire, cret, hdr, rl, sl, ka, kaId, nextPing, pings, acked,
                   strmVars, apc, aw>>

-----------------------------------------------------------------------------
(* The keepalive loop.                                                     *)

\* keep_alive_chan_.pop(KeepAliveInterval) times out and the loop calls
\* ping(): a fresh id, a fiber_tbox for it in ping_.pings, the Ping(SYN)
\* task queued, then the wait for the ACK.
Tick(p) ==
    /\ ka[p] = "sleep" /\ ~kaChan[p]
    /\ nextPing[p] < MaxPings
    /\ kaId' = [kaId EXCEPT ![p] = nextPing[p]]
    /\ nextPing' = [nextPing EXCEPT ![p] = @ + 1]
    /\ pings' = [pings EXCEPT ![p] = @ \cup {nextPing[p]}]
    /\ sendq' = [sendq EXCEPT ![p] = Append(@, Task("ping"))]
    /\ ka' = [ka EXCEPT ![p] = "wait"]
    /\ UNCHANGED <<wire, sock, shut, closer, cret, hdr, rl, sl, kaChan, acked,
                   sst, strmVars, snote, apc, aw>>

\* The ACK's push is found: the id is erased and ping() returns 1.
KaAck(p) ==
    /\ ka[p] = "wait" /\ kaId[p] \in acked[p]
    /\ pings' = [pings EXCEPT ![p] = @ \ {kaId[p]}]
    /\ ka' = [ka EXCEPT ![p] = "sleep"]
    /\ UNCHANGED <<sendq, wire, sock, shut, closer, cret, hdr, rl, sl, kaChan,
                   kaId, nextPing, acked, sst, strmVars, snote, apc, aw>>

\* ConnectionWriteTimeout elapses first: ping() returns -1, the loop ends
\* and exit_err() closes the session.
KaTimeout(p) ==
    /\ ka[p] = "wait" /\ kaId[p] \notin acked[p]
    /\ ka' = [ka EXCEPT ![p] = "done"]
    /\ ExitErr(p, "ka", sendq[p], snote[p])
    /\ UNCHANGED <<wire, cret, hdr, rl, sl, kaId, nextPing, pings, acked,
                   strmVars, apc, aw>>

\* close()'s push on keep_alive_chan_ is found: the loop returns 1.
KaStop(p) ==
    /\ ka[p] = "sleep" /\ kaChan[p]
    /\ ka' = [ka EXCEPT ![p] = "done"]
    /\ UNCHANGED <<sendq, wire, sock, shut, closer, cret, hdr, rl, sl, kaChan,
                   kaId, nextPing, pings, acked, sst, strmVars, snote, apc, aw>>

-----------------------------------------------------------------------------
(* The applications.                                                       *)

\* MultiplexingStream::send(count): a closing stream fails; a zero
\* send_window_ returns 0; otherwise the Data task is queued and the caller
\* waits on send_done_notify_.  Nothing decreases send_window_.
AppSend ==
    /\ apc <= Len(Sends) /\ ~aw
    /\ IF sst["C"] = "Closed" \/ sw["C"] = 0
         THEN /\ apc' = apc + 1
              /\ UNCHANGED <<sendq, aw>>
         ELSE /\ sendq' = [sendq EXCEPT !["C"] = Append(@, [k |-> "data", n |-> Sends[apc]])]
              /\ aw' = TRUE
              /\ UNCHANGED apc
    /\ UNCHANGED <<wire, sock, shut, closer, cret, hdr, rl, sl, kaVars, sst,
                   strmVars, snote>>

\* send() takes the task's notification (count on success, -1 on nullptr)
\* or times out after ConnectionWriteTimeout, leaving the task queued.
AppSendReturn ==
    /\ aw
    /\ \/ /\ snote["C"] # <<>>
          /\ snote' = [snote EXCEPT !["C"] = Tail(@)]
       \/ UNCHANGED snote
    /\ aw' = FALSE
    /\ apc' = apc + 1
    /\ UNCHANGED <<sendq, wire, sock, shut, closer, cret, hdr, rl, sl, kaVars,
                   sst, strmVars>>

\* MultiplexingStream::recv(count) on the server: copies out buffered
\* units.  It sends no WindowUpdate, so recv_window_ stays where it is.
AppRecv ==
    /\ rbuf["S"] > 0
    /\ \E k \in 1..rbuf["S"] : rbuf' = [rbuf EXCEPT !["S"] = @ - k]
    /\ UNCHANGED <<sendq, wire, sock, shut, closer, cret, hdr, rl, sl, kaVars,
                   sst, sw, rw, snote, apc, aw>>

-----------------------------------------------------------------------------
(* The send loop.                                                          *)

\* The frame a task encodes when it runs.  The Ping(SYN) task reads ping()'s
\* local id, live while ping() waits; handle_ping()'s ACK task reads the
\* length of the recv loop's hdr as it is now, not as it was when the Ping
\* arrived.
FrameOf(p, t) ==
    CASE t.k = "data" -> [t |-> "data", fl |-> "none", len |-> t.n]
      [] t.k = "ping" -> [t |-> "ping", fl |-> "SYN", len |-> kaId[p]]
      [] t.k = "ack"  -> [t |-> "ping", fl |-> "ACK", len |-> hdr[p].len]

\* One task of send_chan_.  nullptr ends the loop.  A Data task on a closing
\* stream pushes nullptr and returns 1.  Otherwise send_message() fails
\* once shut_down_ is set (so a GoAway task, queued just before its fiber
\* calls close(), never writes), writes the frame while the peer's socket
\* is open, and after the peer has closed may have its write lost or fail.
\* A Data task pushes SendSuccess or nullptr; a failure ends the loop and
\* closes the session.
SendStep(p) ==
    /\ sl[p] = "run" /\ sendq[p] # <<>>
    /\ LET t == Head(sendq[p])
           q == Tail(sendq[p])
       IN \/ /\ t.k = "stop"
             /\ sl' = [sl EXCEPT ![p] = "done"]
             /\ sendq' = [sendq EXCEPT ![p] = q]
             /\ UNCHANGED <<wire, snote, shut, sst, sock, kaChan, closer>>
          \/ /\ t.k = "data" /\ sst[p] = "Closed"
             /\ sendq' = [sendq EXCEPT ![p] = q]
             /\ snote' = [snote EXCEPT ![p] = Append(@, "nil")]
             /\ UNCHANGED <<wire, sl, shut, sst, sock, kaChan, closer>>
          \/ /\ t.k # "stop" /\ ~(t.k = "data" /\ sst[p] = "Closed")
             /\ \E ok \in IF shut[p] THEN {FALSE}
                          ELSE IF sock[Other(p)] THEN {TRUE} ELSE BOOLEAN :
                  LET sn == IF t.k = "data"
                            THEN Append(snote[p], IF ok THEN "ok" ELSE "nil")
                            ELSE snote[p]
                  IN IF ok
                     THEN /\ wire' = [wire EXCEPT ![p] =
                                IF sock[Other(p)] THEN Append(@, FrameOf(p, t)) ELSE @]
                          /\ sendq' = [sendq EXCEPT ![p] = q]
                          /\ snote' = [snote EXCEPT ![p] = sn]
                          /\ UNCHANGED <<sl, shut, sst, sock, kaChan, closer>>
                     ELSE /\ sl' = [sl EXCEPT ![p] = "done"]
                          /\ ExitErr(p, "tx", q, sn)
                          /\ UNCHANGED wire
    /\ UNCHANGED <<cret, hdr, rl, ka, kaId, nextPing, pings, acked, strmVars, apc, aw>>

-----------------------------------------------------------------------------
(* The recv loop.                                                          *)

\* read_data() without its check of length against recv_window_.
OverrunUnchecked(p, f) == FALSE

\* read_data()'s check: the Data frame is longer than recv_window_.
Overrun(p, f) == f.len > rw[p]

\* One turn of recv_loop().  On a closed session the loop ends (the check
\* at the top, or the read failing on the closed socket).  End-of-file ends
\* it with exit_err().  Otherwise the next frame is decoded into hdr and
\* dispatched:
\*  - Data: read_data() checks length against recv_window_; a longer frame
\*    queues a GoAway(ProtoErr) and ends the loop with exit_err(); else the
\*    body joins recv_buff_ and recv_window_ shrinks by it.
\*  - Ping with SYN: handle_ping() queues the ACK task.
\*  - Ping ACK: the waiter of the echoed id, if any, gets its push.
RecvStep(p) ==
    /\ rl[p] = "run"
    /\ \/ /\ shut[p]
          /\ rl' = [rl EXCEPT ![p] = "done"]
          /\ UNCHANGED <<sendq, snote, wire, hdr, shut, sst, sock, kaChan, closer,
                         acked, rw, rbuf>>
       \/ /\ ~shut[p] /\ wire[Other(p)] = <<>> /\ ~sock[Other(p)]
          /\ rl' = [rl EXCEPT ![p] = "done"]
          /\ ExitErr(p, "rx", sendq[p], snote[p])
          /\ UNCHANGED <<wire, hdr, acked, rw, rbuf>>
       \/ /\ ~shut[p] /\ wire[Other(p)] # <<>>
          /\ LET f == Head(wire[Other(p)]) IN
             /\ wire' = [wire EXCEPT ![Other(p)] = Tail(@)]
             /\ hdr' = [hdr EXCEPT ![p] = f]
             /\ \/ /\ f.t = "data" /\ Overrun(p, f)
                   /\ rl' = [rl EXCEPT ![p] = "done"]
                   /\ ExitErr(p, "rx", Append(sendq[p], Task("goaway")), snote[p])
                   /\ UNCHANGED <<acked, rw, rbuf>>
                \/ /\ f.t = "data" /\ ~Overrun(p, f)
                   /\ rbuf' = [rbuf EXCEPT ![p] = @ + f.len]
                   /\ rw' = [rw EXCEPT ![p] = @ - f.len]
                   /\ UNCHANGED <<rl, sendq, snote, shut, sst, sock, kaChan, closer, acked>>
                \/ /\ f.t = "ping" /\ f.fl = "SYN"
                   /\ sendq' = [sendq EXCEPT ![p] = Append(@, Task("ack"))]
                   /\ UNCHANGED <<rl, snote, shut, sst, sock, kaChan, closer, acked, rw, rbuf>>
                \/ /\ f.t = "ping" /\ f.fl = "ACK"
                   /\ acked' = [acked EXCEPT ![p] =
                                  IF f.len \in pings[p] THEN @ \cup {f.len} ELSE @]
                   /\ UNCHANGED <<rl, sendq, snote, shut, sst, sock, kaChan, closer, rw, rbuf>>
    /\ UNCHANGED <<cret, sl, ka, kaId, nextPing, pings, sw, apc, aw>>

-----------------------------------------------------------------------------

\* Units of Data on p's wire.
InFlight(p) ==
    FoldSeq(LAMBDA f, acc : IF f.t = "data" THEN f.len + acc ELSE acc, 0, wire[p])

\* Every fiber of both sessions has ended and every close() has returned.
Ended ==
    \A p \in Peers : /\ rl[p] = "done" /\ sl[p] = "done" /\ ka[p] = "done"
                     /\ closer[p] # "none" => cret[p]

\* Both sessions are idle on an open connection: nothing is queued or in
\* flight, the application has made its calls, and each keepalive loop has
\* used its MaxPings intervals (the program would go on pinging).
Quiet ==
    /\ \A p \in Peers : /\ ~shut[p] /\ sendq[p] = <<>> /\ wire[p] = <<>>
                        /\ ka[p] = "sleep" /\ nextPing[p] = MaxPings
    /\ apc > Len(Sends) /\ rbuf["S"] = 0

Done ==
    /\ Ended \/ Quiet
    /\ UNCHANGED vars

Next ==
    \/ AppSend \/ AppSendReturn \/ AppRecv \/ OwnerClose \/ Done
    \/ \E p \in Peers : \/ Tick(p) \/ KaAck(p) \/ KaTimeout(p) \/ KaStop(p)
                        \/ SendStep(p) \/ RecvStep(p) \/ CloseReturn(p)

\* acl runs every fiber that can go on, and every timer fires; the
\* applications' calls and the owner's close are not forced.
Fairness ==
    /\ WF_vars(AppSendReturn)
    /\ \A p \in Peers : /\ WF_vars(Tick(p)) /\ WF_vars(KaAck(p))
                        /\ WF_vars(KaTimeout(p)) /\ WF_vars(KaStop(p))
                        /\ WF_vars(SendStep(p)) /\ WF_vars(RecvStep(p))
                        /\ WF_vars(CloseReturn(p))

Spec == Init /\ [][Next]_vars /\ Fairness

-----------------------------------------------------------------------------
(* Properties.                                                             *)

TypeOK ==
    /\ sendq \in [Peers -> Seq(Tasks)]
    /\ wire \in [Peers -> Seq(Frames)]
    /\ hdr \in [Peers -> Frames \cup {NoHdr}]
    /\ closer \in [Peers -> Fibers \cup {"none"}]
    /\ rl \in [Peers -> {"run", "done"}] /\ sl \in [Peers -> {"run", "done"}]
    /\ ka \in [Peers -> {"sleep", "wait", "done"}]
    /\ nextPing \in [Peers -> 0..MaxPings]
    /\ \A p \in Peers : pings[p] \cup acked[p] \subseteq 0..MaxPings
    /\ sst \in [Peers -> {"Established", "Closed"}]
    /\ rw \in [Peers -> 0..MaxWindow] /\ sw \in [Peers -> 0..MaxWindow]
    /\ rbuf \in [Peers -> 0..MaxWindow]
    /\ snote \in [Peers -> Seq({"ok", "nil"})]
    /\ apc \in 1..Len(Sends) + 1 /\ aw \in BOOLEAN

\* Once either session shuts down, for whatever reason (the owner, a
\* keepalive timeout, a protocol error, end-of-file), every fiber of both
\* sessions ends and every close() returns: the peer learns of it through
\* end-of-file, and close() wakes the keepalive and send loops.
ShutdownEnds ==
    (shut["C"] \/ shut["S"]) ~> Ended

\* Flow control: the Data the client has written and the server has not yet
\* read fits the server's receive window, as the spec's window accounting
\* promises (send_window_ shrinks with each send and send() returns 0 at
\* zero); read_data() otherwise fails the frame and tears the session down.
WindowRespected ==
    InFlight("C") <= rw["S"]

\* Every Ping ACK a session writes echoes the id of a Ping its peer sent:
\* handle_ping()'s task is to answer the Ping it was queued for.
AckEchoesPing ==
    \A p \in Peers : \A i \in DOMAIN wire[p] :
        wire[p][i].t = "ping" /\ wire[p][i].fl = "ACK" =>
            wire[p][i].len < nextPing[Other(p)]

====
