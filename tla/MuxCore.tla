------------------------------ MODULE MuxCore ------------------------------
(***************************************************************************)
(* The multiplexing session (src/mux_session.cpp) and stream               *)
(* (src/mux_stream.cpp) of arch_net, for a client session "C" and the      *)
(* server session "S" joined by one TCP connection.                        *)
(*                                                                         *)
(* Each session runs a writer fiber (the send loop), a receiver fiber (the *)
(* recv loop) and application fibers that call open_stream, send, recv    *)
(* and close.  All fibers of a session share one cooperative scheduler: a  *)
(* fiber runs until it suspends (a busy fiber_mutex, an empty fiber_tbox,  *)
(* a socket with no data).  run[p] names the fiber of session p that is    *)
(* running and has not yet suspended, so no other fiber of p can take a    *)
(* step in the middle of a handler.                                        *)
(*                                                                         *)
(* Data is abstracted to units: one send() carries one unit, a Data frame  *)
(* is a header part followed by a payload part on the wire.  Stream ids    *)
(* are allocation indices 1..N (the wire id of the i-th client stream is   *)
(* 2*i+1).  Keepalive pings and flow-control windows are modelled in       *)
(* MuxLink.                                                                *)
(***************************************************************************)
EXTENDS Integers, Sequences, FiniteSets

CONSTANTS
    N,            \* streams the client opens (one application fiber each)
    MaxSend,      \* send() calls per application fiber
    Timeouts,     \* open_stream / send may time out (FLAGS_*Timeout)
    Faults,       \* the TCP connection may be reset
    WriterYield,  \* the sessions whose socket writes may suspend between
                  \* a header and its payload
    OwnerCloses   \* the client's owner may close the session

ASSUME N \in Nat \ {0} /\ MaxSend \in Nat
ASSUME {Timeouts, Faults, OwnerCloses} \subseteq BOOLEAN

Peers == {"C", "S"}

ASSUME WriterYield \subseteq Peers
Other(p) == IF p = "C" THEN "S" ELSE "C"
Ids == 1..N
Fibers == 1..N

\* Fiber identities of one session; application fibers are 1..N.
NoOne == 0
Wr == -1
Rx == -2
Main == -3
Holders == {NoOne, Wr, Rx, Main} \cup Fibers

\* What the opener's res_chan holds: a stream id once the open task pushed
\* one, or one of these.
NoRes == 0     \* open_stream() not called
Pending == -1  \* waiting on res_chan
NilRes == -2   \* nullptr pushed
Expired == -3  \* the opener timed out, res_chan is gone

StreamStates == {"none", "Init", "SynSent", "SynReceived", "Established",
                 "LocalClose", "RemoteClose", "Closed", "Reset"}
Opened == {"SynSent", "SynReceived", "Established"}
Closing == {"LocalClose", "RemoteClose", "Closed", "Reset"}

\* A notification in recv_done_notify_ / send_done_notify_: a success
\* pointer or nullptr.
Notes == {"ok", "nil"}

Part == [t : {"wu", "data", "pl", "goaway"}, fl : SUBSET {"SYN", "ACK", "FIN", "RST"}, s : Ids \cup {0}]
Hdr(t, fl, s) == [t |-> t, fl |-> fl, s |-> s]
Payload(s) == [t |-> "pl", fl |-> {}, s |-> s]

Task == [k : {"open", "data", "fin", "goaway", "stop"}, f : Fibers \cup {0},
         s : Ids \cup {0}, fl : SUBSET {"FIN"}]
Tk(k, f, s) == [k |-> k, f |-> f, s |-> s, fl |-> IF k = "fin" THEN {"FIN"} ELSE {}]

VARIABLES
    sst,      \* sst[p][s]: state_ of stream s at p ("none": no object)
    tbl,      \* ids in mux_streams_.streams
    buf,      \* units in recv_buff_
    rnote,    \* recv_done_notify_ queue
    snote,    \* send_done_notify_ queue
    slock,    \* state_lock_ held by the stream's closing fiber
    rlock,    \* recv_lock_ held by the receiver
    finDone,  \* the fiber_tbox send_close() waits on has been pushed
    shut,     \* shut_down_
    nextId,   \* index of the last id next_stream_id_ handed out
    sendq,    \* send_chan_: tasks for the writer fiber
    mlock,    \* holder of mux_streams_.mutex
    closer,   \* fiber running MultiplexingSession::close()
    cphase,   \* where that fiber is in close()
    ctodo,    \* streams close() has still to set_close()
    acceptq,  \* accept_chn_ (0 is the nullptr sentinel)
    acur,     \* the accept loop's local mux_stream (0: nullptr)
    given,    \* given[k]: the stream accept_stream() returned for handler k
    out,      \* every part p has written to the socket, in order
    rd,       \* rd[p]: parts of out[p] the peer has read
    sock,     \* p's socket is open
    link,     \* "up" or "down" (connection reset)
    run,      \* the fiber of p that is running
    wpc, wcur, rpc, rcur, rcl, apc, astr, asent, ores, mpc,
    wdone,    \* the send loop has returned (wg_.done())
    rdone,    \* the recv loop has returned
    recvd,    \* units recv() handed to the application
    eof,      \* recv() returned 0 after the peer's FIN
    lastOk,   \* number of the last send() call that returned success
    protoErr  \* p's receiver detected a protocol error

strm == <<sst, tbl, buf, rnote, snote, slock, rlock, finDone>>
sess == <<shut, nextId, sendq, mlock, closer, cphase, ctodo, acceptq, acur, given>>
net == <<out, rd, sock, link>>
fib == <<run, wpc, wcur, rpc, rcur, rcl, apc, astr, asent, ores, mpc, wdone, rdone>>
hist == <<recvd, eof, lastOk, protoErr>>
vars == <<strm, sess, net, fib, hist>>

-----------------------------------------------------------------------------
(* Socket.  p reads what Other(p) wrote; its own closed socket or a reset *)
(* connection makes reads and writes fail; a peer that closed its socket *)
(* gives end-of-file once its bytes are read.                             *)
Readable(p) == rd[Other(p)] < Len(out[Other(p)])
NextIn(p) == out[Other(p)][rd[Other(p)] + 1]
ReadError(p) == ~sock[p] \/ link = "down"
ReadEof(p) == ~ReadError(p) /\ ~Readable(p) /\ ~sock[Other(p)]
ReadFails(p) == ReadError(p) \/ ReadEof(p)
CanWrite(p) == sock[p] /\ link = "up"
Consume(p) == rd' = [rd EXCEPT ![Other(p)] = @ + 1]
Write(p, parts) == out' = [out EXCEPT ![p] = @ \o parts]

\* Scheduling: fiber x of p may act when no other fiber of p is running.
Sched(p, x) == run[p] \in {NoOne, x}
SetRun(p, x) == run' = [run EXCEPT ![p] = x]

PushNote(q, v) == Append(q, v)
\* set_close() / close() / a FIN wake both waiters with nullptr.
WakeNil(p, s) ==
    /\ rnote' = [rnote EXCEPT ![p][s] = Append(@, "nil")]
    /\ snote' = [snote EXCEPT ![p][s] = Append(@, "nil")]

\* send_flags(): the pending SYN or ACK of a stream, and its new state.
SendFlags(st) == CASE st = "Init" -> {"SYN"}
                   [] st = "SynReceived" -> {"ACK"}
                   [] OTHER -> {}
AfterSendFlags(st) == CASE st = "Init" -> "SynSent"
                        [] st = "SynReceived" -> "Established"
                        [] OTHER -> st

\* process_flags(): the new state, whether the waiters are woken, and
\* whether the flags were legal in that state.
ProcessFlags(st, fl) ==
    LET a == IF "ACK" \in fl /\ st = "SynSent" THEN "Established" ELSE st
    IN  IF "FIN" \in fl /\ a \notin Opened \cup {"LocalClose"}
        THEN [ok |-> FALSE, st |-> a, cl |-> FALSE]
        ELSE IF "RST" \in fl THEN [ok |-> TRUE, st |-> "Reset", cl |-> TRUE]
        ELSE [ok |-> TRUE,
              st |-> IF "FIN" \in fl /\ a \in Opened THEN "RemoteClose" ELSE a,
              cl |-> "FIN" \in fl]

NoTask == Tk("stop", 0, 0)
NoHdr == Hdr("wu", {}, 0)

Init ==
    /\ sst = [p \in Peers |-> [s \in Ids |-> "none"]]
    /\ tbl = [p \in Peers |-> {}]
    /\ buf = [p \in Peers |-> [s \in Ids |-> 0]]
    /\ rnote = [p \in Peers |-> [s \in Ids |-> <<>>]]
    /\ snote = [p \in Peers |-> [s \in Ids |-> <<>>]]
    /\ slock = [p \in Peers |-> [s \in Ids |-> FALSE]]
    /\ rlock = [p \in Peers |-> [s \in Ids |-> FALSE]]
    /\ finDone = [p \in Peers |-> [s \in Ids |-> FALSE]]
    /\ shut = [p \in Peers |-> FALSE]
    /\ nextId = [p \in Peers |-> 0]
    /\ sendq = [p \in Peers |-> <<>>]
    /\ mlock = [p \in Peers |-> NoOne]
    /\ closer = [p \in Peers |-> NoOne]
    /\ cphase = [p \in Peers |-> "none"]
    /\ ctodo = [p \in Peers |-> {}]
    /\ acceptq = [p \in Peers |-> <<>>]
    /\ acur = 0
    /\ given = [k \in Fibers |-> 0]
    /\ out = [p \in Peers |-> <<>>]
    /\ rd = [p \in Peers |-> 0]
    /\ sock = [p \in Peers |-> TRUE]
    /\ link = "up"
    /\ run = [p \in Peers |-> NoOne]
    /\ wpc = [p \in Peers |-> "idle"]
    /\ wcur = [p \in Peers |-> NoTask]
    /\ rpc = [p \in Peers |-> "top"]
    /\ rcur = [p \in Peers |-> NoHdr]
    /\ rcl = [p \in Peers |-> FALSE]
    \* client fibers are about to call open_stream; server handler fibers
    \* are spawned by the accept loop
    /\ apc = [p \in Peers |-> [f \in Fibers |-> IF p = "C" THEN "init" ELSE "idle"]]
    /\ astr = [p \in Peers |-> [f \in Fibers |-> 0]]
    /\ asent = [p \in Peers |-> [f \in Fibers |-> 0]]
    /\ ores = [f \in Fibers |-> NoRes]
    /\ mpc = [p \in Peers |-> "run"]
    /\ wdone = [p \in Peers |-> FALSE]
    /\ rdone = [p \in Peers |-> FALSE]
    /\ recvd = [p \in Peers |-> [s \in Ids |-> 0]]
    /\ eof = [p \in Peers |-> [s \in Ids |-> FALSE]]
    /\ lastOk = [p \in Peers |-> [s \in Ids |-> 0]]
    /\ protoErr = [p \in Peers |-> FALSE]

-----------------------------------------------------------------------------
(* MultiplexingSession::close(), entered by fiber x: a second call returns *)
(* at once; the first sets shut_down_ and goes on to lock the stream table.*)
BeginClose(p, x) ==
    IF shut[p]
    THEN UNCHANGED <<shut, closer, cphase>> /\ SetRun(p, NoOne)
    ELSE /\ shut' = [shut EXCEPT ![p] = TRUE]
         /\ closer' = [closer EXCEPT ![p] = x]
         /\ cphase' = [cphase EXCEPT ![p] = "lock"]
         /\ SetRun(p, x)
AfterClose(p) == IF shut[p] THEN "done" ELSE "closing"

\* close() takes mux_streams_.mutex, or suspends until it is free.
CloseLock(p) ==
    /\ cphase[p] = "lock" /\ Sched(p, closer[p])
    /\ IF mlock[p] = NoOne
       THEN /\ mlock' = [mlock EXCEPT ![p] = closer[p]]
            /\ ctodo' = [ctodo EXCEPT ![p] = tbl[p]]
            /\ cphase' = [cphase EXCEPT ![p] = "set"]
            /\ UNCHANGED run
       ELSE SetRun(p, NoOne) /\ UNCHANGED <<mlock, ctodo, cphase>>
    /\ UNCHANGED <<strm, shut, nextId, sendq, closer, acceptq, acur, given, net,
                   wpc, wcur, rpc, rcur, rcl, apc, astr, asent, ores, mpc,
                   wdone, rdone, hist>>

\* The stream close()'s loop over mux_streams_.streams reaches next: the
\* unordered_map's order is fixed for a table; the model takes lowest id
\* first.
NextToSet(p) == CHOOSE s \in ctodo[p] : \A t \in ctodo[p] : s <= t

\* Mutation of CloseSet: set_close() does not wake the stream's waiters.
CloseSetNoWake(p) ==
    /\ cphase[p] = "set" /\ ctodo[p] # {} /\ Sched(p, closer[p])
    /\ LET s == NextToSet(p) IN
       IF ~slock[p][s]
       THEN /\ sst' = [sst EXCEPT ![p][s] = "Closed"]
            /\ UNCHANGED <<rnote, snote>>
            /\ ctodo' = [ctodo EXCEPT ![p] = @ \ {s}]
            /\ UNCHANGED run
       ELSE SetRun(p, NoOne) /\ UNCHANGED <<sst, rnote, snote, ctodo>>
    /\ UNCHANGED <<tbl, buf, slock, rlock, finDone, shut, nextId, sendq,
                   mlock, closer, cphase, acceptq, acur, given, net, wpc, wcur, rpc, rcur,
                   rcl, apc, astr, asent, ores, mpc, wdone, rdone, hist>>

\* set_close() on the next stream of the table; it suspends on a
\* state_lock_ held by a fiber inside MultiplexingStream::close().
CloseSet(p) ==
    /\ cphase[p] = "set" /\ ctodo[p] # {} /\ Sched(p, closer[p])
    /\ LET s == NextToSet(p) IN
       IF ~slock[p][s]
       THEN /\ sst' = [sst EXCEPT ![p][s] = "Closed"]
            /\ WakeNil(p, s)
            /\ ctodo' = [ctodo EXCEPT ![p] = @ \ {s}]
            /\ UNCHANGED run
       ELSE SetRun(p, NoOne) /\ UNCHANGED <<sst, rnote, snote, ctodo>>
    /\ UNCHANGED <<tbl, buf, slock, rlock, finDone, shut, nextId, sendq,
                   mlock, closer, cphase, acceptq, acur, given, net, wpc, wcur, rpc, rcur,
                   rcl, apc, astr, asent, ores, mpc, wdone, rdone, hist>>

\* Mutation of CloseFinish: the nullptr sentinel is not pushed to send_chan_.
CloseFinishNoSentinel(p) ==
    /\ cphase[p] = "set" /\ ctodo[p] = {} /\ Sched(p, closer[p])
    /\ mlock' = [mlock EXCEPT ![p] = NoOne]
    /\ UNCHANGED sendq
    /\ sock' = [sock EXCEPT ![p] = FALSE]
    /\ cphase' = [cphase EXCEPT ![p] = "wait"]
    /\ UNCHANGED <<strm, shut, nextId, closer, ctodo, acceptq, acur, given, out, rd, link,
                   fib, hist>>

\* Unlock, push the nullptr sentinel to send_chan_, close the socket.
CloseFinish(p) ==
    /\ cphase[p] = "set" /\ ctodo[p] = {} /\ Sched(p, closer[p])
    /\ mlock' = [mlock EXCEPT ![p] = NoOne]
    /\ sendq' = [sendq EXCEPT ![p] = Append(@, NoTask)]
    /\ sock' = [sock EXCEPT ![p] = FALSE]
    /\ cphase' = [cphase EXCEPT ![p] = "wait"]
    /\ UNCHANGED <<strm, shut, nextId, closer, ctodo, acceptq, acur, given, out, rd, link,
                   fib, hist>>

\* wg_.wait() for the loops, then the nullptr sentinel to accept_chn_.
CloseWait(p) ==
    /\ cphase[p] = "wait" /\ Sched(p, closer[p])
    /\ IF wdone[p] /\ rdone[p]
       THEN /\ acceptq' = [acceptq EXCEPT ![p] = Append(@, 0)]
            /\ cphase' = [cphase EXCEPT ![p] = "done"]
            /\ wpc' = IF closer[p] = Wr THEN [wpc EXCEPT ![p] = "done"] ELSE wpc
            /\ rpc' = IF closer[p] = Rx THEN [rpc EXCEPT ![p] = "done"] ELSE rpc
            /\ mpc' = IF closer[p] = Main THEN [mpc EXCEPT ![p] = "done"] ELSE mpc
       ELSE UNCHANGED <<acceptq, cphase, wpc, rpc, mpc>>
    /\ SetRun(p, NoOne)
    /\ UNCHANGED <<strm, shut, nextId, sendq, mlock, closer, ctodo, acur, given, net,
                   wcur, rcur, rcl, apc, astr, asent, ores, wdone, rdone, hist>>

-----------------------------------------------------------------------------
(* The writer fiber: the send loop of session_setup() pops send_chan_ and *)
(* runs each task; a task returning <= 0 ends the loop, and the fiber then *)
(* calls exit_err(), i.e. close().  It keeps running while tasks remain.  *)
WrTask(p, k) ==
    /\ Sched(p, Wr) /\ wpc[p] = "idle" /\ sendq[p] # <<>>
    /\ Head(sendq[p]).k = k
Task1(p) == Head(sendq[p])
\* the task returned 1: pop the next one, or suspend on an empty send_chan_
WrNext(p) == SetRun(p, IF Len(sendq'[p]) > 0 THEN Wr ELSE NoOne)
\* the task returned -1
WrExit(p) ==
    /\ wdone' = [wdone EXCEPT ![p] = TRUE]
    /\ wpc' = [wpc EXCEPT ![p] = AfterClose(p)]
    /\ BeginClose(p, Wr)
PopTask(p) == sendq' = [sendq EXCEPT ![p] = Tail(@)]

\* The nullptr sentinel: the loop returns 1 without exit_err().
WrStop(p) ==
    /\ WrTask(p, "stop")
    /\ PopTask(p)
    /\ wpc' = [wpc EXCEPT ![p] = "done"]
    /\ wdone' = [wdone EXCEPT ![p] = TRUE]
    /\ SetRun(p, NoOne)
    /\ UNCHANGED <<strm, shut, nextId, mlock, closer, cphase, ctodo, acceptq, acur, given,
                   net, wcur, rpc, rcur, rcl, apc, astr, asent, ores, mpc,
                   rdone, hist>>

\* open_stream's task after its caller timed out: weak_chan.lock() fails
\* and the task returns -1, which ends the send loop.
WrOpenExpired(p) ==
    /\ WrTask(p, "open") /\ ores[Task1(p).f] = Expired
    /\ PopTask(p)
    /\ WrExit(p)
    /\ UNCHANGED <<strm, nextId, mlock, ctodo, acceptq, acur, given, net, wcur, rpc, rcur,
                   rcl, apc, astr, asent, ores, mpc, rdone, hist>>

\* The session is shut: push nullptr to the opener, return -1.
WrOpenShut(p) ==
    /\ WrTask(p, "open") /\ ores[Task1(p).f] # Expired /\ shut[p]
    /\ PopTask(p)
    /\ ores' = [ores EXCEPT ![Task1(p).f] = NilRes]
    /\ WrExit(p)
    /\ UNCHANGED <<strm, nextId, mlock, ctodo, acceptq, acur, given, net, wcur, rpc, rcur,
                   rcl, apc, astr, asent, mpc, rdone, hist>>

\* A new stream in StreamInit sends its SYN window update, which fails on a
\* reset connection.  The opener gets nullptr; returning destroys the
\* unique_ptr, whose destructor calls close(): the stream is SYNSent, so
\* close() queues a FIN task and waits on it -- in the writer fiber, the
\* only fiber that would run that task.
WrOpenFail(p) ==
    /\ WrTask(p, "open") /\ ores[Task1(p).f] # Expired /\ ~shut[p]
    /\ ~CanWrite(p)
    /\ LET id == nextId[p] + 1 IN
       /\ nextId' = [nextId EXCEPT ![p] = id]
       /\ sst' = [sst EXCEPT ![p][id] = "LocalClose"]
       /\ slock' = [slock EXCEPT ![p][id] = TRUE]
       /\ sendq' = [sendq EXCEPT ![p] = Append(Tail(@), Tk("fin", 0, id))]
    /\ ores' = [ores EXCEPT ![Task1(p).f] = NilRes]
    /\ wpc' = [wpc EXCEPT ![p] = "selfwait"]
    /\ SetRun(p, NoOne)
    /\ UNCHANGED <<tbl, buf, rnote, snote, rlock, finDone, shut, mlock, closer,
                   cphase, ctodo, acceptq, acur, given, net, wcur, rpc, rcur, rcl, apc, astr,
                   asent, mpc, wdone, rdone, hist>>

\* next_stream_id_ += 2, send the SYN window update, then register the
\* stream under mux_streams_.mutex (suspending if it is held) and push it
\* to the opener.
WrOpen(p) ==
    /\ WrTask(p, "open") /\ ores[Task1(p).f] # Expired /\ ~shut[p]
    /\ CanWrite(p)
    /\ LET id == nextId[p] + 1
           f == Task1(p).f IN
       /\ nextId' = [nextId EXCEPT ![p] = id]
       /\ sst' = [sst EXCEPT ![p][id] = AfterSendFlags("Init")]
       /\ Write(p, <<Hdr("wu", SendFlags("Init"), id)>>)
       /\ PopTask(p)
       /\ IF mlock[p] = NoOne
          THEN /\ tbl' = [tbl EXCEPT ![p] = @ \cup {id}]
               /\ ores' = [ores EXCEPT ![f] = id]
               /\ WrNext(p)
               /\ UNCHANGED <<wpc, wcur>>
          ELSE /\ wpc' = [wpc EXCEPT ![p] = "open_reg"]
               /\ wcur' = [wcur EXCEPT ![p] = [Task1(p) EXCEPT !.s = id]]
               /\ SetRun(p, NoOne)
               /\ UNCHANGED <<tbl, ores>>
    /\ UNCHANGED <<buf, rnote, snote, slock, rlock, finDone, shut, mlock,
                   closer, cphase, ctodo, acceptq, acur, given, rd, sock, link, rpc, rcur,
                   rcl, apc, astr, asent, mpc, wdone, rdone, hist>>

\* The mutex is free again: register the stream; the result goes to the
\* opener's res_chan even if the opener has already timed out.
WrOpenReg(p) ==
    /\ wpc[p] = "open_reg" /\ Sched(p, Wr) /\ mlock[p] = NoOne
    /\ tbl' = [tbl EXCEPT ![p] = @ \cup {wcur[p].s}]
    /\ ores' = [ores EXCEPT ![wcur[p].f] = IF @ = Expired THEN @ ELSE wcur[p].s]
    /\ wpc' = [wpc EXCEPT ![p] = "idle"]
    /\ SetRun(p, IF sendq[p] # <<>> THEN Wr ELSE NoOne)
    /\ UNCHANGED <<sst, buf, rnote, snote, slock, rlock, finDone, sess, net,
                   wcur, rpc, rcur, rcl, apc, astr, asent, mpc, wdone, rdone,
                   hist>>

\* send()'s task on a stream that is closing: push nullptr, return 1.
WrDataClosed(p) ==
    /\ WrTask(p, "data") /\ sst[p][Task1(p).s] \in Closing
    /\ LET s == Task1(p).s IN
       snote' = [snote EXCEPT ![p][s] = PushNote(@, "nil")]
    /\ PopTask(p)
    /\ WrNext(p)
    /\ UNCHANGED <<sst, tbl, buf, rnote, slock, rlock, finDone, shut, nextId,
                   mlock, closer, cphase, ctodo, acceptq, acur, given, net, wpc, wcur, rpc,
                   rcur, rcl, apc, astr, asent, ores, mpc, wdone, rdone, hist>>

\* send_flags() then send_message(), which fails when the session is shut
\* or the socket write fails: push nullptr, return -1.
WrDataFail(p) ==
    /\ WrTask(p, "data") /\ sst[p][Task1(p).s] \notin Closing
    /\ shut[p] \/ ~CanWrite(p)
    /\ LET s == Task1(p).s IN
       /\ sst' = [sst EXCEPT ![p][s] = AfterSendFlags(@)]
       /\ snote' = [snote EXCEPT ![p][s] = PushNote(@, "nil")]
    /\ PopTask(p)
    /\ WrExit(p)
    /\ UNCHANGED <<tbl, buf, rnote, slock, rlock, finDone, nextId, mlock,
                   ctodo, acceptq, acur, given, net, wcur, rpc, rcur, rcl, apc, astr,
                   asent, ores, mpc, rdone, hist>>

\* Mutation of WrData: the payload is written before its header.
WrDataBodyFirst(p) ==
    /\ WrTask(p, "data") /\ sst[p][Task1(p).s] \notin Closing
    /\ ~shut[p] /\ CanWrite(p)
    /\ LET s == Task1(p).s IN
       /\ sst' = [sst EXCEPT ![p][s] = AfterSendFlags(@)]
       /\ Write(p, <<Payload(s), Hdr("data", SendFlags(sst[p][s]), s)>>)
       /\ snote' = [snote EXCEPT ![p][s] = PushNote(@, "ok")]
    /\ PopTask(p)
    /\ WrNext(p)
    /\ UNCHANGED <<tbl, buf, rnote, slock, rlock, finDone, shut, nextId, mlock,
                   closer, cphase, ctodo, acceptq, acur, given, rd, sock, link, wpc, wcur,
                   rpc, rcur, rcl, apc, astr, asent, ores, mpc, wdone, rdone,
                   hist>>

\* Header and body written without suspending; push SendSuccess.
WrData(p) ==
    /\ WrTask(p, "data") /\ sst[p][Task1(p).s] \notin Closing
    /\ ~shut[p] /\ CanWrite(p)
    /\ LET s == Task1(p).s IN
       /\ sst' = [sst EXCEPT ![p][s] = AfterSendFlags(@)]
       /\ Write(p, <<Hdr("data", SendFlags(sst[p][s]), s), Payload(s)>>)
       /\ snote' = [snote EXCEPT ![p][s] = PushNote(@, "ok")]
    /\ PopTask(p)
    /\ WrNext(p)
    /\ UNCHANGED <<tbl, buf, rnote, slock, rlock, finDone, shut, nextId, mlock,
                   closer, cphase, ctodo, acceptq, acur, given, rd, sock, link, wpc, wcur,
                   rpc, rcur, rcl, apc, astr, asent, ores, mpc, wdone, rdone,
                   hist>>

\* The header is written and the body write suspends on a full socket.
WrDataHeader(p) ==
    /\ p \in WriterYield
    /\ WrTask(p, "data") /\ sst[p][Task1(p).s] \notin Closing
    /\ ~shut[p] /\ CanWrite(p)
    /\ LET s == Task1(p).s IN
       /\ sst' = [sst EXCEPT ![p][s] = AfterSendFlags(@)]
       /\ Write(p, <<Hdr("data", SendFlags(sst[p][s]), s)>>)
    /\ wcur' = [wcur EXCEPT ![p] = Task1(p)]
    /\ PopTask(p)
    /\ wpc' = [wpc EXCEPT ![p] = "body"]
    /\ SetRun(p, NoOne)
    /\ UNCHANGED <<tbl, buf, rnote, snote, slock, rlock, finDone, shut, nextId,
                   mlock, closer, cphase, ctodo, acceptq, acur, given, rd, sock, link, rpc,
                   rcur, rcl, apc, astr, asent, ores, mpc, wdone, rdone, hist>>

\* The body write resumes; shut_down_ is not looked at again.  A failed
\* write pushes nullptr and ends the loop.
WrBody(p) ==
    /\ wpc[p] = "body" /\ Sched(p, Wr)
    /\ IF CanWrite(p)
       THEN /\ Write(p, <<Payload(wcur[p].s)>>)
            /\ snote' = [snote EXCEPT ![p][wcur[p].s] = PushNote(@, "ok")]
            /\ wpc' = [wpc EXCEPT ![p] = "idle"]
            /\ SetRun(p, IF sendq[p] # <<>> THEN Wr ELSE NoOne)
            /\ UNCHANGED <<shut, closer, cphase, wdone>>
       ELSE /\ snote' = [snote EXCEPT ![p][wcur[p].s] = PushNote(@, "nil")]
            /\ WrExit(p)
            /\ UNCHANGED out
    /\ UNCHANGED <<sst, tbl, buf, rnote, slock, rlock, finDone, nextId, sendq,
                   mlock, ctodo, acceptq, acur, given, rd, sock, link, wcur, rpc, rcur, rcl,
                   apc, astr, asent, ores, mpc, rdone, hist>>

\* Mutation of WrFin: the FIN task does not push the tbox send_close() waits on.
WrFinNoSignal(p) ==
    /\ WrTask(p, "fin") /\ ~shut[p] /\ CanWrite(p)
    /\ Write(p, <<Hdr("wu", Task1(p).fl, Task1(p).s)>>)
        /\ PopTask(p)
    /\ WrNext(p)
    /\ UNCHANGED <<finDone, sst, tbl, buf, rnote, snote, slock, rlock, shut, nextId,
                   mlock, closer, cphase, ctodo, acceptq, acur, given, rd, sock, link, wpc,
                   wcur, rpc, rcur, rcl, apc, astr, asent, ores, mpc, wdone,
                   rdone, hist>>

\* send_close()'s task: a FIN window update; the deferred push wakes the
\* closing fiber whether or not the write succeeded.
WrFin(p) ==
    /\ WrTask(p, "fin") /\ ~shut[p] /\ CanWrite(p)
    /\ Write(p, <<Hdr("wu", Task1(p).fl, Task1(p).s)>>)
    /\ finDone' = [finDone EXCEPT ![p][Task1(p).s] = TRUE]
    /\ PopTask(p)
    /\ WrNext(p)
    /\ UNCHANGED <<sst, tbl, buf, rnote, snote, slock, rlock, shut, nextId,
                   mlock, closer, cphase, ctodo, acceptq, acur, given, rd, sock, link, wpc,
                   wcur, rpc, rcur, rcl, apc, astr, asent, ores, mpc, wdone,
                   rdone, hist>>

WrFinFail(p) ==
    /\ WrTask(p, "fin") /\ (shut[p] \/ ~CanWrite(p))
    /\ finDone' = [finDone EXCEPT ![p][Task1(p).s] = TRUE]
    /\ PopTask(p)
    /\ WrExit(p)
    /\ UNCHANGED <<sst, tbl, buf, rnote, snote, slock, rlock, nextId, mlock,
                   ctodo, acceptq, acur, given, net, wcur, rpc, rcur, rcl, apc, astr, asent,
                   ores, mpc, rdone, hist>>

\* The GoAway(ProtoErr) task queued by the receiver.  The receiver has
\* already run close() when the task runs, so send_message() sees
\* shut_down_ and the frame is not sent; the task's -1 ends the loop.
WrGoAway(p) ==
    /\ WrTask(p, "goaway")
    /\ PopTask(p)
    /\ IF shut[p] \/ ~CanWrite(p)
       THEN WrExit(p) /\ UNCHANGED out
       ELSE Write(p, <<Hdr("goaway", {}, 0)>>) /\ WrNext(p)
            /\ UNCHANGED <<wdone, wpc, shut, closer, cphase>>
    /\ UNCHANGED <<strm, nextId, mlock, ctodo, acceptq, acur, given, rd, sock, link, wcur,
                   rpc, rcur, rcl, apc, astr, asent, ores, mpc, rdone, hist>>

-----------------------------------------------------------------------------
(* The receiver fiber: recv_loop() reads a header, dispatches it, and     *)
(* loops while the session is not shut.                                   *)
\* the loop returned -1: wg_.done(), exit_err()
RxExitErr(p) ==
    /\ rdone' = [rdone EXCEPT ![p] = TRUE]
    /\ rpc' = [rpc EXCEPT ![p] = AfterClose(p)]
    /\ BeginClose(p, Rx)
GoAwayTask(p) == sendq' = [sendq EXCEPT ![p] = Append(@, Tk("goaway", 0, 0))]
SetRpc(p, pc) == rpc' = [rpc EXCEPT ![p] = pc]

\* while (!is_closed()): a shut session ends the loop with 1.
RxLoop(p) ==
    /\ rpc[p] = "top" /\ Sched(p, Rx)
    /\ IF shut[p]
       THEN /\ SetRpc(p, "done") /\ rdone' = [rdone EXCEPT ![p] = TRUE]
            /\ SetRun(p, NoOne)
       ELSE SetRpc(p, "hdr") /\ SetRun(p, Rx) /\ UNCHANGED rdone
    /\ UNCHANGED <<strm, sess, net, wpc, wcur, rcur, rcl, apc, astr, asent,
                   ores, mpc, wdone, hist>>

\* recv_and_decode() reads a header.  A payload read where a header was
\* expected fails the magic check; a GoAway carries goAwayProtoErr, which
\* handle_go_away() answers with -1.  is_closed() is checked again after
\* the read, since the read may have suspended.
RxRead(p) ==
    /\ rpc[p] = "hdr" /\ Sched(p, Rx) /\ ~ReadFails(p) /\ Readable(p)
    /\ Consume(p)
    /\ LET h == NextIn(p) IN
       CASE h.t \in {"pl", "goaway"} ->
                RxExitErr(p) /\ UNCHANGED rcur
         [] shut[p] ->
                /\ SetRpc(p, "done") /\ rdone' = [rdone EXCEPT ![p] = TRUE]
                /\ SetRun(p, NoOne)
                /\ UNCHANGED <<rcur, shut, closer, cphase>>
         [] OTHER ->
                /\ SetRpc(p, IF "SYN" \in h.fl THEN "inc" ELSE "lookup")
                /\ rcur' = [rcur EXCEPT ![p] = h]
                /\ SetRun(p, Rx)
                /\ UNCHANGED <<rdone, shut, closer, cphase>>
    /\ UNCHANGED <<strm, nextId, sendq, mlock, ctodo, acceptq, acur, given, out, sock, link,
                   wpc, wcur, rcl, apc, astr, asent, ores, mpc, wdone, hist>>

\* A read on a closed socket, a reset connection or end-of-file: -1.
RxReadFail(p) ==
    /\ rpc[p] = "hdr" /\ Sched(p, Rx) /\ ReadFails(p)
    /\ RxExitErr(p)
    /\ UNCHANGED <<strm, nextId, sendq, mlock, ctodo, acceptq, acur, given, net, wpc, wcur,
                   rcur, rcl, apc, astr, asent, ores, mpc, wdone, hist>>

\* The receiver waits for bytes, or for a mutex another fiber holds.
RxBlock(p) ==
    /\ run[p] = Rx
    /\ \/ rpc[p] \in {"hdr", "body", "discard"} /\ ~Readable(p) /\ ~ReadFails(p)
       \/ rpc[p] \in {"inc", "lookup"} /\ mlock[p] # NoOne
       \/ rpc[p] = "flags" /\ slock[p][rcur[p].s]
    /\ SetRun(p, NoOne)
    /\ UNCHANGED <<strm, sess, net, wpc, wcur, rpc, rcur, rcl, apc, astr,
                   asent, ores, mpc, wdone, rdone, hist>>

\* incoming_stream() fails: an id already in the table is a protocol
\* error (GoAway(ProtoErr) is queued); a shut session or a failed write of
\* the new stream's ACK window update -- written by the receiver fiber
\* itself, not through send_chan_ -- returns -1 and leaks the stream.
RxIncomingReject(p) ==
    /\ rpc[p] = "inc" /\ Sched(p, Rx) /\ mlock[p] = NoOne
    /\ rcur[p].s \in tbl[p] \/ shut[p] \/ ~CanWrite(p)
    /\ IF rcur[p].s \in tbl[p]
       THEN GoAwayTask(p) /\ protoErr' = [protoErr EXCEPT ![p] = TRUE]
       ELSE UNCHANGED <<sendq, protoErr>>
    /\ RxExitErr(p)
    /\ UNCHANGED <<strm, nextId, mlock, ctodo, acceptq, acur, given, net, wpc, wcur, rcur,
                   rcl, apc, astr, asent, ores, mpc, wdone, recvd, eof, lastOk>>

\* A stream in SYNReceived answers with ACK (send_flags() makes it
\* Established), is registered and pushed to accept_chn_; the frame then
\* goes through the table lookup like any other.
RxIncoming(p) ==
    /\ rpc[p] = "inc" /\ Sched(p, Rx) /\ mlock[p] = NoOne
    /\ rcur[p].s \notin tbl[p] /\ ~shut[p] /\ CanWrite(p)
    /\ LET s == rcur[p].s IN
       /\ sst' = [sst EXCEPT ![p][s] = AfterSendFlags("SynReceived")]
       /\ Write(p, <<Hdr("wu", SendFlags("SynReceived"), s)>>)
       /\ tbl' = [tbl EXCEPT ![p] = @ \cup {s}]
       /\ acceptq' = [acceptq EXCEPT ![p] = Append(@, s)]
    /\ SetRpc(p, "lookup")
    /\ UNCHANGED <<buf, rnote, snote, slock, rlock, finDone, shut, nextId,
                   sendq, mlock, closer, cphase, ctodo, acur, given, rd, sock,
                   link, run, wpc, wcur, rcur, rcl, apc, astr, asent, ores, mpc,
                   wdone, rdone, hist>>

\* handle_stream_message() takes mux_streams_.mutex and keeps it until it
\* returns.  An unknown id: a Data body is read and discarded.
RxLookup(p) ==
    /\ rpc[p] = "lookup" /\ Sched(p, Rx) /\ mlock[p] = NoOne
    /\ IF rcur[p].s \in tbl[p]
       THEN mlock' = [mlock EXCEPT ![p] = Rx] /\ SetRpc(p, "flags")
       ELSE IF rcur[p].t = "data"
       THEN mlock' = [mlock EXCEPT ![p] = Rx] /\ SetRpc(p, "discard")
       ELSE UNCHANGED mlock /\ SetRpc(p, "top")
    /\ UNCHANGED <<strm, shut, nextId, sendq, closer, cphase, ctodo, acceptq, acur, given,
                   net, run, wpc, wcur, rcur, rcl, apc, astr, asent, ores, mpc,
                   wdone, rdone, hist>>

\* process_flags() under the stream's state_lock_ rejects a FIN in a state
\* that cannot take one: the receiver queues GoAway(ProtoErr), unlocks and
\* returns -1.
RxBadFlags(p) ==
    /\ rpc[p] = "flags" /\ Sched(p, Rx) /\ ~slock[p][rcur[p].s]
    /\ ~ProcessFlags(sst[p][rcur[p].s], rcur[p].fl).ok
    /\ sst' = [sst EXCEPT ![p][rcur[p].s] = ProcessFlags(@, rcur[p].fl).st]
    /\ GoAwayTask(p)
    /\ mlock' = [mlock EXCEPT ![p] = NoOne]
    /\ protoErr' = [protoErr EXCEPT ![p] = TRUE]
    /\ RxExitErr(p)
    /\ UNCHANGED <<tbl, buf, rnote, snote, slock, rlock, finDone, nextId,
                   ctodo, acceptq, acur, given, net, wpc, wcur, rcur, rcl, apc, astr, asent,
                   ores, mpc, wdone, recvd, eof, lastOk>>

\* increase_send_window(): a FIN wakes both waiters with nullptr.
RxWindowUpdate(p) ==
    /\ rpc[p] = "flags" /\ Sched(p, Rx) /\ ~slock[p][rcur[p].s]
    /\ rcur[p].t = "wu"
    /\ LET s == rcur[p].s
           r == ProcessFlags(sst[p][s], rcur[p].fl) IN
       /\ r.ok
       /\ sst' = [sst EXCEPT ![p][s] = r.st]
       /\ IF r.cl THEN WakeNil(p, s) ELSE UNCHANGED <<rnote, snote>>
    /\ mlock' = [mlock EXCEPT ![p] = NoOne]
    /\ SetRpc(p, "top")
    /\ UNCHANGED <<tbl, buf, slock, rlock, finDone, shut, nextId, sendq, closer,
                   cphase, ctodo, acceptq, acur, given, net, run, wpc, wcur, rcur, rcl, apc,
                   astr, asent, ores, mpc, wdone, rdone, hist>>

\* read_data(): process_flags(), then recv_lock_ is taken for read_body().
\* (The window check is modelled in MuxLink; one unit never exceeds it.)
RxData(p) ==
    /\ rpc[p] = "flags" /\ Sched(p, Rx) /\ ~slock[p][rcur[p].s]
    /\ rcur[p].t = "data"
    /\ LET s == rcur[p].s
           r == ProcessFlags(sst[p][s], rcur[p].fl) IN
       /\ r.ok
       /\ sst' = [sst EXCEPT ![p][s] = r.st]
       /\ rcl' = [rcl EXCEPT ![p] = r.cl]
       /\ rlock' = [rlock EXCEPT ![p][s] = TRUE]
    /\ SetRpc(p, "body")
    /\ UNCHANGED <<tbl, buf, rnote, snote, slock, finDone, sess, net, run, wpc,
                   wcur, rcur, apc, astr, asent, ores, mpc, wdone, rdone, hist>>

\* Mutation of RxBody: recv_lock_ is not released after the body.
RxBodyKeepLock(p) ==
    /\ rpc[p] = "body" /\ Sched(p, Rx) /\ ~ReadFails(p) /\ Readable(p)
    /\ Consume(p)
    /\ LET s == rcur[p].s IN
       /\ buf' = [buf EXCEPT ![p][s] = @ + 1]
       /\ IF rcl[p]
          THEN /\ rnote' = [rnote EXCEPT ![p][s] = @ \o <<"ok", "nil">>]
               /\ snote' = [snote EXCEPT ![p][s] = Append(@, "nil")]
          ELSE /\ rnote' = [rnote EXCEPT ![p][s] = Append(@, "ok")]
               /\ UNCHANGED snote
    /\ mlock' = [mlock EXCEPT ![p] = NoOne]
    /\ SetRpc(p, "top")
    /\ UNCHANGED <<sst, tbl, slock, rlock, finDone, shut, nextId, sendq, closer,
                   cphase, ctodo, acceptq, acur, given, out, sock, link, run, wpc, wcur,
                   rcur, rcl, apc, astr, asent, ores, mpc, wdone, rdone, hist>>

\* The body arrives: it is appended to recv_buff_, recv_lock_ released and
\* RecvSuccess pushed (then nullptr if the frame carried FIN).
RxBody(p) ==
    /\ rpc[p] = "body" /\ Sched(p, Rx) /\ ~ReadFails(p) /\ Readable(p)
    /\ Consume(p)
    /\ LET s == rcur[p].s IN
       /\ buf' = [buf EXCEPT ![p][s] = @ + 1]
       /\ rlock' = [rlock EXCEPT ![p][s] = FALSE]
       /\ IF rcl[p]
          THEN /\ rnote' = [rnote EXCEPT ![p][s] = @ \o <<"ok", "nil">>]
               /\ snote' = [snote EXCEPT ![p][s] = Append(@, "nil")]
          ELSE /\ rnote' = [rnote EXCEPT ![p][s] = Append(@, "ok")]
               /\ UNCHANGED snote
    /\ mlock' = [mlock EXCEPT ![p] = NoOne]
    /\ SetRpc(p, "top")
    /\ UNCHANGED <<sst, tbl, slock, finDone, shut, nextId, sendq, closer,
                   cphase, ctodo, acceptq, acur, given, out, sock, link, run, wpc, wcur,
                   rcur, rcl, apc, astr, asent, ores, mpc, wdone, rdone, hist>>

\* read_body() returns 0 (the peer closed mid-frame): "uint32_t ret <= 0"
\* holds and read_data() returns -1 without unlocking recv_lock_.
RxBodyFail(p) ==
    /\ rpc[p] = "body" /\ Sched(p, Rx) /\ ReadEof(p)
    /\ GoAwayTask(p)
    /\ mlock' = [mlock EXCEPT ![p] = NoOne]
    /\ RxExitErr(p)
    /\ UNCHANGED <<strm, nextId, ctodo, acceptq, acur, given, net, wpc, wcur, rcur, rcl, apc,
                   astr, asent, ores, mpc, wdone, hist>>

\* read_body() returns -1 (a socket error): stored in uint32_t ret it is
\* 2^32-1, so read_data() takes the success path with nothing appended:
\* recv_lock_ released and RecvSuccess pushed (assert(ret == length) is
\* compiled out in release builds; recv_window_ is modelled in MuxLink).
RxBodyErr(p) ==
    /\ rpc[p] = "body" /\ Sched(p, Rx) /\ ReadError(p)
    /\ LET s == rcur[p].s IN
       /\ rlock' = [rlock EXCEPT ![p][s] = FALSE]
       /\ IF rcl[p]
          THEN /\ rnote' = [rnote EXCEPT ![p][s] = @ \o <<"ok", "nil">>]
               /\ snote' = [snote EXCEPT ![p][s] = Append(@, "nil")]
          ELSE /\ rnote' = [rnote EXCEPT ![p][s] = Append(@, "ok")]
               /\ UNCHANGED snote
    /\ mlock' = [mlock EXCEPT ![p] = NoOne]
    /\ SetRpc(p, "top")
    /\ UNCHANGED <<sst, tbl, buf, slock, finDone, shut, nextId, sendq, closer,
                   cphase, ctodo, acceptq, acur, given, net, run, wpc, wcur,
                   rcur, rcl, apc, astr, asent, ores, mpc, wdone, rdone, hist>>

\* The discarded body is read (its result is ignored) and the mutex freed.
RxDiscard(p) ==
    /\ rpc[p] = "discard" /\ Sched(p, Rx)
    /\ Readable(p) \/ ReadFails(p)
    /\ IF ~ReadFails(p) THEN Consume(p) ELSE UNCHANGED rd
    /\ mlock' = [mlock EXCEPT ![p] = NoOne]
    /\ SetRpc(p, "top")
    /\ UNCHANGED <<strm, shut, nextId, sendq, closer, cphase, ctodo, acceptq, acur, given,
                   out, sock, link, run, wpc, wcur, rcur, rcl, apc, astr, asent,
                   ores, mpc, wdone, rdone, hist>>

-----------------------------------------------------------------------------
(* Application fibers.  Client fiber f opens a stream and then sends,     *)
(* receives and closes it; server fiber s is the handler the accept loop  *)
(* spawns for stream s.  A call starts when no fiber of the session is    *)
(* running; after it returns the fiber's own code runs until it yields.   *)
SetApc(p, f, pc) == apc' = [apc EXCEPT ![p][f] = pc]
Str(p, f) == astr[p][f]

\* open_stream(): nullptr on a shut session, else queue the open task and
\* wait on res_chan.
AppOpen(f) ==
    /\ apc["C"][f] = "init" /\ run["C"] = NoOne
    /\ IF shut["C"]
       THEN SetApc("C", f, "end") /\ UNCHANGED <<sendq, ores>>
       ELSE /\ sendq' = [sendq EXCEPT !["C"] = Append(@, Tk("open", f, 0))]
            /\ ores' = [ores EXCEPT ![f] = Pending]
            /\ SetApc("C", f, "open_wait")
    /\ UNCHANGED <<strm, shut, nextId, mlock, closer, cphase, ctodo, acceptq, acur, given,
                   net, run, wpc, wcur, rpc, rcur, rcl, astr, asent, mpc, wdone,
                   rdone, hist>>

\* res_chan is pushed: the stream is returned only if found && !shut_down_.
AppOpenDone(f) ==
    /\ apc["C"][f] = "open_wait" /\ run["C"] = NoOne
    /\ ores[f] \notin {Pending, Expired}
    /\ IF ores[f] = NilRes \/ shut["C"]
       THEN SetApc("C", f, "end") /\ UNCHANGED astr
       ELSE SetApc("C", f, "ready") /\ astr' = [astr EXCEPT !["C"][f] = ores[f]]
    /\ UNCHANGED <<strm, sess, net, run, wpc, wcur, rpc, rcur, rcl, asent, ores,
                   mpc, wdone, rdone, hist>>

\* pop(FLAGS_StreamOpenTimeout) times out: nullptr, and res_chan expires.
AppOpenTimeout(f) ==
    /\ Timeouts
    /\ apc["C"][f] = "open_wait" /\ run["C"] = NoOne /\ ores[f] = Pending
    /\ ores' = [ores EXCEPT ![f] = Expired]
    /\ SetApc("C", f, "end")
    /\ UNCHANGED <<strm, sess, net, run, wpc, wcur, rpc, rcur, rcl, astr,
                   asent, mpc, wdone, rdone, hist>>

\* send(): -1 on a closing stream; otherwise queue the data task and wait
\* on send_done_notify_.
AppSend(p, f) ==
    /\ apc[p][f] = "ready" /\ run[p] = NoOne /\ asent[p][f] < MaxSend
    /\ asent' = [asent EXCEPT ![p][f] = @ + 1]
    /\ IF sst[p][Str(p, f)] \in Closing
       THEN UNCHANGED <<sendq, apc>>
       ELSE /\ sendq' = [sendq EXCEPT ![p] = Append(@, Tk("data", f, Str(p, f)))]
            /\ SetApc(p, f, "send_wait")
    /\ UNCHANGED <<strm, shut, nextId, mlock, closer, cphase, ctodo, acceptq, acur, given,
                   net, run, wpc, wcur, rpc, rcur, rcl, astr, ores, mpc, wdone,
                   rdone, hist>>

\* Mutation of AppSendDone: any popped notification counts as SendSuccess.
AppSendDoneAnyNote(p, f) ==
    /\ apc[p][f] = "send_wait" /\ run[p] = NoOne
    /\ snote[p][Str(p, f)] # <<>>
    /\ snote' = [snote EXCEPT ![p][Str(p, f)] = Tail(@)]
    /\ lastOk' = [lastOk EXCEPT ![p][Str(p, f)] =
                     asent[p][f]]
    /\ SetApc(p, f, "ready")
    /\ UNCHANGED <<sst, tbl, buf, rnote, slock, rlock, finDone, sess, net, run,
                   wpc, wcur, rpc, rcur, rcl, astr, asent, ores, mpc, wdone,
                   rdone, recvd, eof, protoErr>>

\* The notification arrives: SendSuccess returns count, nullptr -1.
AppSendDone(p, f) ==
    /\ apc[p][f] = "send_wait" /\ run[p] = NoOne
    /\ snote[p][Str(p, f)] # <<>>
    /\ snote' = [snote EXCEPT ![p][Str(p, f)] = Tail(@)]
    /\ lastOk' = [lastOk EXCEPT ![p][Str(p, f)] =
                     IF Head(snote[p][Str(p, f)]) = "ok" THEN asent[p][f] ELSE @]
    /\ SetApc(p, f, "ready")
    /\ UNCHANGED <<sst, tbl, buf, rnote, slock, rlock, finDone, sess, net, run,
                   wpc, wcur, rpc, rcur, rcl, astr, asent, ores, mpc, wdone,
                   rdone, recvd, eof, protoErr>>

\* pop(FLAGS_ConnectionWriteTimeout) times out: -1; the task stays queued.
AppSendTimeout(p, f) ==
    /\ Timeouts
    /\ apc[p][f] = "send_wait" /\ run[p] = NoOne /\ snote[p][Str(p, f)] = <<>>
    /\ SetApc(p, f, "ready")
    /\ UNCHANGED <<strm, sess, net, run, wpc, wcur, rpc, rcur, rcl, astr, asent,
                   ores, mpc, wdone, rdone, hist>>

\* The loop of recv() with recv_lock_ taken: data in recv_buff_ is
\* returned; otherwise recv_done_notify_ is popped, a RecvSuccess that
\* finds the buffer empty sends it round again, nullptr returns -1, and
\* an empty queue suspends the fiber.
FirstNil(q) == CHOOSE i \in 1..Len(q) : q[i] = "nil" /\ \A j \in 1..(i - 1) : q[j] = "ok"
\* Mutation of RecvFrom: the buffer is read without being consumed.
RecvFromPeek(p, f, q) ==
    LET s == Str(p, f) IN
    IF buf[p][s] > 0
    THEN /\ recvd' = [recvd EXCEPT ![p][s] = @ + buf[p][s]]
         /\ UNCHANGED buf
         /\ rnote' = [rnote EXCEPT ![p][s] = q]
         /\ SetApc(p, f, "ready")
    ELSE /\ UNCHANGED <<recvd, buf>>
         /\ IF \E i \in 1..Len(q) : q[i] = "nil"
            THEN /\ rnote' = [rnote EXCEPT ![p][s] = SubSeq(q, FirstNil(q) + 1, Len(q))]
                 /\ SetApc(p, f, "ready")
            ELSE /\ rnote' = [rnote EXCEPT ![p][s] = <<>>]
                 /\ SetApc(p, f, "recv_wait")

RecvFrom(p, f, q) ==
    LET s == Str(p, f) IN
    IF buf[p][s] > 0
    THEN /\ recvd' = [recvd EXCEPT ![p][s] = @ + buf[p][s]]
         /\ buf' = [buf EXCEPT ![p][s] = 0]
         /\ rnote' = [rnote EXCEPT ![p][s] = q]
         /\ SetApc(p, f, "ready")
    ELSE /\ UNCHANGED <<recvd, buf>>
         /\ IF \E i \in 1..Len(q) : q[i] = "nil"
            THEN /\ rnote' = [rnote EXCEPT ![p][s] = SubSeq(q, FirstNil(q) + 1, Len(q))]
                 /\ SetApc(p, f, "ready")
            ELSE /\ rnote' = [rnote EXCEPT ![p][s] = <<>>]
                 /\ SetApc(p, f, "recv_wait")

\* recv() on a closing stream with an empty buffer returns 0.
RecvZero(p, f) ==
    /\ eof' = [eof EXCEPT ![p][Str(p, f)] = @ \/ sst[p][Str(p, f)] = "RemoteClose"]
    /\ SetApc(p, f, "ready")
    /\ UNCHANGED <<buf, rnote, recvd>>

\* Mutation of AppRecv: a closing stream returns 0 without looking at recv_buff_.
AppRecvNoDrain(p, f) ==
    /\ apc[p][f] = "ready" /\ run[p] = NoOne
    /\ LET s == Str(p, f) IN
       CASE rlock[p][s] ->
                /\ SetApc(p, f, IF sst[p][s] \in Closing THEN "recv_lock0" ELSE "recv_lock")
                /\ UNCHANGED <<buf, rnote, recvd, eof>>
         [] sst[p][s] \in Closing -> RecvZero(p, f)
         [] OTHER -> RecvFrom(p, f, rnote[p][s]) /\ UNCHANGED eof
    /\ UNCHANGED <<sst, tbl, snote, slock, rlock, finDone, sess, net, run, wpc,
                   wcur, rpc, rcur, rcl, astr, asent, ores, mpc, wdone, rdone,
                   lastOk, protoErr>>


AppRecv(p, f) ==
    /\ apc[p][f] = "ready" /\ run[p] = NoOne
    /\ LET s == Str(p, f) IN
       CASE rlock[p][s] ->
                /\ SetApc(p, f, IF sst[p][s] \in Closing THEN "recv_lock0" ELSE "recv_lock")
                /\ UNCHANGED <<buf, rnote, recvd, eof>>
         [] sst[p][s] \in Closing /\ buf[p][s] = 0 -> RecvZero(p, f)
         [] OTHER -> RecvFrom(p, f, rnote[p][s]) /\ UNCHANGED eof
    /\ UNCHANGED <<sst, tbl, snote, slock, rlock, finDone, sess, net, run, wpc,
                   wcur, rpc, rcur, rcl, astr, asent, ores, mpc, wdone, rdone,
                   lastOk, protoErr>>

\* recv_lock_ is released by the receiver.
AppRecvLocked(p, f) ==
    /\ apc[p][f] \in {"recv_lock", "recv_lock0"} /\ run[p] = NoOne
    /\ ~rlock[p][Str(p, f)]
    /\ IF apc[p][f] = "recv_lock0" /\ buf[p][Str(p, f)] = 0
       THEN RecvZero(p, f)
       ELSE RecvFrom(p, f, rnote[p][Str(p, f)]) /\ UNCHANGED eof
    /\ UNCHANGED <<sst, tbl, snote, slock, rlock, finDone, sess, net, run, wpc,
                   wcur, rpc, rcur, rcl, astr, asent, ores, mpc, wdone, rdone,
                   lastOk, protoErr>>

\* recv_done_notify_ is pushed: nullptr returns -1, RecvSuccess retakes
\* recv_lock_ (suspending if the receiver holds it) and goes round.
AppRecvWake(p, f) ==
    /\ apc[p][f] = "recv_wait" /\ run[p] = NoOne
    /\ rnote[p][Str(p, f)] # <<>>
    /\ LET s == Str(p, f)
           q == rnote[p][s] IN
       CASE Head(q) = "nil" ->
                /\ rnote' = [rnote EXCEPT ![p][s] = Tail(q)]
                /\ SetApc(p, f, "ready") /\ UNCHANGED <<buf, recvd>>
         [] rlock[p][s] ->
                /\ rnote' = [rnote EXCEPT ![p][s] = Tail(q)]
                /\ SetApc(p, f, "recv_lock") /\ UNCHANGED <<buf, recvd>>
         [] OTHER -> RecvFrom(p, f, Tail(q))
    /\ UNCHANGED <<sst, tbl, snote, slock, rlock, finDone, sess, net, run, wpc,
                   wcur, rpc, rcur, rcl, astr, asent, ores, mpc, wdone, rdone,
                   eof, lastOk, protoErr>>

\* close() in an open state: LocalClose, then send_close() with
\* state_lock_ held: queue the FIN task and wait for it.
AppClose(p, f) ==
    /\ apc[p][f] = "ready" /\ run[p] = NoOne /\ sst[p][Str(p, f)] \in Opened
    /\ LET s == Str(p, f) IN
       /\ sst' = [sst EXCEPT ![p][s] = "LocalClose"]
       /\ slock' = [slock EXCEPT ![p][s] = TRUE]
       /\ sendq' = [sendq EXCEPT ![p] = Append(@, Tk("fin", f, s))]
    /\ SetApc(p, f, "close_fin")
    /\ UNCHANGED <<tbl, buf, rnote, snote, rlock, finDone, shut, nextId, mlock,
                   closer, cphase, ctodo, acceptq, acur, given, net, run, wpc, wcur, rpc,
                   rcur, rcl, astr, asent, ores, mpc, wdone, rdone, hist>>

\* Mutation of EraseOrWait: close_stream() is skipped and the entry stays in the table.
EraseOrWaitSkip(p, f, s) == UNCHANGED tbl /\ SetApc(p, f, "end")

\* close_stream(): erase under mux_streams_.mutex, suspending while the
\* receiver or close() holds it; the fiber then deletes the stream.
EraseOrWait(p, f, s) ==
    IF mlock[p] = NoOne
    THEN tbl' = [tbl EXCEPT ![p] = @ \ {s}] /\ SetApc(p, f, "end")
    ELSE UNCHANGED tbl /\ SetApc(p, f, "close_mux")

\* The FIN task has run: wake both waiters, Closed, unlock, close_stream.
AppCloseFin(p, f) ==
    /\ apc[p][f] = "close_fin" /\ run[p] = NoOne /\ finDone[p][Str(p, f)]
    /\ LET s == Str(p, f) IN
       /\ sst' = [sst EXCEPT ![p][s] = "Closed"]
       /\ WakeNil(p, s)
       /\ slock' = [slock EXCEPT ![p][s] = FALSE]
       /\ EraseOrWait(p, f, s)
    /\ UNCHANGED <<buf, rlock, finDone, sess, net, run, wpc, wcur, rpc, rcur,
                   rcl, astr, asent, ores, mpc, wdone, rdone, hist>>

\* close() after the peer's FIN: Closed, wake the waiters, close_stream.
AppCloseRemote(p, f) ==
    /\ apc[p][f] = "ready" /\ run[p] = NoOne
    /\ sst[p][Str(p, f)] = "RemoteClose"
    /\ LET s == Str(p, f) IN
       /\ sst' = [sst EXCEPT ![p][s] = "Closed"]
       /\ WakeNil(p, s)
       /\ EraseOrWait(p, f, s)
    /\ UNCHANGED <<buf, slock, rlock, finDone, sess, net, run, wpc, wcur, rpc,
                   rcur, rcl, astr, asent, ores, mpc, wdone, rdone, hist>>

\* close() of a Closed (set_close) or Reset stream returns 1 at once and
\* leaves the table entry in place.
AppCloseClosed(p, f) ==
    /\ apc[p][f] = "ready" /\ run[p] = NoOne
    /\ sst[p][Str(p, f)] \in {"Closed", "Reset"}
    /\ SetApc(p, f, "end")
    /\ UNCHANGED <<strm, sess, net, run, wpc, wcur, rpc, rcur, rcl, astr,
                   asent, ores, mpc, wdone, rdone, hist>>

AppCloseMux(p, f) ==
    /\ apc[p][f] = "close_mux" /\ run[p] = NoOne /\ mlock[p] = NoOne
    /\ tbl' = [tbl EXCEPT ![p] = @ \ {Str(p, f)}]
    /\ SetApc(p, f, "end")
    /\ UNCHANGED <<sst, buf, rnote, snote, slock, rlock, finDone, sess, net,
                   run, wpc, wcur, rpc, rcur, rcl, astr, asent, ores, mpc,
                   wdone, rdone, hist>>

\* A spawned handler fiber first runs: the lambda reads mux_stream through
\* its reference and calls handler(); nullptr there ends the fiber.
AppStart(k) ==
    /\ apc["S"][k] = "spawned" /\ run["S"] = NoOne
    /\ astr' = [astr EXCEPT !["S"][k] = acur]
    /\ SetApc("S", k, IF acur = 0 THEN "end" ELSE "ready")
    /\ UNCHANGED <<strm, sess, net, run, wpc, wcur, rpc, rcur, rcl, asent, ores,
                   mpc, wdone, rdone, hist>>

-----------------------------------------------------------------------------
(* The client owner closes the session (~MultiplexingSocketClient).       *)
ClientClose ==
    /\ OwnerCloses
    /\ mpc["C"] = "run" /\ run["C"] = NoOne
    /\ mpc' = [mpc EXCEPT !["C"] = AfterClose("C")]
    /\ BeginClose("C", Main)
    /\ UNCHANGED <<strm, nextId, sendq, mlock, ctodo, acceptq, acur, given, net, wpc, wcur,
                   rpc, rcur, rcl, apc, astr, asent, ores, wdone, rdone, hist>>

\* handle_connection(): accept_stream() pops accept_chn_ into the loop's
\* local mux_stream.  A stream is handed to a new fiber whose lambda
\* captures mux_stream by reference ([&]) and reads it only when the fiber
\* first runs; go does not yield, so the loop pops again while the queue
\* is not empty.  nullptr ends the loop and deletes the session, whose
\* destructor calls close() again.  Handler k is the k-th fiber spawned.
Accept ==
    /\ mpc["S"] = "run" /\ Sched("S", Main) /\ acceptq["S"] # <<>>
    /\ acceptq' = [acceptq EXCEPT !["S"] = Tail(@)]
    /\ LET s == Head(acceptq["S"])
           k == Cardinality({j \in Fibers : apc["S"][j] # "idle"}) + 1
       IN  /\ acur' = s
           /\ IF s = 0
              THEN /\ mpc' = [mpc EXCEPT !["S"] = "done"]
                   /\ SetRun("S", NoOne)
                   /\ UNCHANGED <<apc, given>>
              ELSE /\ apc' = [apc EXCEPT !["S"][k] = "spawned"]
                   /\ given' = [given EXCEPT ![k] = s]
                   /\ SetRun("S", IF Len(acceptq["S"]) > 1 THEN Main ELSE NoOne)
                   /\ UNCHANGED mpc
    /\ UNCHANGED <<strm, shut, nextId, sendq, mlock, closer, cphase, ctodo, net,
                   wpc, wcur, rpc, rcur, rcl, astr, asent, ores, wdone, rdone,
                   hist>>

\* The TCP connection is reset.
LinkDown ==
    /\ Faults /\ link = "up"
    /\ link' = "down"
    /\ UNCHANGED <<strm, sess, out, rd, sock, fib, hist>>

\* Every fiber has finished.
Terminated ==
    /\ \A p \in Peers : wpc[p] = "done" /\ rpc[p] = "done" /\ mpc[p] = "done"
                        /\ \A f \in Fibers : apc[p][f] \in {"end", "idle"}
    /\ UNCHANGED vars

-----------------------------------------------------------------------------
WriterStep(p) ==
    \/ WrStop(p) \/ WrOpenExpired(p) \/ WrOpenShut(p) \/ WrOpenFail(p)
    \/ WrOpen(p) \/ WrOpenReg(p) \/ WrDataClosed(p) \/ WrDataFail(p)
    \/ WrData(p) \/ WrDataHeader(p) \/ WrBody(p)
    \/ WrFin(p) \/ WrFinFail(p) \/ WrGoAway(p)
ReceiverStep(p) ==
    \/ RxLoop(p) \/ RxRead(p) \/ RxReadFail(p) \/ RxBlock(p)
    \/ RxIncomingReject(p) \/ RxIncoming(p) \/ RxLookup(p) \/ RxBadFlags(p)
    \/ RxWindowUpdate(p) \/ RxData(p) \/ RxBody(p) \/ RxBodyFail(p) \/ RxBodyErr(p)
    \/ RxDiscard(p)
CloserStep(p) == CloseLock(p) \/ CloseSet(p) \/ CloseFinish(p) \/ CloseWait(p)
\* a suspended application fiber resumes
AppWake(p, f) ==
    \/ p = "C" /\ AppOpenDone(f)
    \/ p = "S" /\ AppStart(f)
    \/ AppSendDone(p, f) \/ AppRecvLocked(p, f) \/ AppRecvWake(p, f)
    \/ AppCloseFin(p, f) \/ AppCloseMux(p, f)
\* an application fiber makes a call
AppCall(p, f) ==
    \/ p = "C" /\ (AppOpen(f) \/ AppOpenTimeout(f))
    \/ AppSend(p, f) \/ AppSendTimeout(p, f) \/ AppRecv(p, f)
    \/ AppClose(p, f) \/ AppCloseRemote(p, f) \/ AppCloseClosed(p, f)

Next ==
    \/ \E p \in Peers : WriterStep(p) \/ ReceiverStep(p) \/ CloserStep(p)
    \/ \E p \in Peers, f \in Fibers : AppWake(p, f) \/ AppCall(p, f)
    \/ ClientClose \/ Accept \/ LinkDown \/ Terminated

\* acl's scheduler runs every ready fiber in turn and a fiber_mutex or
\* fiber_tbox wakes its waiters, so each fiber that can go on repeatedly
\* eventually does.  What the application calls, whether the owner
\* closes the session, and timeouts are not assumed to happen.
Fairness ==
    /\ \A p \in Peers :
         /\ SF_vars(WriterStep(p)) /\ SF_vars(ReceiverStep(p))
         /\ SF_vars(CloserStep(p))
         /\ \A f \in Fibers : SF_vars(AppWake(p, f))
    /\ SF_vars(Accept)

Spec == Init /\ [][Next]_vars /\ Fairness

-----------------------------------------------------------------------------
(* Properties.                                                             *)

TypeOK ==
    /\ sst \in [Peers -> [Ids -> StreamStates]]
    /\ tbl \in [Peers -> SUBSET Ids]
    /\ buf \in [Peers -> [Ids -> Nat]]
    /\ rnote \in [Peers -> [Ids -> Seq(Notes)]]
    /\ snote \in [Peers -> [Ids -> Seq(Notes)]]
    /\ slock \in [Peers -> [Ids -> BOOLEAN]]
    /\ rlock \in [Peers -> [Ids -> BOOLEAN]]
    /\ finDone \in [Peers -> [Ids -> BOOLEAN]]
    /\ shut \in [Peers -> BOOLEAN]
    /\ nextId \in [Peers -> 0..N]
    /\ sendq \in [Peers -> Seq(Task)]
    /\ mlock \in [Peers -> Holders]
    /\ closer \in [Peers -> Holders]
    /\ cphase \in [Peers -> {"none", "lock", "set", "wait", "done"}]
    /\ ctodo \in [Peers -> SUBSET Ids]
    /\ acceptq \in [Peers -> Seq(Ids \cup {0})]
    /\ acur \in Ids \cup {0}
    /\ given \in [Fibers -> Ids \cup {0}]
    /\ out \in [Peers -> Seq(Part)]
    /\ rd \in [Peers -> Nat]
    /\ sock \in [Peers -> BOOLEAN]
    /\ link \in {"up", "down"}
    /\ run \in [Peers -> Holders]
    /\ wpc \in [Peers -> {"idle", "open_reg", "body", "selfwait", "closing", "done"}]
    /\ wcur \in [Peers -> Task]
    /\ rpc \in [Peers -> {"top", "hdr", "inc", "lookup", "flags", "body",
                          "discard", "closing", "done"}]
    /\ rcur \in [Peers -> Part]
    /\ rcl \in [Peers -> BOOLEAN]
    /\ apc \in [Peers -> [Fibers -> {"init", "idle", "spawned", "open_wait", "ready",
                  "send_wait", "recv_wait", "recv_lock", "recv_lock0",
                  "close_fin", "close_mux", "end"}]]
    /\ astr \in [Peers -> [Fibers -> Ids \cup {0}]]
    /\ asent \in [Peers -> [Fibers -> 0..MaxSend]]
    /\ ores \in [Fibers -> Ids \cup {NoRes, Pending, NilRes, Expired}]
    /\ mpc \in [Peers -> {"run", "closing", "done"}]
    /\ wdone \in [Peers -> BOOLEAN]
    /\ rdone \in [Peers -> BOOLEAN]
    /\ recvd \in [Peers -> [Ids -> 0..MaxSend]]
    /\ eof \in [Peers -> [Ids -> BOOLEAN]]
    /\ lastOk \in [Peers -> [Ids -> 0..MaxSend]]
    /\ protoErr \in [Peers -> BOOLEAN]

\* The application fiber owning stream s has returned from close() and
\* deleted the stream object (the test client and the server handler both
\* delete it).
Deleted(p, s) == \E f \in Fibers : apc[p][f] = "end" /\ astr[p][f] = s

PayloadsFor(seq, s) == Cardinality({i \in 1..Len(seq) : seq[i] = Payload(s)})

\* A recv() that returns 0 (end of stream) on a stream the peer closed
\* with FIN has handed the application every unit the peer wrote on it:
\* the writer's FIFO order, the receiver's in-order reads and recv()'s
\* buffer check together must not lose a unit that precedes the FIN.
EofMeansDrained ==
    \A p \in Peers, s \in Ids :
        eof[p][s] => recvd[p][s] = PayloadsFor(out[Other(p)], s)

\* When send() returns success for its k-th call on a stream, the k-th
\* payload of that stream has been written to the socket: the
\* SendSuccess popped from send_done_notify_ is that call's own.
SendSuccessWritten ==
    \A p \in Peers, s \in Ids : lastOk[p][s] <= PayloadsFor(out[p], s)

\* The byte stream each session writes parses as frames: every Data
\* header is followed directly by its own payload (or is the last thing
\* written, its body still pending), and no payload appears elsewhere.
\* The send loop is the only writer that send_message() assumes.
FrameIntegrity ==
    \A p \in Peers : \A i \in 1..Len(out[p]) :
        /\ out[p][i].t = "data" /\ i < Len(out[p]) => out[p][i + 1] = Payload(out[p][i].s)
        /\ out[p][i].t = "pl" => i > 1 /\ out[p][i - 1] = Hdr("data", out[p][i - 1].fl, out[p][i].s)

\* Neither receiver ever meets a frame that is illegal for the state of
\* its stream (process_flags() -1 or a duplicate SYN): two correct peers
\* that open, exchange and close streams never abort with a protocol error.
NoProtocolError == \A p \in Peers : ~protoErr[p]

\* No fiber of the session goes on to use a stream object after its owner
\* deleted it: the receiver is not inside handle_stream_message() for it,
\* no send task capturing it is queued, and close() has not still to
\* set_close() it.  The table entry of a deleted stream must be gone
\* before anyone can reach it.
NoUseAfterDeleteAt(p) ==
    \A s \in Ids : Deleted(p, s) =>
        /\ ~(rpc[p] \in {"flags", "body"} /\ rcur[p].s = s)
        /\ \A i \in 1..Len(sendq[p]) : sendq[p][i].k = "data" => sendq[p][i].s # s
        /\ s \notin ctodo[p]

NoUseAfterDelete == \A p \in Peers : NoUseAfterDeleteAt(p)

\* The same for the client session alone, whose streams are not touched by
\* the server's accept loop (see HandlerGetsItsStream).
ClientNoUseAfterDelete == NoUseAfterDeleteAt("C")

\* Once the recv loop has returned, it holds no stream's recv_lock_:
\* otherwise every later recv() on that stream, which takes recv_lock_
\* even to find the stream closed, blocks for ever.
RecvLockReleased ==
    \A p \in Peers : rdone[p] => \A s \in Ids : ~rlock[p][s]

\* A recv() that is blocked when its stream closes or the session shuts
\* down returns: set_close() and a FIN push nullptr to recv_done_notify_
\* and recv_lock_ is released.
RecvReleased ==
    \A p \in Peers, f \in Fibers :
        (apc[p][f] \in {"recv_wait", "recv_lock", "recv_lock0"}
           /\ (shut[p] \/ sst[p][Str(p, f)] \in Closing))
          ~> apc[p][f] = "ready"

\* MultiplexingStream::close() returns: the FIN task runs and
\* close_stream() gets the stream table's mutex.
CloseReturns ==
    \A p \in Peers, f \in Fibers :
        apc[p][f] \in {"close_fin", "close_mux"} ~> apc[p][f] = "end"

\* Every handler fiber the accept loop spawns serves the stream that
\* accept_stream() returned for it: no accepted stream goes unserved and
\* none is handed to two handlers (each of which deletes it).
HandlerGetsItsStream ==
    \A k \in Fibers : apc["S"][k] \notin {"idle", "spawned"} => astr["S"][k] = given[k]

\* Once a session is shut down, its send and recv loops end and close()
\* returns from wg_.wait().
SessionShutdown ==
    \A p \in Peers : shut[p] ~> (wdone[p] /\ rdone[p] /\ cphase[p] = "done")

=============================================================================
