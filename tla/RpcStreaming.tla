----------------------------- MODULE RpcStreaming -----------------------------
(***************************************************************************)
(* A streaming RPC connection (src/rpc/rpc_streaming.cpp): two             *)
(* StreamingConnection objects, one per end of a transport, each running   *)
(* process() (a receiver, a sender, a heartbeat and an error fiber) while  *)
(* its application calls send(), recv(), close_streaming() and finally     *)
(* destroys it. Both ends run the same code; messages travel as one        *)
(* BINARY frame each, holding PBCodec::StreamingEncode of the message.     *)
(*                                                                         *)
(* out[e] is what e's transport carries to the peer, a FIFO of frames;     *)
(* fd[e] is whether e's end of the transport is still open. A fiber step   *)
(* runs from one suspension point (a channel pop, a socket read) to the    *)
(* next, as the fiber scheduler runs it.                                   *)
(***************************************************************************)
EXTENDS Integers, Sequences, SequencesExt, FiniteSets

CONSTANTS
    Ends,       \* the two StreamingConnections (client and server side)
    Msgs,       \* messages, records [id, len]: len is the serialized size
    Progs,      \* the call sequences the two applications may make
    Nil,        \* the nullptr pushed into sender_chan_ and inbox_
    FdCloses,   \* close(stream_->get_fd()) closes the transport (a socket
                \* stream); FALSE for a MultiplexingStream, whose get_fd() is -1
    MaxPings    \* heartbeat timeouts per end (the 30 s timer, bounded)

ASSUME Cardinality(Ends) = 2

Peer(e) == CHOOSE p \in Ends : p # e

VARIABLES
    prog,     \* prog[e]: the calls e's application makes
    pc,       \* pc[e]: index of its current call
    dwait,    \* ~StreamingConnection() is waiting on exit_signal_
    sendq,    \* sender_chan_: tasks and Nil
    out,      \* frames e has written to the transport, not yet read
    inbox,    \* inbox_: message buffers and Nil
    remote,   \* remote_close_
    closed,   \* closed_
    fd,       \* e's end of the transport is open
    fibers,   \* the fibers of process() still running
    exited,   \* process() has pushed exit_signal_
    pings,    \* heartbeat timeouts so far
    sent,     \* messages send() accepted, in order
    got       \* messages recv() returned true for, in order

vars == <<prog, pc, dwait, sendq, out, inbox, remote, closed, fd, fibers,
          exited, pings, sent, got>>

Fibers == {"recv", "send", "hb", "err"}

(***************************************************************************)
(* PBCodec::StreamingEncode: the uint32 serialized size, then the ZSTD      *)
(* frame of the serialized bytes (the frame is abstracted to the message   *)
(* it holds). StreamingDecode reads the size, decompresses, and fails when *)
(* ZSTD_decompressDCtx returns <= 0 bytes, as it does for a message that   *)
(* serializes to nothing; otherwise it parses the message back.            *)
(***************************************************************************)
StreamingEncode(m) == [usize |-> m.len, zframe |-> m]
Decompressed(buf) == buf.zframe.len
DecodeOk(buf) == Decompressed(buf) > 0

Buffers == {StreamingEncode(m) : m \in Msgs}

\* The tasks addTask() queues: send(), close_streaming() and sendPing().
BinTask(m) == [op |-> "bin", buf |-> StreamingEncode(m)]
CloseTask == [op |-> "close", buf |-> Nil]
PingTask == [op |-> "ping", buf |-> Nil]
Tasks == {BinTask(m) : m \in Msgs} \cup {CloseTask, PingTask}

Init ==
    /\ prog \in Progs
    /\ pc = [e \in Ends |-> 1]
    /\ dwait = [e \in Ends |-> FALSE]
    /\ sendq = [e \in Ends |-> <<>>]
    /\ out = [e \in Ends |-> <<>>]
    /\ inbox = [e \in Ends |-> <<>>]
    /\ remote = [e \in Ends |-> FALSE]
    /\ closed = [e \in Ends |-> FALSE]
    /\ fd = [e \in Ends |-> TRUE]
    /\ fibers = [e \in Ends |-> Fibers]
    /\ exited = [e \in Ends |-> FALSE]
    /\ pings = [e \in Ends |-> 0]
    /\ sent = [e \in Ends |-> <<>>]
    /\ got = [e \in Ends |-> <<>>]

(* Mutant: close_wc_connection() without sender_chan_.push(nullptr). *)
CloseWcNoSenderNil(e, ib, sq) ==
    /\ closed' = [closed EXCEPT ![e] = TRUE]
    /\ remote' = [remote EXCEPT ![e] = TRUE]
    /\ inbox' = [inbox EXCEPT ![e] = IF closed[e] THEN ib ELSE Append(ib, Nil)]
    /\ sendq' = [sendq EXCEPT ![e] = sq]
    /\ fd' = [fd EXCEPT ![e] = IF closed[e] \/ ~FdCloses THEN @ ELSE FALSE]

(***************************************************************************)
(* close_wc_connection() at e, after the caller has left inbox_ as ib and  *)
(* sender_chan_ as sq: a no-op once closed_; else set closed_ and          *)
(* remote_close_, push nullptr into inbox_, close the fd, push nullptr     *)
(* into sender_chan_ (and the heartbeat and error channels, which wake on  *)
(* closed_).                                                               *)
(***************************************************************************)
CloseWc(e, ib, sq) ==
    /\ closed' = [closed EXCEPT ![e] = TRUE]
    /\ remote' = [remote EXCEPT ![e] = TRUE]
    /\ inbox' = [inbox EXCEPT ![e] = IF closed[e] THEN ib ELSE Append(ib, Nil)]
    /\ sendq' = [sendq EXCEPT ![e] = IF closed[e] THEN sq ELSE Append(sq, Nil)]
    /\ fd' = [fd EXCEPT ![e] = IF closed[e] \/ ~FdCloses THEN @ ELSE FALSE]

\* e's application is at a call of this kind.
At(e, kind) ==
    /\ ~dwait[e]
    /\ pc[e] <= Len(prog[e])
    /\ prog[e][pc[e]][1] = kind

Advance(e) == pc' = [pc EXCEPT ![e] = @ + 1]

\* process() and its fibers share one thread: while the receiver spins
\* (RecvEof) without yielding, none of the others (the sender, heartbeat
\* and error fibers, process() in wg.wait()) runs again.
Runs(e) == "spin" \notin fibers[e]

AppVars == <<prog, dwait, out, remote, closed, fd, fibers, exited, pings>>

(* send(message): false once remote_close_; else queue the BINARY frame. *)
AppSend(e) ==
    /\ At(e, "send")
    /\ LET m == prog[e][pc[e]][2] IN
         IF remote[e]
         THEN UNCHANGED <<sendq, sent>>
         ELSE /\ sendq' = [sendq EXCEPT ![e] = Append(@, BinTask(m))]
              /\ sent' = [sent EXCEPT ![e] = Append(@, m)]
    /\ Advance(e)
    /\ UNCHANGED <<AppVars, inbox, got>>

(* Mutant: recv() hands over the buffer without StreamingDecode. *)
AppRecvUndecoded(e) ==
    /\ At(e, "recv")
    /\ inbox[e] # <<>>
    /\ LET b == Head(inbox[e]) IN
         got' = IF b # Nil THEN [got EXCEPT ![e] = Append(@, b)] ELSE got
    /\ inbox' = [inbox EXCEPT ![e] = Tail(@)]
    /\ Advance(e)
    /\ UNCHANGED <<AppVars, sendq, sent>>

(* recv(message): block on inbox_.pop(); nullptr gives false, a buffer *)
(* gives StreamingDecode's result.                                     *)
AppRecv(e) ==
    /\ At(e, "recv")
    /\ inbox[e] # <<>>
    /\ LET b == Head(inbox[e]) IN
         got' = IF b # Nil /\ DecodeOk(b)
                THEN [got EXCEPT ![e] = Append(@, b.zframe)] ELSE got
    /\ inbox' = [inbox EXCEPT ![e] = Tail(@)]
    /\ Advance(e)
    /\ UNCHANGED <<AppVars, sendq, sent>>

(* close_streaming(): queue a CLOSE frame. *)
AppClose(e) ==
    /\ At(e, "close")
    /\ sendq' = [sendq EXCEPT ![e] = Append(@, CloseTask)]
    /\ Advance(e)
    /\ UNCHANGED <<AppVars, inbox, sent, got>>

(* ~StreamingConnection(): close_streaming(), then exit_signal_.pop(). *)
Destroy(e) ==
    /\ At(e, "destroy")
    /\ sendq' = [sendq EXCEPT ![e] = Append(@, CloseTask)]
    /\ dwait' = [dwait EXCEPT ![e] = TRUE]
    /\ UNCHANGED <<prog, pc, out, inbox, remote, closed, fd, fibers, exited,
                   pings, sent, got>>

DestroyReturn(e) ==
    /\ dwait[e]
    /\ exited[e]
    /\ dwait' = [dwait EXCEPT ![e] = FALSE]
    /\ Advance(e)
    /\ UNCHANGED <<prog, sendq, out, inbox, remote, closed, fd, fibers, exited,
                   pings, sent, got>>

(* Mutant: the sender writes a task whether or not the fd is open. *)
SendTaskIgnoresFd(e) ==
    /\ Runs(e)
    /\ "send" \in fibers[e]
    /\ sendq[e] # <<>>
    /\ Head(sendq[e]) # Nil
    /\ out' = [out EXCEPT ![e] = Append(@, Head(sendq[e]))]
    /\ sendq' = [sendq EXCEPT ![e] = Tail(@)]
    /\ UNCHANGED <<prog, pc, dwait, inbox, remote, closed, fd, fibers, exited,
                   pings, sent, got>>

(***************************************************************************)
(* The sender fiber: pop sender_chan_; nullptr ends the loop (wg.done(),   *)
(* close_wc_connection()); a task writes its frame, which is lost once the *)
(* fd is closed. The task's result is ignored.                             *)
(***************************************************************************)
SendTask(e) ==
    /\ Runs(e)
    /\ "send" \in fibers[e]
    /\ sendq[e] # <<>>
    /\ Head(sendq[e]) # Nil
    /\ out' = IF fd[e] THEN [out EXCEPT ![e] = Append(@, Head(sendq[e]))] ELSE out
    /\ sendq' = [sendq EXCEPT ![e] = Tail(@)]
    /\ UNCHANGED <<prog, pc, dwait, inbox, remote, closed, fd, fibers, exited,
                   pings, sent, got>>

SendExit(e) ==
    /\ Runs(e)
    /\ "send" \in fibers[e]
    /\ sendq[e] # <<>>
    /\ Head(sendq[e]) = Nil
    /\ fibers' = [fibers EXCEPT ![e] = @ \ {"send"}]
    /\ CloseWc(e, inbox[e], Tail(sendq[e]))
    /\ UNCHANGED <<prog, pc, dwait, out, exited, pings, sent, got>>

(* Mutant: the CLOSE case sets remote_close_ and pushes nullptr but    *)
(* returns true, so the receive loop goes on.                          *)
RecvFrameCloseContinues(e) ==
    /\ "recv" \in fibers[e]
    /\ fd[e]
    /\ out[Peer(e)] # <<>>
    /\ LET f == Head(out[Peer(e)]) IN
         /\ out' = [out EXCEPT ![Peer(e)] = Tail(@)]
         /\ \/ /\ f.op = "ping"
               /\ UNCHANGED <<sendq, inbox, remote, closed, fd, fibers>>
            \/ /\ f.op = "bin"
               /\ inbox' = [inbox EXCEPT ![e] = Append(@, f.buf)]
               /\ UNCHANGED <<sendq, remote, closed, fd, fibers>>
            \/ /\ f.op = "close"
               /\ remote' = [remote EXCEPT ![e] = TRUE]
               /\ inbox' = [inbox EXCEPT ![e] = Append(@, Nil)]
               /\ UNCHANGED <<sendq, closed, fd, fibers>>
    /\ UNCHANGED <<prog, pc, dwait, exited, pings, sent, got>>

(***************************************************************************)
(* One turn of the receiver fiber's recv_loop(): read a frame header (and  *)
(* the payload of a data frame). PING and PONG are skipped (no PONG is     *)
(* ever sent back); BINARY pushes the message buffer into inbox_; CLOSE    *)
(* sets remote_close_, pushes nullptr and ends the loop, after which the   *)
(* fiber calls close_wc_connection(). Every frame is FIN, so the saved     *)
(* opcode_ is never used.                                                  *)
(***************************************************************************)
RecvFrame(e) ==
    /\ "recv" \in fibers[e]
    /\ fd[e]
    /\ out[Peer(e)] # <<>>
    /\ LET f == Head(out[Peer(e)]) IN
         /\ out' = [out EXCEPT ![Peer(e)] = Tail(@)]
         /\ \/ /\ f.op = "ping"
               /\ UNCHANGED <<sendq, inbox, remote, closed, fd, fibers>>
            \/ /\ f.op = "bin"
               /\ inbox' = [inbox EXCEPT ![e] = Append(@, f.buf)]
               /\ UNCHANGED <<sendq, remote, closed, fd, fibers>>
            \/ /\ f.op = "close"
               /\ fibers' = [fibers EXCEPT ![e] = @ \ {"recv"}]
               /\ CloseWc(e, Append(inbox[e], Nil), sendq[e])
    /\ UNCHANGED <<prog, pc, dwait, exited, pings, sent, got>>

(***************************************************************************)
(* read_frame_head() on a transport that has nothing more to give. A      *)
(* closed fd of e's own makes recv() return -1: the loop ends and the     *)
(* fiber calls close_wc_connection(). At EOF (the peer's end closed and    *)
(* everything read) recv() returns 0, which the "== -1" test lets through: *)
(* the header is decoded from the uninitialised local buf and every later  *)
(* recv() returns 0 as well. The garbage opcode decides: CLOSE is the      *)
(* CLOSE case (nullptr pushed, loop ends), TEXT or BINARY fail in          *)
(* read_frame_data() and so does an unknown opcode, while PING or PONG     *)
(* returns true, and the loop reads the same garbage again without ever    *)
(* suspending: the receiver spins.                                         *)
(***************************************************************************)
PeerEof(e) == fd[e] /\ out[Peer(e)] = <<>> /\ ~fd[Peer(e)]

RecvEof(e) ==
    /\ "recv" \in fibers[e]
    /\ \/ /\ ~fd[e] \/ PeerEof(e)
          /\ fibers' = [fibers EXCEPT ![e] = @ \ {"recv"}]
          /\ CloseWc(e, inbox[e], sendq[e])
       \/ /\ PeerEof(e)
          /\ fibers' = [fibers EXCEPT ![e] = @ \ {"recv"}]
          /\ CloseWc(e, Append(inbox[e], Nil), sendq[e])
       \/ /\ PeerEof(e)
          /\ fibers' = [fibers EXCEPT ![e] = (@ \ {"recv"}) \cup {"spin"}]
          /\ UNCHANGED <<sendq, inbox, remote, closed, fd>>
    /\ UNCHANGED <<prog, pc, dwait, out, exited, pings, sent, got>>

(***************************************************************************)
(* The spin itself: a step that changes nothing (see Runs).               *)
(***************************************************************************)
RecvSpin(e) ==
    /\ "spin" \in fibers[e]
    /\ UNCHANGED vars

(* The heartbeat fiber: heartbeat_chan_.pop() times out and sendPing() *)
(* queues a PING; once close_wc_connection() has pushed nullptr it      *)
(* exits. The error fiber only waits for that nullptr.                  *)
HbPing(e) ==
    /\ Runs(e)
    /\ "hb" \in fibers[e]
    /\ ~closed[e]
    /\ pings[e] < MaxPings
    /\ sendq' = [sendq EXCEPT ![e] = Append(@, PingTask)]
    /\ pings' = [pings EXCEPT ![e] = @ + 1]
    /\ UNCHANGED <<prog, pc, dwait, out, inbox, remote, closed, fd, fibers,
                   exited, sent, got>>

FiberExit(e, f) ==
    /\ Runs(e)
    /\ f \in fibers[e]
    /\ closed[e]
    /\ fibers' = [fibers EXCEPT ![e] = @ \ {f}]
    /\ UNCHANGED <<prog, pc, dwait, sendq, out, inbox, remote, closed, fd,
                   exited, pings, sent, got>>

HbExit(e) == FiberExit(e, "hb")
ErrExit(e) == FiberExit(e, "err")

(* wg.wait() returns; exit_signal_.push(nullptr). *)
ProcessReturn(e) ==
    /\ fibers[e] = {}
    /\ ~exited[e]
    /\ exited' = [exited EXCEPT ![e] = TRUE]
    /\ UNCHANGED <<prog, pc, dwait, sendq, out, inbox, remote, closed, fd,
                   fibers, pings, sent, got>>

\* Both applications have returned from every call, both process() calls too.
Finished ==
    /\ \A e \in Ends : pc[e] > Len(prog[e]) /\ exited[e]
    /\ UNCHANGED vars

App(e) == AppSend(e) \/ AppRecv(e) \/ AppClose(e) \/ Destroy(e) \/ DestroyReturn(e)
Sender(e) == SendTask(e) \/ SendExit(e)
Receiver(e) == RecvFrame(e) \/ RecvEof(e) \/ RecvSpin(e)

Next ==
    \/ \E e \in Ends :
         \/ App(e) \/ Sender(e) \/ Receiver(e)
         \/ HbPing(e) \/ HbExit(e) \/ ErrExit(e) \/ ProcessReturn(e)
    \/ Finished

(***************************************************************************)
(* The fiber scheduler runs every runnable fiber: each fiber, and each     *)
(* application, that can take a step eventually does. The heartbeat timer *)
(* is left unfair; the model bounds it.                                    *)
(***************************************************************************)
Fairness ==
    \A e \in Ends :
        /\ WF_vars(App(e)) /\ WF_vars(Sender(e)) /\ WF_vars(Receiver(e))
        /\ WF_vars(HbExit(e)) /\ WF_vars(ErrExit(e)) /\ WF_vars(ProcessReturn(e))

Spec == Init /\ [][Next]_vars /\ Fairness

-----------------------------------------------------------------------------
(***************************************************************************)
(* Refinement mapping to MsgChannel. The queue of direction e holds the    *)
(* messages of e that can still reach the peer's application: the buffers  *)
(* in the peer's inbox_, then, while the peer's receiver still reads, the  *)
(* BINARY frames on the wire and, while e's fd is open, the BINARY tasks   *)
(* queued before sender_chan_'s nullptr. The connection is down once a     *)
(* receiver fiber has exited.                                              *)
(***************************************************************************)
MsgsOf(s) == [i \in DOMAIN s |-> s[i].zframe]
\* the tasks of sender_chan_ ahead of its first nullptr: the ones that still run
BeforeNil(s) ==
    LET n == SelectInSeq(s, LAMBDA t : t = Nil)
    IN  IF n = 0 THEN s ELSE SubSeq(s, 1, n - 1)
BinMsgs(s) ==
    LET bins == SelectSeq(s, LAMBDA t : t.op = "bin")
    IN  MsgsOf([i \in DOMAIN bins |-> bins[i].buf])
InboxMsgs(e) == MsgsOf(SelectSeq(inbox[e], LAMBDA b : b # Nil))

InFlight(e) ==
    InboxMsgs(Peer(e))
      \o IF "recv" \in fibers[Peer(e)]
         THEN BinMsgs(out[e]) \o (IF fd[e] THEN BinMsgs(BeforeNil(sendq[e])) ELSE <<>>)
         ELSE <<>>

Chan == INSTANCE MsgChannel WITH
            q <- [e \in Ends |-> InFlight(e)],
            down <- \E e \in Ends : "recv" \notin fibers[e]
-----------------------------------------------------------------------------
TypeOK ==
    /\ pc \in [Ends -> Nat] /\ dwait \in [Ends -> BOOLEAN]
    /\ sendq \in [Ends -> Seq(Tasks \cup {Nil})]
    /\ out \in [Ends -> Seq(Tasks)]
    /\ inbox \in [Ends -> Seq(Buffers \cup {Nil})]
    /\ remote \in [Ends -> BOOLEAN] /\ closed \in [Ends -> BOOLEAN]
    /\ fd \in [Ends -> BOOLEAN] /\ exited \in [Ends -> BOOLEAN]
    /\ fibers \in [Ends -> SUBSET (Fibers \cup {"spin"})]
    /\ pings \in [Ends -> 0..MaxPings]
    /\ sent \in [Ends -> Seq(Msgs)] /\ got \in [Ends -> Seq(Msgs)]

(***************************************************************************)
(* End of stream comes last: in each inbox_, no message buffer follows a   *)
(* nullptr. An application that stops at the first recv() that returns    *)
(* false (end of stream) has then been handed every message the receiver   *)
(* fiber took off the wire, whichever of recv_loop's CLOSE case, its EOF   *)
(* path or close_wc_connection() from another fiber ended the stream, and  *)
(* whatever the peer queued after its CLOSE frame.                         *)
(***************************************************************************)
NilLast ==
    \A e \in Ends : \A i, j \in DOMAIN inbox[e] :
        i < j /\ inbox[e][i] = Nil => inbox[e][j] = Nil

(***************************************************************************)
(* The connection implements MsgChannel: messages accepted by send() reach *)
(* the peer's recv() in order, without duplicates, and are lost only as    *)
(* the suffix still in flight when a receiver fiber ends; after that no    *)
(* send() is accepted that could still be delivered. This covers the       *)
(* sender fiber writing queued tasks after close_wc_connection() closed    *)
(* the fd, and frames left on the wire when the peer's receiver exits.     *)
(***************************************************************************)
Refines == Chan!Spec

(***************************************************************************)
(* ~StreamingConnection() returns: once an application has begun to        *)
(* destroy its connection (close_streaming(), then exit_signal_.pop()),    *)
(* process() eventually pushes exit_signal_, whatever the peer's           *)
(* application does. This needs the CLOSE frame to reach the peer and the  *)
(* peer's close_wc_connection() to close the transport so that this end's  *)
(* receiver reads EOF.                                                     *)
(***************************************************************************)
DestroyReturns == \A e \in Ends : dwait[e] ~> ~dwait[e]

(***************************************************************************)
(* recv() returns the peer's accepted messages in order with none skipped: *)
(* what e's application received is a prefix of what the peer's send()    *)
(* accepted. StreamingDecode fails for a message that serializes to zero  *)
(* bytes, so recv() returns false for it, the result it gives at end of    *)
(* stream, and the message is skipped.                                     *)
(***************************************************************************)
ReceivedInOrder == \A e \in Ends : IsPrefix(got[e], sent[Peer(e)])

=============================================================================
