------------------------------ MODULE WebSocket ------------------------------
(***************************************************************************)
(* One direction of a WebSocket connection (src/http/websocket.cpp): the   *)
(* sending WebSocketConnection's send*() calls and heartbeat, its sender   *)
(* fiber writing frames (websocket::send_frame_data), the byte stream, and *)
(* the receiving connection's recv_loop(), the worker-pool tasks that call *)
(* OnMessage, and the receiver's teardown after its recv fiber exits.      *)
(*                                                                         *)
(* The wire is a sequence of bytes (0..255); the frame header is encoded   *)
(* and decoded bit for bit, and payloads are masked with XOR.              *)
(***************************************************************************)
EXTENDS Integers, Sequences, SequencesExt, FiniteSets, Bitwise, TLC

CONSTANTS
    Progs,       \* the sequences of application calls the sender may make
    ServerSide,  \* the sending connection is a server's (it never masks)
    Keys,        \* values gen_masking_key() (rand()) may return, as 4 bytes
    MaxPings     \* heartbeat pings the sender's heartbeat fiber sends

\* frame opcodes (websocket.h)
FRAME_CONTINUATION == 0
FRAME_TEXT == 1
FRAME_BINARY == 2
FRAME_CLOSE == 8
FRAME_PING == 9
FRAME_PONG == 10

NoKey == <<0, 0, 0, 0>>            \* masking_key 0: set_frame_masking_key clears mask

(* n as k big-endian bytes: the (payload_len >> 8j) & 0xff of make_frame_header. *)
RECURSIVE BigEndian(_, _)
BigEndian(n, k) == IF k = 0 THEN <<>> ELSE BigEndian(n \div 256, k - 1) \o <<n % 256>>

(* ntohs / ntoh64 of the bytes read. *)
FromBigEndian(s) == FoldLeft(LAMBDA acc, b : acc * 256 + b, 0, s)

(* Mutant: the 7-bit length form used up to 126. *)
EncodeHeadWide(fin, op, len, key) ==
    LET mask == key # NoKey
        mb == IF mask THEN 128 ELSE 0
        lenPart == IF len <= 126 THEN <<mb | len>>
                   ELSE IF len <= 65535 THEN <<mb | 126>> \o BigEndian(len, 2)
                   ELSE <<mb | 127>> \o BigEndian(len, 8)
    IN  <<(IF fin THEN 128 ELSE 0) | op>> \o lenPart \o (IF mask THEN key ELSE <<>>)

(***************************************************************************)
(* websocket::make_frame_header(): FIN and opcode, the mask bit with the   *)
(* 7-bit length or 126/127 and a 2- or 8-byte length, then the key bytes.  *)
(* The rsv bits are never written.                                         *)
(***************************************************************************)
EncodeHead(fin, op, len, key) ==
    LET mask == key # NoKey
        b0 == (IF fin THEN 128 ELSE 0) | op
        mb == IF mask THEN 128 ELSE 0
        lenPart == IF len <= 125 THEN <<mb | len>>
                   ELSE IF len <= 65535 THEN <<mb | 126>> \o BigEndian(len, 2)
                   ELSE <<mb | 127>> \o BigEndian(len, 8)
    IN  <<b0>> \o lenPart \o (IF mask THEN key ELSE <<>>)

(* Mutant: mask[(i + 1) % 4]. *)
MaskPayloadShifted(data, key) ==
    IF key = NoKey THEN data
    ELSE [i \in DOMAIN data |-> data[i] ^^ key[(i % 4) + 1]]

(* send_frame_data(): the payload XORed byte i with mask[i % 4]. *)
MaskPayload(data, key) ==
    IF key = NoKey THEN data
    ELSE [i \in DOMAIN data |-> data[i] ^^ key[((i - 1) % 4) + 1]]

Frame(fin, op, data, key) == EncodeHead(fin, op, Len(data), key) \o MaskPayload(data, key)

(* The header bytes read_frame_head() reads, given the first two. *)
HeadSize(w) ==
    LET len7 == w[2] & 127
        count == IF len7 = 126 THEN 2 ELSE IF len7 > 126 THEN 8 ELSE 0
    IN  2 + count + (IF shiftR(w[2], 7) & 1 = 1 THEN 4 ELSE 0)

(***************************************************************************)
(* read_frame_head() with update_head_2bytes(): the fields of the first    *)
(* two bytes, the extended length, and the masking key when the mask bit   *)
(* is set (reset() left it 0 otherwise).                                   *)
(***************************************************************************)
DecodeHead(w) ==
    LET ch1 == w[1]
        ch2 == w[2]
        len7 == ch2 & 127
        count == IF len7 = 126 THEN 2 ELSE IF len7 > 126 THEN 8 ELSE 0
        mask == shiftR(ch2, 7) & 1 = 1
    IN  [fin |-> shiftR(ch1, 7) & 1 = 1,
         rsv |-> shiftR(ch1, 4) & 7,
         opcode |-> ch1 & 15,
         mask |-> mask,
         len |-> IF count = 0 THEN len7 ELSE FromBigEndian(SubSeq(w, 3, 2 + count)),
         key |-> IF mask THEN SubSeq(w, 3 + count, 6 + count) ELSE NoKey]

(* read_frame_data() after ReadNFromSocketStream() appended n bytes to the *)
(* buffer: the unmasking loop XORs the first n bytes of the buffer.        *)
UnmaskBuffer(buf, n, key) ==
    [i \in DOMAIN buf |-> IF i <= n THEN buf[i] ^^ key[((i - 1) % 4) + 1] ELSE buf[i]]

VARIABLES
    prog,    \* the sender's application calls, in order
    pc,      \* the sender's next application call
    pings,   \* heartbeat pings sent
    chan,    \* the sender's sender_chan_: frame tasks of addTask()
    wire,    \* bytes written and not yet read
    sent,    \* history: the data messages the sender's application sent
    rx,      \* the receiver's recv fiber: pc, header, FIN, opcode_, buffer
    pool,    \* OnMessage tasks queued on the receiver's worker pool
    got,     \* history: the messages OnMessage received, in order
    alive,   \* the receiver's WebSocketConnection still exists
    frames,  \* history: the headers the sender fiber wrote, in order
    heads    \* history: the headers read_frame_head() decoded, in order

vars == <<prog, pc, pings, chan, wire, sent, rx, pool, got, alive, frames, heads>>

Task(op, fin, data, masked) == [op |-> op, fin |-> fin, data |-> data, masked |-> masked]

(***************************************************************************)
(* The frame task each call queues: sendText, sendBinary of a Buffer,      *)
(* sendPing, sendPong and closeWebsocket mask unless on the server side;   *)
(* sendBinary(const std::string&) never masks.  A "frame" call is a frame  *)
(* a peer of another implementation sends: any opcode and FIN.             *)
(***************************************************************************)
TaskOf(c) ==
    CASE c[1] = "text"   -> Task(FRAME_TEXT, TRUE, c[2], ~ServerSide)
      [] c[1] = "binary" -> Task(FRAME_BINARY, TRUE, c[2], ~ServerSide)
      [] c[1] = "binstr" -> Task(FRAME_BINARY, TRUE, c[2], FALSE)
      [] c[1] = "ping"   -> Task(FRAME_PING, TRUE, c[2], ~ServerSide)
      [] c[1] = "pong"   -> Task(FRAME_PONG, TRUE, c[2], ~ServerSide)
      [] c[1] = "close"  -> Task(FRAME_CLOSE, TRUE, <<>>, ~ServerSide)
      [] c[1] = "frame"  -> Task(c[2], c[3], c[4], ~ServerSide)

(* The messages the application means: a data frame starts one, a continuation extends the last. *)
Sent(c) ==
    LET t == TaskOf(c)
    IN  CASE t.op \in {FRAME_TEXT, FRAME_BINARY} -> Append(sent, t.data)
          [] t.op = FRAME_CONTINUATION /\ sent # <<>> ->
                [sent EXCEPT ![Len(sent)] = @ \o t.data]
          [] OTHER -> sent

Init ==
    /\ prog \in Progs
    /\ pc = 1
    /\ pings = 0
    /\ chan = <<>>
    /\ wire = <<>>
    /\ sent = <<>>
    /\ rx = [pc |-> "head", hdr |-> DecodeHead(<<0, 0>>), fin |-> FALSE,
             saved |-> 0, buf |-> <<>>]
    /\ pool = <<>>
    /\ got = <<>>
    /\ alive = TRUE
    /\ frames = <<>>
    /\ heads = <<>>

(* A send*() call of the application: addTask() pushes the frame task. *)
AppCall ==
    /\ pc <= Len(prog)
    /\ chan' = Append(chan, TaskOf(prog[pc]))
    /\ sent' = Sent(prog[pc])
    /\ pc' = pc + 1
    /\ UNCHANGED <<prog, pings, wire, rx, pool, got, alive, frames, heads>>

(* The heartbeat fiber's sendPing() after each WEBSOCKET_HEARTBEAT_INTERVAL. *)
Heartbeat ==
    /\ pings < MaxPings
    /\ chan' = Append(chan, Task(FRAME_PING, TRUE, <<>>, ~ServerSide))
    /\ pings' = pings + 1
    /\ UNCHANGED <<prog, pc, wire, sent, rx, pool, got, alive, frames, heads>>

(***************************************************************************)
(* The sender fiber pops a task and runs it: reset(), the setters with a   *)
(* fresh gen_masking_key() when masking, send_frame_data().                *)
(***************************************************************************)
SendFrame ==
    /\ chan # <<>>
    /\ LET t == Head(chan)
       IN  \E key \in (IF t.masked THEN Keys ELSE {NoKey}) :
              /\ wire' = wire \o Frame(t.fin, t.op, t.data, key)
              /\ frames' = Append(frames, [fin |-> t.fin, rsv |-> 0, opcode |-> t.op,
                                            mask |-> key # NoKey, len |-> Len(t.data),
                                            key |-> key])
    /\ chan' = Tail(chan)
    /\ UNCHANGED <<prog, pc, pings, sent, rx, pool, got, alive, heads>>

(***************************************************************************)
(* recv_loop(), first half: read_frame_head() once the header's bytes are  *)
(* there; a FIN continuation takes the saved opcode_, a non-FIN data frame *)
(* saves its own.  PING and PONG run their callback and return without     *)
(* reading a payload; CLOSE runs OnClose and ends the loop, as does an     *)
(* unknown opcode; TEXT and BINARY go on to read the payload.              *)
(***************************************************************************)
RecvHead ==
    /\ rx.pc = "head"
    /\ Len(wire) >= 2
    /\ Len(wire) >= HeadSize(wire)
    /\ LET h == DecodeHead(wire)
           finish == h.fin
           op == IF finish /\ h.opcode = FRAME_CONTINUATION THEN rx.saved ELSE h.opcode
           saved == IF ~finish /\ h.opcode # FRAME_CONTINUATION THEN h.opcode ELSE rx.saved
       IN  /\ wire' = SubSeq(wire, HeadSize(wire) + 1, Len(wire))
           /\ heads' = Append(heads, h)
           /\ rx' = CASE op \in {FRAME_PING, FRAME_PONG} ->
                           [rx EXCEPT !.saved = IF finish THEN 0 ELSE saved]
                      [] op \in {FRAME_TEXT, FRAME_BINARY} ->
                           [rx EXCEPT !.pc = "data", !.hdr = h, !.fin = finish,
                                      !.saved = saved]
                      [] OTHER -> [rx EXCEPT !.pc = "exit", !.saved = saved]
    /\ UNCHANGED <<prog, pc, pings, chan, sent, pool, got, alive, frames>>

(***************************************************************************)
(* recv_loop(), second half: read_frame_data() appends payload_len bytes   *)
(* to the buffer (a length of 0 makes ReadNFromSocketStream() return 0 and *)
(* the loop end) and unmasks; on FIN the buffer is swapped into a new one  *)
(* handed to the worker pool for OnMessage, and opcode_ is cleared.        *)
(***************************************************************************)
RecvData ==
    /\ rx.pc = "data"
    /\ Len(wire) >= rx.hdr.len
    /\ IF rx.hdr.len = 0
       THEN /\ rx' = [rx EXCEPT !.pc = "exit"]
            /\ UNCHANGED <<wire, pool>>
       ELSE LET n == rx.hdr.len
                raw == rx.buf \o SubSeq(wire, 1, n)
                buf == IF rx.hdr.mask THEN UnmaskBuffer(raw, n, rx.hdr.key) ELSE raw
            IN  /\ wire' = SubSeq(wire, n + 1, Len(wire))
                /\ IF rx.fin
                   THEN /\ pool' = Append(pool, buf)
                        /\ rx' = [rx EXCEPT !.pc = "head", !.buf = <<>>, !.saved = 0]
                   ELSE /\ rx' = [rx EXCEPT !.pc = "head", !.buf = buf]
                        /\ UNCHANGED pool
    /\ UNCHANGED <<prog, pc, pings, chan, sent, got, alive, frames, heads>>

(* The recv fiber leaves its loop: close_wc_connection() closes the socket *)
(* and pushes the sentinels that stop the other three fibers.              *)
RecvExit ==
    /\ rx.pc = "exit"
    /\ rx' = [rx EXCEPT !.pc = "closed"]
    /\ UNCHANGED <<prog, pc, pings, chan, wire, sent, pool, got, alive, frames, heads>>

(***************************************************************************)
(* The sender, heartbeat and error fibers exit, wg.wait() returns, and     *)
(* handle_websocket() drops the last shared_ptr to the connection.         *)
(***************************************************************************)
Teardown ==
    /\ rx.pc = "closed"
    /\ alive
    /\ alive' = FALSE
    /\ UNCHANGED <<prog, pc, pings, chan, wire, sent, rx, pool, got, frames, heads>>

(* Mutant: a pool task runs without leaving the queue. *)
DeliverTwice ==
    \E i \in 1..Len(pool) :
        /\ got' = IF alive THEN Append(got, pool[i]) ELSE got
        /\ UNCHANGED <<prog, pc, pings, chan, wire, sent, rx, pool, alive, frames, heads>>

(* Mutant: the task returns when weak_conn.lock() succeeds. *)
DeliverLockInverted ==
    \E i \in 1..Len(pool) :
        /\ pool' = RemoveAt(pool, i)
        /\ got' = IF alive THEN got ELSE Append(got, pool[i])
        /\ UNCHANGED <<prog, pc, pings, chan, wire, sent, rx, alive, frames, heads>>

(***************************************************************************)
(* A pool task runs, any queued one first (tasks run in their own fibers   *)
(* on several threads): weak_conn.lock() fails once the connection is      *)
(* gone, and otherwise OnMessage gets the message.                         *)
(***************************************************************************)
Deliver ==
    \E i \in 1..Len(pool) :
        /\ pool' = RemoveAt(pool, i)
        /\ got' = IF alive THEN Append(got, pool[i]) ELSE got
        /\ UNCHANGED <<prog, pc, pings, chan, wire, sent, rx, alive, frames, heads>>

Next ==
    \/ AppCall \/ Heartbeat \/ SendFrame
    \/ RecvHead \/ RecvData \/ RecvExit \/ Teardown
    \/ Deliver

(***************************************************************************)
(* The application makes its calls, and every fiber and pool task that can *)
(* go on eventually does (acl schedules every ready fiber).  The heartbeat *)
(* timer is not assumed to fire.                                           *)
(***************************************************************************)
Spec ==
    /\ Init /\ [][Next]_vars
    /\ WF_vars(AppCall) /\ WF_vars(SendFrame)
    /\ WF_vars(RecvHead) /\ WF_vars(RecvData) /\ WF_vars(RecvExit)
    /\ WF_vars(Teardown) /\ WF_vars(Deliver)

-----------------------------------------------------------------------------
Bytes == 0..255

TypeOK ==
    /\ prog \in Progs
    /\ pc \in 1..Len(prog) + 1
    /\ pings \in 0..MaxPings
    /\ Len(chan) <= Len(prog) + MaxPings
    /\ wire \in Seq(Bytes)
    /\ rx.pc \in {"head", "data", "exit", "closed"}
    /\ rx.saved \in 0..15 /\ rx.buf \in Seq(Bytes)
    /\ pool \in Seq(Seq(Bytes)) /\ got \in Seq(Seq(Bytes))
    /\ Len(pool) + Len(got) <= Len(sent)
    /\ alive \in BOOLEAN

(***************************************************************************)
(* make_frame_header() and read_frame_head() agree, and recv_loop() stays *)
(* on the frame boundaries: the headers the receiver decodes are, in      *)
(* order, the ones the sender fiber wrote, FIN, opcode, mask, length and  *)
(* key alike.                                                              *)
(***************************************************************************)
HeadersAgree == IsPrefix(heads, frames)

(***************************************************************************)
(* OnMessage only ever gets a message the peer's application sent, byte   *)
(* for byte: framing, masking and unmasking and the buffer swap lose and   *)
(* mix up nothing.                                                         *)
(***************************************************************************)
MessagesIntact == \A i \in DOMAIN got : got[i] \in ToSet(sent)

(***************************************************************************)
(* When the peer's application never closes, every message it sends       *)
(* reaches OnMessage.                                                      *)
(***************************************************************************)
AllDelivered ==
    \A p \in Progs :
        (prog = p /\ \A i \in DOMAIN p : p[i][1] # "close") => <>(pc > Len(p) /\ Len(got) = Len(sent))

(***************************************************************************)
(* Every message the peer's application sends reaches OnMessage, even when *)
(* the peer closes the connection after it.                                *)
(***************************************************************************)
DeliveredBeforeClose == <>(pc > Len(prog) /\ Len(got) = Len(sent))

(***************************************************************************)
(* OnMessage gets the messages in the order they were sent.                *)
(***************************************************************************)
InOrder == \A i \in DOMAIN got : got[i] = sent[i]
=============================================================================
