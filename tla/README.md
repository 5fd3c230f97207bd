# TLA+ models of arch_net

This directory holds TLA+ models of the arch_net networking library, the TLC
configurations that check them, and `PROJECT.json`. `PROJECT.json` lists:

- the components;
- the runs and the question each one answers;
- a mutant per checked property;
- the source lines every definition models;
- the findings and the hazards.

## The system

arch_net is a C++ library of fiber-based network services built on acl
fibers. All fibers of a thread share one cooperative scheduler. A fiber runs
until it blocks, and it blocks only on one of these:

- a `fiber_mutex` another fiber holds;
- an empty `fiber_tbox`;
- a socket with no data;
- a socket write that cannot complete;
- a `wait_group`.

Its parts, from the bottom up:

| part | sources | what it does |
|---|---|---|
| sockets and streams | `socket.cpp`, `socket_stream.cpp`, `ssl_socket_stream.cpp`, `udp/` | system-call wrappers, TLS |
| multiplexing (yamux-like) | `mux_session.{h,cpp}`, `mux_stream.{h,cpp}`, `mux_define.h` | many logical streams over one TCP connection |
| socket pool, resolver | `socket_pool.*`, `resolver.*` | connection reuse, name lookup |
| load balancing, worker pool | `load_balance.h`, `utils/worker_pool.hpp` | choosing a backend or a worker |
| futures, timers | `utils/future/future.h`, `timer_provider.h` | completion callbacks and timeouts |
| rpc | `rpc/` | pbrpc/thrift codecs, rpc streaming |
| http | `http/` | request parsing, trie router, websocket frames, client |

### The multiplexing session

Each end of a TCP connection owns a `MultiplexingSession`:

- `session_setup()` starts a **send loop** fiber, a **recv loop** fiber and a
  keepalive fiber.
- Every write of a stream goes through `send_chan_`, a queue of closures that
  the send loop runs one by one. There are two exceptions:
  - `incoming_stream()` writes the ACK itself;
  - `send_window_update()` is called directly from the open task.
- The recv loop reads a header and dispatches it. `handle_stream_message()`
  holds `mux_streams_.mutex` for the rest of the frame.
- A stream (`MultiplexingStream`) has:
  - `state_`, guarded by `state_lock_`;
  - `recv_buff_`, guarded by `recv_lock_`;
  - two notification queues, `recv_done_notify_` and `send_done_notify_`,
    that wake `recv()` and `send()`.
- The client's `open_stream()` queues an open task and waits on a `res_chan`.
  The open task allocates the id, writes SYN and registers the stream.
- The server's `handle_connection()` pops `accept_chn_` and starts a handler
  fiber per stream. `MultiplexingSocketServer::handler` calls the user handler
  and then deletes the stream.
- `MultiplexingStream::close()` does the following, in order:
  1. sets LocalClose;
  2. queues a FIN task and waits for it while holding `state_lock_`;
  3. wakes both waiters and sets Closed;
  4. erases the stream from the table.
- `MultiplexingSession::close()` does the following, in order:
  1. sets `shut_down_`;
  2. calls `set_close()` on every stream while holding the table mutex;
  3. pushes the nullptr sentinel to `send_chan_`;
  4. closes the socket;
  5. waits for the loops;
  6. pushes nullptr to `accept_chn_`.

## Modules

### `MuxCore.tla`: session, streams, accept loop

The model has two sessions, client `"C"` and server `"S"`, over one
connection. Client fibers `1..N` each open one stream. After that they send,
receive and close in any order the code allows. The server's accept loop
starts one handler fiber per accepted stream.

State and the code it stands for:

| variable | code |
|---|---|
| `sst[p][s]` | `state_` of stream `s` at session `p` (`"none"` before the object exists) |
| `tbl[p]` | `mux_streams_.streams` |
| `buf`, `rnote`, `snote` | `recv_buff_` (in units), `recv_done_notify_`, `send_done_notify_` |
| `slock`, `rlock`, `mlock` | `state_lock_`, `recv_lock_`, `mux_streams_.mutex` (holder) |
| `finDone` | the `fiber_tbox` that `send_close()` waits on has been pushed |
| `shut`, `nextId`, `sendq`, `acceptq` | `shut_down_`, `next_stream_id_` (as an allocation index), `send_chan_`, `accept_chn_` |
| `closer`, `cphase`, `ctodo` | the fiber inside `MultiplexingSession::close()` and how far it got |
| `acur`, `given` | the accept loop's local `mux_stream`; the stream popped for each handler (history) |
| `out[p]`, `rd[p]` | the byte stream `p` wrote, as header and payload parts, and how much the peer has read |
| `sock`, `link` | `socket_stream_->close()`, and a connection reset |
| `run[p]` | the fiber of `p` that is running and has not yet blocked |
| `wpc`, `rpc`, `apc`, `mpc` | where the send loop, recv loop, application fibers and main fibers are |
| `recvd`, `eof`, `lastOk`, `protoErr` | history: units `recv()` returned, a 0 after FIN, the last `send()` that returned success, a protocol error seen |

**Scheduling.** `run[p]` holds the running fiber. A fiber keeps `run[p]`
until it reaches a point where the code blocks, and then it sets `NoOne`.
Any fiber may take the next step when `run[p] = NoOne`. So no other fiber of
the same session can act in the middle of a handler. This is exactly the
atomicity that acl's cooperative scheduler gives.

**Actions.** Every action models a whole handler step up to the next point
where the code blocks.

| group | actions | code |
|---|---|---|
| send loop | `WrStop`, `WrOpen*`, `WrData*`, `WrBody`, `WrFin*`, `WrGoAway` | one per kind of task the loop can pop (`session_setup`, `open_stream`'s task, `send`'s task, `send_close`'s task) |
| recv loop | `RxLoop`, `RxRead`, `RxReadFail`, `RxBlock`, `RxIncoming*`, `RxLookup`, `RxBadFlags`, `RxWindowUpdate`, `RxData`, `RxBody`, `RxBodyFail`, `RxBodyErr`, `RxDiscard` | `recv_loop`, `handle_stream_message`, `incoming_stream`, `read_data` |
| session `close()` | `CloseLock`, `CloseSet`, `CloseFinish`, `CloseWait` | `close()` split where it can block |
| applications | `AppOpen*`, `AppSend*`, `AppRecv*`, `AppClose*`, `AppStart` | the stream API, the handler fiber's first run |
| environment | `ClientClose`, `Accept`, `LinkDown` | owner's close, the server's accept loop, a connection reset |

`read_data()` keeps `read_body()`'s result in a `uint32_t ret` and tests
`ret <= 0`. Only EOF (0) takes that branch: `RxBodyFail` returns -1 with
`recv_lock_` still held. A socket error (-1) becomes 2^32-1, so `RxBodyErr`
takes the success path with nothing appended, releases the lock and pushes
RecvSuccess. The `assert(ret == length)` is compiled out of release builds.

### `MCMuxCore.tla`

`MCMuxCore.tla` is the module TLC runs. Each `MuxCore_*.cfg` gives its
constants:

| constant | meaning |
|---|---|
| `N` | number of client streams |
| `MaxSend` | send calls per fiber |
| `Timeouts` | `open_stream`/`send` may time out |
| `Faults` | connection resets |
| `WriterYield` | the sessions whose body writes may block after their header |
| `OwnerCloses` | the client's owner may close the session |

### `Router.tla`: the HTTP trie and router

`src/http/trie.cc`, `node.cc` and `router.cc`. A route pattern is the
sequence of fragments `add_node()` splits it into: a literal segment, `""` for
a trailing slash, or a colon parameter with its name and regex. A trie node is
named by its path of labels from the root, the literal key of an exact child
or `":"` for a `colon_child`, so `find_child()` and `colon_child` become
membership tests. Regexes are abstract: `ReSet[r]` is the set of segments `r`
matches.

| state | code |
|---|---|
| `trie.nodes`, `trie.info`, `trie.endpoint` | the `Node` tree, each colon node's `name` and `regex`, `Node::endpoint` |
| `handlers` | `Node::handlers` keys |
| `routes`, `served` | history: accepted patterns, and method/pattern pairs whose handler was attached |

Registration is the state machine: `HandleRoute` is `init_basic_method()`
(`add_node()` then `Node::handle()`), `UseRoute` is `use()`. `GetOrNewNode`
keeps `_get_or_new_node()`'s conflict throw, and a throw leaves the nodes
created before it. Matching is not a step of its own: `Match` (the strict-route
retry of `Trie::match()`), `MatchOnce` (`_match`), `Descend` (its loop with
the fallback stack), `Fallback` (`fallback_lookup()`, with the depth limit) and
`Dispatch` (`Router::handle()`'s statuses) are RECURSIVE operators evaluated
on every reachable trie for every request path. `RefMatch` and `Binding` are
the reference: segment-by-segment matching of a pattern and the parameters it
binds.

### `Future.tla`: promises, futures, combinators, the pool tasks

`src/utils/future/*.h` and the pool's `addTask()`. The actors are one
producer per input future, the consumer fiber running a program of calls, and
one pool task per registered callback (a handle `<<source, kind>>`).

| state | code |
|---|---|
| `status`, `value`, `cbs`, `waiters`, `owner` | `SharedState` status, value (result folded in), `then_callback`, fibers in `condition.wait`, the mutex holder |
| `ctx` | the combinator's context: `results`, `count`, `done`, its mutex, and `overrun` for a store past waitAnyN's vector |
| `task` | the stage of each pool task of `ExecuteTask()` |
| `upc`, `ppc` | the consumer's and producers' program counters |
| `sets` | history: `setValue()` calls per future |

`SetValue` is `Promise::setValue()` in one step, including the `return false`
that keeps the mutex locked. The callbacks it swaps out only queue pool tasks,
and the `notify()` after them wakes the waiter. `Register` is `then()` /
`thenVoid()`. `GetLock`, `GetWake`, `TimerFire` and `GetExpire` are `get()`
and the timed `get()`, whose expired wait re-locks and sets Timeout whatever
the status is. `TaskRead` is the task's unlocked read of the source's status;
`TaskTimeout`, `TaskCheck`, `TaskThen`, `TaskWait` and `TaskSetC` are the rest
of it: `setTimeout()`, `isTimeout()`, the callback, and the combinator's
`setValue()` on its output. `thenVoid()`'s own promise is held by nobody and
is left out. `MCFuture.tla` gives two inputs and the consumer programs.

### `WebSocket.tla`: frames, the sender fiber, `recv_loop()`

`src/http/websocket.{h,cpp}`, one direction of a connection: the sending
`WebSocketConnection`'s calls and fibers, the bytes on the socket, and the
receiving connection's recv fiber, its OnMessage pool tasks and its
teardown. The wire is a sequence of bytes. `EncodeHead` is
`make_frame_header()` bit for bit (Bitwise `|`, big-endian lengths),
`DecodeHead` and `HeadSize` are `read_frame_head()` with
`update_head_2bytes()`, and `MaskPayload` and `UnmaskBuffer` are the XOR
loops of `send_frame_data()` and `read_frame_data()`, the latter over the
start of the buffer as the code does it.

| state | code |
|---|---|
| `prog`, `pc`, `pings` | the sending application's calls, and the heartbeat fiber's pings |
| `chan` | `sender_chan_`: the frame tasks `addTask()` queued |
| `wire` | bytes written by `send_frame_data()` and not yet read |
| `rx` | the recv fiber: where it is in `recv_loop()`, the decoded header, FIN, `opcode_`, the message buffer |
| `pool`, `alive` | OnMessage tasks queued on the worker pool; the connection object still exists |
| `sent`, `got`, `frames`, `heads` | history: messages sent and received; headers written and decoded |

`AppCall` is a `send*()` / `closeWebsocket()` call (`TaskOf` gives its
opcode and whether it masks), `Heartbeat` the heartbeat fiber's `sendPing()`,
`SendFrame` the sender fiber running one task with a key from `Keys` (the
`rand()` of `gen_masking_key()`; a key of 0 turns masking off). `RecvHead`
is `recv_loop()` up to the switch, including the `opcode_` save and restore
and the PING/PONG branches, which read no payload; `RecvData` is the
TEXT/BINARY branch (`read_frame_data()`, the buffer swap into a pool task,
`opcode_ = 0`); `RecvExit` is the recv fiber leaving and
`close_wc_connection()`; `Teardown` is `wg.wait()` returning and the
connection being released; `Deliver` is one pool task, any queued one,
whose `weak_ptr` lock fails after teardown. `MCWebSocket.tla` gives the
programs.

### `RpcStreaming.tla` and `MsgChannel.tla`: streaming RPC

`src/rpc/rpc_streaming.{h,cpp}`, both ends of a streaming connection. A
pbrpc call that both sides mark as streaming leaves one
`StreamingConnection` at each end of the connection's transport:
`pbrpc_channel.cpp` creates the client's and `robin_pbrpc.cpp` the
server's. Each runs `process()` in a fiber, while its application calls
`send()`, `recv()` and `close_streaming()` and finally destroys the
controller that owns it. The two ends run the same code.

The frame codec is the WebSocket one, so frames are records here: `bin`
with the message buffer, `close` and `ping`. A message is a record
`[id, len]`. `StreamingEncode` keeps what `PBCodec::StreamingEncode` puts in
the buffer: the serialized size and the compressed message.
`StreamingDecode` fails when `ZSTD_decompressDCtx` yields no bytes
(`DecodeOk`).

| state | code |
|---|---|
| `prog`, `pc`, `dwait` | each application's calls; the destructor waiting on `exit_signal_` |
| `sendq`, `inbox` | `sender_chan_` and `inbox_`, with the `nullptr` sentinel `Nil` |
| `out[e]`, `fd[e]` | frames `e` wrote and the peer has not read; `e`'s end of the transport is open |
| `remote`, `closed` | `remote_close_`, `closed_` |
| `fibers`, `exited` | the fibers of `process()` still running; `exit_signal_` pushed |
| `pings`, `sent`, `got` | heartbeat timeouts; history: messages `send()` accepted and `recv()` returned true for |

The application actions are the following:

- `AppSend`, `AppRecv` and `AppClose` are `send()`, `recv()` and
  `close_streaming()`.
- `Destroy` and `DestroyReturn` are the destructor before and after its
  `exit_signal_.pop()`.

The fiber actions are the following:

- `SendTask` and `SendExit` are the sender fiber. A write to a closed fd is
  lost.
- `RecvFrame` is one turn of `recv_loop()`. `RecvEof` is a turn with
  nothing left to read. A closed fd of its own makes `recv()` return -1 and
  the loop ends. At EOF `recv()` returns 0, which `read_frame_head()` does
  not test for (it checks only -1), so the header is decoded from its
  uninitialised local `buf`. The garbage opcode leads either to the CLOSE
  case, or to a failure that ends the loop, or, for PING and PONG, to a
  loop that reads the same garbage again without ever suspending.
  `RecvSpin` is that spin. Since it never yields, no other fiber of the
  connection's thread runs again (`Runs`).
- `HbPing`, `HbExit` and `ErrExit` are the heartbeat and error fibers.
- `ProcessReturn` is `wg.wait()` returning.

`CloseWc` is `close_wc_connection()`, taken in the same step as the fiber
exit that calls it. The constant `FdCloses` says whether `close(get_fd())`
ends the transport. It does for a socket stream. It does not for a
`MultiplexingStream`, whose `get_fd()` returns -1.

`MsgChannel.tla` is what the connection promises. It has one FIFO queue per
direction:

- `Accept` appends to a queue while the connection is up.
- `Take` pops the oldest message.
- `Break` marks the connection down and keeps a prefix of each queue.

The refinement mapping (`Chan`, checked as `Refines`) maps the queue of
direction `e` to these messages, in order:

1. the buffers in the peer's `inbox_`;
2. while the peer's receiver fiber runs, the BINARY frames on `e`'s wire;
3. while `e`'s fd is open, the BINARY tasks queued ahead of `sendq[e]`'s
   `nullptr`.

The connection is down once either receiver fiber has ended. Every concrete
step is then one abstract step or a stutter. Delivery is in order and
without duplicates. Loss is only of the in-flight suffix. No message is
accepted that could still arrive after the break.

### `CoinHttp.tla`: HTTP client session and server loop

`src/http/coin_client.{h,cpp}` against `src/http/coin_server.h`, one TCP
connection between them. The user's fiber makes the calls of the constant
`Calls` in order. Each call is a record: the path, the body length and
whether it is a `Future_Get()`/`Future_Post()`. Paths are named by what
the server's router answers: 200, 302 with a Location, 302 without one,
400, no route (404 with `keep_alive(false)`), and the empty path, which
`handle_request()` rejects before writing. The byte streams are sequences
of items: request heads (call, `Connection: close`, Content-Length), body
bytes, and responses (call, status, Location, and whether a Content-Length
is written). A read takes any non-empty prefix of what has arrived.

| state | code |
|---|---|
| `upc`, `phase` | the user's program counter; each call's frame: issued, inside `send()`, blocked in `get()`, returned |
| `task`, `result` | each `handle_request` task on the IO worker, and the value it sets on the call's future |
| `c2s`, `s2c`, `cliOpen`, `srvOpen` | the two directions of the stream and whether each end has closed its socket |
| `sbuf`, `spc` | the server request's `buffer_` and the connection loop |

The actions are the following:

- `Issue`, `OuterRun`, `SendReturn`, `Return` and `Destroy` are the user's
  fiber: a session call, the outer task of a future call, `send()` returning
  its future, `get()` returning, and the session's destructor closing the
  stream.
- `TaskStart` is `handle_request()` up to the write: `build_request()`, the
  head with `Connection: close` taken from `close_connection`, and the body
  written with length `size() <= 0`. `TaskRecv` is `recv_and_parse()` with
  `process_request()` and `redirect()`: a response completes the call, a
  response without Content-Length is read until EOF, and EOF fails the call
  with `Read`.
- `SrvRecv` and `Serve` are one turn of `handle_connection()`: read until
  the request is complete (EOF ends the loop), then route, answer, and loop
  or close by keep-alive.


### `MuxLink.tla`: keepalive and flow control between two sessions

`src/mux_session.cpp` and `src/mux_stream.cpp` at the session level: two
sessions, "C" and "S", joined by one connection, each with its send loop,
recv loop and keepalive fiber, and one stream both have opened. The client
application sends the sizes of the constant `Sends` on the stream; the
server application reads it. Data is counted in units of the window.

| state | code |
|---|---|
| `sendq` | `send_chan_`'s closures: Data, Ping, the ACK of `handle_ping()`, GoAway, and close()'s nullptr |
| `wire`, `sock` | each direction of the connection, and whether each socket is open |
| `shut`, `closer`, `cret` | `shut_down_`, the fiber that ran `close()`, and whether it has passed `wg_.wait()` |
| `hdr` | the recv loop's local `Header hdr`, the last frame decoded |
| `rl`, `sl`, `ka` | the recv loop, the send loop, and the keepalive fiber (sleeping, waiting in `ping()`, done) |
| `kaChan`, `kaId`, `nextPing`, `pings`, `acked` | `keep_alive_chan_`, `ping()`'s local id, `ping_.ping_id`, the ids in `ping_.pings`, and the ids whose tbox an ACK has pushed |
| `sst`, `sw`, `rw`, `rbuf`, `snote` | the stream's state, `send_window_`, `recv_window_`, `recv_buff_` and `send_done_notify_` |
| `apc`, `aw` | the client application's next `send()` and whether it is blocked in one |

The actions are the following:

- `Tick`, `KaAck`, `KaTimeout` and `KaStop` are the keepalive loop. The
  interval elapses and `ping()` queues a Ping task. The ACK arrives and
  `ping()` returns 1. `ConnectionWriteTimeout` elapses first and
  `exit_err()` closes the session. Or close()'s push ends the loop.
- `SendStep` is one closure of the send loop with `send_message()`.
  `FrameOf` is the frame the closure encodes when it runs. The ACK reads
  `hdr.length()` at that time, because `handle_ping()` captures `hdr` by
  reference.
- `RecvStep` is one turn of `recv_loop()`. A Data frame goes through
  `read_data()` (`Overrun` is its window check), a Ping with SYN queues
  the ACK task, and an ACK pushes its waiter's tbox.
- `AppSend`, `AppSendReturn` and `AppRecv` are `MultiplexingStream::send()`
  and `recv()`. `send()` checks `send_window_ == 0` and never decreases
  it. `recv()` sends no window update.
- `Close`, `ExitErr`, `CloseReturn` and `OwnerClose` are `close()`,
  `exit_err()`, the return from `wg_.wait()`, and the session owner's
  destructor.

Passing runs. The runs are checked together with `-workers 2`.

| run | bounds | checks | shows |
|---|---|---|---|
| `safety` | N=1, MaxSend=1, Timeouts, WriterYield at the client, owner may close | TypeOK, EofMeansDrained | With a reliable connection, with `open_stream()` and `send()` timing out and the owner closing at any point, no unit the receiver appended is lost when `recv()` reports end-of-stream |
| `faults` | N=1, MaxSend=1, Faults, WriterYield, no owner close | EofMeansDrained, SendSuccessWritten | Under resets at any point, with body writes suspending mid-frame, no `send()` reports success for a frame that was not written and no unit is lost before end-of-stream |
| `two_streams` | N=2, MaxSend=0, no owner close | ClientNoUseAfterDelete | Concurrent opens, accepts and closes never touch a deleted client stream |
| `liveness` | N=1, MaxSend=0 | RecvReleased, CloseReturns, SessionShutdown | Under fair scheduling:<br>• a blocked `recv()` is released<br>• `close()` returns<br>• a shut session's loops end |
| `router` | up to 3 registrations of 1–2 fragment routes; paths of 1–3 segments | TypeOK, RouteSound, RouteComplete | Whatever get()/use() registrations are made, in any order and including ones that throw, `Trie::match()` returns only a node whose pattern matches the path, and returns one whenever a registered pattern matches |
| `websocket` | client side, keys 0 and non-zero, messages of 1, 2 and 126 bytes, one heartbeat ping, with and without a close | TypeOK, HeadersAgree, MessagesIntact, AllDelivered | Every header `recv_loop()` decodes is the one the sender wrote, OnMessage gets only sent messages byte for byte, and without a close every message reaches it |
| `rpc_streaming` | client and server over a socket stream; 3 programs (client streams then closes, server streams, calls `close_streaming()`, sends again and leaves, both destroy at once); 3 messages; 1 heartbeat ping each | TypeOK, NilLast, Refines | The connection implements `MsgChannel`, also when a receiver ends or spins at EOF. No message follows end-of-stream in an inbox |
| `coin_http` | keep-alive, redirects followed; sync GETs on paths answered 200, 302 with and without Location, a request that fails to build, then one `Future_Get()`; the client destroyed at the end | ResponseMatches, CallsReturn, ServerReleases | A successful call gets the response to its own request. Every call the client makes returns, whether the server keeps the connection or closes it; once the client is destroyed the server's connection loop ends |
| `mux_link` | MaxWindow=2, sends of 1 then 2 units, one ping per session, owner may close | TypeOK, ShutdownEnds | However a session shuts down (the owner's close, a keepalive timeout, the window overrun the second send causes, end-of-file from the peer), every fiber of both sessions ends and every `close()` returns |
| `future` | 2 inputs, modes all/any/anyN (N=2), program wait, then, timed get f1, get f2, timed get C | TypeOK, AllInOrder, OutputSetOnce, ConsumerFinishes | Over every order of producers, pool tasks and timers: the combinator's output is set once and holds the inputs in index order, and the program returns |

Runs that find a violation. Each one is a finding in `PROJECT.json`, and each
one checks one property.

| run | property | what TLC finds |
|---|---|---|
| `send_uaf` | NoUseAfterDelete | A deleted stream's data task is still queued, so the send loop uses freed memory |
| `mux_ping_echo` | AckEchoesPing | S reads C's Ping and queues the ACK task. Before the send loop runs it, the recv loop decodes a 2-unit Data frame into the same `hdr`. The ACK then echoes 2, not the ping id 0. C has no waiter for 2, so its `ping()` times out and tears down a healthy session. `mux_define.h` says the Length of a Ping is echoed back |

More violations reproduce with configurations outside the runs. Each one
checks one property, and the hazards in `PROJECT.json` name them:

| cfg | property | what TLC finds |
|---|---|---|
| `Future_poll.cfg` | ConsumerFinishes | A timed `get()` on f1 times out, f1's producer then calls `setValue()`, which returns with f1's mutex locked, and the following `then()` (or, with `then()` first, `T.get()`, whose callback never runs) blocks for ever |
| `CoinHttp_post_body.cfg` | CallsReturn | A POST with a 2-byte body: `write_request()` sends the body with length `req.body.size() <= 0`, that is 0 bytes, while the head says `Content-Length: 2`. The server waits for the body and the client for the response, for ever |
| `MuxLink_window.cfg` | WindowRespected | Sends of 1 and 2 units into a window of 2. `send()` checks `send_window_ == 0` but never decreases it, so the second send is queued. `read_data()` finds 2 > 1 left in `recv_window_`, fails the frame and tears the session down. The spec's scenario 2 has the over-window send return 0 |
| `MuxCore_close_race.cfg` | NoProtocolError | Both ends close a stream at once. The receiver meets the FIN in StreamClosed and aborts the session |
| `RpcStreaming_empty.cfg` | ReceivedInOrder | A message that serializes to zero bytes: `StreamingDecode` fails, `recv()` returns false (the end-of-stream result) and the message is skipped |
| `RpcStreaming_mux.cfg` | DestroyReturns | Over a `MultiplexingStream`, `close(get_fd())` is `close(-1)`. The end that closed first waits in its destructor for ever for an EOF that never comes |
| `RpcStreaming_eof_spin.cfg` | DestroyReturns | Over a socket stream: the server ends first and closes its fd. The client's `read_frame_head()` gets 0 at EOF and decodes a garbage PING, so its receiver spins and its destructor never returns |
| `MuxCore_close_deadlock.cfg` | CloseReturns | An open task ends the send loop ahead of a queued FIN task, and `close()` waits for ever |
| `MuxCore_ack_interleave.cfg` | FrameIntegrity | `incoming_stream()`'s direct ACK write lands between a Data header and its body |
| `MuxCore_stale_send.cfg` | SendSuccessWritten | A timed-out `send()`'s late SendSuccess is returned by the next `send()` |
| `MuxCore_open_selfwait.cfg` | SessionShutdown | A failed SYN makes the send loop wait on its own FIN task |
| `Router_shadow.cfg` | RouteReachable | `GET /:x(r)` then `use("/a")`: `GET /a` answers 404, because the literal endpoint `use()` created wins and has no GET handler |
| `Future_overwrite.cfg` | DoneIsFinal | A timed `get()`'s timer fires, the producer sets Done, and the expired wait re-locks and overwrites Done with Timeout (`future.h:98`) |
| `Future_overrun.cfg` | NoOverrun | `waitAnyN` with N = 1 over two inputs stores input 2 at index 1 of a one-entry vector |
| `MuxCore_rlock_leak.cfg` | RecvLockReleased | `read_data()` returns without unlocking `recv_lock_` when the peer closes mid-frame (`read_body()` returns 0; a -1 in the `uint32_t ret` takes the success path) |
| `WebSocket_ping_payload.cfg` | AllDelivered | A ping with one byte of data: `recv_loop()` skips no payload, parses the data byte as a header and never delivers the next message |
| `WebSocket_frag_unmask.cfg` | MessagesIntact | A masked message in two fragments: the second is unmasked over the first byte of the buffer, and OnMessage gets bytes nobody sent |
| `WebSocket_frag3.cfg` | AllDelivered | A message in three fragments: the middle continuation frame hits the unknown-opcode case and ends the loop |
| `WebSocket_ctl_in_frag.cfg` | AllDelivered | A ping between two fragments clears `opcode_`, and the last fragment ends the loop |
| `WebSocket_empty.cfg` | AllDelivered | An empty text message makes `read_frame_data()` fail and closes the connection |
| `WebSocket_close_drop.cfg` | DeliveredBeforeClose | A message and a close: the connection is released before the OnMessage task runs, and the message is dropped |
| `WebSocket_reorder.cfg` | InOrder | Two messages: their pool tasks run in the other order |
| `MuxCore_accept_capture.cfg` | HandlerGetsItsStream | `go[&]` captures the loop variable, and a handler serves another handler's stream |
| `Router_params.cfg` | ParamsBound | Routes `/:x(r)`, `/a`, `/:x(r)/:y`: the request `/a/c` falls back to `/:x(r)/:y` and reaches its handler with `y` unbound |
| `CoinHttp_futures.cfg` | ResponseMatches | Two `Future_Get()` calls run as concurrent tasks on one stream; a task returns the response to the other call's request |
| `CoinHttp_bad_request.cfg` | CallsReturn | A 400 response carries no Content-Length, so the client reads to EOF, which `recv_and_parse()` never hands to the parser: with keep-alive the call waits for ever |
| `CoinHttp_keepalive.cfg` | KeptAliveCallsSucceed | `send()`'s task reads `close_connection`, a local of the returned `send()`, by reference; a stale `true` closes the socket after the first call and the second fails |

Some of these bugs also appear under the bounds of the passing runs. Those
runs were adjusted as follows:

- `safety`, `faults` and `two_streams` do not check deadlock. The
  deadlocks they reach are the one `MuxCore_rlock_leak.cfg` reproduces and
  the one `MuxCore_close_deadlock.cfg` reproduces. `safety` lets the client's body
  writes suspend after their header, so that the owner's close can leave the
  peer reading EOF mid-frame (`RxBodyFail`).
- `faults` leaves out the owner's close, so that the stream-close paths are
  exercised by resets alone and the state space stays within reach.
- `two_streams` checks use-after-delete for the client session only.
  Two server handlers deleting one stream is the accept-capture bug that
  `MuxCore_accept_capture.cfg` reproduces.
- The passing runs check `NoUseAfterDelete` at neither session, because
  `send_uaf` already breaks it with one stream.

**Bounds.** One stream with one unit in each direction is enough for every
data-path interleaving:

- a send racing the owner's close;
- a FIN racing a close;
- a body write blocking mid-frame;
- a reset between any two socket operations.

Two streams are needed for the following, and give only the open, accept and
close protocol there, because data multiplies the state space beyond reach:

- the open task racing the receiver for the table mutex (`WrOpenReg`);
- two handler fibers;
- the accept-capture bug.

**Fairness.** The liveness run assumes strong fairness for each fiber's
continuation:

- the send loop;
- the recv loop;
- the fiber inside `close()`;
- each application fiber waking from a queue or a mutex;
- the accept loop.

acl's scheduler runs every ready fiber in turn. A `fiber_mutex` and a
`fiber_tbox` wake their waiters. So a fiber that is enabled again and again
eventually runs. The following are not fair, because the program may never
do them:

- the application's calls;
- the owner's close;
- timeouts;
- resets.

**Mutants.** `PROJECT.json` has one mutant for every property of a passing
run. A mutant is a plausible bug in a mapped definition, and TLC finds each
one under the run's own configuration:

- `recv()` peeks instead of consuming;
- recv drops its buffer check;
- `send()` treats any notification as success;
- `close_stream()` is skipped;
- `set_close()` does not wake the waiters;
- the FIN task does not signal;
- no stop sentinel is pushed.

## What is abstracted or left out

**Router.** Paths arrive already split and trimmed; case folding
(`_ignore_case`), middleware pipelines (`compose_func`) and running the
handlers are left out. `use("")` changes nothing modelled. Regexes are the
sets `ReSet` gives. Routes have one or two fragments, a name appears once per
route, and at most three are registered: every kind of conflict, fallback
and strict-slash retry appears in these bounds (`Router_params.cfg` needs three
routes). `MaxFallbackDepth` is the default, 100, never reached.

**Futures.** A result and its value are one integer, each input's producer
sets its own index, and `then()`'s callback adds the number of inputs. The
pool's thread choice is not modelled: any queued task may run next, which
covers every strategy of `get_next_index()`. The producers and the timer are
weakly fair, and the consumer's steps and each pool task strongly fair: a
fiber waiting for a mutex gets it once it is free often enough, and the pool
runs every queued task. Two inputs with waitAll, waitAny and waitAnyN over
one program that registers both then() and the combinator reach every branch
of the tasks; the `future` run's program uses the timed get on f1 after
registering on it, because a timed get before a registration already blocks
(`Future_poll.cfg`).

**WebSocket.** One direction of one connection: the sender's own receiver
and the receiver's own sender are the same code the other way round. The
handshake (`http` upgrade), the callbacks' return values (all return true),
short socket reads and the rsv bits (set only by `rpc_streaming`) are left
out. Payloads are byte sequences of up to 126 bytes: that covers the 7- and
16-bit length forms; the 64-bit form needs 65536 bytes and is not reached,
and TLC integers could not hold lengths past 2^31 - 1, so the `uint32_t`
size `ReadNFromSocketStream()` cuts a 64-bit length to is out of reach. Two keys, 0 and one
with every byte distinct, are enough to tell masked from unmasked and to
catch any key byte applied at the wrong position. The pool task queue is a
sequence from which any task may run next, since the pool spreads tasks over
threads. Every step except the application's calls and the heartbeat is
weakly fair: acl runs every ready fiber and the pool runs every queued task.
The `websocket` run does not check deadlock, because the connection idles
once every call is made and every frame is read. Its mutants are a pool task
that runs without leaving the queue, the 7-bit length form used up to 126,
the key applied one byte off, and the `weak_ptr` check inverted.

**RPC streaming.** Frames are whole records: the byte codec is checked in
`WebSocket.tla`, and every streaming frame is FIN and unmasked. A write to
an open transport always completes. A transport closes when its end's fd is
closed. This holds for a socket stream, and TLC is given only that case in
the run; `RpcStreaming_mux.cfg` gives the mux-stream case. The garbage
header at EOF is a nondeterministic choice of its outcomes, since the
contents of the uninitialised `buf` depend on the stack. The
heartbeat's 30 s timer fires at most `MaxPings` times, and it is not fair.
Each fiber and each application is weakly fair, since acl runs every ready
fiber. The run checks deadlock: `Finished` is the only terminal state, and a
spinning receiver keeps stepping. The run does not check that destructors
return, which fails by the EOF spin (`RpcStreaming_eof_spin.cfg`). The
three programs reach the following:

- a close from either side;
- a close from both sides at once;
- a send after `close_streaming()`;
- messages in flight in both directions when a receiver ends.

Three messages and one ping per side are enough for these cases.
`StreamingEncode`'s own failure (`compress` returning <= 0) is not
modelled: it depends on `Buffer`'s capacity, whose header is not in
`src/`. The mutants are these:

- `recv()` returning the undecoded buffer;
- the CLOSE case continuing the loop;
- the sender writing to a closed fd;

**Data.** A `send()` carries one unit. A Data frame is a header part and a
payload part. Window sizes and lengths are not modelled. Stream ids are
allocation indices: the i-th client stream has wire id 2i+1.

**The ProtoMagicValue check.** A payload read where a header is expected fails
the check. A GoAway with ProtoErr ends the receiver.

**close_wg_.** In `close()`, `close_wg_.wait()` returns at once in the model.
This is exact while one fiber owns a stream. It is not exact only in the
accept-capture state, which is reported separately.

**Keepalive and flow control.** `MuxCore` leaves out the keepalive fiber,
`ping()`, `handle_ping()` and the windows. In `MuxCore`, `close()` does not
wait for the keepalive fiber. All of these are in `MuxLink`, which leaves
out the stream open and close protocol instead:

- The stream starts Established with both windows at MaxWindow. The open
  handshake's two WindowUpdates carry delta 0: `send_window_update()`
  computes max - 0 - max. So `increase_send_window()` never adds credit and
  is not an action.
- Only the client sends data. A frame is written whole. `MuxCore` checks
  the splitting of frames on the wire.
- The keepalive interval and `ConnectionWriteTimeout` are not ordered
  against other steps. `Tick` may fire whenever the fiber sleeps, and
  `KaTimeout` whenever no ACK has arrived. `MaxPings` bounds the intervals
  per session.
- After the peer has closed its socket, a write may fail, or succeed and
  be lost.
- A GoAway task is queued just before its fiber calls `exit_err()`, so
  `send_message()` always finds `shut_down_` set. No GoAway frame reaches
  the wire, and none is modelled on it.

Fairness: every fiber step and timer is weakly fair, and so is
`AppSendReturn`, whose timeout always fires. The applications' calls and
the owner's close are not fair, because the program may never make them.
The window `MaxWindow=2` with sends of 1 then 2 reaches both branches of
`read_data()`'s check. One ping per session reaches the ACK race, the lost
ACK, and the timeout racing a late ACK. The `mux_link` run's mutants are:

- `read_data()` without its window check, which underflows `recv_window_`;
- `close()` without its nullptr for `send_chan_`, which leaves the send loop
  waiting for ever.

**`MultiplexingSocketClient::connect()`.** Its session map (the connect race
and the `mutex_` leak) is not modelled yet (see Plan).

**HTTP client and server.** One connection, one client session and the
server's fiber for it; the accept loop, the router's matching (in
`Router.tla`) and the handlers' bodies are left out. `close_connection` is
a local of `send()` that the task reads by reference: while `send()` is
still running the task reads `!keep_alive_`, after it has returned the read
is of a dead stack slot and the model takes either boolean. No timeout is
applied, because the code applies none: `read_write_timeout_` is stored and
never passed to the stream, and `TcpSocketStream::recv()` reads with
timeout 0. `redirect()` is modelled as it is: it fails on a 3xx without
Location and otherwise returns true without following. Every action is
weakly fair: the tasks, the user's fiber and the server loop are acl
fibers. The `coin_http` run checks deadlock; `Finished` is its only
terminal state. Its calls reach keep-alive reuse, both redirect cases, a
request that fails before writing, a future call, and the server's EOF exit
after `Destroy`. Its mutants are the server loop without `request.reset()`, which answers
one request twice, `recv_and_parse()` reading on at EOF, and the server
loop reading on at EOF. A failed `response.send()` (to a client that has
closed) ends the server loop.

**Other parts.** The following are listed as not_modelled or partly
modelled:

- sockets, TLS and UDP, which are I/O;
- the pbrpc request/response codec and the thrift codec, which are byte
  formatting;
- the http url, base64 and multipart helpers, which are string formatting;
- compression and crypto, which are library code. Only `StreamingDecode`'s
  use of `zstd_decompress` is in `RpcStreaming`;
- `src/http/router/router.h`, a second router that no library code
  includes. Only `test/http_router_test.cpp` uses it;
- the load balancers, the worker pool's per-thread channels and its
  strategies, the socket pool, the resolver, the timer provider,
  `MultiplexingSocketClient::connect()` and the application client and
  server. Each one needs a model and a run of its own. The twelve runs go
  to the multiplexing session, the futures, the websocket, the streaming
  RPC and the HTTP client first, because their failures are interleavings
  and lost wake-ups that tests hardly reach. `PROJECT.json` lists what is
  known to go wrong in these parts:
  - the LoadBalance strategy never updates `max_size`;
  - the weights default to -1;
  - `on_changed()` writes the ring without the mutex;
  - the resolver's constructor posts a virtual `run()` before the object
    is complete.

## Plan

Next steps, in this order:

1. The 32-bit stream id counter (`next_stream_id_ += 2`) and the
   unbounded `accept_chn_`.
2. A pass run for the window accounting once the code debits
   `send_window_`.
3. `MuxClient`: `connect()` and the session map.
4. `WorkerPool`: worker choice (`get_next_index()`), as operators checked
   against an argmin. `LoadBalance` never updates `max_size`, and `Random`
   ignores the hash seed, so a consistent worker is not consistent.
5. `SocketPool`: reuse and eviction.
6. The load balancers: consistent hash and weighted selection as RECURSIVE
   operators, checked against reference definitions.
7. `TimerProvider`: wheel arithmetic.
8. WebSocket: the 64-bit length form as a codec check over lengths, and
   both directions of one connection with the close handshake.
