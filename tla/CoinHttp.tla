------------------------------- MODULE CoinHttp -------------------------------
(***************************************************************************)
(* One CoinClient session and the CoinServer connection fiber at the other *)
(* end of its TCP stream (src/http/coin_client.cpp, coin_server.h,        *)
(* request.cpp, response.cpp).                                             *)
(*                                                                         *)
(* The user's fiber makes the calls of Calls in order on the session.  A   *)
(* call (Session::Get, Post, ...) ends in CoinClient::send, which posts    *)
(* handle_request as a task on the connection's worker and returns a      *)
(* future; the synchronous calls block on it, Future_Get and Future_Post   *)
(* post the whole call as a task of its own and return at once.  The task *)
(* writes the request head, then the body, then reads and parses the      *)
(* response from a Buffer of its own.  The server loop resets its         *)
(* request, reads until the parser has a complete request, routes it,     *)
(* writes the response and goes round again while the connection is kept *)
(* alive.                                                                  *)
(*                                                                         *)
(* The byte streams are sequences of items: a request head (the call it   *)
(* belongs to, its Connection: close and Content-Length), request body    *)
(* bytes, and responses (the request they answer, the status, and whether *)
(* they carry a Content-Length).  A read takes any non-empty prefix of     *)
(* what has arrived, as TCP may split or join writes.                     *)
(***************************************************************************)
EXTENDS Integers, Sequences, SequencesExt, FiniteSets

CONSTANTS
    Calls,          \* the user's calls: [path, body, fut] records
    KeepAlive,      \* CoinClient::keep_alive_
    FollowLocation  \* CoinClient::follow_location_

\* A path is named by what the server's router does with it: "ok" reaches a
\* handler answering 200, "moved" one answering 302 with a Location,
\* "movedNoLoc" a 302 without one, "bad" a 400; "missing" matches no route,
\* and "empty" is the empty path.
Paths == {"ok", "moved", "movedNoLoc", "bad", "missing", "empty"}

ASSUME /\ Calls \in Seq([path : Paths, body : 0..2, fut : BOOLEAN])
       /\ {KeepAlive, FollowLocation} \subseteq BOOLEAN

N == Len(Calls)
Ids == 1..N

Errors == {"Success", "Connection", "Write", "Read", "Unknown"}
Pending == [err |-> "Pending", resp |-> 0]

Heads == [kind : {"head"}, call : Ids, close : BOOLEAN, clen : 0..2]
Bodies == [kind : {"body"}, call : Ids, n : 1..2]
Responses == [call : Ids, status : {200, 302, 400, 404}, loc : BOOLEAN]

VARIABLES
    upc,      \* index of the user's next call; N+1: waiting for futures
    phase,    \* phase[i]: "idle", "outer", "sending", "waiting", "returned"
    task,     \* task[i]: call i's handle_request task: "none", "posted",
              \*   "recv", "body" (absorbing a body until EOF), "done"
    result,   \* result[i]: the error and response handed to call i's future
    c2s,      \* request bytes in flight to the server
    s2c,      \* response bytes in flight to the client
    cliOpen,  \* the client has not closed its socket
    srvOpen,  \* the server has not closed its socket
    sbuf,     \* the server request's buffer_: items read, not yet consumed
    spc       \* the server loop: "recv" or "exit"

vars == <<upc, phase, task, result, c2s, s2c, cliOpen, srvOpen, sbuf, spc>>

Init ==
    /\ upc = 1
    /\ phase = [i \in Ids |-> "idle"]
    /\ task = [i \in Ids |-> "none"]
    /\ result = [i \in Ids |-> Pending]
    /\ c2s = <<>>
    /\ s2c = <<>>
    /\ cliOpen = TRUE
    /\ srvOpen = TRUE
    /\ sbuf = <<>>
    /\ spc = "recv"

\* What the route for a path answers (response.cpp make_response writes no
\* Content-Length for a 400).
Respond(i, r) ==
    [call |-> i, status |-> r, loc |-> Calls[i].path = "moved"]
StatusOf(p) ==
    CASE p = "ok" -> 200 [] p \in {"moved", "movedNoLoc"} -> 302
      [] p = "bad" -> 400 [] p = "missing" -> 404
HasLength(resp) == resp.status # 400

-----------------------------------------------------------------------------
(* The user's fiber.                                                       *)

\* The call's send(): posts handle_request with close_connection = !keep_alive_
\* in send's frame; a synchronous caller then blocks in get().
Post(i) ==
    /\ phase' = [phase EXCEPT ![i] = "sending"]
    /\ task' = [task EXCEPT ![i] = "posted"]

\* Session::Get/Post/...: the user issues call upc.  A future call posts the
\* call as a task and returns; a synchronous one runs send() here.
Issue ==
    /\ upc <= N
    /\ phase[upc] = "idle"
    /\ IF Calls[upc].fut
         THEN /\ phase' = [phase EXCEPT ![upc] = "outer"]
              /\ upc' = upc + 1
              /\ UNCHANGED task
         ELSE /\ Post(upc)
              /\ UNCHANGED upc
    /\ UNCHANGED <<result, c2s, s2c, cliOpen, srvOpen, sbuf, spc>>

\* The task of Future_Get / Future_Post runs the call, which ends in send().
OuterRun(i) ==
    /\ phase[i] = "outer"
    /\ Post(i)
    /\ UNCHANGED <<upc, result, c2s, s2c, cliOpen, srvOpen, sbuf, spc>>

\* send() returns the future; its frame, and close_connection in it, is gone.
SendReturn(i) ==
    /\ phase[i] = "sending"
    /\ phase' = [phase EXCEPT ![i] = "waiting"]
    /\ UNCHANGED <<upc, task, result, c2s, s2c, cliOpen, srvOpen, sbuf, spc>>

\* (Mutant: the program moves on when any call's get() returns.)
ReturnAdvancesAll(i) ==
    /\ phase[i] = "waiting"
    /\ result[i] # Pending
    /\ phase' = [phase EXCEPT ![i] = "returned"]
    /\ upc' = upc + 1
    /\ UNCHANGED <<task, result, c2s, s2c, cliOpen, srvOpen, sbuf, spc>>

\* get() returns the result; a synchronous caller goes on to the next call.
Return(i) ==
    /\ phase[i] = "waiting"
    /\ result[i] # Pending
    /\ phase' = [phase EXCEPT ![i] = "returned"]
    /\ upc' = IF Calls[i].fut THEN upc ELSE upc + 1
    /\ UNCHANGED <<task, result, c2s, s2c, cliOpen, srvOpen, sbuf, spc>>

\* With every future's value taken, the user destroys the session, whose
\* ClientConnection closes the stream.
Destroy ==
    /\ upc = N + 1
    /\ \A i \in Ids : phase[i] = "returned"
    /\ cliOpen
    /\ cliOpen' = FALSE
    /\ UNCHANGED <<upc, phase, task, result, c2s, s2c, srvOpen, sbuf, spc>>

-----------------------------------------------------------------------------
(* The handle_request task of call i.                                      *)

\* The lambda's setValue: a failure that left error at Success is Unknown.
Finish(i, err) ==
    /\ task' = [task EXCEPT ![i] = "done"]
    /\ result' = [result EXCEPT ![i] = [err |-> err, resp |-> 0]]

\* close_connection, read from send()'s frame: once send() has returned
\* the read is of a dead stack slot, and any value is possible.
CloseFlags(i) ==
    IF phase[i] = "sending" THEN {~KeepAlive} ELSE BOOLEAN

\* The bytes of the request that reach the server: the head, then
\* send(body.data(), body.size() <= 0), which writes 0 bytes.
RequestBytes(i, close) ==
    <<[kind |-> "head", call |-> i, close |-> close, clen |-> Calls[i].body]>>

\* handle_request up to the response: an empty path fails at once; else
\* write_request.  Writing to a socket the server has closed loses the
\* data, and may fail.
TaskStart(i) ==
    /\ task[i] = "posted"
    /\ IF Calls[i].path = "empty"
         THEN /\ Finish(i, "Connection")
              /\ UNCHANGED c2s
         ELSE \E close \in CloseFlags(i), ok \in BOOLEAN :
                /\ ok \/ ~srvOpen
                /\ IF ok
                     THEN /\ c2s' = IF srvOpen THEN c2s \o RequestBytes(i, close)
                                               ELSE c2s
                          /\ task' = [task EXCEPT ![i] = "recv"]
                          /\ UNCHANGED result
                     ELSE /\ Finish(i, "Write")
                          /\ UNCHANGED c2s
    /\ UNCHANGED <<upc, phase, s2c, cliOpen, srvOpen, sbuf, spc>>

\* One read of recv_and_parse into process_request's own Buffer: the first
\* response read completes the call and the rest of the read is dropped
\* with the Buffer; a response without Content-Length is read until EOF.
\* A 3xx followed by redirect() fails when there is no Location, and
\* otherwise returns true, unfollowed.
ReadResponse(i) ==
    /\ s2c # <<>>
    /\ \E k \in 1..Len(s2c) :
         LET resp == Head(s2c) IN
         /\ s2c' = SubSeq(s2c, k + 1, Len(s2c))
         /\ IF task[i] = "body" \/ ~HasLength(resp)
              THEN /\ task' = [task EXCEPT ![i] = "body"]
                   /\ UNCHANGED result
              ELSE /\ task' = [task EXCEPT ![i] = "done"]
                   /\ result' = [result EXCEPT ![i] =
                        IF resp.status \in 301..399 /\ FollowLocation /\ ~resp.loc
                        THEN [err |-> "Unknown", resp |-> 0]
                        ELSE [err |-> "Success", resp |-> resp.call]]

\* (Mutant: recv_and_parse takes only ret < 0 for a failure and reads on
\* at EOF.)
TaskRecvEofRetry(i) ==
    /\ task[i] \in {"recv", "body"}
    /\ \/ ReadResponse(i)
       \/ /\ s2c = <<>>
          /\ ~srvOpen
          /\ UNCHANGED <<task, result, s2c>>
    /\ UNCHANGED <<upc, phase, c2s, cliOpen, srvOpen, sbuf, spc>>

\* recv_and_parse: read until a response is complete; EOF, which it never
\* hands to the parser, fails the call with Read.
TaskRecv(i) ==
    /\ task[i] \in {"recv", "body"}
    /\ \/ ReadResponse(i)
       \/ /\ s2c = <<>>
          /\ ~srvOpen
          /\ Finish(i, "Read")
          /\ UNCHANGED s2c
    /\ UNCHANGED <<upc, phase, c2s, cliOpen, srvOpen, sbuf, spc>>

-----------------------------------------------------------------------------
(* CoinServer::handle_connection.                                          *)

\* The request at the head of the server's buffer, when the parser has all
\* of it: the head and Content-Length bytes of body.
BodyBytes(s) ==
    LET RECURSIVE Sum(_)
        Sum(t) == IF t = <<>> \/ Head(t).kind # "body" THEN 0
                  ELSE Head(t).n + Sum(Tail(t))
    IN Sum(s)
Complete(s) ==
    s # <<>> /\ Head(s).kind = "head" /\ BodyBytes(Tail(s)) >= Head(s).clen

\* (Mutant: a read of 0 bytes is taken for "nothing yet" and the loop
\* reads again.)
SrvRecvEofRetry ==
    /\ spc = "recv"
    /\ ~Complete(sbuf)
    /\ \/ /\ c2s # <<>>
          /\ \E k \in 1..Len(c2s) :
               /\ sbuf' = sbuf \o SubSeq(c2s, 1, k)
               /\ c2s' = SubSeq(c2s, k + 1, Len(c2s))
          /\ UNCHANGED <<spc, srvOpen>>
       \/ /\ c2s = <<>>
          /\ ~cliOpen
          /\ UNCHANGED <<c2s, sbuf, spc, srvOpen>>
    /\ UNCHANGED <<upc, phase, task, result, s2c, cliOpen>>

\* HttpRequest::recv_and_parse: read into buffer_ and parse, until the
\* request is complete; EOF ends the loop, and the stream is deleted.
SrvRecv ==
    /\ spc = "recv"
    /\ ~Complete(sbuf)
    /\ \/ /\ c2s # <<>>
          /\ \E k \in 1..Len(c2s) :
               /\ sbuf' = sbuf \o SubSeq(c2s, 1, k)
               /\ c2s' = SubSeq(c2s, k + 1, Len(c2s))
          /\ UNCHANGED <<spc, srvOpen>>
       \/ /\ c2s = <<>>
          /\ ~cliOpen
          /\ spc' = "exit"
          /\ srvOpen' = FALSE
          /\ UNCHANGED <<c2s, sbuf>>
    /\ UNCHANGED <<upc, phase, task, result, s2c, cliOpen>>

\* (Mutant: request.reset() is left out, so buffer_ keeps the request
\* just served.)
ServeNoReset ==
    /\ spc = "recv"
    /\ Complete(sbuf)
    /\ LET h == Head(sbuf)
           keep == ~h.close /\ Calls[h.call].path # "missing"
       IN \E sentOk \in IF cliOpen THEN {TRUE} ELSE BOOLEAN :
          /\ s2c' = IF cliOpen
                    THEN Append(s2c, Respond(h.call, StatusOf(Calls[h.call].path)))
                    ELSE s2c
          /\ UNCHANGED sbuf
          /\ spc' = IF keep /\ sentOk THEN "recv" ELSE "exit"
          /\ srvOpen' = (keep /\ sentOk)
    /\ UNCHANGED <<upc, phase, task, result, c2s, cliOpen>>

\* With a complete request: keep-alive unless it asked Connection: close,
\* route it (no route: 404 and keep_alive(false)), send the response, and
\* loop, where request.reset() drops whatever else buffer_ holds.  A send
\* to a client that has closed its socket may fail (<= 0), which ends the
\* loop as well.
Serve ==
    /\ spc = "recv"
    /\ Complete(sbuf)
    /\ LET h == Head(sbuf)
           keep == ~h.close /\ Calls[h.call].path # "missing"
       IN \E sentOk \in IF cliOpen THEN {TRUE} ELSE BOOLEAN :
          /\ s2c' = IF cliOpen
                    THEN Append(s2c, Respond(h.call, StatusOf(Calls[h.call].path)))
                    ELSE s2c
          /\ sbuf' = <<>>
          /\ spc' = IF keep /\ sentOk THEN "recv" ELSE "exit"
          /\ srvOpen' = (keep /\ sentOk)
    /\ UNCHANGED <<upc, phase, task, result, c2s, cliOpen>>

\* Both sides have finished.
Finished ==
    /\ upc = N + 1 /\ ~cliOpen /\ spc = "exit"
    /\ UNCHANGED vars

Next ==
    \/ Issue \/ Destroy \/ Serve \/ SrvRecv \/ Finished
    \/ \E i \in Ids :
         OuterRun(i) \/ SendReturn(i) \/ Return(i) \/ TaskStart(i) \/ TaskRecv(i)

\* Every fiber that can step eventually does: tasks are fibers on the IO
\* worker threads, the user's fiber and the server's are fibers too.
Fairness ==
    /\ WF_vars(Issue) /\ WF_vars(Destroy) /\ WF_vars(Serve) /\ WF_vars(SrvRecv)
    /\ \A i \in Ids : /\ WF_vars(OuterRun(i)) /\ WF_vars(SendReturn(i))
                      /\ WF_vars(Return(i)) /\ WF_vars(TaskStart(i))
                      /\ WF_vars(TaskRecv(i))

Spec == Init /\ [][Next]_vars /\ Fairness

-----------------------------------------------------------------------------
(* Properties.                                                             *)

TypeOK ==
    /\ upc \in 1..N+1
    /\ phase \in [Ids -> {"idle", "outer", "sending", "waiting", "returned"}]
    /\ task \in [Ids -> {"none", "posted", "recv", "body", "done"}]
    /\ result \in [Ids -> {Pending} \cup [err : Errors, resp : 0..N]]
    /\ c2s \in Seq(Heads \cup Bodies)
    /\ s2c \in Seq(Responses)
    /\ sbuf \in Seq(Heads \cup Bodies)
    /\ {cliOpen, srvOpen} \subseteq BOOLEAN
    /\ spc \in {"recv", "exit"}

\* A call that succeeds was handed the response to its own request, never
\* one the server wrote for another call: handle_request reads whatever
\* the stream holds next and takes it for its answer, so this rests on the
\* server answering each request once (request.reset() before each read)
\* and on the calls not overlapping on the stream.
ResponseMatches ==
    \A i \in Ids : result[i].err = "Success" => result[i].resp = i

\* Every call the user makes returns: the future of each call's send() is
\* eventually set, so the synchronous caller, or the get() on a future,
\* does not block for ever (no read timeout is applied to the stream).
CallsReturn ==
    \A i \in Ids : phase[i] # "idle" ~> phase[i] = "returned"

\* On a keep_alive_ session, a call to a route answering 200 succeeds when
\* every call before it reached a route that keeps the connection: the
\* request goes out without Connection: close and the server answers it
\* on the same connection.
KeptAliveCallsSucceed ==
    KeepAlive =>
      \A i \in Ids :
        ( /\ result[i] # Pending
          /\ Calls[i].path = "ok"
          /\ \A j \in 1..i-1 : Calls[j].path \in {"ok", "moved", "movedNoLoc"} )
        => result[i].err = "Success"

\* Once the session is destroyed, the server's connection fiber ends and
\* closes its stream, rather than waiting on the connection for ever.
ServerReleases ==
    ~cliOpen ~> spc = "exit"


=============================================================================
