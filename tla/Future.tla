------------------------------- MODULE Future -------------------------------
(***************************************************************************)
(* Promise / Future (src/utils/future/*.h) with the combinators waitAll,   *)
(* waitAny and waitAnyN, and the worker pool that runs their callbacks     *)
(* (ExecuteTask() -> WorkerPool::addTask(), src/utils/worker_pool.hpp).    *)
(*                                                                         *)
(* Actors: one producer per input future (Promise::setValue()), the        *)
(* consumer fiber running the program Prog, and one pool task per          *)
(* registered callback.  Pool tasks run on several threads, so any actor   *)
(* may step between two mutex sections; a section of a SharedState mutex  *)
(* that does not block is one atomic step.                                 *)
(***************************************************************************)
EXTENDS Integers, Sequences, SequencesExt, FiniteSets, TLC

CONSTANTS
    In,        \* the input futures, in the order handed to waitAll/Any/AnyN
    Progs,     \* the consumer programs: each a sequence of calls
    Modes,     \* the combinators the consumer's "wait" may be
    Timeouts,  \* whether a timed get() may time out
    AnyN       \* the N of waitAnyN

Inputs == ToSet(In)
C == "C"                     \* the combinator's output future
T == "T"                     \* the future then() returns on In[1]
Futs == Inputs \cup {C, T}
S == In[1]                   \* the source of then()

None == "None"
Timeout == "Timeout"
Done == "Done"
NoOne == <<>>                \* no mutex holder
Default == 0                 \* DEFAULT_VALUE / value-initialised vector entry

U == "U"                     \* the consumer fiber
Handles == Inputs \X {"wait", "then"}   \* a registered callback: <<source, kind>>
Actors == (Inputs \X {"prod"}) \cup Handles   \* who may hold a mutex

InVal(f) == CHOOSE i \in DOMAIN In : In[i] = f    \* the producer of f sets i
ThenVal(v) == v + Len(In)                         \* the then() callback

VARIABLES
    mode,      \* which combinator "wait" calls
    prog,      \* the consumer's program, one of Progs
    status,    \* SharedState::status
    value,     \* SharedState::value
    owner,     \* SharedState::mutex holder
    cbs,       \* SharedState::then_callback, as the handles they run
    waiters,   \* fibers waiting on SharedState::condition
    ppc,       \* producer i: "run" | "done"
    upc,       \* consumer: index i in prog, step at of that call, inputs j registered
    task,      \* pool task per handle: "idle" | "queued" | "tmo" | "chk" | "cb" | "setC" | "done"
    ctx,       \* the combinator's context: results, count, done, its mutex
    sets       \* setValue() calls per future (history)

vars == <<mode, prog, status, value, owner, cbs, waiters, ppc, upc, task, ctx, sets>>

Size == Len(In)
\* the length of the context's results vector: AllContext(n), AnyNContext(N)
VecSize == IF mode = "anyN" THEN AnyN ELSE Size

\* mutant: setValue() that never calls notify(), leaving waiters asleep
SetValueNoNotify(a, f, v, tk) ==
    /\ owner[f] = NoOne
    /\ sets' = [sets EXCEPT ![f] = @ + 1]
    /\ IF status[f] # None
       THEN /\ owner' = [owner EXCEPT ![f] = a]
            /\ task' = tk
            /\ UNCHANGED <<status, value, cbs, waiters>>
       ELSE /\ status' = [status EXCEPT ![f] = Done]
            /\ value' = [value EXCEPT ![f] = v]
            /\ cbs' = [cbs EXCEPT ![f] = <<>>]
            /\ task' = [h \in Handles |->
                          IF h \in ToSet(cbs[f]) THEN "queued" ELSE tk[h]]
            /\ UNCHANGED <<owner, waiters>>

(***************************************************************************)
(* Promise::setValue() as one step: the mutex section, then each callback  *)
(* it took runs ExecuteTask(), which only queues the task, then notify()   *)
(* wakes the waiter.  When the future is no longer None it returns false   *)
(* with the mutex still locked by the caller a.  tk is the task map after  *)
(* the caller's own step.                                                  *)
(***************************************************************************)
SetValue(a, f, v, tk) ==
    /\ owner[f] = NoOne
    /\ sets' = [sets EXCEPT ![f] = @ + 1]
    /\ IF status[f] # None
       THEN /\ owner' = [owner EXCEPT ![f] = a]
            /\ task' = tk
            /\ UNCHANGED <<status, value, cbs, waiters>>
       ELSE /\ status' = [status EXCEPT ![f] = Done]
            /\ value' = [value EXCEPT ![f] = v]
            /\ cbs' = [cbs EXCEPT ![f] = <<>>]
            /\ task' = [h \in Handles |->
                          IF h \in ToSet(cbs[f]) THEN "queued" ELSE tk[h]]
            /\ waiters' = [waiters EXCEPT ![f] = {}]
            /\ UNCHANGED owner

Init ==
    /\ mode \in Modes
    /\ prog \in Progs
    /\ status = [f \in Futs |-> None]
    /\ value = [f \in Futs |-> Default]
    /\ owner = [f \in Futs |-> NoOne]
    /\ cbs = [f \in Futs |-> <<>>]
    /\ waiters = [f \in Futs |-> {}]
    /\ ppc = [f \in Inputs |-> "run"]
    /\ upc = [i |-> 1, at |-> "call", j |-> 0]
    /\ task = [h \in Handles |-> "idle"]
    /\ ctx = [results |-> [j \in 1..Size |-> Default], count |-> 0,
              done |-> FALSE, out |-> Default, owner |-> NoOne, overrun |-> FALSE]
    /\ sets = [f \in Futs |-> 0]

(* The producer of f: promise.setValue(kSuccess, value). *)
Produce(f) ==
    /\ ppc[f] = "run"
    /\ SetValue(<<f, "prod">>, f, InVal(f), task)
    /\ ppc' = [ppc EXCEPT ![f] = "done"]
    /\ UNCHANGED <<mode, prog, upc, ctx>>

Call == IF upc.i <= Len(prog) THEN prog[upc.i] ELSE <<"end">>
NextCall == [i |-> upc.i + 1, at |-> "call", j |-> 0]

(***************************************************************************)
(* Future::then() / thenVoid() on f for handle h, under f's mutex: a Done  *)
(* future runs ExecuteTask() at once (the task is queued), a timed-out one *)
(* times out the new promise, and otherwise the callback is kept.  Only    *)
(* then() on S has a new promise anyone reads (T); thenVoid()'s is dropped.*)
(***************************************************************************)
Register(f, h) ==
    /\ owner[f] = NoOne
    /\ CASE status[f] = Done ->
              /\ task' = [task EXCEPT ![h] = "queued"]
              /\ UNCHANGED <<cbs, status, value>>
         [] status[f] = Timeout /\ h[2] = "then" ->
              /\ owner[T] = NoOne
              /\ status' = [status EXCEPT ![T] = Timeout]
              /\ value' = [value EXCEPT ![T] = Default]
              /\ UNCHANGED <<cbs, task>>
         [] status[f] = Timeout -> UNCHANGED <<cbs, task, status, value>>
         [] OTHER ->
              /\ cbs' = [cbs EXCEPT ![f] = Append(@, h)]
              /\ UNCHANGED <<task, status, value>>

(* waitAll / waitAny / waitAnyN: thenVoid() on each input in turn. *)
WaitReg ==
    /\ Call[1] = "wait"
    /\ LET j == upc.j + 1
       IN  /\ Register(In[j], <<In[j], "wait">>)
           /\ upc' = IF j = Size THEN NextCall ELSE [upc EXCEPT !.j = j]
    /\ UNCHANGED <<mode, prog, owner, waiters, ppc, ctx, sets>>

(* T = S.then(callback) *)
ThenReg ==
    /\ Call[1] = "then"
    /\ Register(S, <<S, "then">>)
    /\ upc' = NextCall
    /\ UNCHANGED <<mode, prog, owner, waiters, ppc, ctx, sets>>

(***************************************************************************)
(* get(value) and get(res, value, d) on f: lock, and while the status is   *)
(* None wait on the condition (which releases the mutex).  Leaving returns *)
(* (the timed get() false on Timeout) and unlocks.                         *)
(***************************************************************************)
GetLock ==
    /\ Call[1] \in {"get", "gett"}
    /\ upc.at = "call"
    /\ LET f == Call[2]
       IN  /\ owner[f] = NoOne
           /\ IF status[f] = None
              THEN /\ waiters' = [waiters EXCEPT ![f] = @ \cup {U}]
                   /\ upc' = [upc EXCEPT !.at = "wait"]
              ELSE /\ upc' = NextCall
                   /\ UNCHANGED waiters
    /\ UNCHANGED <<mode, prog, status, value, owner, cbs, ppc, task, ctx, sets>>

(* Woken by notify(): the wait re-locks the mutex and the loop re-checks. *)
GetWake ==
    /\ Call[1] \in {"get", "gett"}
    /\ upc.at = "wait"
    /\ LET f == Call[2]
       IN  /\ U \notin waiters[f]
           /\ owner[f] = NoOne
           /\ IF status[f] = None
              THEN /\ waiters' = [waiters EXCEPT ![f] = @ \cup {U}]
                   /\ UNCHANGED upc
              ELSE /\ upc' = NextCall
                   /\ UNCHANGED waiters
    /\ UNCHANGED <<mode, prog, status, value, owner, cbs, ppc, task, ctx, sets>>

(* The timed wait of get(res, value, d) expires. *)
TimerFire ==
    /\ Timeouts
    /\ Call[1] = "gett"
    /\ upc.at = "wait"
    /\ U \in waiters[Call[2]]
    /\ waiters' = [waiters EXCEPT ![Call[2]] = @ \ {U}]
    /\ upc' = [upc EXCEPT !.at = "tmo"]
    /\ UNCHANGED <<mode, prog, status, value, owner, cbs, ppc, task, ctx, sets>>

(***************************************************************************)
(* The expired wait re-locks the mutex; get() then sets the status to      *)
(* Timeout whatever it has become meanwhile, and returns false.            *)
(***************************************************************************)
GetExpire ==
    /\ upc.at = "tmo"
    /\ owner[Call[2]] = NoOne
    /\ status' = [status EXCEPT ![Call[2]] = Timeout]
    /\ upc' = NextCall
    /\ UNCHANGED <<mode, prog, value, owner, cbs, waiters, ppc, task, ctx, sets>>

-----------------------------------------------------------------------------
(***************************************************************************)
(* The task ExecuteTask() queues for handle h = <<source, kind>>.  It      *)
(* first reads the source's status without the mutex.                      *)
(***************************************************************************)
TaskRead(h) ==
    /\ task[h] = "queued"
    /\ task' = [task EXCEPT ![h] =
                  CASE status[h[1]] = Timeout /\ h[2] = "then" -> "tmo"
                    [] status[h[1]] = Timeout -> "done"
                    [] h[2] = "then" -> "chk"
                    [] OTHER -> "cb"]
    /\ UNCHANGED <<mode, prog, status, value, owner, cbs, waiters, ppc, upc, ctx, sets>>

(* The source timed out: promise.setTimeout() on T. *)
TaskTimeout(h) ==
    /\ task[h] = "tmo"
    /\ owner[T] = NoOne
    /\ status' = [status EXCEPT ![T] = Timeout]
    /\ value' = [value EXCEPT ![T] = Default]
    /\ task' = [task EXCEPT ![h] = "done"]
    /\ UNCHANGED <<mode, prog, owner, cbs, waiters, ppc, upc, ctx, sets>>

(* promise.isTimeout() on T: a timed-out T is left alone. *)
TaskCheck(h) ==
    /\ task[h] = "chk"
    /\ owner[T] = NoOne
    /\ task' = [task EXCEPT ![h] = IF status[T] = Timeout THEN "done" ELSE "cb"]
    /\ UNCHANGED <<mode, prog, status, value, owner, cbs, waiters, ppc, upc, ctx, sets>>

(* then(): the callback's result goes to promise.setValue() on T. *)
TaskThen(h) ==
    /\ task[h] = "cb"
    /\ h[2] = "then"
    /\ SetValue(h, T, ThenVal(value[h[1]]), [task EXCEPT ![h] = "done"])
    /\ UNCHANGED <<mode, prog, ppc, upc, ctx>>

\* mutant: waitAll stores each result at the arrival count, not its index
TaskWaitByCount(h) ==
    /\ task[h] = "cb"
    /\ h[2] = "wait"
    /\ ctx.owner = NoOne
    /\ LET i == ctx.count + 1
           v == value[h[1]]
           res == [ctx.results EXCEPT ![i] = IF i <= VecSize THEN v ELSE @]
           full == ctx.count + 1 = VecSize
       IN  IF mode = "any"
           THEN /\ ctx' = IF ctx.done THEN ctx
                          ELSE [ctx EXCEPT !.done = TRUE, !.out = v, !.owner = h]
                /\ task' = [task EXCEPT ![h] = IF ctx.done THEN "done" ELSE "setC"]
           ELSE /\ ctx' = [ctx EXCEPT !.results = res, !.count = @ + 1,
                             !.overrun = @ \/ i > VecSize,
                             !.out = [j \in 1..VecSize |-> res[j]],
                             !.owner = IF full THEN h ELSE NoOne]
                /\ task' = [task EXCEPT ![h] = IF full THEN "setC" ELSE "done"]
    /\ UNCHANGED <<mode, prog, status, value, owner, cbs, waiters, ppc, upc, sets>>

\* mutant: waitAny without the done check
TaskWaitNoDoneCheck(h) ==
    /\ task[h] = "cb"
    /\ h[2] = "wait"
    /\ ctx.owner = NoOne
    /\ LET i == InVal(h[1])
           v == value[h[1]]
           res == [ctx.results EXCEPT ![i] = IF i <= VecSize THEN v ELSE @]
           full == ctx.count + 1 = VecSize
       IN  IF mode = "any"
           THEN /\ ctx' = [ctx EXCEPT !.done = TRUE, !.out = v, !.owner = h]
                /\ task' = [task EXCEPT ![h] = "setC"]
           ELSE /\ ctx' = [ctx EXCEPT !.results = res, !.count = @ + 1,
                             !.overrun = @ \/ i > VecSize,
                             !.out = [j \in 1..VecSize |-> res[j]],
                             !.owner = IF full THEN h ELSE NoOne]
                /\ task' = [task EXCEPT ![h] = IF full THEN "setC" ELSE "done"]
    /\ UNCHANGED <<mode, prog, status, value, owner, cbs, waiters, ppc, upc, sets>>

\* mutant: a waitAll callback that is not marked run and runs again
TaskWaitRerun(h) ==
    /\ task[h] = "cb"
    /\ h[2] = "wait"
    /\ ctx.owner = NoOne
    /\ LET i == InVal(h[1])
           v == value[h[1]]
           res == [ctx.results EXCEPT ![i] = IF i <= VecSize THEN v ELSE @]
           full == ctx.count + 1 = VecSize
       IN  IF mode = "any"
           THEN /\ ctx' = IF ctx.done THEN ctx
                          ELSE [ctx EXCEPT !.done = TRUE, !.out = v, !.owner = h]
                /\ task' = [task EXCEPT ![h] = IF ctx.done THEN "done" ELSE "setC"]
           ELSE /\ ctx' = [ctx EXCEPT !.results = res, !.count = @ + 1,
                             !.overrun = @ \/ i > VecSize,
                             !.out = [j \in 1..VecSize |-> res[j]],
                             !.owner = IF full THEN h ELSE NoOne]
                /\ task' = [task EXCEPT ![h] = IF full THEN "setC" ELSE "cb"]
    /\ UNCHANGED <<mode, prog, status, value, owner, cbs, waiters, ppc, upc, sets>>

(***************************************************************************)
(* The combinator's callback, under the context's mutex.  waitAll and      *)
(* waitAnyN store the input's result at its index i and count it, and the  *)
(* count reaching the vector's size sets the output; waitAny sets the      *)
(* output from the first callback.  waitAnyN's vector has N entries but i  *)
(* ranges over all inputs: a store past its end is recorded in overrun.    *)
(***************************************************************************)
TaskWait(h) ==
    /\ task[h] = "cb"
    /\ h[2] = "wait"
    /\ ctx.owner = NoOne
    /\ LET i == InVal(h[1])
           v == value[h[1]]
           res == [ctx.results EXCEPT ![i] = IF i <= VecSize THEN v ELSE @]
           full == ctx.count + 1 = VecSize
       IN  IF mode = "any"
           THEN /\ ctx' = IF ctx.done THEN ctx
                          ELSE [ctx EXCEPT !.done = TRUE, !.out = v, !.owner = h]
                /\ task' = [task EXCEPT ![h] = IF ctx.done THEN "done" ELSE "setC"]
           ELSE /\ ctx' = [ctx EXCEPT !.results = res, !.count = @ + 1,
                             !.overrun = @ \/ i > VecSize,
                             !.out = [j \in 1..VecSize |-> res[j]],
                             !.owner = IF full THEN h ELSE NoOne]
                /\ task' = [task EXCEPT ![h] = IF full THEN "setC" ELSE "done"]
    /\ UNCHANGED <<mode, prog, status, value, owner, cbs, waiters, ppc, upc, sets>>

(* ctx->promise.setValue(...), still holding the context's mutex. *)
TaskSetC(h) ==
    /\ task[h] = "setC"
    /\ SetValue(h, C, ctx.out, [task EXCEPT ![h] = "done"])
    /\ ctx' = [ctx EXCEPT !.owner = NoOne]
    /\ UNCHANGED <<mode, prog, ppc, upc>>

ConsumerStep == WaitReg \/ ThenReg \/ GetLock \/ GetWake \/ GetExpire

PoolTask(h) ==
    TaskRead(h) \/ TaskTimeout(h) \/ TaskCheck(h) \/ TaskThen(h)
      \/ TaskWait(h) \/ TaskSetC(h)

Next ==
    \/ \E f \in Inputs : Produce(f)
    \/ ConsumerStep
    \/ TimerFire
    \/ \E h \in Handles : PoolTask(h)

(***************************************************************************)
(* Fairness: producers and the timer are weakly fair; the consumer and the *)
(* pool tasks take mutexes other actors release and retake, so they are   *)
(* strongly fair (acl's fiber_mutex and the pool's threads serve every     *)
(* waiter eventually).                                                     *)
(***************************************************************************)
Fairness ==
    /\ \A f \in Inputs : WF_vars(Produce(f))
    /\ WF_vars(TimerFire)
    /\ SF_vars(ConsumerStep)
    /\ \A h \in Handles : SF_vars(PoolTask(h))

Spec == Init /\ [][Next]_vars /\ Fairness

-----------------------------------------------------------------------------
TypeOK ==
    /\ mode \in {"all", "any", "anyN"}
    /\ status \in [Futs -> {None, Timeout, Done}]
    /\ owner \in [Futs -> {NoOne} \cup Actors]
    /\ \A f \in Futs : ToSet(cbs[f]) \subseteq Handles /\ waiters[f] \subseteq {U}
    /\ ppc \in [Inputs -> {"run", "done"}]
    /\ task \in [Handles -> {"idle", "queued", "tmo", "chk", "cb", "setC", "done"}]
    /\ ctx.count \in 0..Size /\ ctx.owner \in {NoOne} \cup Handles
    /\ sets \in [Futs -> Nat]

(***************************************************************************)
(* waitAll / waitAnyN: when the output is Done, its entry j holds the      *)
(* value of input j, whatever order the inputs and their pool tasks ran.   *)
(***************************************************************************)
AllInOrder ==
    mode # "any" /\ status[C] = Done =>
        value[C] = [j \in 1..VecSize |-> j]

(***************************************************************************)
(* The combinator calls setValue() on its output at most once: waitAny's   *)
(* done flag and waitAll's count stop a second call, which would return    *)
(* false and leave the output's mutex locked.                              *)
(***************************************************************************)
OutputSetOnce == sets[C] <= 1

(***************************************************************************)
(* Every call of the consumer's program returns: a blocking get() is woken *)
(* by the producer's notify(), a timed one by its timer.                   *)
(***************************************************************************)
ConsumerFinishes == <>(upc.i > Len(prog))

(***************************************************************************)
(* A future that is Done stays Done: no get() turns it into Timeout.       *)
(***************************************************************************)
DoneIsFinal == [][\A f \in Futs : status[f] = Done => status'[f] = Done]_vars

(***************************************************************************)
(* waitAnyN writes only inside its context's vector of N results.          *)
(***************************************************************************)
NoOverrun == ~ctx.overrun
=============================================================================
