------------------------------ MODULE Lifecycle ------------------------------
(***************************************************************************)
(* The life of the server (src/server.py): start() with the accept loop of *)
(* the threadpool engine or the event loop of the selectors engine, the    *)
(* finally block each ends in, stop() called from a thread of its own or   *)
(* by the signal handler on the loop's thread, the metrics worker, and the *)
(* trend store they all flush.                                             *)
(*                                                                         *)
(* Each client connects once and sends one request.  The pool is what      *)
(* ThreadPool shows of it: a bounded queue, workers, and a shutdown that   *)
(* the first caller runs.  A connection of the event loop is what          *)
(* SelectorConnection shows: it is served by the loop in a handler.  A     *)
(* step is what one thread does between two points where another one may   *)
(* see or change what it uses.                                             *)
(***************************************************************************)
EXTENDS TrendStore, FiniteSets

CONSTANTS
    Engines,    \* the --engine values that are tried
    StopModes,  \* "thread": stop() on a thread of its own; "signal": on the loop's thread
    QueueSize,  \* request_queue_size
    Workers,    \* worker_count
    MaxConns,   \* max_active_connections
    Nobody      \* the loop has no client in its hands

ASSUME LifecycleAssumption ==
    /\ Engines \subseteq {"threadpool", "selectors"}
    /\ StopModes \subseteq {"thread", "signal"}
    /\ QueueSize \in Nat \ {0} /\ Workers \in Nat \ {0} /\ MaxConns \in Nat \ {0}
    /\ Actors = {"loop", "stop", "worker"} /\ Closer = "loop"
    /\ Nobody \notin Requests

Clients == Requests

VARIABLES
    engine, mode,
    running, accepting, phase,  \* _running, _accepting, _lifecycle_state
    listening,  \* the server socket is open
    clockSet,   \* _drain_started_at belongs to this drain
    expired,    \* drain_timeout_secs have passed since the drain began
    loop,       \* where the accept loop or the event loop is
    held,       \* the client it has accepted
    stopper,    \* where stop() is
    worker,     \* where the metrics worker is
    pool,       \* _pool is not None
    shut,       \* ThreadPool.shutdown: not called, waiting for the drain, or stop set
    shutBy,     \* who runs it
    client,     \* what has become of each client
    locked,     \* the lock that the loop held when the signal handler interrupted it
    stuck,      \* a put of a pill will never return
    missed,     \* history: whom the end of a drain did not see, or did not wait for
    cause       \* history: what has gone wrong

flagVars == <<running, accepting, phase, listening, clockSet, expired>>
poolVars == <<pool, shut, shutBy, stuck, missed>>
setup == <<engine, mode>>
vars == <<setup, flagVars, loop, held, stopper, worker, poolVars, client, locked, cause, storeVars>>

InState(s) == {c \in Clients : client[c] = s}

(***************************************************************************)
(* The clients: "away" until they connect; "backlog" in the listen queue;  *)
(* "held" by the loop; "queued" in the pool; "taken" by a worker that has  *)
(* not counted it yet, "reading" once it is counted in _active_jobs;       *)
(* "conn" in _selector_connections; "inflight" once request_started() has  *)
(* counted it; "raised" when its handler has died with the count; and the  *)
(* ends "answered", "refused" (503) and "dropped".                         *)
(***************************************************************************)
Init ==
    /\ StoreInit
    /\ engine \in Engines /\ mode \in StopModes
    /\ running = TRUE /\ accepting = TRUE /\ phase = "running"
    /\ listening = TRUE /\ clockSet = FALSE /\ expired = FALSE
    /\ loop = "accept" /\ held = Nobody
    /\ stopper = "idle" /\ worker = "sleep"
    /\ pool = (engine = "threadpool") /\ shut = "no" /\ shutBy = Nobody
    /\ client = [c \in Clients |-> "away"]
    /\ locked = "none" /\ stuck = FALSE /\ missed = {} /\ cause = {}

\* inflight_requests of the metrics, and _inflight_remaining.
Inflight == InState("inflight") \union InState("raised")
Remaining == IF engine = "selectors" THEN Inflight \union InState("conn") ELSE Inflight

Stopping == stopper \notin {"idle", "done", "error"}
Draining == phase = "draining"

\* The signal handler runs between two instructions of the loop's thread.
LoopMayRun == ~(mode = "signal" /\ Stopping)

Set(c, s) == client' = [client EXCEPT ![c] = s]

-----------------------------------------------------------------------------
(* Clients and the clock                                                   *)

Connect(c) ==
    /\ client[c] = "away" /\ listening
    /\ Set(c, "backlog")
    /\ UNCHANGED <<setup, flagVars, loop, held, stopper, worker, poolVars, locked, cause,
                   storeVars>>

Expire ==
    /\ clockSet /\ ~expired
    /\ expired' = TRUE
    /\ UNCHANGED <<setup, running, accepting, phase, listening, clockSet, loop, held,
                   stopper, worker, poolVars, client, locked, cause, storeVars>>

-----------------------------------------------------------------------------
(* Threadpool: the accept loop and the workers                             *)

\* accept() takes a client; the event loop asks for the first one only while _accepting,
\* and goes on, in "more", until there is none.
Accept ==
    /\ LoopMayRun /\ listening
    /\ \/ loop = "accept" /\ running /\ (engine = "selectors" => accepting)
       \/ loop = "more"
    /\ \E c \in InState("backlog") :
          /\ held' = c
          /\ Set(c, "held")
    /\ loop' = "check"
    /\ UNCHANGED <<setup, flagVars, stopper, worker, poolVars, locked, cause, storeVars>>

NextClient == IF engine = "selectors" THEN "more" ELSE "accept"

\* A 503, and its record: "drain/reject" and "queue/full".
Refuse ==
    /\ Set(held, "refused")
    /\ held' = Nobody
    /\ Record(held)

\* An OSError on the way leaves the loop; its finally block runs.
RefuseRaises ==
    /\ Set(held, "dropped")
    /\ held' = Nobody
    /\ cause' = cause \union {"oserror"}
    /\ UNCHANGED storeVars

QueueFull == Cardinality(InState("queued")) >= QueueSize
Full == engine = "selectors" /\ Cardinality(InState("conn")) >= MaxConns

\* _is_draining() is read here, and what it said is used in the next step.
CheckDrain ==
    /\ loop = "check" /\ LoopMayRun
    /\ \/ /\ ~Draining /\ ~Full
          /\ loop' = "submit"
          /\ UNCHANGED <<held, client, cause, storeVars>>
       \/ (Draining \/ Full) /\ Refuse /\ loop' = NextClient /\ UNCHANGED cause
       \/ (Draining \/ Full) /\ RefuseRaises /\ loop' = "final"
    /\ UNCHANGED <<setup, flagVars, stopper, worker, poolVars, locked>>

\* self._pool, and the stop event that submit() tests first.
SubmitTests ==
    /\ loop = "submit" /\ LoopMayRun /\ engine = "threadpool"
    /\ \/ /\ pool /\ shut # "stopped"
          /\ loop' = "put"
          /\ UNCHANGED <<held, client, cause, storeVars>>
       \/ ~(pool /\ shut # "stopped") /\ Refuse /\ loop' = "accept" /\ UNCHANGED cause
       \/ ~(pool /\ shut # "stopped") /\ RefuseRaises /\ loop' = "final"
    /\ UNCHANGED <<setup, flagVars, stopper, worker, poolVars, locked>>

\* put_nowait, whatever has become of the pool; or the second look at _pool finds None.
SubmitPuts ==
    /\ loop = "put" /\ LoopMayRun
    /\ \/ /\ ~QueueFull
          /\ Set(held, "queued") /\ held' = Nobody
          /\ loop' = "accept" /\ UNCHANGED <<cause, storeVars>>
       \/ QueueFull /\ Refuse /\ loop' = "accept" /\ UNCHANGED cause
       \/ QueueFull /\ RefuseRaises /\ loop' = "final"
       \/ /\ ~pool
          /\ Set(held, "dropped") /\ held' = Nobody
          /\ loop' = "final" /\ cause' = cause \union {"pool"} /\ UNCHANGED storeVars
    /\ UNCHANGED <<setup, flagVars, stopper, worker, poolVars, locked>>

\* while self._running, or the OSError of accept() on a closed socket.
LeaveAcceptLoop ==
    /\ loop = "accept" /\ LoopMayRun /\ engine = "threadpool"
    /\ ~running \/ ~listening
    /\ loop' = "final"
    /\ UNCHANGED <<setup, flagVars, held, stopper, worker, poolVars, client, locked, cause,
                   storeVars>>

Working == {"taken", "reading", "inflight"}
Busy == UNION {InState(s) : s \in Working} \union InState("raised")

\* A worker gets a job out of the queue, unless the loop's thread was interrupted with the
\* queue's lock; a handler that has raised has taken its worker along.
Take(c) ==
    /\ client[c] = "queued" /\ locked # "queue"
    /\ Cardinality(Busy) < Workers
    /\ Set(c, "taken")
    /\ UNCHANGED <<setup, flagVars, loop, held, stopper, worker, poolVars, locked, cause,
                   storeVars>>

\* The job is counted in _active_jobs, and its handler reads the request.
Count(c) ==
    /\ client[c] = "taken"
    /\ Set(c, "reading")
    /\ UNCHANGED <<setup, flagVars, loop, held, stopper, worker, poolVars, locked, cause,
                   storeVars>>

RequestStarted(c) ==
    /\ client[c] = "reading" /\ locked # "metrics"
    /\ Set(c, "inflight")
    /\ UNCHANGED <<setup, flagVars, loop, held, stopper, worker, poolVars, locked, cause,
                   storeVars>>

\* The answer is out, the request counted out and recorded.
Answer(c) ==
    /\ engine = "threadpool" /\ client[c] = "inflight"
    /\ locked \notin {"metrics", "trends"}
    /\ Set(c, "answered")
    /\ Record(c)
    /\ UNCHANGED <<setup, flagVars, loop, held, stopper, worker, poolVars, locked, cause>>

HandlerRaises(c) ==
    /\ engine = "threadpool" /\ client[c] = "inflight"
    /\ Set(c, "raised")
    /\ UNCHANGED <<setup, flagVars, loop, held, stopper, worker, poolVars, locked, cause,
                   storeVars>>

Handlers(c) == Take(c) \/ Count(c) \/ RequestStarted(c) \/ Answer(c) \/ HandlerRaises(c)

-----------------------------------------------------------------------------
(* Selectors: one round of the event loop                                  *)

\* The connection enters _selector_connections.
Register ==
    /\ loop = "submit" /\ LoopMayRun /\ engine = "selectors"
    /\ Set(held, "conn")
    /\ held' = Nobody
    /\ loop' = "more"
    /\ UNCHANGED <<setup, flagVars, stopper, worker, poolVars, locked, cause, storeVars>>

\* The listen queue is empty, or accept() fails on the closed socket.
NoMoreClients ==
    /\ loop = "more" /\ LoopMayRun
    /\ InState("backlog") = {} \/ ~listening
    /\ loop' = "accept"
    /\ UNCHANGED <<setup, flagVars, held, stopper, worker, poolVars, client, locked, cause,
                   storeVars>>

Serve ==
    /\ loop = "accept" /\ LoopMayRun /\ engine = "selectors" /\ running
    /\ \E c \in InState("conn") :
          /\ Set(c, "inflight")
          /\ held' = c
    /\ loop' = "serve"
    /\ UNCHANGED <<setup, flagVars, stopper, worker, poolVars, locked, cause, storeVars>>

\* The answer is written, unless stop() has closed the connection under the handler.  An
\* exception that _dispatch does not catch leaves the loop.
ServeEnds ==
    /\ loop = "serve" /\ LoopMayRun
    /\ held' = Nobody
    /\ \/ /\ client[held] = "inflight"
          /\ Set(held, "answered") /\ Record(held)
          /\ loop' = "accept" /\ UNCHANGED cause
       \/ /\ client[held] = "dropped"
          /\ loop' = "accept" /\ UNCHANGED <<client, cause, storeVars>>
       \/ /\ Set(held, "dropped")
          /\ loop' = "final" /\ cause' = cause \union {"crash"} /\ UNCHANGED storeVars
    /\ UNCHANGED <<setup, flagVars, stopper, worker, poolVars, locked>>

\* Nothing is connected and nothing in flight.
DrainOver == InState("conn") = {} /\ Inflight = {}

\* The end of a round: the drain's clock, which stop() may not have set yet, and its end.
EndRound ==
    /\ loop = "accept" /\ LoopMayRun /\ engine = "selectors" /\ running /\ Draining
    /\ \/ expired /\ cause' = cause \union {"expired"} /\ UNCHANGED missed
       \/ ~clockSet /\ missed' = missed \union InState("conn") /\ UNCHANGED cause
       \/ DrainOver /\ UNCHANGED <<cause, missed>>
    /\ running' = FALSE
    /\ loop' = "final"
    /\ UNCHANGED <<setup, accepting, phase, listening, clockSet, expired, held, stopper,
                   worker, pool, shut, shutBy, stuck, client, locked, storeVars>>

LeaveEventLoop ==
    /\ loop = "accept" /\ LoopMayRun /\ engine = "selectors"
    /\ ~running
    /\ loop' = "final"
    /\ UNCHANGED <<setup, flagVars, held, stopper, worker, poolVars, client, locked, cause,
                   storeVars>>

\* Every connection that is left is closed, by the finally block or by stop(); one that
\* the loop is serving is closed with the others.
CloseConnections ==
    client' = [c \in Clients |->
                  IF client[c] = "conn" \/ (engine = "selectors" /\ client[c] = "inflight")
                  THEN "dropped" ELSE client[c]]

-----------------------------------------------------------------------------
(* ThreadPool.shutdown, which the accept loop and stop() both call         *)

\* _active_jobs = 0 and an empty queue: who is between the two is not seen.
PoolDrained == \A s \in {"queued", "reading", "inflight"} : InState(s) = {}

\* The first caller goes on to wait, the second returns at once.
ShutdownCall(who) ==
    /\ pool
    /\ IF shut = "no" THEN shut' = "waiting" /\ shutBy' = who ELSE UNCHANGED <<shut, shutBy>>
    /\ UNCHANGED <<pool, stuck, missed>>

MayReturn(who) == shut # "waiting" \/ shutBy # who

\* The drain ends or times out, the stop event is set, and one pill put per worker; with
\* a queue too full for them a put may wait for a worker that has left (see ThreadPool).
ShutdownWaits ==
    /\ shut = "waiting"
    /\ IF shutBy = "loop" THEN LoopMayRun ELSE locked # "queue"
    /\ \/ PoolDrained /\ UNCHANGED cause
       \/ cause' = cause \union {"expired"}
    /\ shut' = "stopped"
    /\ missed' = InState("taken")
    /\ stuck' \in BOOLEAN
    /\ stuck' => Cardinality(InState("queued")) + Workers > QueueSize
    /\ UNCHANGED <<setup, flagVars, loop, held, stopper, worker, pool, shutBy, client,
                   locked, storeVars>>

-----------------------------------------------------------------------------
(* The finally block of both loops                                         *)

Final(from, to) ==
    /\ loop = from /\ LoopMayRun
    /\ loop' = to
    /\ UNCHANGED <<setup, accepting, listening, clockSet, expired, stopper, worker, locked>>

\* if self._pool is not None; the event loop closes its connections here instead.
FinalBegins ==
    /\ \/ engine = "threadpool" /\ Final("final", IF pool THEN "shutdown" ELSE "flush")
          /\ UNCHANGED client
       \/ engine = "selectors" /\ Final("final", "flush") /\ CloseConnections
    /\ UNCHANGED <<running, phase, held, poolVars, cause, storeVars>>

\* self._pool.shutdown(), on whatever _pool is by now.
FinalShutdown ==
    /\ \/ Final("shutdown", "wait") /\ ShutdownCall("loop") /\ UNCHANGED cause
       \/ ~pool /\ Final("shutdown", "failed") /\ cause' = cause \union {"pool"}
          /\ UNCHANGED poolVars
    /\ UNCHANGED <<running, phase, held, client, storeVars>>

FinalPoolGone ==
    /\ MayReturn("loop") /\ ~(stuck /\ shutBy = "loop")
    /\ Final("wait", "flush")
    /\ pool' = FALSE
    /\ UNCHANGED <<running, phase, held, shut, shutBy, stuck, missed, client, cause, storeVars>>

\* _stop_metrics_worker waits for a while only; then metrics.close() flushes.
FinalFlush ==
    /\ Final("flush", "close")
    /\ running' = FALSE
    /\ FlushBegin("loop")
    /\ UNCHANGED <<phase, held, poolVars, client, cause>>

\* The connection is closed even if the flush has raised, but then start() raises too.
FinalClose ==
    /\ Flushed("loop")
    /\ Final("close", IF raised["loop"] THEN "failed" ELSE "returned")
    /\ phase' = IF raised["loop"] THEN phase ELSE "stopped"
    /\ CloseStore
    /\ UNCHANGED <<running, held, poolVars, client, cause>>

AcceptLoop ==
    \/ Accept \/ CheckDrain \/ SubmitTests \/ SubmitPuts \/ LeaveAcceptLoop
    \/ Register \/ NoMoreClients \/ Serve \/ ServeEnds \/ EndRound \/ LeaveEventLoop
    \/ FinalBegins \/ FinalShutdown \/ FinalPoolGone \/ FinalFlush \/ FinalClose

-----------------------------------------------------------------------------
(* stop()                                                                  *)

Stop(from, to) ==
    /\ stopper = from
    /\ stopper' = to
    /\ UNCHANGED <<setup, clockSet, expired, worker>>

\* The locks that the loop's thread holds for a moment in its next step and that stop(), or
\* a worker, takes too: of the metrics (a refusal, connection_opened and connection_closed of
\* the event loop, the count of a request), of the trend store (the record of a request), of
\* the pool's queue, and the one under which the pool's shutdown is claimed.
Refusing == (loop = "check" /\ Full) \/ (loop = "put" /\ QueueFull)
Locks == {"metrics", "trends", "queue", "claim"}
MayHold(l) ==
    \/ l \in {"metrics", "trends"} /\ (Refusing \/ loop = "serve")
    \/ l = "metrics" /\ engine = "selectors" /\ loop \in {"submit", "final"}
    \/ l = "queue" /\ loop = "put"
    \/ l = "claim" /\ loop = "shutdown"

\* The call.  The signal handler interrupts the thread of start() anywhere, also where it
\* holds a lock, which it then never releases if stop() waits for it.
StopCalled ==
    /\ loop \in {"returned", "failed"} => mode = "thread"
    /\ Stop("idle", IF running THEN "phase" ELSE "done")
    /\ accepting' = (accepting /\ ~running)
    /\ \/ UNCHANGED locked
       \/ mode = "signal" /\ running /\ \E l \in Locks : MayHold(l) /\ locked' = l
    /\ UNCHANGED <<running, phase, listening, loop, held, poolVars, client, cause, storeVars>>

StopSetsPhase ==
    /\ Stop("phase", "clock")
    /\ phase' = "draining"
    /\ UNCHANGED <<running, accepting, listening, loop, held, poolVars, client, locked,
                   cause, storeVars>>

\* The rest of _set_lifecycle_state, which counts in the metrics, and the clock.
StopSetsClock ==
    /\ stopper = "clock" /\ locked # "metrics"
    /\ stopper' = "poll"
    /\ clockSet' = TRUE
    /\ listening' = FALSE
    /\ UNCHANGED <<setup, running, accepting, phase, expired, loop, held, worker, poolVars,
                   client, locked, cause, storeVars>>

\* Seeded bug: what is left is not looked at.
StopPollHasty ==
    /\ Stop("poll", "halt")
    /\ UNCHANGED <<running, accepting, phase, listening, loop, held, poolVars, client,
                   locked, cause, storeVars>>

\* Seeded bug: the deadline is not looked at.
StopPollForever ==
    /\ Stop("poll", "halt")
    /\ Remaining = {}
    /\ UNCHANGED <<running, accepting, phase, listening, loop, held, poolVars, client,
                   locked, cause, storeVars>>

\* The poll of _inflight_remaining ends.
StopPoll ==
    /\ Stop("poll", "halt")
    /\ \/ Remaining = {} /\ UNCHANGED cause
       \/ expired /\ cause' = cause \union {"expired"}
    /\ UNCHANGED <<running, accepting, phase, listening, loop, held, poolVars, client,
                   locked, storeVars>>

\* Seeded bug: the phase is set with the flag that ends the drain.
StopHaltsDraining ==
    /\ Stop("halt", IF pool THEN "shutdown" ELSE "close")
    /\ running' = FALSE
    /\ phase' = "draining"
    /\ UNCHANGED <<accepting, listening, loop, held, poolVars, client, locked, cause,
                   storeVars>>

\* _running = False, then the test of _pool.
StopHalts ==
    /\ Stop("halt", IF pool THEN "shutdown" ELSE "close")
    /\ running' = FALSE
    /\ UNCHANGED <<accepting, phase, listening, loop, held, poolVars, client, locked, cause,
                   storeVars>>

\* self._pool.shutdown(): the accept loop may have set _pool to None since the test.
StopShutdown ==
    /\ \/ /\ locked # "claim"
          /\ Stop("shutdown", "wait") /\ ShutdownCall("stop") /\ UNCHANGED cause
       \/ ~pool /\ Stop("shutdown", "error") /\ cause' = cause \union {"pool"}
          /\ UNCHANGED poolVars
    /\ UNCHANGED <<running, accepting, phase, listening, loop, held, client, locked,
                   storeVars>>

StopPoolGone ==
    /\ MayReturn("stop") /\ ~(stuck /\ shutBy = "stop")
    /\ Stop("wait", "close")
    /\ pool' = FALSE
    /\ UNCHANGED <<running, accepting, phase, listening, loop, held, shut, shutBy, stuck,
                   missed, client, locked, cause, storeVars>>

\* The connections of the event loop, then _stop_metrics_worker, which waits for a while only.
StopCloses ==
    /\ Stop("close", "join")
    /\ IF engine = "selectors" THEN CloseConnections ELSE UNCHANGED client
    /\ UNCHANGED <<running, accepting, phase, listening, loop, held, poolVars, locked, cause,
                   storeVars>>

\* flush_trends().
StopFlushes ==
    /\ locked # "trends"
    /\ Stop("join", "flush")
    /\ FlushBegin("stop")
    /\ UNCHANGED <<running, accepting, phase, listening, loop, held, poolVars, client, locked,
                   cause>>

StopReturns ==
    /\ Flushed("stop")
    /\ Stop("flush", IF raised["stop"] THEN "error" ELSE "done")
    /\ UNCHANGED <<running, accepting, phase, listening, loop, held, poolVars, client,
                   locked, cause, storeVars>>

Stopper ==
    \/ StopSetsPhase \/ StopSetsClock \/ StopPoll \/ StopHalts \/ StopShutdown
    \/ StopPoolGone \/ StopCloses \/ StopFlushes \/ StopReturns

-----------------------------------------------------------------------------
(* The metrics worker                                                      *)

Worker(from, to) ==
    /\ worker = from
    /\ worker' = to
    /\ UNCHANGED <<setup, flagVars, loop, held, stopper, poolVars, client, locked, cause>>

\* flush_trends(), twice with the flush inside prune_trends(); once more after the loop.
\* An exception of a flush or of the prune ends the worker.
WorkerFlushes ==
    /\ locked # "trends"
    /\ \/ Worker("sleep", "flush")
       \/ ~running /\ Worker("sleep", "last")
    /\ FlushBegin("worker")

WorkerPrunes ==
    /\ Flushed("worker")
    /\ IF raised["worker"] \/ ~dbOpen
       THEN Worker("flush", "dead") /\ UNCHANGED storeVars
       ELSE \/ Worker("flush", "sleep") /\ Prune
            \/ Worker("flush", "dead") /\ PruneRaises

WorkerEnds ==
    /\ Flushed("worker")
    /\ Worker("last", "ended")
    /\ UNCHANGED storeVars

\* Whatever thread it is on, a flush goes on.
FlushGoesOn ==
    /\ \/ LoopMayRun /\ Flushing("loop")
       \/ Flushing("stop")
       \/ Flushing("worker")
    /\ UNCHANGED <<setup, flagVars, loop, held, stopper, worker, poolVars, client, locked,
                   cause>>

MetricsWorker == WorkerFlushes \/ WorkerPrunes \/ WorkerEnds

Next ==
    \/ \E c \in Clients : Connect(c) \/ Handlers(c)
    \/ Expire \/ StopCalled
    \/ AcceptLoop \/ ShutdownWaits \/ Stopper \/ MetricsWorker \/ FlushGoesOn

Spec == Init /\ [][Next]_vars

\* What the thread of start() does, and that of stop(): its own code, its flush, its wait for
\* the drain of the pool.  No two of these are enabled at once.
LoopThread == AcceptLoop \/ (Flushing("loop") /\ FlushGoesOn) \/ (shutBy = "loop" /\ ShutdownWaits)
StopThread == Stopper \/ (Flushing("stop") /\ FlushGoesOn) \/ (shutBy = "stop" /\ ShutdownWaits)

\* Both threads run, and time passes.  Nothing is assumed of the clients, of the handlers in
\* the pool, and of the metrics worker: stop() waits for each of them for a time only.
Fairness == WF_vars(LoopThread) /\ WF_vars(StopThread) /\ WF_vars(Expire)

FairSpec == Spec /\ Fairness
-----------------------------------------------------------------------------
(* Properties                                                              *)

ClientStates == {"away", "backlog", "held", "queued", "conn", "raised", "answered", "refused",
                 "dropped"} \union Working
Causes == {"oserror", "crash", "expired", "pool"}
Holding == {"check", "submit", "put"}
LoopPlaces == {"accept", "more", "serve", "final", "shutdown", "wait", "flush", "close",
               "returned", "failed"} \union Holding
StopPlaces == {"idle", "phase", "clock", "poll", "halt", "shutdown", "wait", "close", "join",
               "flush", "done", "error"}

\* Every variable of the server and of the store keeps the kind of value the code gives it;
\* the loop has a client in its hands exactly while it deals with one, and nobody else is
\* held; the queue and the connections keep their limits; a row is in one place only until
\* it is committed.
TypeOK ==
    /\ StoreTypeOK
    /\ engine \in Engines /\ mode \in StopModes
    /\ {running, accepting, listening, clockSet, expired, pool, stuck} \subseteq BOOLEAN
    /\ phase \in {"running", "draining", "stopped"}
    /\ loop \in LoopPlaces /\ stopper \in StopPlaces
    /\ worker \in {"sleep", "flush", "last", "dead", "ended"}
    /\ shut \in {"no", "waiting", "stopped"} /\ shutBy \in {"loop", "stop", Nobody}
    /\ locked \in Locks \union {"none"} /\ missed \subseteq Clients /\ cause \subseteq Causes
    /\ client \in [Clients -> ClientStates]
    /\ held \in IF loop \in Holding \union {"serve"} THEN Clients ELSE {Nobody}
    /\ InState("held") = IF loop \in Holding THEN {held} ELSE {}
    /\ Cardinality(InState("queued")) <= QueueSize
    /\ Cardinality(InState("conn")) <= MaxConns

LoopOver == loop \in {"returned", "failed"}
Over == LoopOver /\ stopper \in {"done", "error"}

\* Accepted, and neither served nor refused.  A handler that died is a loss of its own.
Unserved == UNION {InState(s) : s \in Working \union {"held", "queued", "conn", "dropped"}}

\* When start() and stop() are over, and with them the daemon threads of the workers, every
\* accepted client has been served or refused, or its handler has died; but for the one the
\* loop had in its hands, and those in missed: whom a worker had got from the queue and not
\* counted yet when the drain of the pool ended, and whom the event loop cut off because it
\* found the drain begun and its clock not set.  This is said of a stop that is not cut short
\* by a deadline or by an exception that leaves the loop.
OnlyHeldClientLost ==
    Over /\ cause \subseteq {"pool"} => Cardinality(Unserved \ missed) <= 1

\* Once the threads have ended, every request that was counted is in the store, but for
\* what a failed write took along and what came after the last flush had begun; unless the
\* loop or stop() died because the other had set _pool to None, so that nobody flushed.
RecordsKept ==
    Over /\ worker \in {"ended", "dead"} /\ (\A a \in Actors : Flushed(a)) /\ "pool" \notin cause =>
        InState("answered") \union InState("refused") \subseteq rows \union lost \union late

\* The lifecycle never leaves "stopped", unless the loop had ended by itself when stop()
\* was called.
StoppedStays ==
    [][phase = "stopped" /\ cause \intersect {"oserror", "crash"} = {} => phase' = "stopped"]_vars

\* Once stop() is called both it and start() end, and the server is stopped; except when
\* the signal found the loop's thread with a lock that stop() needs, a pill does not fit, or
\* an exception ends one.
StopEnds ==
    (stopper = "phase") ~>
        \/ /\ Over
           /\ phase = "stopped" \/ loop = "failed" \/ cause \intersect {"oserror", "crash"} # {}
        \/ locked # "none" \/ stuck
=============================================================================
