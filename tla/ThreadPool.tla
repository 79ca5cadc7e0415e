----------------------------- MODULE ThreadPool -----------------------------
(***************************************************************************)
(* The bounded worker pool of src/thread_pool.py.                          *)
(*                                                                         *)
(* Three kinds of threads share it: the thread that calls start() and then *)
(* submit() (the accept loop), the workers, and any thread that calls      *)
(* shutdown() (the accept loop's finally block and HTTPServer.stop()).     *)
(* A step is what a thread does between two points at which another thread *)
(* can see or change the shared state: one queue operation, one critical   *)
(* section of _active_lock, one read of _stop_event.                       *)
(*                                                                         *)
(* Jobs are the numbers 1 .. MaxJobs, in the order the accept loop offers  *)
(* them; the queue's None is Pill.                                         *)
(***************************************************************************)
EXTENDS Subsequences

CONSTANTS
    WorkerCount,  \* worker_count
    QueueSize,    \* queue_size
    MaxJobs,      \* bound: how many sockets the accept loop submits
    MaxRaises,    \* bound: how many handler calls may end in an exception
    Closers,      \* the threads that call shutdown()
    Acceptor      \* the accept loop's thread, as the closer its finally block makes it

\* __init__ raises ValueError unless both sizes are positive.
ASSUME PoolAssumption ==
    /\ WorkerCount \in Nat \ {0}
    /\ QueueSize \in Nat \ {0}
    /\ MaxJobs \in Nat
    /\ MaxRaises \in Nat

Workers == 1 .. WorkerCount
Jobs == 1 .. MaxJobs
Pill == 0

VARIABLES
    queue,            \* _queue: jobs and pills, oldest first
    stopEvent,        \* _stop_event.is_set()
    activeJobs,       \* _active_jobs
    shutdownStarted,  \* _shutdown_started
    threads,          \* len(_threads): worker w exists once w <= threads
    wpc,              \* where each worker is in _worker_loop
    hand,             \* the item each worker took last
    offered,          \* how many jobs the accept loop has offered so far
    spc,              \* where the accept loop is in submit()
    accepted,         \* jobs for which submit() returned True
    finished,         \* jobs whose handler call ended
    cpc,              \* where each closer is in shutdown()
    timed,            \* whether the closer's drain has a deadline
    put,              \* how many pills each closer has put
    lateTakes         \* history: items each worker took after stopEvent was set

poolVars == <<queue, stopEvent, activeJobs, shutdownStarted, threads>>
workerVars == <<wpc, hand, finished, lateTakes>>
submitVars == <<offered, spc, accepted>>
closerVars == <<cpc, timed, put>>
vars == <<poolVars, workerVars, submitVars, closerVars>>

Init ==
    /\ queue = << >>
    /\ stopEvent = FALSE
    /\ activeJobs = 0
    /\ shutdownStarted = FALSE
    /\ threads = 0
    /\ wpc = [w \in Workers |-> "unborn"]
    /\ hand = [w \in Workers |-> Pill]
    /\ offered = 0
    /\ spc = "idle"
    /\ accepted = {}
    /\ finished = {}
    /\ cpc = [c \in Closers |-> "idle"]
    /\ timed = [c \in Closers |-> TRUE]
    /\ put = [c \in Closers |-> 0]
    /\ lateTakes = [w \in Workers |-> 0]

\* Seeded bug: the bound admits one job too many.
FullOffByOne == Len(queue) > QueueSize

Full == Len(queue) >= QueueSize

-----------------------------------------------------------------------------
(* start() and submit(), called by the accept loop (server.py:585-611)     *)

StartWorker ==
    /\ threads < WorkerCount
    /\ threads' = threads + 1
    /\ wpc' = [wpc EXCEPT ![threads + 1] = "test"]
    /\ UNCHANGED <<queue, stopEvent, activeJobs, shutdownStarted,
                   hand, finished, lateTakes, submitVars, closerVars>>

\* The loop has accepted a socket and found the server not draining.  stop() marks it
\* as draining, and the loop leaves for its own shutdown(), before either claims the
\* pool: from then on there is only the socket that had passed the check already.
Offer ==
    /\ threads = WorkerCount
    /\ ~shutdownStarted
    /\ spc = "idle"
    /\ offered < MaxJobs
    /\ offered' = offered + 1
    /\ spc' = "check"
    /\ UNCHANGED <<poolVars, workerVars, accepted, closerVars>>

\* submit() reads _stop_event first and returns False if it is set ...
SubmitCheck ==
    /\ spc = "check"
    /\ spc' = IF stopEvent THEN "idle" ELSE "put"
    /\ UNCHANGED <<poolVars, workerVars, offered, accepted, closerVars>>

\* Seeded bug: the newest job is served first.
SubmitPutInFront ==
    /\ spc = "put"
    /\ spc' = "idle"
    /\ IF Full THEN UNCHANGED <<queue, accepted>>
       ELSE queue' = <<offered>> \o queue /\ accepted' = accepted \cup {offered}
    /\ UNCHANGED <<stopEvent, activeJobs, shutdownStarted, threads,
                   workerVars, offered, closerVars>>

\* ... then calls put_nowait, and returns False if that finds the queue full.
SubmitPut ==
    /\ spc = "put"
    /\ spc' = "idle"
    /\ \/ /\ Full
          /\ UNCHANGED <<queue, accepted>>
       \/ /\ ~Full
          /\ queue' = Append(queue, offered)
          /\ accepted' = accepted \cup {offered}
    /\ UNCHANGED <<stopEvent, activeJobs, shutdownStarted, threads,
                   workerVars, offered, closerVars>>

-----------------------------------------------------------------------------
(* _worker_loop()                                                          *)

\* The history of what is taken once the pool is told to stop.
NoteTake(w) ==
    lateTakes' = IF stopEvent THEN [lateTakes EXCEPT ![w] = @ + 1] ELSE lateTakes

\* Seeded bug: while True, with the pill as the only way out.
TestNothing(w) ==
    /\ wpc[w] = "test"
    /\ wpc' = [wpc EXCEPT ![w] = "get"]
    /\ UNCHANGED <<poolVars, hand, finished, lateTakes, submitVars, closerVars>>

Test(w) ==
    /\ wpc[w] = "test"
    /\ wpc' = [wpc EXCEPT ![w] = IF stopEvent THEN "exited" ELSE "get"]
    /\ UNCHANGED <<poolVars, hand, finished, lateTakes, submitVars, closerVars>>

\* Seeded bug: a worker told to stop returns with the job it has just taken.
TakeAndLeave(w) ==
    /\ wpc[w] = "get"
    /\ queue # << >>
    /\ hand' = [hand EXCEPT ![w] = Head(queue)]
    /\ queue' = Tail(queue)
    /\ wpc' = [wpc EXCEPT ![w] = IF Head(queue) = Pill \/ stopEvent THEN "exited"
                                 ELSE "taken"]
    /\ NoteTake(w)
    /\ UNCHANGED <<stopEvent, activeJobs, shutdownStarted, threads,
                   finished, submitVars, closerVars>>

Take(w) ==
    /\ wpc[w] = "get"
    /\ queue # << >>
    /\ hand' = [hand EXCEPT ![w] = Head(queue)]
    /\ queue' = Tail(queue)
    /\ wpc' = [wpc EXCEPT ![w] = IF Head(queue) = Pill THEN "exited" ELSE "taken"]
    /\ NoteTake(w)
    /\ UNCHANGED <<stopEvent, activeJobs, shutdownStarted, threads,
                   finished, submitVars, closerVars>>

\* Seeded bug: an idle worker returns instead of going round again.
GetTimeoutLeaves(w) ==
    /\ wpc[w] = "get"
    /\ queue = << >>
    /\ wpc' = [wpc EXCEPT ![w] = "exited"]
    /\ UNCHANGED <<poolVars, hand, finished, lateTakes, submitVars, closerVars>>

\* get(timeout=0.2) raises Empty and the loop goes round again.
GetTimeout(w) ==
    /\ wpc[w] = "get"
    /\ queue = << >>
    /\ wpc' = [wpc EXCEPT ![w] = "test"]
    /\ UNCHANGED <<poolVars, hand, finished, lateTakes, submitVars, closerVars>>

CountIn(w) ==
    /\ wpc[w] = "taken"
    /\ activeJobs' = activeJobs + 1
    /\ wpc' = [wpc EXCEPT ![w] = "handling"]
    /\ UNCHANGED <<queue, stopEvent, shutdownStarted, threads,
                   hand, finished, lateTakes, submitVars, closerVars>>

Return(w) ==
    /\ wpc[w] = "handling"
    /\ wpc' = [wpc EXCEPT ![w] = "returned"]
    /\ finished' = finished \cup {hand[w]}
    /\ UNCHANGED <<poolVars, hand, lateTakes, submitVars, closerVars>>

Raise(w) ==
    /\ wpc[w] = "handling"
    /\ Cardinality({v \in Workers : wpc[v] \in {"raised", "dead"}}) < MaxRaises
    /\ wpc' = [wpc EXCEPT ![w] = "raised"]
    /\ finished' = finished \cup {hand[w]}
    /\ UNCHANGED <<poolVars, hand, lateTakes, submitVars, closerVars>>

\* Seeded bug: the decrement follows the handler call instead of being in finally.
CountOutOnReturn(w) ==
    /\ wpc[w] \in {"returned", "raised"}
    /\ activeJobs' = IF wpc[w] = "returned" THEN activeJobs - 1 ELSE activeJobs
    /\ wpc' = [wpc EXCEPT ![w] = IF @ = "raised" THEN "dead" ELSE "test"]
    /\ UNCHANGED <<queue, stopEvent, shutdownStarted, threads,
                   hand, finished, lateTakes, submitVars, closerVars>>

\* The finally block: nothing above catches the handler's exception, so it
\* goes on to end the thread.
CountOut(w) ==
    /\ wpc[w] \in {"returned", "raised"}
    /\ activeJobs' = IF activeJobs > 0 THEN activeJobs - 1 ELSE 0
    /\ wpc' = [wpc EXCEPT ![w] = IF @ = "raised" THEN "dead" ELSE "test"]
    /\ UNCHANGED <<queue, stopEvent, shutdownStarted, threads,
                   hand, finished, lateTakes, submitVars, closerVars>>

-----------------------------------------------------------------------------
(* shutdown(graceful, timeout), called by each closer at most once, after  *)
(* start(); the accept loop calls it when it has left its loop             *)

Calls(c) ==
    /\ cpc[c] = "idle"
    /\ threads = WorkerCount
    /\ c = Acceptor => spc = "idle"

\* Seeded bug: no shutdown_started, every caller runs the shutdown.
ClaimAlways(c) ==
    /\ Calls(c)
    /\ shutdownStarted' = TRUE
    /\ \E graceful, deadline \in BOOLEAN :
          /\ cpc' = [cpc EXCEPT ![c] = IF graceful THEN "drain" ELSE "stop"]
          /\ timed' = [timed EXCEPT ![c] = deadline]
    /\ UNCHANGED <<queue, stopEvent, activeJobs, threads, put, workerVars, submitVars>>

Claim(c) ==
    /\ Calls(c)
    /\ shutdownStarted' = TRUE
    /\ \E graceful, deadline \in BOOLEAN :
          /\ cpc' = [cpc EXCEPT ![c] = IF shutdownStarted THEN "done"
                                       ELSE IF graceful THEN "drain" ELSE "stop"]
          /\ timed' = [timed EXCEPT ![c] = deadline]
    /\ UNCHANGED <<queue, stopEvent, activeJobs, threads, put, workerVars, submitVars>>

\* Seeded bug: an empty queue is taken for a drained pool.
DrainedQueue == queue = << >>

Drained == activeJobs = 0 /\ queue = << >>

DrainEnds(c) ==
    /\ cpc[c] = "drain"
    /\ Drained
    /\ cpc' = [cpc EXCEPT ![c] = "stop"]
    /\ UNCHANGED <<poolVars, timed, put, workerVars, submitVars>>

DrainTimesOut(c) ==
    /\ cpc[c] = "drain"
    /\ ~Drained
    /\ timed[c]
    /\ cpc' = [cpc EXCEPT ![c] = "expired"]
    /\ UNCHANGED <<poolVars, timed, put, workerVars, submitVars>>

SetStop(c) ==
    /\ cpc[c] \in {"stop", "expired"}
    /\ stopEvent' = TRUE
    /\ cpc' = [cpc EXCEPT ![c] = "pills"]
    /\ UNCHANGED <<queue, activeJobs, shutdownStarted, threads,
                   timed, put, workerVars, submitVars>>

\* Seeded bug: one pill more than there are threads.
PutPillOnceMore(c) ==
    /\ cpc[c] = "pills"
    /\ put[c] <= threads
    /\ ~Full
    /\ queue' = Append(queue, Pill)
    /\ put' = [put EXCEPT ![c] = @ + 1]
    /\ UNCHANGED <<stopEvent, activeJobs, shutdownStarted, threads,
                   cpc, timed, workerVars, submitVars>>

\* queue.put(None) without a timeout: it waits for room for ever.
PutPill(c) ==
    /\ cpc[c] = "pills"
    /\ put[c] < threads
    /\ ~Full
    /\ queue' = Append(queue, Pill)
    /\ put' = [put EXCEPT ![c] = @ + 1]
    /\ UNCHANGED <<stopEvent, activeJobs, shutdownStarted, threads,
                   cpc, timed, workerVars, submitVars>>

\* Each join gives up after a second, so the loop of joins always ends.
JoinAll(c) ==
    /\ cpc[c] = "pills"
    /\ put[c] >= threads
    /\ cpc' = [cpc EXCEPT ![c] = "done"]
    /\ UNCHANGED <<poolVars, timed, put, workerVars, submitVars>>

-----------------------------------------------------------------------------
Submitter == StartWorker \/ Offer \/ SubmitCheck \/ SubmitPut

Worker(w) ==
    \/ Test(w) \/ Take(w) \/ GetTimeout(w) \/ CountIn(w)
    \/ Return(w) \/ Raise(w) \/ CountOut(w)

Closer(c) ==
    \/ Claim(c) \/ DrainEnds(c) \/ DrainTimesOut(c)
    \/ SetStop(c) \/ PutPill(c) \/ JoinAll(c)

Next ==
    \/ Submitter
    \/ \E w \in Workers : Worker(w)
    \/ \E c \in Closers : Closer(c)

Spec == Init /\ [][Next]_vars

(***************************************************************************)
(* Every started thread keeps running: handlers return (sockets have       *)
(* timeouts and a connection serves a bounded number of requests), and a   *)
(* deadline passes.  Nobody is obliged to offer a job or to call           *)
(* shutdown().                                                             *)
(***************************************************************************)
Progress(c) == DrainEnds(c) \/ DrainTimesOut(c) \/ SetStop(c) \/ PutPill(c) \/ JoinAll(c)

Fairness ==
    /\ WF_vars(StartWorker)
    /\ WF_vars(SubmitCheck \/ SubmitPut)
    /\ \A w \in Workers : WF_vars(Worker(w))
    /\ \A c \in Closers : WF_vars(Progress(c))

FairSpec == Spec /\ Fairness
-----------------------------------------------------------------------------
(* Properties                                                              *)

Holding == {w \in Workers : wpc[w] \in {"taken", "handling", "returned", "raised"}}
Counted == {w \in Workers : wpc[w] \in {"handling", "returned", "raised"}}

\* Every variable of the pool keeps the kind of value the code gives it.
TypeOK ==
    /\ queue \in Seq(Jobs \cup {Pill})
    /\ stopEvent \in BOOLEAN
    /\ activeJobs \in Nat
    /\ shutdownStarted \in BOOLEAN
    /\ threads \in 0 .. WorkerCount
    /\ wpc \in [Workers -> {"unborn", "test", "get", "taken", "handling",
                            "returned", "raised", "exited", "dead"}]
    /\ hand \in [Workers -> Jobs \cup {Pill}]
    /\ offered \in 0 .. MaxJobs
    /\ spc \in {"idle", "check", "put"}
    /\ accepted \subseteq Jobs
    /\ finished \subseteq Jobs
    /\ cpc \in [Closers -> {"idle", "drain", "expired", "stop", "pills", "done"}]
    /\ timed \in [Closers -> BOOLEAN]
    /\ put \in [Closers -> 0 .. WorkerCount]
    /\ lateTakes \in [Workers -> Nat]

\* _active_jobs is exactly the number of workers between the increment and the
\* decrement, whatever exceptions the handler raises: max(0, ...) never clamps.
ActiveExact == activeJobs = Cardinality(Counted)

\* Jobs leave the queue in the order they were accepted, and a job is never both
\* queued and with a worker, with two workers, or queued twice.
Fifo ==
    /\ \A i, k \in DOMAIN queue :
          i < k /\ queue[i] # Pill /\ queue[k] # Pill => queue[i] < queue[k]
    /\ \A w \in Holding, i \in DOMAIN queue : queue[i] # Pill => hand[w] < queue[i]
    /\ \A v, w \in Holding : v # w => hand[v] # hand[w]

\* Between submit() and the end of its handler call no accepted job disappears:
\* it is queued, with a worker, or finished.
NoJobLost ==
    \A j \in accepted :
        \/ \E i \in DOMAIN queue : queue[i] = j
        \/ \E w \in Holding : hand[w] = j
        \/ j \in finished

\* Two concurrent shutdown() calls never both run the shutdown: together they put
\* at most one pill per thread, and none before the stop event is set.
OneShutdown ==
    /\ \A c, d \in Closers : cpc[c] \in {"drain", "expired", "stop", "pills"} /\ d # c
                             => cpc[d] \in {"idle", "done"} /\ put[d] = 0
    /\ (\E i \in DOMAIN queue : queue[i] = Pill) => stopEvent

\* Once the stop event is set a worker takes at most one more item, so the work
\* done after the drain deadline is bounded by the number of workers.
BoundedLateWork == \A w \in Workers : lateTakes[w] <= 1

\* When wait_for_drain() returns True, every accepted job has finished, or is
\* with a worker that has taken it and not yet counted it.
DrainMissesOnlyTaken ==
    [][\A c \in Closers : DrainEnds(c) =>
          \A j \in accepted : \/ j \in finished
                              \/ \E w \in Workers : wpc[w] = "taken" /\ hand[w] = j]_vars

\* While one worker survives, an accepted job is eventually finished unless the
\* pool is told to stop.
AcceptedEventuallyFinished ==
    \A j \in Jobs : (j \in accepted) ~> (j \in finished \/ stopEvent)

\* The jobs of a queue in their order, without the pills.
JobPlaces(q) == {i \in DOMAIN q : q[i] # Pill}
JobsOf(q) == Subsequence(q, JobPlaces(q))

(***************************************************************************)
(* The pool implements the job service: pills and the hand-over from queue *)
(* to handler are invisible, and the service closes when the stop event is *)
(* set.                                                                    *)
(***************************************************************************)
Service == INSTANCE JobService WITH
    Servers  <- WorkerCount,
    Capacity <- QueueSize,
    waiting  <- JobsOf(queue),
    serving  <- { hand[w] : w \in {v \in Workers : wpc[v] \in {"taken", "handling"}} },
    served   <- finished,
    refused  <- (1 .. (IF spc = "idle" THEN offered ELSE offered - 1)) \ accepted,
    open     <- ~stopEvent

ImplementsJobService == Service!Spec

-----------------------------------------------------------------------------
(* What the code's own words say of it, and does not hold                  *)

\* "Graceful shutdown + connection draining" (docs/reference.md): when the drain
\* is reported complete no accepted job is unfinished.
DrainedMeansFinished ==
    [][\A c \in Closers : DrainEnds(c) => accepted \subseteq finished]_vars

\* docs/reference.md documents --drain-timeout as the bound of the shutdown: a
\* graceful shutdown() whose drain has passed its deadline returns.
ShutdownReturns == \A c \in Closers : (cpc[c] = "expired") ~> (cpc[c] = "done")
=============================================================================
