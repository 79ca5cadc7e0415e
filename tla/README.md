# A TLA+ model of the HTTP server

This directory holds TLA+ modules that model the server's engines, its life from start to
stop, its stores and the requests that run through them, TLC
configurations that model-check them on small instances, and TLAPS proofs of what
holds for every size. Every definition was translated from the Python and JavaScript
source; `PROJECT.json` gives the lines behind each one (`map`), the runs, the seeded
bugs that show each property can fail, the hazards and the findings.

To check: `tlc -workers 2 -config MCThreadPool.cfg ThreadPool` (and the other pairs
in the table of runs below), and `tlapm` on `SequenceFacts.tla` and on each of the seven
modules whose name ends in `Proofs`.

## 1. The system

| component | source | state it keeps | operations | interacts with |
| --- | --- | --- | --- | --- |
| Worker pool | `thread_pool.py` | bounded queue, stop event, active count, shutdown flag, threads | `start`, `submit`, `_worker_loop`, `wait_for_drain`, `shutdown` | accept loop submits; accept loop and `stop()` shut down; runs `_handle_client` |
| Threadpool engine | `server.py` 571-619, 1588-1821 | lifecycle state, pool, per-connection request loop | accept, reject while draining, reject when full, serve a connection | pool, metrics, dispatch |
| Selectors engine | `server.py` 621-684, 1823-2347 | connection table; per connection: receive buffer, interim writes, queued and current response, `closing` | accept, read, parse, write, finalize, idle sweep, update interest, close | one event loop thread; `stop()` from another |
| Lifecycle | `server.py` 432-449, 551-730, 3265-3272 | `_running`, `_accepting`, lifecycle state, drain clock | `start`, `stop`, drain, signal handler | both engines, metrics worker, redirect listener |
| Request framing | `socket_handler.py`, `request.py` | bytes not yet consumed | head inspection, extraction of one message, parsing | both engines |
| Response writing | `response.py` | none | prepare, chunked encoding | both engines |
| Live events | `event_hub.py`, `server.py` 1285-1478 | deque of events, next id | `publish`, `snapshot` | every subsystem publishes; clients poll or stream |
| Live clients | `static/playground.js` 878-1063, `tools/scenario_runner.py` 271-516 | cursor, answers under way, open stream | poll, apply, reconnect, fall back, reset | event hub over HTTP |
| Playground mocks | `playground_store.py`, `playground_api.py`, `dynamic_mock_dispatch.py` | mocks, history, a state file | add, update, delete, record, replay, load, save | dispatch, metrics |
| Scenarios | `scenario_store.py`, `scenario_api.py`, `scenario_engine.py` | scenarios, runs, runs per scenario, a state file | create, update, delete, run, store a run | dispatch re-entered for internal steps, events |
| Incident mode | `server.py` 1083-1283 | the current profile, a request counter | start, stop, apply to a response | every dispatched request, metrics, events |
| Metrics and trends | `metrics.py`, `metrics_store.py`, `server.py` 523-549 | counters; pending and stored rows | count, flush, prune, query, close | every request; worker thread; SQLite |
| Sessions and users | `session_store.py`, `auth_store.py`, `server.py` 830-1081 | sessions by token; user table | create, get, revoke, prune, authorize | dispatch |
| Targets and proxy | `target_store.py`, `server.py` 1480-1576, 2445-2635 | targets, a state file | create, update, delete, forward | dispatch, events |
| Routing, static files | `router.py`, `handlers/`, `utils.py` | route table, fixed at start | resolve, serve | dispatch |
| Tools, scripts, assets | `tools/loadgen.py`, `tools/compare_engines.py`, `scripts/`, `static/`, `openapi/` | none of the server's | measure, launch, display | HTTP only |

Which behaviours are hard, and what correctness means for each part:

* **Worker pool.** Threads meet at a queue, a counter and an event, none of which is
  read together with the others. Right means: first come first served, no accepted
  job lost or served twice, an exact active count whatever handlers raise, one
  shutdown however many callers, a drain that ends when the work has ended, and a
  shutdown that returns.
* **Selectors connection.** One thread, but the order of bytes arriving, partial
  writes, the idle sweep, the drain and errors is free. Right means: responses in
  request order, each whole and once; nothing after a closing response; the gauge of
  requests in flight exact; no response left in a queue with nobody registered to
  write it; no connection kept for ever.
* **Lifecycle.** `stop()` runs on another thread, or in a signal handler, against both
  accept loops, and both sides shut the same things down.
* **Live events.** Clients hold cursors into a buffer that evicts, filters, truncates
  and restarts. Right means: an event is shown, or its loss is reported.
* **Stores.** Read, validate, change memory, write a file: each step may fail, and a
  restart sees only the file. Right means: what is reported stored is stored, and
  limits and uniqueness survive restarts and failures.
* **Scenarios, incidents, trends.** Something is copied, used for a while, and written
  back: it may meanwhile have been deleted, replaced or closed.

The full list, at the lines where each hazard bites, is `hazards` in `PROJECT.json`.

## 2. The modules

```
JobService      <-- implemented by --  ThreadPool     <-- extended by --  ThreadPoolProofs
EventHub        <-- extended by --     LiveFeed       <-- extended by --  LiveFeedProofs
SelectorConnection                                    <-- extended by --  SelectorConnectionProofs
RequestFraming  <-- extended by --     ClientHandler  <-- extended by --  MCClientHandler,
                                                                          ClientHandlerProofs
TrendStore      <-- extended by --     Lifecycle      <-- extended by --  LifecycleProofs
PlaygroundStore                        <-- extended by --  MCPlaygroundStore, PlaygroundStoreProofs
ScenarioEngine  <-- extended by --     Scenarios      <-- extended by --  MCScenarios, ScenariosProofs

Subsequences    <-- extended by --     SequenceFacts  <-- extended by --  the Proofs modules
                                                                          (not LifecycleProofs)
```

`Subsequences` says what a filter keeps of a sequence without recursion: the element of rank
k among the kept places is the k-th of the result. Several modules are built from it, because
`SelectSeq` is recursive and nothing could be proved of it. `SequenceFacts` is the library of
lemmas about `Append`, `Tail`, counting places and filters, and of induction: a set of numbers
that has 0 and with each number the next one has them all (`SetInduction`), and a function given
by recursion on numbers exists and obeys its equation (`RecursionExists`).

The engines meet in `Lifecycle`, which holds what `ThreadPool` and `SelectorConnection`
show to `start()` and `stop()`: a bounded queue with workers and one shutdown, and
connections that are served in a handler. `ClientHandler` is the handler that `ThreadPool`
calls a job; its exceptions are the action `Raise` there. `PlaygroundStore` and `Scenarios`
are what the dispatcher does inside such a handler.

### ThreadPool (and JobService)

One program counter per thread: `spc` for the accept loop in `submit()`, `wpc[w]` for
each worker in `_worker_loop()`, `cpc[c]` for each thread in `shutdown()`. A step is
what a thread does between two points where another thread can see or change shared
state, so the check of `_stop_event` and the `put_nowait` of `submit()` are two steps,
as are `queue.get` and the increment of `_active_jobs`. `wait_for_drain` holds the
condition's lock while it evaluates the drained test, but the queue is not protected
by that lock: only the counter is, so `CountIn` and `CountOut` cannot interleave with
the test and `Take` can. `None` in the queue is `Pill`. The action `Raise` is a
handler that ends in an exception: the `finally` block runs (`CountOut`) and the thread
dies. `start()` of the pool comes before everything else, sockets are offered only while no one
has claimed the shutdown (`stop()` marks the server as draining first), and the accept loop
(`Acceptor`) calls `shutdown()` only when it has left its `submit()`; a `stop()` that races
`start()` is left out. A drain that passed its deadline is a place of its own (`expired`).
History variables used only in properties: `accepted`, `finished`, `lateTakes`.

`JobService` is what the pool promises to the accept loop: jobs offered in order are
refused or wait in a line of bounded length, are taken from its front by a bounded
number of servers, and are served once. `ThreadPool` implements it under a refinement
mapping that removes pills and hides the hand-over between queue and handler.

### SelectorConnection

One connection of the event loop. `pc` says where the loop is: in `select`, reading,
parsing, updating the interest, or writing; the client, the start of a drain and the
sweep act in between. The receive buffer is abstracted to how many requests have
arrived whole (`got`) and whether the head of the next one has (`half`); a response to
a number of pieces, each what one `send` accepts. A client that stops reading (`ClientStalls`)
leaves a response half written: while the send buffer has room the kernel takes what is sent,
whether the client reads or not. A message over which the read never returns (see
`RequestFraming`) is the kind `endless`, after which `pc` stays `looping`. Kept in full: the order
of the checks
in `_handle_selector_read`, every path that queues a closing response, the interim
responses, every early return of `_handle_selector_write` and what it leaves
unchanged, the interest registered, and the counting of requests in flight.

### EventHub and LiveFeed

`EventHub` is the deque, its numbering, `publish` and `snapshot`. `LiveFeed` adds a
client: the page (snapshots that overlap, a stream dispatched event by event and cut
short at any point) or the terminal client (curses, which acts on `overflowed`; plain,
which starts when curses fails). `cursor` is the client's only memory. `RestartServer`
replaces the hub by an empty one while the client and the answers it has received stay.
`Advance` combines `updateCursor` (playground.js 578-580), `_reduce_events`
(scenario_runner.py 277) and the overflow rule (scenario_runner.py 437-438). The
history variables `told`, `cut` and `mark` record what answers admit to have left out.

### RequestFraming and ClientHandler

`RequestFraming` is the two decoders that read the same bytes one after the other:
`extract_http_request_message`, which finds where a request ends, and
`HTTPRequest.from_bytes`, which reads it. Bytes are grouped into units that never arrive in
part (a line of the head, the blank line, a chunk size, a byte of a body); lengths and
limits count units. `Encode` and `Meant` say what a client sends and what it means by it,
and are the reference for both decoders. The two loops over chunks (`ScanChunks`,
`DecodeChunks`) are recursive functions of the place in the bytes, so that they can be proved
about as well as run. Two faults are of the kind that the decoders do not share a view of, or do
not see: a header that comes twice (`twice`: `socket_handler.py` takes the first, `request.py`
keeps the last), and chunks of a negative size, which `int(token, 16)` accepts: one of size -2 is
passed over, since the CRLF of its size line is taken for its end (`over`), and one that reaches
back over its size line to the CRLF before it leads to itself for ever (`back`). `Given` and
`Overlooked` say what becomes of them. Left out are negative sizes that lead elsewhere (into the
data of a chunk, or before the first byte, where Python counts from the end), two
Transfer-Encodings in the other order (a plain body found, chunks read), and that `decoded_size`
is two less after a chunk of size -2. `MessageAssumption` says what messages there are: no part of
one is empty, one has a body only if its head announces it, only a chunked one has faults in its
chunks, and only a header that is there comes twice.

`ClientHandler` is `_handle_client` with the read and write functions of
`socket_handler.py`: every return and every answer that ends the connection, the leftover
carried from one request to the next (`buffer`), the 100 Continue, the keep-alive limit,
the drain and the count of requests in flight. A step goes from one socket or file system
call to the next, and each may fail. `NearLimit` names the one case in which a right message
may be refused because of what follows it: the code compares `MAX_REQUEST_BYTES` with all it
has received while a chunked body is not whole. A static file that changes its size while it
is sent is left out. On the wire an answer is a record of the request it is for (`re`), its
status, whether it is final (a 100 Continue is not) and whether the handler ends after it
(`last`: `should_close`, or an error); only the order of these is modelled. The Connection header
is not: a mock may set it to `close` (`dynamic_mock_dispatch.py:82`; `server.py:1783` sets it only
by default), and the handler goes on to the next request.

### TrendStore and Lifecycle

`TrendStore` is `record_request`, `flush`, `prune` and `close` of both backends. The SQLite
connection is shared by all threads and so is its transaction (`txn`): a commit takes
everybody's rows into the table, a rollback or the close takes everybody's rows away.
A set of rows is the set of requests counted into it.

`Lifecycle` composes it with the accept loop and the event loop (`loop`), the `finally` block
both end in (`final` to `returned` or `failed`), `stop()` (`stopper`), which runs on a thread
of its own or, as the signal handler, stops the loop's thread while it runs
(`LoopMayRun`), the metrics worker (`worker`) and the shutdown of the pool, which both sides
call. A client that a worker has taken from the queue (`taken`) is counted in the next step
(`reading`); the event loop accepts until there is no one left (`more`). The workers are daemon
threads: who is still with one when `start()` and `stop()` are over is not served any more. Reads
and the steps that use them are apart where the code does not lock: the drain
check and the submission, the phase and the drain's clock, the test of `_pool` and its use.
The signal handler may interrupt the loop's thread where it holds a lock (`MayHold`: of the
metrics, of the trend store, of the pool's queue, of the pool's shutdown); the lock is then held
(`locked`) as long as `stop()` runs, and whoever needs it waits: `stop()` itself, for ever, or a
worker. The locks of the idle sweep and of a TLS handshake are left out, as these steps are.
`cause` and `missed` are history variables: what a run has met that ends a drain early or a
thread, and whom the end of a drain did not see (a worker had got the client from the queue and not
counted it) or did not wait for (connected when the drain's clock was not set).

### PlaygroundStore

The store's map, history and file, and the handlers of the mock API with the record that the
server makes of each answered request. Memory (`mocks`, `history`) and `file` are apart: a
save may fail (`SaveFails`), which leaves the change in memory and raises, and the process may
crash (`Restart`). A thread acts between the validation of an update and the update. Method
and path are one route; of statuses, headers and bodies those are told apart that the
code treats differently.

### ScenarioEngine and Scenarios

`ScenarioEngine` holds the functions of the engine: which scenario is acceptable, the chaos
laid over an answer, the assertions that a step breaks, the end of a run, its report and
score. Failures are counted as sets (of steps, of pairs of a step and an assertion), which
needs no sum over a sequence. A
response is a status and whether its body has the token looked for; assertions on headers
and on latency, and what latency takes off the score, are left out.

`Scenarios` has a thread per worker. A run dispatches the requests of its steps on its own
thread, so runs within runs are a stack (`stack`); the recursion limit is `MaxDepth`. A step
or the proxy may go to a target, which answers, is down, or is this server again: then the
request is on the `wire` until some thread takes it, also when the sender has timed out.
Updates and deletions of scenarios and targets, the incident profile with the copies that
requests take of it, failed saves of a run and crashes act in between. Only the save of a run
may fail; a failed save of a scenario or a target is the pattern of `PlaygroundStore`. The
fields `enabled` and `timeout_ms` of a target decide nothing that is modelled, and the second
dispatch that `_dispatch_with_optional_target` makes on a `TypeError` is left out.

## 3. The runs

| run | configuration | what it shows | states |
| --- | --- | --- | --- |
| `pool` | `MCThreadPool.cfg` | the pool's invariants, drain window, refinement of `JobService`, progress | 138,459 |
| `pool_drain` | `PoolDrain.cfg` | violation: the drain can end with an accepted job unfinished | |
| `pool_shutdown` | `PoolShutdown.cfg` | violation: a shutdown with a deadline may never return | |
| `connection` | `MCSelectorConnection.cfg` | order, counting, registration and progress of one connection | 115,414 |
| `conn_contiguous` | `ConnContiguous.cfg` | violation: a 100 Continue inside another response | |
| `conn_stalled` | `ConnStalled.cfg` | violation: a client that stops reading keeps its connection | |
| `live_feed` | `MCLiveFeed.cfg` | nothing lost but what is admitted; cursors; progress of clients | 86,196 |
| `feed_truncation` | `FeedTruncation.cfg` | violation: the limit drops the older events of a batch silently | |
| `client_handler` | `MCClientHandler.cfg` | what is dispatched is what was sent, and which wrong messages are; every refusal has its reason in what was sent; order on the wire; the handler ends | 478,078 |
| `lifecycle` | `MCLifecycle.cfg` | whom a stop may lose; what is in the trend store after it, with writes that fail; that it ends, and that the server stays stopped | 1,928,565 |
| `playground` | `MCPlaygroundStore.cfg` | limits, unique routes, acknowledged mocks and records across failed saves and crashes | 4,770,457 |
| `scenarios` | `MCScenarios.cfg` | reports, index, names and limits while runs overlap changes; incident counts; every request ends | 429,547 |

What the runs from `client_handler` on say of the code, beyond holding:

* `ServedAsSent` says which wrong messages are served: both decoders overlook a chunk of size -2
  (`socket_handler.py:119`, `request.py:154`) and chunks under two Transfer-Encodings
  (`socket_handler.py:58`, `request.py:86`). `HandlerEnds` says what keeps a worker for ever: a chunk
  whose negative size leads back to itself (`socket_handler.py:143`). The same message keeps the
  event loop (`ParseEndless` of `SelectorConnection`).
* `OnlyHeldClientLost` is tight: a stop that neither expires nor meets an exception may lose one
  accepted client, the one between the drain check and the queue or the connection table
  (`server.py:610`, `1860`), and those in `missed`: who fell into the window of
  `DrainMissesOnlyTaken` (`thread_pool.py:94`), and who was connected when the event loop looked
  between `server.py:691` and 692, took the clock of no drain for a deadline that has passed
  (668-670) and closed its connections at once. Every other client that is held, queued, connected
  or with a worker at the end counts as lost. It holds too when `_pool` becomes `None` between test
  and use, which raises `AttributeError` in `stop()` or in the loop (`cause` has "pool"). With an
  expired drain or an `OSError` more are lost, as the code has it.
* `StopEnds` has two exceptions that the code has: a lock that the signal found held (`locked`), and
  a pill that does not fit (`stuck`, which `ThreadPool` shows).
* `RecordsKept` leaves out what a failed write took along (`lost`) and what was recorded after the
  store was being closed (`late`): both happen in the code, which reports neither.
* `AckedKept` says nothing of a mock whose last change raised: `update_mock` may have changed what is
  served without saving it (`playground_store.py:87`).
* `AffectedBounded` has a term for the strays: a profile is charged for requests that an older one
  disturbed (`server.py:1268`), one per request under way at most.
* `ReportFits` is about the version the run started with, which need not be stored any more.
* `RequestsEnd` needs the proxy's timeout: all threads may wait for this server as a target.

Each passing property has a seeded bug (an operator marked `Seeded bug` in front of the
definition it would replace) under which TLC finds it violated.

**Bounds.** Pool: two workers (two can race for a job, and one can die while the other
lives), a queue of two (full, and with a pill next to a job), three jobs, one exception,
two closers. The drain violation needs one slot, the shutdown violation four jobs.
Connection: three pipelined requests of every combination of kinds, so that a response can
be partly written while the next request arrives, and a keep-alive limit of two, which
falls on the second with one still behind it; responses of two pieces, the
least that can be interrupted. Live feed: a buffer of two and three events, so that one
is evicted; answers of one event, so that the limit cuts; one restart; two snapshot
answers of the page under way, the least that can arrive out of order. One client is
enough because a snapshot changes nothing in the hub.
Client handler: three messages out of sixteen, one of every framing, at and over every limit, and of
every fault, with two requests per connection, so that a third finds the limit; a recv of up to
three units splits everything in every way. Lifecycle: two clients, a queue of one and one worker,
so that a client waits while another is served and a queue is full; both engines, both backends,
both kinds of `stop()`, and writes of the store that fail. Two clients are the least that can break a bound
of one loss, and the least of which one can be held while the other is taken, served or connected;
the limit of two connections is reached, and a refusal for it is the step of a refusal by a drain.
Playground: two threads, three mocks with room for two, a history of two, four requests, two
mishaps: a failed save and then a crash is the least that separates memory, file and what was
acknowledged. Scenarios: two threads (one can wait for the other, and both for nobody), runs two
deep, three requests, one mishap.

**Fairness.** Pool: started threads keep running and handlers end, because sockets have
timeouts and a connection serves at most `MAX_KEEPALIVE_REQUESTS` requests; a deadline
passes; nobody has to offer a job or call `shutdown()`. Connection: the loop never stops
inside a handler (weak fairness); the loop returns to a writable socket, to the sweep and
to the drain deadline again and again, and while the client reads, sends are accepted
again and again (strong fairness, since select can report other events in between); a
client that has stalled never becomes writable again. Live feed: clients poll in a loop
(weak fairness) and apply what they receive; the stream answers carry
`Connection: close`, so the page's stream always ends and its handler polls. Client handler:
the worker runs, and a `recv` returns or times out (`settimeout`); no client has to send or
read anything. Lifecycle: the threads of `start()` and `stop()` run, and time passes; nothing is
assumed of the clients, of the handlers in the pool and of the metrics worker, for each of which
`stop()` waits for a time only. Scenarios: threads run, and take what is on the
wire when they are idle; a socket that waits for an answer times out. The playground run has no
liveness property, so no fairness.

**Deadlock** is not checked: each model has bounded work and may come to rest when it is
done; blocking is covered by the liveness properties, and in the playground model a thread never
waits for another.

## 4. What is proved

Every invariant and every action property of the passing runs has a theorem; so does the
refinement of `JobService`. Three theorems more say that loops end (below). A theorem holds for
every value of the
constants that satisfies the named assumptions of the module. In every module the argument is the
same: `IInv` is inductive
(`InitIInv`, and `StepIInv` or a lemma per group of actions), `Invariance` is
`Spec => []IInv`, and the other theorems follow from it. TLC had checked each `IInv` on the
instance of the run before it was proved. None of the properties is inductive alone, and what
`IInv` adds is the reason why the code is right.

| module | proved | what makes it inductive |
| --- | --- | --- |
| `ThreadPoolProofs` | `TypeOK`, `ActiveExact`, `Fifo`, `NoJobLost`, `OneShutdown`, `BoundedLateWork`, `DrainMissesOnlyTaken`, `ImplementsJobService` | A worker beyond `threads` has not started; jobs queued, held or finished were accepted; at most one closer is past the claim, and only with `shutdownStarted` set; a late take needs a worker that had passed the loop test before the event was set. |
| `SelectorConnectionProofs` | `TypeOK`, `FinalsInOrder`, `InterimFirst`, `NothingAfterLast`, `InflightExact`, `WriteRegistered`, termination (`HandlersReturn`) | `Progress`: the responses on the wire, the current one and the queue are together an initial part of the requests, with pieces missing only of the current one; a response that ends the connection is queued together with `closing`, after which nothing is read; between two handlers, what may be pending without being registered, by program counter. |
| `LiveFeedProofs` | `TypeOK`, `HubWindow`, `NoOtherLoss`, `ShownOnce`, `CursorNeverBack`, and that a snapshot without the overflow flag has every event after the cursor | The deque is never longer than the history; every id the client has is published or covered by `mark` (`BoundInv`); what an answer under way does not hold up to its `latest` is known already (`AnswerInv`), so the order in which answers are applied does not matter; the terminal client has one answer under way, made for the cursor it still has. |
| `LifecycleProofs` | `TypeOK`, `OnlyHeldClientLost`, `RecordsKept`, `StoppedStays` | Each flag in terms of where loop and `stop()` are (`FlagInv`), who waits in the pool's shutdown (`PoolInv`), after the drain nobody but the held client and those in `missed` (`LossInv`), each recorded request in one of the places of the store, and in the open transaction only rows that a flush still answers for (`StoreInv`), the store sealed before the end (`SealInv`). |
| `PlaygroundStoreProofs` | `TypeOK`, `RoutesUnique`, `AckedKept`, `RecentKept` | Between validation and update a request keeps a payload that was accepted, which laid over whatever mock is there by then makes one that can be served (`UpdateInv`); a saved record is in history and file no farther from the end than it is among the records (`RecordInv`). |
| `ScenariosProofs` | `TypeOK`, `ReportFits`, `AffectedBounded`, termination (`RequestsShorten`) | Results of a run on the stack are those of the first steps of the copy it started with (`Begun`), and only the innermost can be at its end; memory and file are in order alike, as a restart makes one the other; run numbers differ; each stray that still decides on an older copy is counted in advance (`CountInv`). |
| `ClientHandlerProofs` | `TypeOK`, `WireInOrder`, `ServedAsSent`, `AnsweredForCause`, what the two decoders compute (`ExtractFinds`, `FromBytesFinds`), termination (`LoopEnds`) | `GoesOn`: before request `Turn` the wire has exactly one final answer of each request, none of them the last; no 100 Continue of request `Turn` before `contSent`. `StreamInv`: the buffer and what is still to come are together the messages from the current one on, whole and in order, at every step between two reads (`BufferInv`), and the buffer is longer than `MAX_REQUEST_BYTES` only for a message that may be refused (`LimitInv`). |

The refinement maps each step of the pool to a step of `JobService` or a stutter
(`RefineStep`): `SubmitPut` is `Accept` or `Refuse`, `SubmitCheck` after the stop event
`Refuse`, `Take` of a job `Start`, `Return` and `Raise` are `Finish`, and setting the stop event
is `Close`. Pills are removed from the queue by `Subsequence`; the counter, the waits and the
rest of the shutdown are invisible to the service.

**The decoders.** `ExtractFinds` says what `extract_http_request_message` answers for each
message, whatever follows it and however much of it has arrived: its whole length, or that more is
needed, or the refusal it earns. `FromBytesFinds` says that `HTTPRequest.from_bytes`, given those
bytes, reads the body that was meant, or refuses it, so the two loops over chunks agree, with the
two exceptions of section 2 that both overlook. `ExtractFinds` also says for which messages the
first never returns. Both
are recursive functions over the bytes, and their results for messages with any number of chunks of
any size follow by induction on the number of chunks left. The library's induction theorems take
an operator, which no installed prover can instantiate; `SetInduction` takes a set instead, which
one can define for each use, and `RecursionExists` gives the equation of a recursive function.
With these two results the handler's loop is an ordinary invariant proof: `ServedInOrder` and
`RefusedForCause` follow from `StreamInvariance`.

**Termination.** `LoopEnds`, `HandlersReturn` and `RequestsShorten` are the part of liveness that
needs no fairness: a measure that every step of a loop makes smaller. In `ClientHandler` it is a
number, of the bytes still to come, the requests left under the keep-alive limit and the place in
the loop (`StepsLeft`); a peer that sends bytes one by one cannot make it grow. One message ends it
otherwise, the one with
a chunk that leads back to itself, and the theorem says that no other does. In
`SelectorConnection` it is a number too (`RoundLeft`): what the handlers may do at most before the
event loop is back in `select` and looks after its other connections, or is caught in that message
with all of them. The dispatch of a request is a step there, however long it takes. In `Scenarios`,
where runs
are in one another, it is a stack of numbers, one for each run under way and one for the request
itself (`Level`), compared from the outermost on; a run that begins makes the stack longer but all
levels around it stay, and stacks are no deeper than `MaxDepth`, so the order is well-founded. A
step of another thread leaves the measure alone or makes it smaller. That a thread whose
measure can still shrink takes a step is the fairness that TLC's runs assume.

**Assumptions.** All are in the modules as named `ASSUME`s, which TLC evaluates on the
instances. Sizes and limits are positive where the code requires it (`PoolAssumption`,
`HubAssumption`, `LifecycleAssumption` and their like); a value that stands for "nothing" is
not one of the things it stands beside (`None \notin Ids`). `HandlerAssumption` says that one
receive beyond a message of greatest head and body still fits in `MAX_REQUEST_BYTES`, as the
defaults do; `FramingAssumption`, that a greatest head and a greatest body together do;
`MessageAssumption` gives messages the shape described in section 2. Of the requests
(`RequestAssumption`): each has the fields its handler reads. In
`Scenarios` also: the threads are finitely many, the requests of a step are among those that
clients may send, and `FilesAssumption`: the state files at the first start were written by this
server with the same limits, and earlier runs have other numbers than new ones. Files edited by hand or
written under higher limits are outside the model, as section 7 says.

**Only model-checked.** The six liveness properties (`AcceptedEventuallyFinished`,
`ServedEventuallyAnswered`, `EventuallyKnown`, `HandlerEnds`, `StopEnds`, `RequestsEnd`): the prover
does not reason about fairness and `ENABLED`. For three of them the theorems on termination say
that the work in front is finite; that it is done is what the runs add, on their instances. The
five violations of section 5 are counterexamples and need no proof.

## 5. Findings

Five runs show the code disagreeing with what its documents say; each is described in
`PROJECT.json` with the quoted line.

1. `thread_pool.py:94`: the drained test misses a job that a worker has just taken.
2. `thread_pool.py:88`: pills are put without a timeout into a queue nobody may read.
3. `server.py:2129`: interim responses interrupt a response that is partly written.
4. `server.py:2275`: a client that stops reading in the middle of a response is never given up.
5. `event_hub.py:57`: the limit keeps the newest events and reports no loss.

Three more disagreements are stated by passing properties as their exact exceptions (section 3): a
malformed message that is served, a chunk size that keeps a thread for ever, and a drain that the
event loop ends at once because its clock is not set yet.

## 6. What could be added

Every safety property that the runs check is proved. What would say more, in this order:

1. **Pool and lifecycle**: measures like those of section 4 for the workers' loops and for
   `stop()`, up to the waits that only another thread can end.
2. **Lifecycle**: that the pool it holds is the service seen from outside. Its queue is a set, so
   it cannot implement `JobService`, which is about order; it needs an abstract service that bounds
   and counts jobs but does not order them, of which `JobService` is a case.
3. **TrendStore** on its own: `StoreInv` as a statement about any threads that share a store.
4. **JobService**: first come first served as a theorem of the abstract specification, from
   which `Fifo` follows through the refinement.

## 7. Not modelled

TLS handshakes and the redirect listener (I/O that only skips a client), routing and static file
lookup (stateless), sessions and users (each operation is one critical section on one map, and
users are read once), the wording of responses, logs and pages, the load generator, the engine
comparison and the scripts. Inside the modelled parts: bytes inside a unit
(`RequestFraming`) or a request (`SelectorConnection`); wall-clock durations (a timeout is a step
that may happen); queries of the trend store, whose flush is that of any other thread; counters
of the metrics other than the requests in flight; authorization in front of the handlers; state
files that were edited by hand or are corrupt.
