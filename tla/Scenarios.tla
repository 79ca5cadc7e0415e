----------------------------- MODULE Scenarios -----------------------------
(***************************************************************************)
(* Scenarios, their runs and what runs touch: the scenario store           *)
(* (src/scenario_store.py), its handlers (src/scenario_api.py), the engine *)
(* that dispatches the steps to the server itself or to a proxy target     *)
(* (src/scenario_engine.py, src/target_store.py) and the incident profile  *)
(* that is laid over answers (src/server.py).                              *)
(*                                                                         *)
(* A thread of the server works on one request.  A run dispatches the      *)
(* requests of its steps on the same thread, one in another when a step    *)
(* runs a scenario, which is a stack of runs here.  A target may be this   *)
(* server again: the thread then waits for another one to take the request *)
(* off the wire, or for its timeout.  One critical section is one step.    *)
(***************************************************************************)
EXTENDS ScenarioEngine

CONSTANTS
    Threads,       \* the threads that handle requests; one, for the selectors engine
    Ids, Targets,  \* the ids of scenarios and of targets
    Files,         \* the contents of the state files when the server starts
    Requests,      \* bound: the requests that clients send
    MaxScenarios,  \* --max-scenarios
    MaxTargets,    \* --max-targets
    MaxDepth,      \* the runs in one another that the recursion limit allows
    MaxRequests,   \* bound: how many requests clients send
    MaxMishaps,    \* bound: how many saves of a run fail and how often the process crashes
    None           \* there is no such scenario or target, no request, no answer

ASSUME ScenarioAssumption ==
    /\ MaxScenarios \in Nat \ {0} /\ MaxTargets \in Nat \ {0} /\ MaxDepth \in Nat \ {0}
    /\ MaxRequests \in Nat /\ MaxMishaps \in Nat
    /\ IsFiniteSet(Threads)
    /\ None \notin Ids /\ None \notin Targets /\ "local" \notin Targets

-----------------------------------------------------------------------------
(* Data                                                                    *)

\* The payload of a step, which asks for what a client may ask for too, and of a scenario.
Steps == [target : Targets \union {"local"}, req : Requests, expect : SUBSET Nat,
          token : BOOLEAN, chaos : [mode : STRING, offset : Nat, probability : Int]]
ScenarioData == [name : STRING, stop : BOOLEAN, steps : Seq(Steps)]

\* What a run keeps of a step, and what is stored of a run.
Results == [step : Steps, broken : SUBSET Assertions]
Reports == [number : Int, id : Ids, status : {"pass", "fail"}, score : Nat, passed : Nat,
            failed : Nat, results : Seq(Results), of : ScenarioData]

Modes == {"none", "status_spike_503", "body_drop", "fixed_latency"}

ASSUME RequestAssumption ==
    \A r \in Requests :
        \/ r.kind = "call"
        \/ r.kind = "run" /\ r.id \in Ids /\ r.seed \in Nat
        \/ r.kind = "proxy" /\ r.target \in Targets /\ r.req \in Requests
        \/ r.kind \in {"create", "update"} /\ r.id \in Ids /\ r.new \in ScenarioData
        \/ r.kind = "delete" /\ r.id \in Ids
        \/ r.kind \in {"create_target", "update_target", "delete_target"} /\ r.id \in Targets
        \/ r.kind = "incident" /\ r.mode \in Modes

Defined(f) == {i \in DOMAIN f : f[i] # None}
Named(f, name, id) == \E i \in Defined(f) \ {id} : f[i].name = name

\* A store that its operations may have left: names are unique, and the limit holds.
InOrder(f, max) ==
    /\ \A i, j \in Defined(f) : f[i].name = f[j].name => i = j
    /\ IsFiniteSet(Defined(f)) /\ Cardinality(Defined(f)) <= max

\* The files were written by this server with these limits, or are not there yet: the runs
\* of earlier processes are numbered down from 0.
ASSUME FilesAssumption ==
    \A f \in Files :
        /\ DOMAIN f = {"scenarios", "runs", "targets"}
        /\ f.scenarios \in [Ids -> ScenarioData \union {None}]
        /\ InOrder(f.scenarios, MaxScenarios)
        /\ DOMAIN f.targets = Targets /\ InOrder(f.targets, MaxTargets)
        /\ f.runs \in Seq(Reports)
        /\ \A k \in DOMAIN f.runs : f.runs[k].number <= 0 /\ Fits(f.runs[k])
        /\ \A j, k \in DOMAIN f.runs : f.runs[j].number = f.runs[k].number => j = k
-----------------------------------------------------------------------------
VARIABLES
    scenarios,  \* _scenarios
    runs,       \* _runs, in the order in which they were added
    index,      \* _runs_by_scenario
    targets,    \* _targets of the target store
    files,      \* the contents of the two state files
    incident,   \* _incident_profile: mode ("none" when not active) and affected_requests
    thread,     \* what each thread does
    wire,       \* requests to this server as a target that no thread has taken yet
    sent, mishaps, made, tickets,  \* the numbers of requests, mishaps, runs and requests to
                                   \* this server as a target so far
    epoch       \* history: profiles so far; counts and undecided requests of the current one

stores == <<scenarios, runs, index, targets, files>>
counts == <<sent, mishaps, made, tickets>>
vars == <<stores, incident, thread, wire, counts, epoch>>

Idle == [at |-> "idle", now |-> None, stack |-> <<>>, answer |-> None, copy |-> None,
         ticket |-> 0, client |-> 0]

RunsOf(rs, s) == Subsequence(rs, {k \in DOMAIN rs : rs[k].id = s})
Numbers(rs) == [k \in DOMAIN rs |-> rs[k].number]

\* _load_state: the lists of runs are made again from the runs.
Lists(rs) == [s \in Ids |-> Numbers(RunsOf(rs, s))]

Init ==
    /\ files \in Files
    /\ scenarios = files.scenarios /\ runs = files.runs /\ index = Lists(runs)
    /\ targets = files.targets
    /\ incident = [mode |-> "none", affected |-> 0]
    /\ thread = [t \in Threads |-> Idle]
    /\ wire = {} /\ sent = 0 /\ mishaps = 0 /\ made = 0 /\ tickets = 0
    /\ epoch = [number |-> 0, own |-> 0, strays |-> 0]

-----------------------------------------------------------------------------
(* Threads                                                                 *)

At(t, at, kind) == thread[t].at = at /\ thread[t].now.kind = kind
Goes(t, at) == thread' = [thread EXCEPT ![t].at = at]
Replies(t, answer) == thread' = [thread EXCEPT ![t].at = "answer", ![t].answer = answer]
Top(t) == thread[t].stack[Len(thread[t].stack)]

\* An exception: a run that has dispatched the request takes it for a 502, or it leaves the
\* handler of the client's request: nobody is answered, and the thread ends with it.
Raises(t, stack) ==
    thread' = [thread EXCEPT ![t] = IF stack = <<>> THEN [Idle EXCEPT !.at = "gone"]
                                    ELSE [@ EXCEPT !.at = "answer", !.answer = Refusal(502),
                                                   !.stack = stack]]

Send(t, r) ==
    /\ thread[t].at = "idle" /\ sent < MaxRequests
    /\ sent' = sent + 1
    /\ thread' = [thread EXCEPT ![t].at = "dispatch", ![t].now = r]
    /\ UNCHANGED <<stores, incident, wire, mishaps, made, tickets, epoch>>

\* A request that this server has sent itself, whether the sender still waits or not.
TakeFromWire(t) ==
    /\ thread[t].at = "idle"
    /\ \E w \in wire :
          /\ wire' = wire \ {w}
          /\ thread' = [thread EXCEPT ![t].at = "dispatch", ![t].now = w.req,
                                      ![t].client = w.ticket]
    /\ UNCHANGED <<stores, incident, counts, epoch>>

\* The answer leaves the handler: to the client, or to the thread that still waits for it.
Leave(t) ==
    /\ thread[t].at = "answer" /\ thread[t].stack = <<>>
    /\ thread' = [u \in Threads |->
                    IF u = t THEN Idle
                    ELSE IF thread[u].at = "proxy" /\ thread[u].ticket = thread[t].client
                    THEN [thread[u] EXCEPT !.at = "proxied", !.answer = thread[t].answer]
                    ELSE thread[u]]
    /\ UNCHANGED <<stores, incident, wire, counts, epoch>>

-----------------------------------------------------------------------------
(* The stores                                                              *)

SaveScenarios(ss, rs) == files' = [files EXCEPT !.scenarios = ss, !.runs = rs]
SaveTargets(ts) == files' = [files EXCEPT !.targets = ts]

\* A handler that refuses, or only reads.
Refuse(t, status) == Replies(t, Refusal(status)) /\ UNCHANGED <<stores, mishaps>>

SetScenario(t, s, scenario) ==
    /\ scenarios' = [scenarios EXCEPT ![s] = scenario]
    /\ SaveScenarios(scenarios', runs)
    /\ Replies(t, Done)
    /\ UNCHANGED <<runs, index, targets, mishaps>>

\* POST /api/scenarios
Create(t) ==
    /\ At(t, "dispatch", "create")
    /\ LET r == thread[t].now IN
       IF ~Acceptable(r.new) THEN Refuse(t, 400)
       ELSE IF Cardinality(Defined(scenarios)) >= MaxScenarios THEN Refuse(t, 413)
       ELSE IF scenarios[r.id] # None \/ Named(scenarios, r.new.name, None) THEN Refuse(t, 409)
       ELSE SetScenario(t, r.id, r.new)

\* PUT /api/scenarios/{id}: looked for, and then updated under the lock.
Look(t) ==
    /\ At(t, "dispatch", "update")
    /\ LET r == thread[t].now IN
       IF scenarios[r.id] = None THEN Refuse(t, 404)
       ELSE IF ~Acceptable(r.new) THEN Refuse(t, 400)
       ELSE Goes(t, "change") /\ UNCHANGED <<stores, mishaps>>

Update(t) ==
    /\ At(t, "change", "update")
    /\ LET r == thread[t].now IN
       IF scenarios[r.id] = None THEN Refuse(t, 404)
       ELSE IF Named(scenarios, r.new.name, r.id) THEN Refuse(t, 409)
       ELSE SetScenario(t, r.id, r.new)

\* Seeded bug: the list of the runs goes, the runs stay.
DeleteIndexOnly(t) ==
    /\ At(t, "dispatch", "delete")
    /\ LET s == thread[t].now.id IN
       IF scenarios[s] = None THEN Refuse(t, 404)
       ELSE /\ scenarios' = [scenarios EXCEPT ![s] = None]
            /\ index' = [index EXCEPT ![s] = <<>>]
            /\ SaveScenarios(scenarios', runs)
            /\ Replies(t, Done)
            /\ UNCHANGED <<runs, targets, mishaps>>

\* DELETE /api/scenarios/{id}: its runs go with it.
Delete(t) ==
    /\ At(t, "dispatch", "delete")
    /\ LET s == thread[t].now.id IN
       IF scenarios[s] = None THEN Refuse(t, 404)
       ELSE /\ scenarios' = [scenarios EXCEPT ![s] = None]
            /\ runs' = Subsequence(runs, {k \in DOMAIN runs : \A n \in DOMAIN index[s] :
                                                                index[s][n] # runs[k].number})
            /\ index' = [index EXCEPT ![s] = <<>>]
            /\ SaveScenarios(scenarios', runs')
            /\ Replies(t, Done)
            /\ UNCHANGED <<targets, mishaps>>

SetTarget(t, i, target) ==
    /\ targets' = [targets EXCEPT ![i] = target]
    /\ SaveTargets(targets')
    /\ Replies(t, Done)
    /\ UNCHANGED <<scenarios, runs, index, mishaps>>

\* POST and DELETE of /api/targets.
ChangeTargets(t) ==
    \/ /\ At(t, "dispatch", "create_target")
       /\ LET r == thread[t].now IN
          IF r.new.name = "" THEN Refuse(t, 400)
          ELSE IF Cardinality(Defined(targets)) >= MaxTargets THEN Refuse(t, 413)
          ELSE IF targets[r.id] # None \/ Named(targets, r.new.name, None) THEN Refuse(t, 409)
          ELSE SetTarget(t, r.id, r.new)
    \/ /\ At(t, "dispatch", "delete_target")
       /\ IF targets[thread[t].now.id] = None THEN Refuse(t, 404)
          ELSE SetTarget(t, thread[t].now.id, None)

\* PUT /api/targets/{id}: the payload is laid over a copy of the target, which must still
\* be a target ...
Merged(old, new) == [f \in DOMAIN old |-> IF f \in DOMAIN new THEN new[f] ELSE old[f]]

CopyTarget(t) ==
    /\ At(t, "dispatch", "update_target")
    /\ LET r == thread[t].now
           old == targets[r.id] IN
       IF old = None THEN Refuse(t, 404)
       ELSE IF Merged(old, r.new).name = "" THEN Refuse(t, 400)
       ELSE /\ thread' = [thread EXCEPT ![t].at = "change", ![t].copy = Merged(old, r.new)]
            /\ UNCHANGED <<stores, mishaps>>

\* ... and that takes the target's place, whatever it is by now.
UpdateTarget(t) ==
    /\ At(t, "change", "update_target")
    /\ LET i == thread[t].now.id IN
       IF targets[i] = None THEN Refuse(t, 404)
       ELSE IF Named(targets, thread[t].copy.name, i) THEN Refuse(t, 409)
       ELSE SetTarget(t, i, thread[t].copy)

Stores(t) ==
    /\ \/ Create(t) \/ Look(t) \/ Update(t) \/ Delete(t)
       \/ ChangeTargets(t) \/ CopyTarget(t) \/ UpdateTarget(t)
    /\ UNCHANGED <<incident, wire, sent, made, tickets, epoch>>

-----------------------------------------------------------------------------
(* Incidents                                                               *)

\* Seeded bug: the count goes on.
InstallUncounted(mode) ==
    /\ incident' = [incident EXCEPT !.mode = mode]
    /\ epoch' = [number |-> epoch.number + 1, own |-> 0,
                 strays |-> Cardinality({t \in Threads : thread[t].at = "decide"})]

\* POST /api/incidents/start and /stop: a profile that counts from 0.
Install(mode) ==
    /\ incident' = [mode |-> mode, affected |-> 0]
    /\ epoch' = [number |-> epoch.number + 1, own |-> 0,
                 strays |-> Cardinality({t \in Threads : thread[t].at = "decide"})]

SetIncident(t) ==
    /\ At(t, "dispatch", "incident")
    /\ Install(thread[t].now.mode)
    /\ Replies(t, Done)
    /\ UNCHANGED <<stores, wire, counts>>

\* _apply_incident_profile, where it is not skipped for the path: the profile is copied.
Applies(t, answer) ==
    IF incident.mode = "none" THEN Replies(t, answer)
    ELSE thread' = [thread EXCEPT ![t].at = "decide", ![t].answer = answer,
                       ![t].copy = [mode |-> incident.mode, epoch |-> epoch.number]]

\* A request that a route or a mock answers.
Call(t) ==
    /\ At(t, "dispatch", "call")
    /\ Applies(t, Done)
    /\ UNCHANGED <<stores, incident, wire, counts, epoch>>

Disturbed(answer, mode) ==
    CASE mode = "status_spike_503" -> Refusal(503)
      [] mode = "body_drop" -> [answer EXCEPT !.body = "empty"]
      [] mode = "fixed_latency" -> answer

\* The copy decides, by a draw for all but a latency (of more than 0), and the current
\* profile counts.
Decide(t) ==
    /\ thread[t].at = "decide"
    /\ LET copy == thread[t].copy IN
       \/ /\ copy.mode # "fixed_latency"
          /\ thread' = [thread EXCEPT ![t].at = "answer", ![t].copy = None]
          /\ UNCHANGED <<incident, epoch>>
       \/ /\ thread' = [thread EXCEPT ![t].at = "answer", ![t].copy = None,
                           ![t].answer = Disturbed(@, copy.mode)]
          /\ incident' = [incident EXCEPT !.affected = @ + 1]
          /\ epoch' = [epoch EXCEPT !.own = IF copy.epoch = epoch.number THEN @ + 1 ELSE @]
    /\ UNCHANGED <<stores, wire, counts>>

Incidents(t) == SetIncident(t) \/ Call(t) \/ Decide(t)

-----------------------------------------------------------------------------
(* Targets                                                                 *)

\* What the target has answered: to a client of the proxy in a 200, to a step as it is,
\* with the profile of this server laid over it.
Deliver(t, answer) ==
    LET r == thread[t].now IN
    IF r.kind = "proxy" THEN Replies(t, Done)
    ELSE IF r.req.kind = "call" THEN Applies(t, answer)
    ELSE Replies(t, answer)

\* POST /api/proxy/request ("proxy"), or a step with a target ("target"): the target is
\* looked up.  This server takes the request off the wire; another one answers or cannot
\* be reached.
ToTarget(t) ==
    /\ At(t, "dispatch", "proxy") \/ At(t, "dispatch", "target")
    /\ LET r == thread[t].now
           target == targets[r.target] IN
       IF target # None /\ target.url = "self"
       THEN /\ wire' = wire \union {[req |-> r.req, ticket |-> tickets + 1]}
            /\ thread' = [thread EXCEPT ![t].at = "proxy", ![t].ticket = tickets + 1]
            /\ tickets' = tickets + 1
       ELSE /\ IF target = None /\ r.kind = "proxy" THEN Replies(t, Refusal(404))
               ELSE Deliver(t, IF target = None THEN Refusal(404)
                               ELSE IF target.url = "down" THEN Refusal(504) ELSE Done)
            /\ UNCHANGED <<wire, tickets>>
    /\ UNCHANGED <<stores, incident, sent, mishaps, made, epoch>>

Proxied(t) ==
    /\ thread[t].at = "proxied"
    /\ Deliver(t, thread[t].answer)
    /\ UNCHANGED <<stores, incident, wire, counts, epoch>>

\* Seeded bug: the timeout is not passed on.
ProxyWaits(t) == FALSE /\ UNCHANGED vars

\* The read times out: a TimeoutError, which is no URLError.  The request stays on the wire.
ProxyTimesOut(t) ==
    /\ thread[t].at = "proxy"
    /\ Raises(t, thread[t].stack)
    /\ UNCHANGED <<stores, incident, wire, counts, epoch>>

Proxy(t) == ToTarget(t) \/ Proxied(t) \/ ProxyTimesOut(t)

-----------------------------------------------------------------------------
(* Runs                                                                    *)

\* POST /api/scenarios/{id}/run: the scenario as it is now.
Start(t) ==
    /\ At(t, "dispatch", "run")
    /\ LET r == thread[t].now
           scenario == scenarios[r.id] IN
       IF scenario = None THEN Replies(t, Refusal(404))
       ELSE IF Len(thread[t].stack) = MaxDepth THEN Raises(t, thread[t].stack)
       ELSE thread' = [thread EXCEPT ![t].at = "step",
                          ![t].stack = Append(@, [id |-> r.id, scenario |-> scenario,
                                                  seed |-> r.seed, results |-> <<>>])]
    /\ UNCHANGED <<stores, incident, wire, counts, epoch>>

\* Seeded bug: the step is that of the scenario as it is now.
StepOfNow(run) ==
    LET place == Len(run.results) + 1
        now == scenarios[run.id]
    IN  IF now # None /\ place <= Len(now.steps) THEN now.steps[place]
        ELSE run.scenario.steps[place]

\* The next step of a run.
StepOf(run) == run.scenario.steps[Len(run.results) + 1]

\* The request of the step is dispatched on this thread, to the server or to a target.
Step(t) ==
    /\ thread[t].at = "step"
    /\ ~Ends(Top(t).scenario, Top(t).results)
    /\ LET step == StepOf(Top(t)) IN
       thread' = [thread EXCEPT ![t].at = "dispatch",
                     ![t].now = IF step.target = "local" THEN step.req
                                ELSE [kind |-> "target", target |-> step.target, req |-> step.req]]
    /\ UNCHANGED <<stores, incident, wire, counts, epoch>>

\* ... and what has come back is judged.
Judge(t) ==
    /\ thread[t].at = "answer" /\ thread[t].stack # <<>>
    /\ LET run == Top(t)
           result == Judged(StepOf(run), thread[t].answer, run.seed, Len(run.results))
       IN  thread' = [thread EXCEPT ![t].at = "step", ![t].answer = None, ![t].now = None,
                          ![t].stack[Len(thread[t].stack)].results = Append(@, result)]
    /\ UNCHANGED <<stores, incident, wire, counts, epoch>>

\* The end of run_scenario, and add_run, which does not look whether the scenario is still
\* there.  A failed save leaves the run in memory and raises.
Finish(t) ==
    /\ thread[t].at = "step"
    /\ Ends(Top(t).scenario, Top(t).results)
    /\ LET run == Top(t)
           report == Report(made + 1, run.id, run.scenario, run.results)
           below == SubSeq(thread[t].stack, 1, Len(thread[t].stack) - 1)
       IN  /\ runs' = Append(runs, report)
           /\ index' = [index EXCEPT ![run.id] = Append(@, report.number)]
           /\ \/ /\ SaveScenarios(scenarios, runs')
                 /\ thread' = [thread EXCEPT ![t].at = "answer", ![t].answer = Done,
                                             ![t].stack = below]
                 /\ UNCHANGED mishaps
              \/ /\ mishaps < MaxMishaps
                 /\ mishaps' = mishaps + 1
                 /\ Raises(t, below)
                 /\ UNCHANGED files
    /\ made' = made + 1
    /\ UNCHANGED <<scenarios, targets, incident, wire, sent, tickets, epoch>>

Running(t) == Start(t) \/ Step(t) \/ Judge(t) \/ Finish(t)

-----------------------------------------------------------------------------
\* The process ends anywhere; another one loads the files.
Restart ==
    /\ mishaps < MaxMishaps
    /\ mishaps' = mishaps + 1
    /\ scenarios' = files.scenarios /\ runs' = files.runs /\ index' = Lists(runs')
    /\ targets' = files.targets
    /\ incident' = [mode |-> "none", affected |-> 0]
    /\ thread' = [t \in Threads |-> Idle]
    /\ wire' = {}
    /\ epoch' = [number |-> epoch.number + 1, own |-> 0, strays |-> 0]
    /\ UNCHANGED <<files, sent, made, tickets>>

Handle(t) == Stores(t) \/ Incidents(t) \/ Proxy(t) \/ Running(t) \/ Leave(t)

Next ==
    \/ Restart
    \/ \E t \in Threads : Handle(t) \/ TakeFromWire(t) \/ \E r \in Requests : Send(t, r)

Spec == Init /\ [][Next]_vars

\* Every thread goes on, and a socket that waits for an answer times out.
FairSpec == Spec /\ \A t \in Threads : WF_vars(Handle(t)) /\ WF_vars(TakeFromWire(t))
-----------------------------------------------------------------------------
(* Properties                                                              *)

\* The stores are in order, though runs end after the scenario they are of: the list of each
\* scenario is that of its runs, oldest first, as a restart would make it; names are
\* unique, limits hold, and runs are in one another only as deep as the stack allows.
TypeOK ==
    /\ index = Lists(runs)
    /\ InOrder(scenarios, MaxScenarios) /\ InOrder(targets, MaxTargets)
    /\ \A t \in Threads : Len(thread[t].stack) <= MaxDepth

\* A stored run reports the steps of one version of its scenario, in their order, up to the
\* first failure or to the end; it passes if no step failed, and a failed one loses points.
ReportFits == \A k \in DOMAIN runs : Fits(runs[k])

\* A profile counts the requests that it has disturbed, and besides at most those that an
\* older profile had under way when it was installed.
AffectedBounded == incident.affected <= epoch.own + epoch.strays

\* A thread comes to an end with every request: with runs of runs, and with targets that
\* are this server and for which no thread is left.
RequestsEnd == \A t \in Threads : thread[t].at # "idle" ~> thread[t].at \in {"idle", "gone"}
=============================================================================
