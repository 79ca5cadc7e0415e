--------------------------- MODULE PlaygroundStore ---------------------------
(***************************************************************************)
(* The mock routes and the request history of the API playground           *)
(* (src/playground_store.py), the handlers that change them                *)
(* (src/playground_api.py, src/dynamic_mock_dispatch.py) and the record    *)
(* that the server makes of every request it has answered.                 *)
(*                                                                         *)
(* The store is a map and a list in memory under one lock, written as a    *)
(* whole to a file after every change.  Each thread of the server works on *)
(* one request; one critical section of the store is one step, so another  *)
(* thread acts between the validation of an update and the update itself.  *)
(* A save may fail, which leaves the change in memory and raises, and the  *)
(* process may crash, which leaves the file.                               *)
(*                                                                         *)
(* Method and path are one route.  Of the values that a client may send    *)
(* only those are told apart that the code treats in different ways.       *)
(***************************************************************************)
EXTENDS Naturals, FiniteSets, Sequences

CONSTANTS
    Threads,       \* the threads that handle requests
    Ids,           \* the ids of mocks
    Routes,        \* pairs of a method and a path
    Reserved,      \* those of them that is_reserved_path knows
    Requests,      \* bound: the requests that clients send (see RequestAssumption)
    MaxMocks,      \* --max-mock-routes
    HistoryLimit,  \* --history-limit
    MaxRequests,   \* bound: how many requests are sent
    MaxMishaps,    \* bound: how many saves fail and how often the process crashes
    None,          \* there is no such mock
    Keep,          \* the payload of an update does not have this key
    Unknown        \* history: what is stored for an id has not been acknowledged

ASSUME StoreAssumption ==
    /\ MaxMocks \in Nat \ {0} /\ HistoryLimit \in Nat \ {0}
    /\ MaxRequests \in Nat /\ MaxMishaps \in Nat
    /\ Reserved \subseteq Routes
    /\ None \notin Ids

\* Headers: an object, null, or a text; null is no object, but the validation lets it pass.
Payloads == [route : Routes \union {Keep}, status : {100, 599, 600, Keep},
             headers : {"object", "null", "text", Keep}, body : {"short", "long", Keep}]

\* "read" is every request that changes nothing, a call of a mock route included.
Plain == [kind : {"create", "update"}, id : Ids, new : Payloads] \union
         [kind : {"delete"}, id : Ids] \union [kind : {"read"}] \union
         [kind : {"replay"}, of : Nat]

\* A request is plain, or asks /api/playground/request to dispatch a plain one.
ASSUME RequestAssumption ==
    \A r \in Requests : r \in Plain \/ (r.kind = "execute" /\ r.inner \in Plain)

VARIABLES
    mocks,     \* _mocks
    history,   \* _history: the number of a request and its replay input
    file,      \* the contents of the state file
    thread,    \* of each thread: where it is, its request, and what it now dispatches
    sent,      \* the number of requests so far, which are numbered in this order
    mishaps,   \* the number of failed saves and crashes so far
    acked,     \* history: what was last acknowledged for each id
    recorded   \* history: the last HistoryLimit requests recorded; has the save gone well?

vars == <<mocks, history, file, thread, sent, mishaps, acked, recorded>>

Idle == [at |-> "idle", number |-> 0, asked |-> None, now |-> None]

\* __init__, where there is no file yet.
Init ==
    /\ mocks = [i \in Ids |-> None] /\ history = <<>>
    /\ file = [mocks |-> mocks, history |-> history]
    /\ thread = [t \in Threads |-> Idle]
    /\ sent = 0 /\ mishaps = 0
    /\ acked = [i \in Ids |-> None] /\ recorded = <<>>

Stored == {i \in Ids : mocks[i] # None}

Goes(t, at) == thread' = [thread EXCEPT ![t].at = at]

\* The exception leaves the handler: nothing is recorded of this request, and the thread
\* ends with it.
Raises(t) == thread' = [thread EXCEPT ![t] = [Idle EXCEPT !.at = "gone"]]

-----------------------------------------------------------------------------
(* The file                                                                *)

\* _save_state_locked: the whole state, in a file that replaces the old one.
Save(ms, hs) == file' = [mocks |-> ms, history |-> hs]

\* _save_state_locked fails before the file is replaced.
SaveFails ==
    /\ mishaps < MaxMishaps
    /\ mishaps' = mishaps + 1
    /\ UNCHANGED file

\* The change of mock i is saved and acknowledged, or an OSError leaves the handler.
SaveMock(t, i) ==
    \/ /\ Save(mocks', history) /\ Goes(t, "record")
       /\ acked' = [acked EXCEPT ![i] = mocks'[i]]
       /\ UNCHANGED mishaps
    \/ /\ SaveFails /\ Raises(t)
       /\ acked' = [acked EXCEPT ![i] = Unknown]

LastOnes(s) == SubSeq(s, IF Len(s) > HistoryLimit THEN Len(s) - HistoryLimit + 1 ELSE 1, Len(s))

\* Seeded bug: the first records are kept, not the last.
KeptFirst(s) == SubSeq(s, 1, IF Len(s) > HistoryLimit THEN HistoryLimit ELSE Len(s))

\* At most HistoryLimit records are kept, the last ones.
Kept(s) == LastOnes(s)

\* The process ends anywhere, and another one loads the file.
Restart ==
    /\ mishaps < MaxMishaps
    /\ mishaps' = mishaps + 1
    /\ mocks' = file.mocks
    /\ history' = Kept(file.history)
    /\ thread' = [t \in Threads |-> Idle]
    /\ UNCHANGED <<file, sent, acked, recorded>>

-----------------------------------------------------------------------------
(* Validation                                                              *)

Either(value, default) == IF value = Keep THEN default ELSE value

Given(new, default) == [route |-> Either(new.route, default.route),
                        status |-> Either(new.status, default.status),
                        body |-> Either(new.body, default.body)]

Fresh == [route |-> None, status |-> 100, body |-> "short"]

\* validate_mock_payload
Valid(mock, headers) ==
    /\ mock.route \in Routes \ Reserved
    /\ mock.status \in 100..599
    /\ headers # "text"
    /\ mock.body = "short"

\* Seeded bug: the routes that are looked through are those of the file.
TakenInFile(route, id) ==
    \E i \in Ids \ {id} : file.mocks[i] # None /\ file.mocks[i].route = route

\* _ensure_unique_locked
Taken(route, id) == \E i \in Stored \ {id} : mocks[i].route = route

-----------------------------------------------------------------------------
(* Requests                                                                *)

\* The number of a request is a random id; a client knows it from the answer.
Known(n) == n <= sent /\ \A t \in Threads : thread[t].number = n => thread[t].at = "record"

Send(t, r) ==
    /\ thread[t] = Idle /\ sent < MaxRequests
    /\ r.kind = "replay" => Known(r.of)
    /\ sent' = sent + 1
    /\ thread' = [thread EXCEPT ![t] = [at |-> "dispatch", number |-> sent + 1, asked |-> r,
                                        now |-> r]]
    /\ UNCHANGED <<mocks, history, file, mishaps, acked, recorded>>

\* What thread t has to dispatch, and its way of answering without a change.
Dispatches(t, kind) == thread[t].at = "dispatch" /\ thread[t].now.kind = kind

Answers(t) ==
    /\ Goes(t, "record")
    /\ UNCHANGED <<mocks, history, file, sent, mishaps, acked, recorded>>

Read(t) == Dispatches(t, "read") /\ Answers(t)

\* Seeded bug: one more is let in.
FullLate == Cardinality(Stored) > MaxMocks

Full == Cardinality(Stored) >= MaxMocks

\* POST /api/mocks: 400 or 403, 413 or 409 without a change; a headers of null raises as
\* the mock is built, before it is stored.
Create(t) ==
    /\ Dispatches(t, "create")
    /\ LET r == thread[t].now
           mock == Given(r.new, Fresh)
           ok == Valid(mock, r.new.headers) /\ ~Full /\ ~Taken(mock.route, None)
                 /\ mocks[r.id] = None
       IN  \/ ~ok /\ Answers(t)
           \/ /\ ok /\ r.new.headers = "null" /\ Raises(t)
              /\ UNCHANGED <<mocks, history, file, sent, mishaps, acked, recorded>>
           \/ /\ ok /\ r.new.headers # "null"
              /\ mocks' = [mocks EXCEPT ![r.id] = mock]
              /\ SaveMock(t, r.id)
              /\ UNCHANGED <<history, sent, recorded>>

\* PUT /api/mocks/{id}, up to update_mock: what is validated is a copy of the mock with the
\* payload laid over it, and only if the payload has a method, a path or a status.
Validate(t) ==
    /\ Dispatches(t, "update")
    /\ LET r == thread[t].now
           checked == r.new.route # Keep \/ r.new.status # Keep
           refused == checked /\ (mocks[r.id] = None
                                    \/ ~Valid(Given(r.new, mocks[r.id]), r.new.headers))
       IN  Goes(t, IF refused THEN "record" ELSE "update")
    /\ UNCHANGED <<mocks, history, file, sent, mishaps, acked, recorded>>

\* update_mock: method, path and status of the stored mock are assigned one by one, then
\* dict(headers) raises for null, a TypeError that nobody catches, and for a text, a
\* ValueError that is answered with 400; neither is undone or saved.
Update(t) ==
    /\ thread[t].at = "update"
    /\ LET r == thread[t].now
           new == r.new
           old == mocks[r.id]
           mock == Given(new, old)
       IN  \/ old = None /\ Answers(t)
           \/ old # None /\ Taken(mock.route, r.id) /\ Answers(t)
           \/ /\ old # None /\ ~Taken(mock.route, r.id)
              /\ new.headers \in {"null", "text"}
              /\ mocks' = [mocks EXCEPT ![r.id] = [mock EXCEPT !.body = old.body]]
              /\ acked' = [acked EXCEPT ![r.id] = IF mocks'[r.id] = old THEN @ ELSE Unknown]
              /\ IF new.headers = "null" THEN Raises(t) ELSE Goes(t, "record")
              /\ UNCHANGED <<history, file, sent, mishaps, recorded>>
           \/ /\ old # None /\ ~Taken(mock.route, r.id)
              /\ new.headers \in {"object", Keep}
              /\ mocks' = [mocks EXCEPT ![r.id] = mock]
              /\ SaveMock(t, r.id)
              /\ UNCHANGED <<history, sent, recorded>>

\* Seeded bug: the file is not written.
DeleteUnsaved(t) ==
    /\ Dispatches(t, "delete")
    /\ LET i == thread[t].now.id IN
       /\ mocks' = [mocks EXCEPT ![i] = None]
       /\ acked' = [acked EXCEPT ![i] = None]
    /\ Goes(t, "record")
    /\ UNCHANGED <<history, file, sent, mishaps, recorded>>

\* DELETE /api/mocks/{id}
Delete(t) ==
    /\ Dispatches(t, "delete")
    /\ LET i == thread[t].now.id IN
       \/ mocks[i] = None /\ Answers(t)
       \/ /\ mocks[i] # None
          /\ mocks' = [mocks EXCEPT ![i] = None]
          /\ SaveMock(t, i)
          /\ UNCHANGED <<history, sent, recorded>>

\* POST /api/replay/{number} looks from the end of the history, and dispatches what it has
\* found; POST /api/playground/request dispatches what its body says.
Redispatch(t) ==
    /\ \/ /\ Dispatches(t, "execute")
          /\ thread' = [thread EXCEPT ![t].now = @.inner]
       \/ /\ Dispatches(t, "replay")
          /\ \/ \E k \in 1..Len(history) :
                   /\ history[k].number = thread[t].now.of
                   /\ thread' = [thread EXCEPT ![t].now = history[k].asked]
             \/ /\ \A k \in 1..Len(history) : history[k].number # thread[t].now.of
                /\ Goes(t, "record")
    /\ UNCHANGED <<mocks, history, file, sent, mishaps, acked, recorded>>

\* _record_and_log, once the answer is written: add_history with the number of the request
\* that the client sent.
Finish(t) ==
    /\ thread[t].at = "record"
    /\ history' = Kept(Append(history, [number |-> thread[t].number, asked |-> thread[t].asked]))
    /\ \/ Save(mocks, history') /\ UNCHANGED mishaps /\ thread' = [thread EXCEPT ![t] = Idle]
       \/ SaveFails /\ Raises(t)
    /\ recorded' = LastOnes(Append(recorded, [number |-> thread[t].number,
                                              saved |-> file' # file]))
    /\ UNCHANGED <<mocks, sent, acked>>

Handle(t) ==
    Read(t) \/ Create(t) \/ Validate(t) \/ Update(t) \/ Delete(t) \/ Redispatch(t) \/ Finish(t)

Next ==
    \/ Restart
    \/ \E t \in Threads : Handle(t) \/ \E r \in Requests : Send(t, r)

Spec == Init /\ [][Next]_vars

-----------------------------------------------------------------------------
(* Properties                                                              *)

Mocks == [route : Routes \ Reserved, status : 100..599, body : {"short", "long"}]

\* Limits hold in memory and in the file, across restarts; what is stored can be served;
\* a recorded replay is of a request sent before it, so replaying replays comes to an end.
TypeOK ==
    /\ \A ms \in {mocks, file.mocks} :
          /\ ms \in [Ids -> Mocks \union {None}]
          /\ Cardinality({i \in Ids : ms[i] # None}) <= MaxMocks
    /\ \A h \in {history, file.history} :
          /\ Len(h) <= HistoryLimit
          /\ \A k \in 1..Len(h) : h[k].asked.kind = "replay" => h[k].asked.of < h[k].number

\* Two mocks never have the same method and path, neither in memory nor in the file, though
\* failed saves and updates that raise make these two differ.
RoutesUnique ==
    \A ms \in {mocks, file.mocks} : \A i, j \in Ids :
        ms[i] # None /\ ms[j] # None /\ ms[i].route = ms[j].route => i = j

\* What a client was told of a mock is what is served and what a restart finds, until
\* somebody changes it again or fails to.
AckedKept ==
    \A i \in Ids : acked[i] # Unknown => mocks[i] = acked[i] /\ file.mocks[i] = acked[i]

\* A saved record stays replayable, after a restart too, until HistoryLimit newer ones
\* have come.
RecentKept ==
    \A k \in 1..Len(recorded) : recorded[k].saved =>
            \E j \in 1..Len(file.history) : file.history[j].number = recorded[k].number
=============================================================================
