------------------------------ MODULE LiveFeed ------------------------------
(***************************************************************************)
(* The event hub and one client that follows it with a cursor: the         *)
(* playground page (snapshot polls, and an event stream) or the terminal   *)
(* client of tools/scenario_runner.py (curses, or plain when curses        *)
(* fails).  A snapshot changes nothing in the hub, so clients do not       *)
(* affect each other and one of either kind is enough.                     *)
(*                                                                         *)
(* A poll is answered in one step of the hub and applied in a later step   *)
(* of the client.  The page may have several answers under way at once     *)
(* (the fallback timer, the reconnect handler, a button) and apply them in *)
(* any order; the terminal client has one.                                 *)
(***************************************************************************)
EXTENDS EventHub, FiniteSets, FiniteSetsExt

CONSTANTS
    MaxEvents,   \* bound: events published by one server process
    MaxRestarts, \* bound: restarts of the server
    MaxFetches   \* bound: snapshot answers the page has under way

ASSUME FeedAssumption ==
    /\ MaxEvents \in Nat
    /\ MaxRestarts \in Nat
    /\ MaxFetches \in Nat \ {0}

VARIABLES
    mode,      \* "page", "curses", "plain", or "gone" once the plain loop has failed
    cursor,    \* lastEventId, state["last_event_id"]
    fetched,   \* snapshot answers under way to the client
    stream,    \* events of the page's open EventSource not yet dispatched
    boots,     \* restarts so far
    shown,     \* history: ids the client has shown
    told,      \* history: every id below was covered by overflowed = True
    cut,       \* history: every id up to this one was cut off by the limit
    mark       \* history: ids up to this one the client has from an earlier process

clientVars == <<mode, cursor, fetched, stream>>
historyVars == <<shown, told, cut, mark>>
vars == <<hubVars, clientVars, boots, historyVars>>

Init ==
    /\ HubInit
    /\ mode \in {"page", "curses"}
    /\ cursor = 0
    /\ fetched = {}
    /\ stream = << >>
    /\ boots = 0
    /\ shown = {}
    /\ told = 0
    /\ cut = 0
    /\ mark = 0

\* EVENT_TOPICS of the terminal client lacks the incident types.
Wanted == IF mode = "page" THEN Topics ELSE Topics \ {"incident"}

Ids(s) == {s[i].id : i \in DOMAIN s}
Answer == Snapshot(cursor, Wanted)

-----------------------------------------------------------------------------
(* The server                                                              *)

PublishEvent(t) ==
    /\ nextId <= MaxEvents
    /\ Publish(t)
    /\ UNCHANGED <<clientVars, boots, historyVars>>

\* What is under way may still be applied by the client that has received it.
RestartServer ==
    /\ boots < MaxRestarts
    /\ Restart
    /\ boots' = boots + 1
    /\ mark' = Max({mark, cursor} \cup Ids(stream) \cup {a.latest : a \in fetched})
    /\ told' = 0
    /\ cut' = 0
    /\ UNCHANGED <<clientVars, shown>>

\* The history of what the server admits to have left out of an answer.
NoteAnswer ==
    LET all == Since(cursor, Wanted)
        kept == Newest(all)
    IN  /\ told' = IF Overflowed(cursor) THEN Max({told, OldestId}) ELSE told
        /\ cut' = IF kept # all THEN Max({cut, kept[1].id - 1}) ELSE cut
        /\ UNCHANGED <<shown, mark>>

-----------------------------------------------------------------------------
(* The client                                                              *)

Poll ==
    /\ mode # "gone"
    /\ Cardinality(fetched) < (IF mode = "page" THEN MaxFetches ELSE 1)
    /\ fetched' = fetched \cup {Answer}
    /\ NoteAnswer
    /\ UNCHANGED <<hubVars, mode, cursor, stream, boots>>

\* Seeded bug: the page takes latest_id for its cursor, whatever it had.
AdvanceAssigned(a) ==
    CASE mode = "page"   -> a.latest
      [] mode = "curses" -> Max({IF a.overflowed THEN a.oldest ELSE cursor} \cup Ids(a.events))
      [] mode = "plain"  -> Max({cursor} \cup Ids(a.events))

\* The cursor after a snapshot: the page also takes latest_id, curses restarts from
\* oldest_id when events were lost.
Advance(a) ==
    CASE mode = "page"   -> Max({cursor, a.latest} \cup Ids(a.events))
      [] mode = "curses" -> Max({IF a.overflowed THEN a.oldest ELSE cursor} \cup Ids(a.events))
      [] mode = "plain"  -> Max({cursor} \cup Ids(a.events))

Apply(a) ==
    /\ a \in fetched
    /\ fetched' = fetched \ {a}
    /\ cursor' = Advance(a)
    /\ shown' = shown \cup Ids(a.events)
    /\ UNCHANGED <<hubVars, mode, stream, boots, told, cut, mark>>

\* startEventStream closes the old stream first.  The answer ends after one batch.
OpenStream ==
    /\ mode = "page"
    /\ stream' = Answer.events
    /\ NoteAnswer
    /\ UNCHANGED <<hubVars, mode, cursor, fetched, boots>>

\* One event is dispatched to its listener.
StreamNext ==
    /\ stream # << >>
    /\ stream' = Tail(stream)
    /\ cursor' = Max({cursor, stream[1].id})
    /\ shown' = shown \cup {stream[1].id}
    /\ UNCHANGED <<hubVars, mode, fetched, boots, told, cut, mark>>

\* onerror, a login or a new stream: what was not dispatched is dropped.
CloseStream ==
    /\ stream # << >>
    /\ stream' = << >>
    /\ UNCHANGED <<hubVars, mode, cursor, fetched, boots, historyVars>>

\* The terminal client forgets where it was.
StartOver ==
    /\ cursor' = 0
    /\ fetched' = {}
    /\ shown' = {}
    /\ told' = 0
    /\ cut' = 0
    /\ mark' = 0

\* A failed request raises in the terminal client: curses gives way to the plain
\* loop, which starts from 0, and the plain loop ends.
PollFails ==
    /\ mode \in {"curses", "plain"}
    /\ mode' = IF mode = "curses" THEN "plain" ELSE "gone"
    /\ StartOver
    /\ UNCHANGED <<hubVars, stream, boots>>

\* The r key, read by the curses loop between two polls.
ResetKey ==
    /\ mode = "curses"
    /\ fetched = {}
    /\ cursor # 0
    /\ StartOver
    /\ UNCHANGED <<hubVars, mode, stream, boots>>

-----------------------------------------------------------------------------
ApplyAny == \E a \in fetched : Apply(a)

Next ==
    \/ \E t \in Topics : PublishEvent(t)
    \/ RestartServer
    \/ Poll \/ ApplyAny \/ PollFails \/ ResetKey
    \/ OpenStream \/ StreamNext \/ CloseStream

Spec == Init /\ [][Next]_vars

(***************************************************************************)
(* The client polls again and again: the terminal client in its loop, the  *)
(* page on the fallback timer or, since a stream ends after one batch, in  *)
(* the handler of its end.  A received answer is applied.                  *)
(***************************************************************************)
Fairness == WF_vars(Poll) /\ WF_vars(ApplyAny)

FairSpec == Spec /\ Fairness
-----------------------------------------------------------------------------
(* Properties                                                              *)

\* What a snapshot may be.
Answers == [events : Seq(Events), latest : Nat, oldest : Nat, overflowed : BOOLEAN]

\* Every variable of the hub and of the client keeps the kind of value the code
\* gives it.
TypeOK ==
    /\ HubTypeOK
    /\ mode \in {"page", "curses", "plain", "gone"}
    /\ cursor \in Nat
    /\ fetched \subseteq Answers
    /\ Cardinality(fetched) <= MaxFetches
    /\ stream \in Seq(Events)
    /\ boots \in Nat
    /\ shown \subseteq Nat
    /\ told \in Nat /\ cut \in Nat /\ mark \in Nat

Known(i) == i \in shown \/ i < told \/ i <= cut
Due(i) == mark < i /\ i < nextId /\ topicOf[i] \in Wanted

\* A cursor passes an event only if the client has shown it, or an answer reported
\* the overflow that lost it, or the limit cut it off: answers applied out of order,
\* a closed stream, or a topic filter lose nothing more.
NoOtherLoss == \A i \in 1 .. cursor : Due(i) => Known(i)

\* Until it starts over the terminal client shows no event twice, not even when the
\* server has restarted and the ids with it.
ShownOnce ==
    [][\A a \in fetched : mode # "page" /\ Apply(a) => Ids(a.events) \cap shown = {}]_vars

\* No answer moves a cursor back: only starting over does.
CursorNeverBack == [][cursor' < cursor => PollFails \/ ResetKey]_vars

\* Every event of a topic the client follows is eventually known to it, unless the
\* server restarts or the client ends.
EventuallyKnown ==
    \A i \in 1 .. MaxEvents, b \in 0 .. MaxRestarts :
        (boots = b /\ Due(i)) ~> (Known(i) \/ boots # b \/ mode = "gone")

-----------------------------------------------------------------------------
(* What the code's own words say of it, and does not hold                  *)

\* "GET /api/events/snapshot -> pull event batches since cursor" (docs/reference.md):
\* unless an overflow is reported, the batches together are the events.
BatchesSinceCursor == \A i \in 1 .. cursor : Due(i) => i \in shown \/ i < told
=============================================================================
