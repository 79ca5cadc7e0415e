------------------------------ MODULE EventHub ------------------------------
(***************************************************************************)
(* The live-event buffer of src/event_hub.py: a deque of the newest        *)
(* events, numbered from 1, and the snapshot that answers a poll.          *)
(*                                                                         *)
(* publish() and the first half of snapshot() run under one lock; the rest *)
(* of snapshot() works on a copy, so each is one step.                     *)
(***************************************************************************)
EXTENDS Subsequences

CONSTANTS
    BufferSize,  \* max(100, buffer_size)
    Limit,       \* the limit a poll asks for (default 200, playground 250, CLI 300)
    Topics       \* the event types

ASSUME HubAssumption ==
    /\ BufferSize \in Nat \ {0}
    /\ Limit \in Nat \ {0}

VARIABLES
    events,   \* _events, oldest first
    nextId,   \* _next_id
    topicOf   \* history: the type of every event published since the start

hubVars == <<events, nextId, topicOf>>

Events == [id : Nat, type : Topics]

HubInit ==
    /\ events = << >>
    /\ nextId = 1
    /\ topicOf = << >>

\* Seeded bug: the bound admits one event too many.
EvictLate(s) == IF Len(s) > BufferSize + 1 THEN Tail(s) ELSE s

\* deque(maxlen): one more than fits pushes the oldest out.
Evict(s) == IF Len(s) > BufferSize THEN Tail(s) ELSE s

\* Seeded bug: a full buffer turns the new event away, which has its id already.
PublishRefused(t) ==
    /\ events' = IF Len(events) = BufferSize THEN events
                 ELSE Append(events, [id |-> nextId, type |-> t])
    /\ nextId' = nextId + 1
    /\ topicOf' = Append(topicOf, t)

Publish(t) ==
    /\ events' = Evict(Append(events, [id |-> nextId, type |-> t]))
    /\ nextId' = nextId + 1
    /\ topicOf' = Append(topicOf, t)

\* A new server process: nothing of the hub is persisted.
Restart ==
    /\ events' = << >>
    /\ nextId' = 1
    /\ topicOf' = << >>

LatestId == nextId - 1
OldestId == IF events = << >> THEN nextId ELSE events[1].id

\* The places of the buffered events that an answer may hold.
Places(since, wanted) == {i \in DOMAIN events : events[i].id > since /\ events[i].type \in wanted}

\* Seeded bug: the cursor itself is sent again.
SinceInclusive(since, wanted) ==
    Subsequence(events, {i \in DOMAIN events :
                            events[i].id >= since /\ events[i].type \in wanted})

\* Seeded bug: the event after the cursor is skipped.
SinceSkipsOne(since, wanted) == Subsequence(events, Places(since + 1, wanted))

Since(since, wanted) == Subsequence(events, Places(since, wanted))

\* filtered[-limit:]: the newest ones are kept.
Newest(s) == IF Len(s) > Limit THEN SubSeq(s, Len(s) - Limit + 1, Len(s)) ELSE s

\* Seeded bug: one evicted event goes unreported.
OverflowedLate(since) == since + 2 < OldestId

\* since_id < oldest_id - 1
Overflowed(since) == since + 1 < OldestId

Snapshot(since, wanted) ==
    [ events     |-> Newest(Since(since, wanted)),
      latest     |-> LatestId,
      oldest     |-> OldestId,
      overflowed |-> Overflowed(since) ]

-----------------------------------------------------------------------------
\* Every variable of the hub keeps the kind of value the code gives it, and the
\* deque never holds more than its bound.
HubTypeOK ==
    /\ events \in Seq(Events)
    /\ Len(events) <= BufferSize
    /\ nextId \in Nat \ {0}
    /\ topicOf \in Seq(Topics)
    /\ Len(topicOf) = nextId - 1

\* The buffer is the newest window of what was published, without holes: its ids are
\* consecutive, end at latest_id, and it is short only while nothing was evicted.
HubWindow ==
    /\ \A i \in DOMAIN events :
          /\ events[i].id = nextId - 1 - Len(events) + i
          /\ events[i].type = topicOf[events[i].id]
    /\ Len(events) < BufferSize => Len(events) = nextId - 1
=============================================================================
