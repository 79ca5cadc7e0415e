----------------------------- MODULE TrendStore -----------------------------
(***************************************************************************)
(* The metric trends of src/metrics_store.py: finished requests are        *)
(* counted into pending rows, and a flush moves these into the store, a    *)
(* map in memory or a table of one sqlite connection that every thread     *)
(* uses, and so one transaction for all of them.                           *)
(*                                                                         *)
(* A row is the sum of the requests counted into it, so a set of rows is   *)
(* modelled by the set of those requests; all of them are younger than the *)
(* cutoff of a prune.  The threads that flush are the Actors: a flush of   *)
(* the sqlite store takes the pending rows under the lock, writes them and *)
(* commits, and other threads act in between.                              *)
(***************************************************************************)
EXTENDS Naturals

CONSTANTS
    Requests,  \* bound: the requests that are recorded
    Actors,    \* the threads that flush
    Closer,    \* the one that flushes only to close the store
    Backends,  \* the --metrics-backend values that are tried
    MayFail    \* may the database refuse a write?

ASSUME StoreAssumption ==
    /\ Backends \subseteq {"memory", "sqlite"}
    /\ MayFail \in BOOLEAN

VARIABLES
    backend,  \* backend_name
    pending,  \* _pending
    stage,    \* where the flush of each actor is
    hand,     \* the rows that flush has taken out of pending
    txn,      \* written by somebody and not committed yet
    rows,     \* _rows, or the committed table
    dbOpen,   \* the connection has not been closed
    raised,   \* the exception of its last flush has reached the actor
    lost,     \* history: the requests whose rows a failed write took along
    sealed,   \* history: the flush of close() has begun
    late      \* history: the requests recorded after that

storeVars == <<backend, pending, stage, hand, txn, rows, dbOpen, raised, lost,
             sealed, late>>

StoreInit ==
    /\ backend \in Backends
    /\ pending = {} /\ txn = {} /\ rows = {} /\ lost = {} /\ late = {}
    /\ stage = [a \in Actors |-> "idle"]
    /\ hand = [a \in Actors |-> {}]
    /\ raised = [a \in Actors |-> FALSE]
    /\ dbOpen = TRUE /\ sealed = FALSE

\* record_request: the request is accumulated into its two rows.
Record(r) ==
    /\ pending' = pending \union {r}
    /\ late' = IF sealed THEN late \union {r} ELSE late
    /\ UNCHANGED <<backend, stage, hand, txn, rows, dbOpen, raised, lost, sealed>>

\* Seeded bug: the pending rows are written and kept.
FlushTakeKeeps(a) ==
    /\ IF backend = "memory"
       THEN rows' = rows \union pending /\ UNCHANGED <<stage, hand>>
       ELSE /\ stage' = [stage EXCEPT ![a] = "taken"]
            /\ hand' = [hand EXCEPT ![a] = pending]
            /\ UNCHANGED rows
    /\ UNCHANGED pending

\* The part of flush under the lock; the memory store merges the rows there.
FlushTake(a) ==
    /\ IF backend = "memory"
       THEN rows' = rows \union pending /\ UNCHANGED <<stage, hand>>
       ELSE /\ stage' = [stage EXCEPT ![a] = "taken"]
            /\ hand' = [hand EXCEPT ![a] = pending]
            /\ UNCHANGED rows
    /\ pending' = {}

\* flush, up to the release of the lock.
FlushBegin(a) ==
    /\ stage[a] = "idle"
    /\ IF pending = {} THEN UNCHANGED <<pending, stage, hand, rows>> ELSE FlushTake(a)
    /\ sealed' = (sealed \/ a = Closer)
    /\ UNCHANGED <<backend, txn, dbOpen, raised, lost, late>>

\* executemany on an open connection.
FlushWrite(a) ==
    /\ stage[a] = "taken" /\ dbOpen
    /\ stage' = [stage EXCEPT ![a] = "written"]
    /\ txn' = txn \union hand[a]
    /\ UNCHANGED <<backend, pending, hand, rows, dbOpen, raised, lost, sealed, late>>

\* The connection's commit takes everything in the transaction with it.
FlushCommit(a) ==
    /\ stage[a] = "written" /\ dbOpen
    /\ stage' = [stage EXCEPT ![a] = "idle"]
    /\ hand' = [hand EXCEPT ![a] = {}]
    /\ rows' = rows \union txn
    /\ txn' = {}
    /\ UNCHANGED <<backend, pending, dbOpen, raised, lost, sealed, late>>

\* The database refuses, or the connection is closed: the rows in hand are gone, and the
\* rollback takes everything in the transaction with it.
FlushRaises(a) ==
    /\ stage[a] # "idle"
    /\ MayFail \/ ~dbOpen
    /\ stage' = [stage EXCEPT ![a] = "idle"]
    /\ hand' = [hand EXCEPT ![a] = {}]
    /\ txn' = {}
    /\ lost' = (lost \union hand[a] \union txn) \ rows
    /\ raised' = [raised EXCEPT ![a] = TRUE]
    /\ UNCHANGED <<backend, pending, rows, dbOpen, sealed, late>>

Flushing(a) == FlushWrite(a) \/ FlushCommit(a) \/ FlushRaises(a)

\* A flush has nothing to do, or has ended.
Flushed(a) == stage[a] = "idle"

\* Seeded bug: the prune empties pending.
PrunePending ==
    /\ dbOpen
    /\ rows' = rows \union txn
    /\ txn' = {}
    /\ pending' = {}
    /\ UNCHANGED <<backend, stage, hand, dbOpen, raised, lost, sealed, late>>

\* prune_older_than, after its flush; there is nothing to delete, but the commit
\* of the delete takes what it finds in the transaction.
Prune ==
    /\ dbOpen
    /\ rows' = rows \union txn
    /\ txn' = {}
    /\ UNCHANGED <<backend, pending, stage, hand, dbOpen, raised, lost, sealed, late>>

\* The database refuses the delete, and the rollback takes everything with it.
PruneRaises ==
    /\ dbOpen /\ MayFail /\ backend = "sqlite"
    /\ txn' = {}
    /\ lost' = lost \union txn
    /\ UNCHANGED <<backend, pending, stage, hand, rows, dbOpen, raised, sealed, late>>

\* close, after its flush, whether that has raised or not: an open transaction is undone.
CloseStore ==
    /\ dbOpen' = (backend = "memory")
    /\ txn' = {}
    /\ lost' = lost \union txn
    /\ UNCHANGED <<backend, pending, stage, hand, rows, raised, sealed, late>>

InHand == UNION {hand[a] : a \in Actors}
-----------------------------------------------------------------------------
StoreTypeOK ==
    /\ backend \in Backends
    /\ \A s \in {pending, txn, rows, lost, late} : s \subseteq Requests
    /\ stage \in [Actors -> {"idle", "taken", "written"}]
    /\ hand \in [Actors -> SUBSET Requests]
    /\ raised \in [Actors -> BOOLEAN] /\ {dbOpen, sealed} \subseteq BOOLEAN
    /\ \A a, b \in Actors : a # b => hand[a] \intersect hand[b] = {}
    /\ pending \intersect (rows \union InHand) = {}
=============================================================================
