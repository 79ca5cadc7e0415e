-------------------------- MODULE LifecycleProofs --------------------------
(***************************************************************************)
(* Proofs about Lifecycle, for any clients and any sizes of the queue, the *)
(* pool and the connection limit: in whatever order the accept loop or the *)
(* event loop, stop(), the signal handler, the workers and the metrics     *)
(* worker come.                                                            *)
(***************************************************************************)
EXTENDS Lifecycle, FiniteSetTheorems, TLAPS

USE LifecycleAssumption, StoreAssumption DEF Clients

-----------------------------------------------------------------------------
(* The strengthenings                                                      *)

\* The finally block of a loop, and what comes after it.
LoopEnd == {"final", "shutdown", "wait", "flush", "close", "returned", "failed"}

\* stop() has not set the phase yet; has set _running to False.
Early == {"idle", "phase"}
Halted == {"shutdown", "wait", "close", "join", "flush", "done", "error"}

\* What each variable may be.
StateOK ==
    /\ engine \in {"threadpool", "selectors"}
    /\ phase \in {"running", "draining", "stopped"}
    /\ shut \in {"no", "waiting", "stopped"} /\ shutBy \in {"loop", "stop", Nobody}
    /\ loop \in {"accept", "more", "check", "submit", "put", "serve"} \union LoopEnd
    /\ stopper \in Early \union {"clock", "poll", "halt"} \union Halted
    /\ cause \subseteq Causes

\* What each engine never uses.
EngineInv ==
    /\ engine = "selectors" =>
          /\ ~pool /\ shut = "no"
          /\ loop \notin {"put", "shutdown", "wait"} /\ stopper \notin {"shutdown", "wait"}
    /\ engine = "threadpool" => loop \notin {"serve", "more"}

\* What the clients of each engine never come to.
ClientInv ==
    /\ client \in [Clients -> ClientStates]
    /\ engine = "selectors" =>
          \A c \in Clients : client[c] \notin {"queued", "taken", "reading", "raised"}
    /\ engine = "threadpool" => \A c \in Clients : client[c] # "conn"

\* The loop has one client in its hands, or none.
HeldInv ==
    /\ loop \in Holding => held \in Clients /\ client[held] = "held"
    /\ loop = "serve" => held \in Clients /\ client[held] \in {"inflight", "dropped"}
    /\ loop \notin Holding \union {"serve"} => held = Nobody
    /\ \A c \in Clients : client[c] = "held" => c = held /\ loop \in Holding
    /\ engine = "selectors" =>
          \A c \in Clients : client[c] = "inflight" => c = held /\ loop = "serve"

\* The queue and the connections keep their limits; a client that passed the check finds room.
LimitInv ==
    /\ IsFiniteSet(InState("queued")) /\ Cardinality(InState("queued")) <= QueueSize
    /\ IsFiniteSet(InState("conn")) /\ Cardinality(InState("conn")) <= MaxConns
    /\ engine = "selectors" /\ loop = "submit" => Cardinality(InState("conn")) < MaxConns

\* The loop never ends by itself, but for an exception that leaves it.
Clean == cause \intersect {"oserror", "crash"} = {}

\* What the flags say of where the loop and stop() are.
FlagInv ==
    /\ ~running => stopper \in Halted \/ loop \in LoopEnd
    /\ stopper \in Halted => ~running
    /\ loop \in {"close", "returned"} => ~running
    /\ phase = "stopped" => loop = "returned"
    /\ Clean /\ stopper \in Early =>
          /\ running /\ listening /\ phase = "running" /\ loop \notin LoopEnd
          /\ engine = "threadpool" => pool
    /\ Clean /\ stopper # "idle" => ~accepting
    /\ Clean /\ stopper \notin Early \union {"clock"} => ~listening

\* The shutdown of the pool: whoever runs it waits in it, and _pool is None only after
\* somebody called it.
PoolInv ==
    engine = "threadpool" =>
        /\ ~pool => shut # "no"
        /\ loop \in {"wait", "flush", "close", "returned", "failed"} => shut # "no"
        /\ stopper = "wait" => shut # "no"
        /\ shut = "waiting" => \/ shutBy = "loop" /\ loop = "wait"
                               \/ shutBy = "stop" /\ stopper = "wait"
        /\ shut # "no" => ~running \/ loop \in LoopEnd
        /\ ~pool /\ shut = "waiting" => loop \in LoopEnd

\* Once the drain is over nobody is left but whom the loop had in its hands, and nobody
\* else gets into them.
InStates(S) == {c \in Clients : client[c] \in S}
AtMostOne(S) == \A x, y \in S : x = y
LeftInPool == {"queued", "taken", "reading", "inflight", "dropped", "held"}
LeftInLoop == {"conn", "inflight", "dropped", "held"}
PoolOver == shut = "stopped"
LoopDone == stopper \in Halted \union {"halt"} \/ loop \in LoopEnd

OneLeft(over, S) == IF over THEN AtMostOne(InStates(S) \ missed) ELSE InStates({"dropped"}) = {}

LossInv ==
    cause \subseteq {"pool"} =>
        /\ engine = "threadpool" => OneLeft(PoolOver, LeftInPool)
        /\ engine = "selectors" => OneLeft(LoopDone, LeftInLoop)

\* Of the store, when done is the set of the requests that were recorded: each of them is
\* in one of its places, and in the transaction are only rows that a flush still answers for.
StoreInv(done) ==
    /\ backend \in Backends
    /\ stage \in [Actors -> {"idle", "taken", "written"}]
    /\ hand \in [Actors -> SUBSET Requests]
    /\ done \subseteq Requests /\ lost \subseteq Requests /\ late \subseteq Requests
    /\ done \subseteq pending \union InHand \union rows \union lost
    /\ pending \union InHand \union rows \union txn \subseteq done
    /\ pending \intersect (rows \union InHand) = {}
    /\ \A a, b \in Actors : a # b => hand[a] \intersect hand[b] = {}
    /\ \A a \in Actors : stage[a] = "idle" => hand[a] = {}
    /\ \A a \in Actors : stage[a] = "written" => hand[a] \subseteq txn \union rows \union lost
    /\ txn \subseteq InHand
    /\ sealed => pending \subseteq late

Recorded == InState("answered") \union InState("refused")

SealInv ==
    /\ loop \in {"close", "returned"} => sealed
    /\ loop = "failed" /\ "pool" \notin cause => sealed

\* The other variables keep their kind.
KindInv ==
    /\ engine \in Engines /\ mode \in StopModes
    /\ running \in BOOLEAN /\ accepting \in BOOLEAN /\ listening \in BOOLEAN
    /\ clockSet \in BOOLEAN /\ expired \in BOOLEAN /\ pool \in BOOLEAN /\ stuck \in BOOLEAN
    /\ worker \in {"sleep", "flush", "last", "dead", "ended"}
    /\ locked \in Locks \union {"none"} /\ missed \subseteq Clients
    /\ raised \in [Actors -> BOOLEAN] /\ dbOpen \in BOOLEAN /\ sealed \in BOOLEAN

\* Where the threads are, the flags and the shutdown.
ControlInv == StateOK /\ EngineInv /\ FlagInv /\ PoolInv

IInv ==
    /\ ControlInv
    /\ ClientInv
    /\ HeldInv
    /\ LimitInv
    /\ LossInv
    /\ StoreInv(Recorded)
    /\ SealInv
    /\ KindInv

-----------------------------------------------------------------------------
(* The actions, by what they may change                                    *)

\* Of the loop's own steps: those before it ends, those with which it ends, and the finally
\* block.
LoopWorks ==
    \/ Accept \/ CheckDrain \/ SubmitTests \/ SubmitPuts
    \/ Register \/ NoMoreClients \/ Serve \/ ServeEnds
LoopLeaves == LeaveAcceptLoop \/ EndRound \/ LeaveEventLoop
LoopFinal == FinalBegins \/ FinalShutdown \/ FinalPoolGone \/ FinalFlush \/ FinalClose

ControlVars == <<setup, running, accepting, phase, listening, loop, held, stopper, pool, shut,
                 shutBy, missed, cause>>

\* The steps of everybody else leave loop and stop() where they are.
LEMMA Bystanders ==
    ASSUME \/ \E c \in Clients : Connect(c) \/ Handlers(c)
           \/ Expire \/ MetricsWorker \/ FlushGoesOn \/ UNCHANGED vars
    PROVE  UNCHANGED ControlVars
  <1> USE DEF ControlVars, setup, flagVars, poolVars
  <1>1. CASE \E c \in Clients : Connect(c) \/ Handlers(c)
    BY <1>1 DEF Connect, Handlers, Take, Count, RequestStarted, Answer, HandlerRaises
  <1>2. CASE Expire \/ FlushGoesOn
    BY <1>2 DEF Expire, FlushGoesOn
  <1>3. CASE MetricsWorker
    BY <1>3 DEF MetricsWorker, WorkerFlushes, WorkerPrunes, WorkerEnds, Worker
  <1>4. CASE UNCHANGED vars
    BY <1>4 DEF vars
  <1>5. QED
    BY <1>1, <1>2, <1>3, <1>4

\* No step of the loop, of stop() or of the pool's shutdown breaks what is said of them.
LEMMA ControlStep == ControlInv /\ [Next]_vars => ControlInv'
  <1> SUFFICES ASSUME ControlInv, [Next]_vars PROVE ControlInv'
    OBVIOUS
  <1> USE DEF ControlInv, StateOK, EngineInv, FlagInv, PoolInv, Clean, Early, Halted, LoopEnd,
              Causes, setup, flagVars, poolVars
  <1>0. CASE UNCHANGED ControlVars
    BY <1>0 DEF ControlVars
  <1>1. CASE Accept
    <2>1. StateOK' /\ EngineInv'
      BY <1>1 DEF Accept
    <2>2. FlagInv'
      BY <1>1 DEF Accept
    <2>3. PoolInv'
      BY <1>1 DEF Accept
    <2>4. QED
      BY <2>1, <2>2, <2>3
  <1>2. CASE CheckDrain
    BY <1>2 DEF CheckDrain, Refuse, RefuseRaises, Draining, NextClient
  <1>3. CASE SubmitTests
    BY <1>3 DEF SubmitTests, Refuse, RefuseRaises
  <1>4. CASE SubmitPuts
    BY <1>4 DEF SubmitPuts, Refuse, RefuseRaises
  <1>5. CASE Register
    BY <1>5 DEF Register
  <1>27. CASE NoMoreClients
    BY <1>27 DEF NoMoreClients
  <1>6. CASE Serve
    BY <1>6 DEF Serve
  <1>7. CASE ServeEnds
    BY <1>7 DEF ServeEnds
  <1>8. CASE LeaveAcceptLoop
    BY <1>8 DEF LeaveAcceptLoop
  <1>9. CASE EndRound
    BY <1>9 DEF EndRound, Draining
  <1>10. CASE LeaveEventLoop
    BY <1>10 DEF LeaveEventLoop
  <1>11. CASE FinalBegins
    BY <1>11 DEF FinalBegins, Final
  <1>12. CASE FinalShutdown
    <2>1. CASE Final("shutdown", "wait") /\ ShutdownCall("loop") /\ UNCHANGED cause
      <3>1. CASE shut = "no"
        BY <1>12, <2>1, <3>1 DEF FinalShutdown, Final, ShutdownCall
      <3>2. CASE shut # "no"
        BY <1>12, <2>1, <3>2 DEF FinalShutdown, Final, ShutdownCall
      <3>3. QED
        BY <3>1, <3>2
    <2>2. CASE ~pool /\ Final("shutdown", "failed") /\ cause' = cause \union {"pool"}
               /\ UNCHANGED poolVars
      BY <1>12, <2>2 DEF FinalShutdown, Final
    <2>3. QED
      BY <1>12, <2>1, <2>2 DEF FinalShutdown
  <1>13. CASE FinalPoolGone
    BY <1>13 DEF FinalPoolGone, Final, MayReturn
  <1>14. CASE FinalFlush
    BY <1>14 DEF FinalFlush, Final
  <1>15. CASE FinalClose
    BY <1>15 DEF FinalClose, Final
  <1>16. CASE ShutdownWaits
    BY <1>16 DEF ShutdownWaits
  <1>17. CASE StopCalled
    BY <1>17 DEF StopCalled, Stop
  <1>18. CASE StopSetsPhase
    BY <1>18 DEF StopSetsPhase, Stop
  <1>19. CASE StopSetsClock
    BY <1>19 DEF StopSetsClock
  <1>20. CASE StopPoll
    BY <1>20 DEF StopPoll, Stop
  <1>21. CASE StopHalts
    BY <1>21 DEF StopHalts, Stop
  <1>22. CASE StopShutdown
    BY <1>22 DEF StopShutdown, Stop, ShutdownCall
  <1>23. CASE StopPoolGone
    BY <1>23 DEF StopPoolGone, Stop, MayReturn
  <1>24. CASE StopCloses
    BY <1>24 DEF StopCloses, Stop
  <1>28. CASE StopFlushes
    BY <1>28 DEF StopFlushes, Stop
  <1>25. CASE StopReturns
    BY <1>25 DEF StopReturns, Stop
  <1>26. QED
    BY <1>0, <1>1, <1>2, <1>3, <1>4, <1>5, <1>6, <1>7, <1>8, <1>9, <1>10, <1>11, <1>12,
       <1>13, <1>14, <1>15, <1>16, <1>17, <1>18, <1>19, <1>20, <1>21, <1>22, <1>23, <1>24, <1>25,
       <1>27, <1>28, Bystanders
       DEF Next, AcceptLoop, Stopper

\* The clients' own steps and those of the workers that serve them.
LEMMA ClientMoves ==
    ASSUME NEW c \in Clients, Connect(c) \/ Handlers(c)
    PROVE  /\ UNCHANGED ControlVars
           /\ \/ client[c] = "away" /\ Set(c, "backlog")
              \/ client[c] = "queued" /\ Set(c, "taken")
              \/ client[c] = "taken" /\ Set(c, "reading")
              \/ client[c] = "reading" /\ Set(c, "inflight")
              \/ engine = "threadpool" /\ client[c] = "inflight" /\ Set(c, "answered")
              \/ engine = "threadpool" /\ client[c] = "inflight" /\ Set(c, "raised")
  BY Bystanders DEF Connect, Handlers, Take, Count, RequestStarted, Answer, HandlerRaises

\* The steps that leave the clients alone, and what the loop holds.
Elsewhere ==
    \/ Expire \/ MetricsWorker \/ FlushGoesOn \/ UNCHANGED vars
    \/ ShutdownWaits \/ StopCalled \/ StopSetsPhase \/ StopSetsClock \/ StopPoll
    \/ StopHalts \/ StopShutdown \/ StopPoolGone \/ StopFlushes \/ StopReturns
LoopQuiet == LoopLeaves \/ FinalShutdown \/ FinalPoolGone \/ FinalFlush \/ FinalClose

\* The steps that touch no client keep what is said of where the clients are.
LEMMA ClientsStay ==
    /\ Elsewhere => UNCHANGED <<engine, client, held, loop>>
    /\ LoopQuiet => /\ UNCHANGED <<engine, client, held>>
                    /\ loop \notin Holding \union {"serve"}
                    /\ loop' \in LoopEnd /\ loop' \notin Holding \union {"serve"}
  <1> USE DEF setup, flagVars, poolVars
  <1>1. ASSUME Elsewhere PROVE UNCHANGED <<engine, client, held, loop>>
    BY <1>1 DEF Elsewhere, Expire, MetricsWorker, WorkerFlushes, WorkerPrunes, WorkerEnds, Worker,
         FlushGoesOn, vars, ShutdownWaits, StopCalled, Stop, StopSetsPhase, StopSetsClock,
         StopPoll, StopHalts, StopShutdown, StopPoolGone, StopFlushes, StopReturns
  <1>2. ASSUME LoopQuiet
        PROVE  /\ UNCHANGED <<engine, client, held>>
               /\ loop \notin Holding \union {"serve"}
               /\ loop' \in LoopEnd /\ loop' \notin Holding \union {"serve"}
    BY <1>2 DEF LoopQuiet, LoopLeaves, LeaveAcceptLoop, EndRound, LeaveEventLoop, Final,
         FinalShutdown, FinalPoolGone, FinalFlush, FinalClose, Holding, LoopEnd
  <1>3. QED
    BY <1>1, <1>2

\* Every client is in one place after every step: with the loop, queued, served or gone.
LEMMA HeldStep == ControlInv /\ ClientInv /\ HeldInv /\ [Next]_vars => ClientInv' /\ HeldInv'
  <1> SUFFICES ASSUME ControlInv, ClientInv, HeldInv, [Next]_vars PROVE ClientInv' /\ HeldInv'
    OBVIOUS
  <1> USE DEF ClientInv, HeldInv, Holding, ClientStates, LoopEnd, setup, flagVars, poolVars
  <1>e. EngineInv /\ engine \in {"threadpool", "selectors"}
    BY DEF ControlInv, StateOK
  <1>1. CASE \E c \in Clients : Connect(c) \/ Handlers(c)
    <2>1. PICK c \in Clients : Connect(c) \/ Handlers(c)
      BY <1>1
    <2>2. UNCHANGED <<engine, loop, held>>
      BY <2>1, ClientMoves DEF ControlVars
    <2>3. PICK to \in {"backlog", "taken", "reading", "inflight", "answered", "raised"} :
             /\ Set(c, to) /\ client[c] \in {"away", "queued", "taken", "reading", "inflight"}
             /\ (to = "backlog" /\ client[c] = "away") \/ engine = "threadpool"
      BY <1>e, <2>1, ClientMoves
    <2>4. ClientInv'
      BY <2>2, <2>3 DEF Set, Working
    <2>5. loop \in Holding \union {"serve"} => c # held
      BY <1>e, <2>3 DEF EngineInv
    <2>6. \A d \in Clients : client'[d] = IF d = c THEN to ELSE client[d]
      BY <2>3 DEF Set
    <2>7. HeldInv'
      BY <2>2, <2>3, <2>5, <2>6
    <2>8. QED
      BY <2>4, <2>7
  <1>2. CASE Accept
    BY <1>e, <1>2 DEF Accept, InState, Set, EngineInv
  <1>3. CASE CheckDrain
    BY <1>e, <1>3 DEF CheckDrain, NextClient, Refuse, RefuseRaises, Set, EngineInv
  <1>4. CASE SubmitTests
    BY <1>e, <1>4 DEF SubmitTests, Refuse, RefuseRaises, Set, EngineInv
  <1>5. CASE SubmitPuts
    BY <1>e, <1>5 DEF SubmitPuts, Refuse, RefuseRaises, Set, EngineInv
  <1>6. CASE Register \/ NoMoreClients
    BY <1>e, <1>6 DEF Register, NoMoreClients, Set, EngineInv
  <1>7. CASE Serve
    <2>1. PICK c \in Clients : client[c] = "conn" /\ Set(c, "inflight") /\ held' = c
      BY <1>7 DEF Serve, InState
    <2>2. loop = "accept" /\ loop' = "serve" /\ engine' = engine /\ engine = "selectors"
      BY <1>7 DEF Serve
    <2>3. ClientInv'
      BY <2>1, <2>2 DEF Set, Working
    <2>4. HeldInv'
      BY <2>1, <2>2 DEF Set
    <2>5. QED
      BY <2>3, <2>4
  <1>8. CASE ServeEnds
    BY <1>e, <1>8 DEF ServeEnds, Set, EngineInv
  <1>9. CASE FinalBegins
    BY <1>e, <1>9 DEF FinalBegins, Final, CloseConnections, EngineInv
  <1>10. CASE StopCloses
    BY <1>e, <1>10 DEF StopCloses, Stop, CloseConnections, EngineInv
  <1>11. CASE Elsewhere
    BY <1>11, ClientsStay
  <1>12. CASE LoopQuiet
    BY <1>12, ClientsStay
  <1>13. QED
    BY <1>1, <1>2, <1>3, <1>4, <1>5, <1>6, <1>7, <1>8, <1>9, <1>10, <1>11, <1>12
       DEF Next, AcceptLoop, Stopper, Elsewhere, LoopQuiet, LoopLeaves

\* A set of clients that loses members, or gains one, keeps count.
LEMMA SetCounts ==
    ASSUME NEW S, IsFiniteSet(S), NEW R, NEW c, R \subseteq S \union {c}
    PROVE  /\ IsFiniteSet(R) /\ Cardinality(R) \in Nat /\ Cardinality(S) \in Nat
           /\ Cardinality(R) <= Cardinality(S) + 1
           /\ R \subseteq S => Cardinality(R) <= Cardinality(S)
  <1>1. IsFiniteSet(S \union {c}) /\ Cardinality(S) \in Nat
        /\ Cardinality(S \union {c}) \in Nat /\ Cardinality(S \union {c}) <= Cardinality(S) + 1
    <2>0. Cardinality(S) \in Nat
      BY FS_CardinalityType
    <2>1. CASE c \in S
      <3>1. S \union {c} = S
        BY <2>1
      <3> DEFINE U == S \union {c}
      <3> HIDE DEF U
      <3>2. U = S
        BY <3>1 DEF U
      <3>3. IsFiniteSet(U) /\ Cardinality(U) \in Nat /\ Cardinality(U) <= Cardinality(S) + 1
        BY <2>0, <3>2
      <3>4. QED
        BY <2>0, <3>3 DEF U
    <2>2. CASE c \notin S
      <3>1. IsFiniteSet(S \union {c}) /\ Cardinality(S \union {c}) = Cardinality(S) + 1
        BY <2>2, FS_AddElement
      <3>2. QED
        BY <2>0, <3>1
    <2>3. QED
      BY <2>1, <2>2
  <1>2. IsFiniteSet(R) /\ Cardinality(R) <= Cardinality(S \union {c}) /\ Cardinality(R) \in Nat
    BY <1>1, FS_Subset, FS_CardinalityType
  <1>3. R \subseteq S => Cardinality(R) <= Cardinality(S)
    BY FS_Subset
  <1>4. QED
    BY <1>1, <1>2, <1>3

\* put_nowait looks at the queue as it puts; the event loop has looked at the connections
\* before, and nobody else adds to them.
LEMMA LimitStep ==
    ControlInv /\ ClientInv /\ HeldInv /\ LimitInv /\ [Next]_vars => LimitInv'
  <1> SUFFICES ASSUME ControlInv, ClientInv, HeldInv, LimitInv, [Next]_vars PROVE LimitInv'
    OBVIOUS
  <1> DEFINE Q == InState("queued")
             C == InState("conn")
  <1>1. /\ IsFiniteSet(Q) /\ Cardinality(Q) <= QueueSize /\ Cardinality(Q) \in Nat
        /\ IsFiniteSet(C) /\ Cardinality(C) <= MaxConns /\ Cardinality(C) \in Nat
        /\ engine = "selectors" /\ loop = "submit" => Cardinality(C) < MaxConns
    BY FS_CardinalityType DEF LimitInv
  <1>2. client \in [Clients -> ClientStates]
    BY DEF ClientInv
  <1>3. ASSUME Q' \subseteq Q, C' \subseteq C, engine' = engine,
               loop' = "submit" => loop = "submit" \/ ~Full
        PROVE  LimitInv'
    <2>1. IsFiniteSet(Q') /\ Cardinality(Q') <= Cardinality(Q) /\ Cardinality(Q') \in Nat
      BY <1>1, <1>3, FS_Subset, FS_CardinalityType
    <2>2. IsFiniteSet(C') /\ Cardinality(C') <= Cardinality(C) /\ Cardinality(C') \in Nat
      BY <1>1, <1>3, FS_Subset, FS_CardinalityType
    <2>3. engine = "selectors" /\ ~Full => Cardinality(C) < MaxConns
      BY <1>1 DEF Full
    <2> HIDE DEF Q, C
    <2>4. Cardinality(Q') <= QueueSize /\ Cardinality(C') <= MaxConns
      BY <1>1, <2>1, <2>2
    <2>5. engine' = "selectors" /\ loop' = "submit" => Cardinality(C') < MaxConns
      BY <1>1, <1>3, <2>2, <2>3
    <2>6. QED
      BY <2>1, <2>2, <2>4, <2>5 DEF LimitInv, Q, C
  <1>4. CASE \E c \in Clients : Connect(c) \/ Handlers(c)
    <2>1. Q' \subseteq Q /\ C' \subseteq C
      BY <1>2, <1>4, ClientMoves DEF Set, InState
    <2>2. engine' = engine /\ loop' = loop
      BY <1>4, ClientMoves DEF ControlVars, setup
    <2>3. QED
      BY <1>3, <2>1, <2>2
  <1>5. CASE Accept \/ CheckDrain \/ SubmitTests \/ NoMoreClients \/ Serve \/ ServeEnds
             \/ FinalBegins \/ StopCloses
    <2> USE DEF setup, flagVars, Set, Refuse, RefuseRaises, InState, Final, Stop, CloseConnections
    <2>1. Q' \subseteq Q /\ C' \subseteq C
      BY <1>2, <1>5 DEF Accept, CheckDrain, SubmitTests, NoMoreClients, Serve, ServeEnds,
         FinalBegins, StopCloses
    <2>2. engine' = engine /\ (loop' = "submit" => loop = "submit" \/ ~Full)
      <3>1. CASE CheckDrain
        BY <3>1 DEF CheckDrain, NextClient
      <3>2. CASE Accept \/ SubmitTests \/ NoMoreClients \/ Serve \/ ServeEnds \/ FinalBegins
                 \/ StopCloses
        BY <3>2 DEF Accept, SubmitTests, NoMoreClients, Serve, ServeEnds,
         FinalBegins, StopCloses
      <3>3. QED
        BY <1>5, <3>1, <3>2
    <2>3. QED
      BY <1>3, <2>1, <2>2
  <1>6. CASE SubmitPuts
    <2> USE DEF setup, flagVars, Set, Refuse, RefuseRaises, InState
    <2>1. C' \subseteq C /\ loop' # "submit" /\ engine' = engine
      BY <1>2, <1>6 DEF SubmitPuts
    <2>2. CASE Cardinality(Q) < QueueSize
      <3>1. Q' \subseteq Q \union {held}
        BY <1>2, <1>6 DEF SubmitPuts
      <3>2. IsFiniteSet(Q') /\ Cardinality(Q') <= Cardinality(Q) + 1 /\ Cardinality(Q') \in Nat
        BY <1>1, <3>1, SetCounts
      <3>3. IsFiniteSet(C') /\ Cardinality(C') <= Cardinality(C) /\ Cardinality(C') \in Nat
        BY <1>1, <2>1, FS_Subset, FS_CardinalityType
      <3> HIDE DEF Q, C
      <3>4. Cardinality(Q') <= QueueSize /\ Cardinality(C') <= MaxConns
        BY <1>1, <2>2, <3>2, <3>3
      <3>5. QED
        BY <2>1, <3>2, <3>3, <3>4 DEF LimitInv, Q, C
    <2>3. CASE ~(Cardinality(Q) < QueueSize)
      <3>1. Cardinality(Q) >= QueueSize
        BY <1>1, <2>3
      <3>2. Q' \subseteq Q
        BY <1>2, <1>6, <3>1 DEF SubmitPuts, QueueFull
      <3>3. QED
        BY <1>3, <2>1, <3>2
    <2>4. QED
      BY <2>2, <2>3
  <1>7. CASE Register
    <2> USE DEF setup, flagVars, Set, InState
    <2>1. Q' \subseteq Q /\ loop' # "submit" /\ C' \subseteq C \union {held}
      BY <1>2, <1>7 DEF Register
    <2>2. Cardinality(C) < MaxConns
      BY <1>1, <1>7 DEF Register
    <2>3. IsFiniteSet(Q') /\ Cardinality(Q') <= Cardinality(Q) /\ Cardinality(Q') \in Nat
      BY <1>1, <2>1, FS_Subset, FS_CardinalityType
    <2>4. IsFiniteSet(C') /\ Cardinality(C') <= Cardinality(C) + 1 /\ Cardinality(C') \in Nat
      BY <1>1, <2>1, SetCounts
    <2> HIDE DEF Q, C
    <2>5. Cardinality(Q') <= QueueSize /\ Cardinality(C') <= MaxConns
      BY <1>1, <2>2, <2>3, <2>4
    <2>6. QED
      BY <2>1, <2>3, <2>4, <2>5 DEF LimitInv, Q, C
  <1>8. CASE Elsewhere \/ LoopQuiet
    <2>1. client' = client /\ engine' = engine /\ (loop' = "submit" => loop = "submit")
      BY <1>8, ClientsStay DEF Holding
    <2>2. Q' \subseteq Q /\ C' \subseteq C
      BY <2>1 DEF InState
    <2>3. QED
      BY <1>3, <2>1, <2>2
  <1>9. QED
    BY <1>4, <1>5, <1>6, <1>7, <1>8
       DEF Next, AcceptLoop, Stopper, Elsewhere, LoopQuiet, LoopLeaves

\* Nobody is lost before the drain is over, and then one client at most.
LEMMA LossStep ==
    ControlInv /\ ClientInv /\ HeldInv /\ LossInv /\ [Next]_vars => LossInv'
  <1> SUFFICES ASSUME ControlInv, ClientInv, HeldInv, LossInv, [Next]_vars,
                      cause' \subseteq {"pool"}
               PROVE  /\ engine' = "threadpool" => OneLeft(PoolOver, LeftInPool)'
                      /\ engine' = "selectors" => OneLeft(LoopDone, LeftInLoop)'
    BY DEF LossInv
  <1> USE DEF ControlInv, setup, flagVars, poolVars
  <1>0. client \in [Clients -> ClientStates] /\ engine \in {"threadpool", "selectors"}
    BY DEF ClientInv, StateOK
  <1>a. engine' = engine /\ cause \subseteq cause'
    BY DEF Next, AcceptLoop, Stopper, Connect, Handlers, Take, Count, RequestStarted, Answer,
       HandlerRaises, Expire, MetricsWorker, WorkerFlushes, WorkerPrunes, WorkerEnds, Worker,
       FlushGoesOn, vars, StopCalled, ShutdownWaits, Stop, StopSetsPhase, StopSetsClock,
       StopPoll, StopHalts, StopShutdown, StopPoolGone, StopCloses, StopFlushes, StopReturns,
       Accept,
       CheckDrain, SubmitTests, SubmitPuts, LeaveAcceptLoop, Register, NoMoreClients,
         Serve, ServeEnds,
       EndRound, LeaveEventLoop, Final, FinalBegins, FinalShutdown, FinalPoolGone, FinalFlush,
       FinalClose, RefuseRaises
  <1>b. cause \subseteq {"pool"} /\ Clean
    BY <1>a DEF Clean
  <1>c. /\ engine = "threadpool" => OneLeft(PoolOver, LeftInPool)
        /\ engine = "selectors" => OneLeft(LoopDone, LeftInLoop)
    BY <1>b DEF LossInv
  <1>h. \A c, d \in Clients : client[c] = "held" /\ client[d] = "held" => c = d
    BY DEF HeldInv
  <1>m. /\ engine = "threadpool" /\ (shut' = "stopped" <=> shut = "stopped") => missed' = missed
        /\ engine = "selectors" => missed \subseteq missed'
    <2>0. ShutdownWaits => shut' = "stopped" /\ shut = "waiting" /\ engine # "selectors"
      BY DEF ShutdownWaits, EngineInv
    <2>1. CASE AcceptLoop \/ StopCalled \/ Stopper
      BY <2>1 DEF StopCalled, Stopper, Stop, StopSetsPhase, StopSetsClock,
         StopPoll, StopHalts, StopShutdown, StopPoolGone, StopCloses, StopFlushes, StopReturns,
         AcceptLoop, Accept, CheckDrain, SubmitTests, SubmitPuts, LeaveAcceptLoop, Register,
         NoMoreClients, Serve, ServeEnds, EndRound, LeaveEventLoop, Final, FinalBegins,
         FinalShutdown, ShutdownCall, FinalPoolGone, FinalFlush, FinalClose
    <2>2. QED
      BY <2>0, <2>1, Bystanders DEF Next, ControlVars
  <1>d. ASSUME engine = "threadpool", shut' = "stopped" <=> shut = "stopped",
               \A c \in Clients : client'[c] \in LeftInPool => client[c] \in LeftInPool,
               PoolOver \/ \A c \in Clients : client'[c] = "dropped" => client[c] = "dropped"
        PROVE  OneLeft(PoolOver, LeftInPool)'
    BY <1>c, <1>d, <1>m DEF OneLeft, PoolOver, InStates, AtMostOne
  <1>e. ASSUME engine = "selectors", LoopDone' <=> LoopDone,
               \A c \in Clients : client'[c] \in LeftInLoop => client[c] \in LeftInLoop,
               LoopDone \/ \A c \in Clients : client'[c] = "dropped" => client[c] = "dropped"
        PROVE  OneLeft(LoopDone, LeftInLoop)'
    <2>1. CASE LoopDone
      BY <1>c, <1>e, <1>m, <2>1 DEF OneLeft, InStates, AtMostOne
    <2>2. CASE ~LoopDone
      BY <1>c, <1>e, <1>m, <2>2 DEF OneLeft, InStates
    <2>3. QED
      BY <2>1, <2>2
  <1> USE DEF LeftInPool, LeftInLoop, Set, Halted, LoopEnd
  <1>1. CASE \E c \in Clients : Connect(c) \/ Handlers(c)
    <2>1. UNCHANGED ControlVars
      BY <1>1, Bystanders
    <2>2. \A c \in Clients :
             /\ client'[c] \in LeftInPool => client[c] \in LeftInPool
             /\ client'[c] = "dropped" => client[c] = "dropped"
             /\ engine = "selectors" => (client'[c] \in LeftInLoop => client[c] \in LeftInLoop)
      BY <1>0, <1>1, ClientMoves DEF ClientInv
    <2>3. QED
      BY <1>a, <1>d, <1>e, <2>1, <2>2 DEF ControlVars, LoopDone
  <1>2. CASE Accept
    <2>1. ~PoolOver \/ engine = "selectors"
      BY <1>0, <1>2 DEF Accept, PoolInv, PoolOver, EngineInv
    <2>2. ~LoopDone \/ engine = "threadpool"
      BY <1>0, <1>2, <1>b DEF Accept, FlagInv, LoopDone, Early
    <2>3. \A c \in Clients : client'[c] = "dropped" => client[c] = "dropped"
      BY <1>0, <1>2 DEF Accept
    <2>4. /\ shut' = shut /\ stopper' = stopper /\ missed' = missed
          /\ loop' = "check" /\ loop \in {"accept", "more"}
      BY <1>2 DEF Accept
    <2>5. QED
      BY <1>0, <1>a, <1>c, <2>1, <2>2, <2>3, <2>4 DEF OneLeft, PoolOver, LoopDone, InStates
  <1>3. CASE CheckDrain \/ SubmitTests
    <2>1. /\ shut' = shut /\ stopper' = stopper /\ loop \in {"check", "submit"}
          /\ loop' \in {"submit", "put", "accept", "more"} /\ missed' = missed
      BY <1>3 DEF CheckDrain, SubmitTests, RefuseRaises, NextClient
    <2>2. \A c \in Clients : client'[c] \in {"refused", client[c]}
      BY <1>0, <1>3 DEF CheckDrain, SubmitTests, Refuse, RefuseRaises
    <2>3. QED
      BY <1>0, <1>a, <1>d, <1>e, <2>1, <2>2 DEF LoopDone
  <1>4. CASE SubmitPuts
    <2>1. engine = "threadpool" /\ shut' = shut /\ missed' = missed
      BY <1>0, <1>4 DEF SubmitPuts, EngineInv
    <2>2. held \in Clients /\ client[held] = "held"
      BY <1>4 DEF SubmitPuts, HeldInv, Holding
    <2>3. \A c \in Clients : client'[c] \in LeftInPool => client[c] \in LeftInPool
      BY <1>0, <1>4, <2>2 DEF SubmitPuts, Refuse, RefuseRaises
    <2>4. PoolOver \/ \A c \in Clients : client'[c] = "dropped" => client[c] = "dropped"
      <3>1. CASE pool
        BY <1>0, <1>4, <3>1 DEF SubmitPuts, Refuse, RefuseRaises
      <3>2. CASE ~pool
        BY <1>4, <2>1, <3>2 DEF SubmitPuts, PoolInv, PoolOver, StateOK
      <3>3. QED
        BY <3>1, <3>2
    <2>5. QED
      BY <1>a, <1>d, <2>1, <2>3, <2>4
  <1>5. CASE Register \/ NoMoreClients \/ Serve \/ ServeEnds
    <2>1. engine = "selectors" /\ (LoopDone' <=> LoopDone) /\ missed' = missed
      <3>1. engine = "selectors" /\ stopper' = stopper /\ missed' = missed
        BY <1>0, <1>5 DEF Register, NoMoreClients, Serve, ServeEnds, EngineInv
      <3>2. loop \notin LoopEnd /\ loop' \notin LoopEnd
        BY <1>5 DEF Register, NoMoreClients, Serve, ServeEnds
      <3>3. QED
        BY <3>1, <3>2 DEF LoopDone
    <2>2. \A c \in Clients :
             /\ client'[c] \in LeftInLoop => client[c] \in LeftInLoop
             /\ client'[c] = "dropped" => client[c] = "dropped"
      BY <1>0, <1>5 DEF Register, NoMoreClients, Serve, ServeEnds, InState, HeldInv, Holding
    <2>3. QED
      BY <1>a, <1>e, <2>1, <2>2
  <1>6. CASE EndRound
    <2>1. engine = "selectors" /\ loop = "accept" /\ client' = client /\ LoopDone'
      BY <1>6 DEF EndRound, LoopDone
    <2>2. \A c \in Clients : client[c] # "held" /\ (client[c] = "conn" => c \in missed')
      BY <1>6, <2>1 DEF EndRound, DrainOver, InState, HeldInv, Holding
    <2>5. \A c \in Clients : client[c] # "inflight"
      BY <2>1 DEF HeldInv
    <2>3. OneLeft(LoopDone, LeftInLoop)'
      BY <1>c, <1>m, <2>1, <2>2, <2>5 DEF OneLeft, InStates, AtMostOne
    <2>4. QED
      BY <1>a, <2>1, <2>3
  <1>7. CASE LeaveAcceptLoop \/ LeaveEventLoop
    <2>1. /\ client' = client /\ shut' = shut
          /\ engine = "selectors" => LoopDone /\ LoopDone'
      BY <1>7 DEF LeaveAcceptLoop, LeaveEventLoop, LoopDone, FlagInv
    <2>2. QED
      BY <1>0, <1>a, <1>d, <1>e, <2>1
  <1>8. CASE LoopFinal
    <2>1. LoopDone /\ LoopDone'
      BY <1>8 DEF LoopFinal, Final, FinalBegins, FinalShutdown, FinalPoolGone, FinalFlush,
            FinalClose, LoopDone
    <2>2. shut' = "stopped" <=> shut = "stopped"
      BY <1>8 DEF LoopFinal, Final, FinalBegins, FinalShutdown, FinalPoolGone, FinalFlush,
            FinalClose, ShutdownCall
    <2>3. \/ client' = client
          \/ engine = "selectors" /\ CloseConnections
      BY <1>8 DEF LoopFinal, FinalBegins, FinalShutdown, FinalPoolGone, FinalFlush, FinalClose
    <2>4. \A c \in Clients : client'[c] \in LeftInLoop => client[c] \in LeftInLoop
      BY <1>0, <2>3 DEF CloseConnections
    <2>5. QED
      BY <1>0, <1>a, <1>d, <1>e, <2>1, <2>2, <2>3, <2>4
  <1>9. CASE ShutdownWaits
    <2>1. /\ engine = "threadpool" /\ PoolDrained /\ client' = client
          /\ shut = "waiting" /\ shut' = "stopped"
      BY <1>0, <1>9 DEF ShutdownWaits, EngineInv
    <2>2. \A c \in Clients : client[c] \notin {"queued", "reading", "inflight", "dropped"}
      BY <1>c, <2>1 DEF PoolDrained, InState, InStates, OneLeft, PoolOver
    <2>3. missed' = {c \in Clients : client[c] = "taken"}
      BY <1>9 DEF ShutdownWaits, InState
    <2>4. OneLeft(PoolOver, LeftInPool)'
      BY <1>h, <2>1, <2>2, <2>3 DEF OneLeft, InStates, AtMostOne, PoolOver
    <2>5. QED
      BY <1>a, <2>1, <2>4
  <1>10. CASE StopPoll
    <2>1. Remaining = {} /\ client' = client /\ shut' = shut /\ LoopDone'
      BY <1>10 DEF StopPoll, Stop, LoopDone
    <2>2. CASE engine = "threadpool"
      BY <1>a, <1>d, <2>1, <2>2
    <2>3. CASE engine = "selectors"
      <3>1. \A c \in Clients : client[c] \notin {"conn", "inflight"}
        BY <2>1, <2>3 DEF Remaining, Inflight, InState
      <3>2. OneLeft(LoopDone, LeftInLoop)'
        <4>1. CASE LoopDone
          BY <1>e, <2>1, <2>3, <4>1
        <4>2. CASE ~LoopDone
          <5>1. \A c \in Clients : client[c] # "dropped"
            BY <1>c, <2>3, <4>2 DEF OneLeft, InStates
          <5>2. QED
            BY <1>h, <2>1, <3>1, <5>1 DEF OneLeft, InStates, AtMostOne
        <4>3. QED
          BY <4>1, <4>2
      <3>3. QED
        BY <1>a, <2>3, <3>2
    <2>4. QED
      BY <1>0, <2>2, <2>3
  <1>11. CASE StopCalled \/ StopSetsPhase \/ StopSetsClock \/ StopHalts \/ StopShutdown
              \/ StopPoolGone \/ StopFlushes \/ StopReturns
    <2>1. client' = client /\ (shut' = "stopped" <=> shut = "stopped")
      BY <1>11 DEF StopCalled, Stop, StopSetsPhase, StopSetsClock, StopHalts, StopShutdown,
            StopPoolGone, StopFlushes, StopReturns, ShutdownCall
    <2>2. LoopDone' <=> LoopDone
      BY <1>11 DEF StopCalled, Stop, StopSetsPhase, StopSetsClock, StopHalts, StopShutdown,
            StopPoolGone, StopFlushes, StopReturns, LoopDone, FlagInv
    <2>3. QED
      BY <1>0, <1>a, <1>d, <1>e, <2>1, <2>2
  <1>12. CASE StopCloses
    <2>1. LoopDone /\ LoopDone' /\ shut' = shut
      BY <1>12 DEF StopCloses, Stop, LoopDone
    <2>2. /\ \A c \in Clients : client'[c] \in LeftInLoop => client[c] \in LeftInLoop
          /\ engine = "threadpool" => client' = client
      BY <1>0, <1>12 DEF StopCloses, CloseConnections
    <2>3. QED
      BY <1>0, <1>a, <1>d, <1>e, <2>1, <2>2
  <1>13. CASE Expire \/ MetricsWorker \/ FlushGoesOn \/ UNCHANGED vars
    <2>1. UNCHANGED ControlVars
      BY <1>13, Bystanders
    <2>2. client' = client
      BY <1>13, ClientsStay DEF Elsewhere
    <2>3. QED
      BY <1>0, <1>a, <1>d, <1>e, <2>1, <2>2 DEF ControlVars, LoopDone
  <1>14. QED
    BY <1>1, <1>2, <1>3, <1>4, <1>5, <1>6, <1>7, <1>8, <1>9, <1>10, <1>11, <1>12, <1>13
       DEF Next, AcceptLoop, Stopper, LoopFinal

-----------------------------------------------------------------------------
(* The trend store                                                         *)

\* A request that is counted once is in the store, in one place.
LEMMA RecordKeeps ==
    ASSUME NEW done, StoreInv(done), NEW r \in Requests, r \notin done, Record(r)
    PROVE  StoreInv(done \union {r})'
  BY DEF StoreInv, Record, InHand

\* The part of a flush under the lock moves the pending rows, and the last one leaves
\* nothing to come but what is late.
LEMMA FlushBeginKeeps ==
    ASSUME NEW done, StoreInv(done), NEW a \in Actors, FlushBegin(a)
    PROVE  StoreInv(done)'
  <1>1. CASE pending = {}
    BY <1>1 DEF StoreInv, FlushBegin, InHand
  <1>2. CASE pending # {} /\ backend = "memory"
    BY <1>2 DEF StoreInv, FlushBegin, FlushTake, InHand
  <1>3. CASE pending # {} /\ backend # "memory"
    <2>1. /\ stage \in [Actors -> {"idle", "taken", "written"}]
          /\ hand \in [Actors -> SUBSET Requests]
          /\ stage[a] = "idle" /\ hand[a] = {}
      BY DEF StoreInv, FlushBegin
    <2>2. /\ stage' = [stage EXCEPT ![a] = "taken"] /\ hand' = [hand EXCEPT ![a] = pending]
          /\ pending' = {} /\ UNCHANGED <<backend, rows, txn, lost, late>>
      BY <1>3 DEF FlushBegin, FlushTake
    <2>3. InHand' = InHand \union pending
      <3>1. /\ hand'[a] = pending
            /\ \A b \in Actors \ {a} : hand'[b] = hand[b]
        BY <2>1, <2>2
      <3>2. QED
        BY <2>1, <3>1 DEF InHand
    <2>4. pending \subseteq Requests
      BY DEF StoreInv
    <2>5. \A b, c \in Actors : b # c => hand'[b] \intersect hand'[c] = {}
      <3>1. \A b \in Actors : hand[b] \intersect pending = {}
        BY DEF StoreInv, InHand
      <3>2. \A b, c \in Actors : b # c => hand[b] \intersect hand[c] = {}
        BY DEF StoreInv
      <3>3. QED
        BY <2>1, <2>2, <3>1, <3>2
    <2>6. \A b \in Actors :
             /\ stage'[b] = "idle" => hand'[b] = {}
             /\ stage'[b] = "written" => hand'[b] \subseteq txn \union rows \union lost
      BY <2>1, <2>2 DEF StoreInv
    <2>7. /\ stage' \in [Actors -> {"idle", "taken", "written"}]
          /\ hand' \in [Actors -> SUBSET Requests]
      BY <2>1, <2>2, <2>4
    <2>8. QED
      BY <2>2, <2>3, <2>5, <2>6, <2>7 DEF StoreInv
  <1>4. QED
    BY <1>1, <1>2, <1>3

\* Whatever a write, a commit or a failure does to the transaction of all threads, the rows
\* of each flush are stored, lost, or still in somebody's hands.
LEMMA FlushingKeeps ==
    ASSUME NEW done, StoreInv(done), NEW a \in Actors, Flushing(a)
    PROVE  StoreInv(done)'
  <1>1. CASE FlushWrite(a)
    BY <1>1 DEF StoreInv, FlushWrite, InHand
  <1>2. CASE FlushCommit(a)
    BY <1>2 DEF StoreInv, FlushCommit, InHand
  <1>3. CASE FlushRaises(a)
    BY <1>3 DEF StoreInv, FlushRaises, InHand
  <1>4. QED
    BY <1>1, <1>2, <1>3 DEF Flushing

\* The commits and the rollbacks that are no flush.
LEMMA OthersKeep ==
    ASSUME NEW done, StoreInv(done), Prune \/ PruneRaises \/ CloseStore \/ UNCHANGED storeVars
    PROVE  StoreInv(done)'
  BY DEF StoreInv, Prune, PruneRaises, CloseStore, storeVars, InHand

StoreActions ==
    \/ \E a \in Actors : FlushBegin(a) \/ Flushing(a)
    \/ Prune \/ PruneRaises \/ CloseStore \/ UNCHANGED storeVars

\* An answer and a refusal are recorded once; no other step records, or unsays an answer.
LEMMA RecordSteps ==
    ASSUME ControlInv, ClientInv, HeldInv, [Next]_vars
    PROVE  \/ \E r \in Clients : /\ r \notin Recorded /\ Record(r)
                                 /\ Recorded' = Recorded \union {r}
           \/ Recorded' = Recorded /\ StoreActions
  <1> USE DEF Recorded, InState, Set, setup, flagVars, poolVars
  <1>0. client \in [Clients -> ClientStates] /\ EngineInv
    BY DEF ClientInv, ControlInv
  <1>1. ASSUME NEW c \in Clients, Connect(c) \/ Handlers(c)
        PROVE  \/ c \notin Recorded /\ Record(c) /\ Recorded' = Recorded \union {c}
               \/ Recorded' = Recorded /\ UNCHANGED storeVars
    <2>1. CASE Answer(c)
      BY <1>0, <2>1 DEF Answer
    <2>2. CASE Connect(c) \/ Take(c) \/ Count(c) \/ RequestStarted(c) \/ HandlerRaises(c)
      BY <1>0, <2>2 DEF Connect, Take, Count, RequestStarted, HandlerRaises
    <2>3. QED
      BY <1>1, <2>1, <2>2 DEF Handlers
  <1>2. CASE CheckDrain \/ SubmitTests \/ SubmitPuts
    <2>1. held \in Clients /\ client[held] = "held"
      BY <1>2 DEF CheckDrain, SubmitTests, SubmitPuts, HeldInv, Holding
    <2>2. CASE Refuse
      BY <1>0, <2>1, <2>2 DEF Refuse
    <2>3. CASE UNCHANGED storeVars /\ client' \in {client, [client EXCEPT ![held] = "dropped"],
                                                 [client EXCEPT ![held] = "queued"]}
      <3>1. Recorded' = Recorded
        BY <1>0, <2>1, <2>3
      <3>2. QED
        BY <2>3, <3>1 DEF StoreActions
    <2>4. QED
      BY <1>2, <2>2, <2>3 DEF CheckDrain, SubmitTests, SubmitPuts, RefuseRaises, storeVars
  <1>3. CASE ServeEnds
    <2>1. held \in Clients /\ client[held] \in {"inflight", "dropped"}
      BY <1>3 DEF ServeEnds, HeldInv
    <2>2. CASE client[held] = "inflight" /\ Set(held, "answered") /\ Record(held)
      BY <1>0, <2>1, <2>2
    <2>3. CASE UNCHANGED storeVars /\ client' \in {client, [client EXCEPT ![held] = "dropped"]}
      <3>1. Recorded' = Recorded
        BY <1>0, <2>1, <2>3
      <3>2. QED
        BY <2>3, <3>1 DEF StoreActions
    <2>4. QED
      BY <1>3, <2>2, <2>3 DEF ServeEnds, storeVars
  <1>4. CASE Accept \/ Register \/ NoMoreClients \/ Serve
    <2>1. UNCHANGED storeVars
      BY <1>4 DEF Accept, Register, NoMoreClients, Serve
    <2>2. Recorded' = Recorded
      BY <1>0, <1>4 DEF Accept, Register, NoMoreClients, Serve, HeldInv, Holding
    <2>3. QED
      BY <2>1, <2>2 DEF StoreActions
  <1>5. CASE FinalBegins \/ StopCloses
    <2>1. Recorded' = Recorded
      BY <1>0, <1>5 DEF FinalBegins, StopCloses, CloseConnections
    <2>2. UNCHANGED storeVars
      BY <1>5 DEF FinalBegins, StopCloses
    <2>3. QED
      BY <2>1, <2>2 DEF StoreActions
  <1>6. CASE Elsewhere \/ LoopQuiet
    <2>1. Recorded' = Recorded
      BY <1>6, ClientsStay
    <2>2. StoreActions
      BY <1>6 DEF StoreActions, Elsewhere, LoopQuiet, LoopLeaves, Expire, MetricsWorker,
         WorkerFlushes, WorkerPrunes, WorkerEnds, FlushGoesOn, vars, ShutdownWaits,
         StopCalled, StopSetsPhase, StopSetsClock, StopPoll, StopHalts, StopShutdown, StopPoolGone,
         StopFlushes, StopReturns, LeaveAcceptLoop, EndRound, LeaveEventLoop, FinalShutdown,
         FinalPoolGone,
         FinalFlush, FinalClose
    <2>3. QED
      BY <2>1, <2>2
  <1>7. QED
    BY <1>1, <1>2, <1>3, <1>4, <1>5, <1>6
       DEF Next, AcceptLoop, Stopper, Elsewhere, LoopQuiet, LoopLeaves, StoreActions

\* So every request that was recorded stays accounted for.
LEMMA StoreStep ==
    ControlInv /\ ClientInv /\ HeldInv /\ StoreInv(Recorded) /\ [Next]_vars
        => StoreInv(Recorded)'
  <1> SUFFICES ASSUME ControlInv, ClientInv, HeldInv, StoreInv(Recorded), [Next]_vars
               PROVE  StoreInv(Recorded)'
    OBVIOUS
  <1>1. \A d : d = Recorded' => StoreInv(d)'
    <2>1. CASE \E r \in Clients : r \notin Recorded /\ Record(r) /\ Recorded' = Recorded \union {r}
      BY <2>1, RecordKeeps
    <2>2. CASE Recorded' = Recorded /\ StoreActions
      BY <2>2, FlushBeginKeeps, FlushingKeeps, OthersKeep DEF StoreActions
    <2>3. QED
      BY <2>1, <2>2, RecordSteps
  <1>2. QED
    BY <1>1 DEF StoreInv

\* Whatever a step does to the store is one of the store's own operations.
LEMMA StoreMoves ==
    [Next]_vars => Record(held) \/ (\E c \in Clients : Record(c)) \/ StoreActions
  BY DEF Next, AcceptLoop, Stopper, Connect, Handlers, Take, Count, RequestStarted, Answer,
     HandlerRaises, Expire, MetricsWorker, WorkerFlushes, WorkerPrunes, WorkerEnds, FlushGoesOn,
     vars, StopCalled, ShutdownWaits, StopSetsPhase, StopSetsClock, StopPoll, StopHalts,
     StopShutdown, StopPoolGone, StopCloses, StopFlushes, StopReturns, Accept, CheckDrain,
     SubmitTests, SubmitPuts, LeaveAcceptLoop, Register, NoMoreClients, Serve, ServeEnds,
     EndRound, LeaveEventLoop, FinalBegins, FinalShutdown, FinalPoolGone, FinalFlush,
     FinalClose, Refuse, RefuseRaises, StoreActions, storeVars

\* The store is closed only after a flush that began when nobody else would flush for it.
LEMMA SealStep == ControlInv /\ SealInv /\ [Next]_vars => SealInv'
  <1> SUFFICES ASSUME ControlInv, SealInv, [Next]_vars PROVE SealInv'
    OBVIOUS
  <1> USE DEF setup, flagVars, poolVars
  <1>1. sealed => sealed'
    <2>1. ASSUME Record(held) \/ (\E c \in Clients : Record(c)) \/ StoreActions
          PROVE  sealed => sealed'
      BY <2>1 DEF Record, StoreActions, FlushBegin, Flushing, FlushWrite, FlushCommit,
         FlushRaises, Prune, PruneRaises, CloseStore, storeVars
    <2>2. QED
      BY <2>1, StoreMoves
  <1>2. CASE UNCHANGED ControlVars
    BY <1>1, <1>2 DEF ControlVars, SealInv
  <1>3. CASE LoopWorks \/ LoopLeaves \/ FinalBegins \/ FinalPoolGone
    BY <1>3 DEF LoopWorks, LoopLeaves, Accept, CheckDrain, NextClient, SubmitTests, SubmitPuts,
       Register,
       NoMoreClients, Serve, ServeEnds, LeaveAcceptLoop, EndRound, LeaveEventLoop, FinalBegins,
       FinalPoolGone,
       Final, SealInv
  <1>4. CASE FinalShutdown
    BY <1>4 DEF FinalShutdown, Final, SealInv
  <1>5. CASE FinalFlush
    BY <1>5 DEF FinalFlush, Final, FlushBegin, SealInv
  <1>6. CASE FinalClose
    BY <1>1, <1>6 DEF FinalClose, Final, SealInv
  <1>7. CASE ShutdownWaits \/ StopCalled \/ Stopper
    <2>1. loop' = loop /\ cause \subseteq cause'
      BY <1>7 DEF ShutdownWaits, StopCalled, Stopper, Stop, StopSetsPhase, StopSetsClock,
         StopPoll, StopHalts, StopShutdown, StopPoolGone, StopCloses, StopFlushes, StopReturns
    <2>2. QED
      BY <1>1, <2>1 DEF SealInv
  <1>8. QED
    BY <1>2, <1>3, <1>4, <1>5, <1>6, <1>7, Bystanders
       DEF Next, AcceptLoop, LoopWorks, LoopLeaves

\* No step gives a variable a value of another kind.
LEMMA KindStep == ClientInv /\ KindInv /\ [Next]_vars => KindInv'
  <1> SUFFICES ASSUME ClientInv, KindInv, [Next]_vars PROVE KindInv'
    OBVIOUS
  <1> USE DEF setup, flagVars, poolVars
  <1>1. /\ raised' \in [Actors -> BOOLEAN] /\ dbOpen' \in BOOLEAN /\ sealed' \in BOOLEAN
    <2>1. ASSUME Record(held) \/ (\E c \in Clients : Record(c)) \/ StoreActions
          PROVE  raised' \in [Actors -> BOOLEAN] /\ dbOpen' \in BOOLEAN /\ sealed' \in BOOLEAN
      BY <2>1 DEF KindInv, Record, StoreActions, FlushBegin, Flushing, FlushWrite, FlushCommit,
         FlushRaises, Prune, PruneRaises, CloseStore, storeVars
    <2>2. QED
      BY <2>1, StoreMoves
  <1> DEFINE Rest == /\ engine \in Engines /\ mode \in StopModes
                     /\ running \in BOOLEAN /\ accepting \in BOOLEAN /\ listening \in BOOLEAN
                     /\ clockSet \in BOOLEAN /\ expired \in BOOLEAN
                     /\ pool \in BOOLEAN /\ stuck \in BOOLEAN
                     /\ worker \in {"sleep", "flush", "last", "dead", "ended"}
                     /\ locked \in Locks \union {"none"} /\ missed \subseteq Clients
  <1>2. Rest
    BY DEF KindInv
  <1> SUFFICES Rest'
    BY <1>1 DEF KindInv
  <1>3. CASE \E c \in Clients : Connect(c) \/ Handlers(c)
    BY <1>2, <1>3 DEF Connect, Handlers, Take, Count, RequestStarted, Answer, HandlerRaises
  <1>4. CASE MetricsWorker
    BY <1>2, <1>4 DEF MetricsWorker, WorkerFlushes, WorkerPrunes, WorkerEnds, Worker
  <1>5. CASE AcceptLoop
    <2>1. /\ UNCHANGED <<setup, accepting, listening, clockSet, expired, stuck, worker, locked>>
          /\ running' \in {running, FALSE} /\ pool' \in {pool, FALSE}
          /\ missed' \in {missed, missed \union InState("conn")}
      BY <1>5 DEF AcceptLoop, Accept, CheckDrain, SubmitTests, SubmitPuts, LeaveAcceptLoop,
         Register, NoMoreClients, Serve, ServeEnds, EndRound, LeaveEventLoop, Final, FinalBegins,
         FinalShutdown, ShutdownCall, FinalPoolGone, FinalFlush, FinalClose
    <2>2. InState("conn") \subseteq Clients
      BY DEF InState
    <2>3. QED
      BY <1>2, <2>1, <2>2
  <1>6. CASE Stopper
    <2>1. /\ UNCHANGED <<setup, accepting, expired, stuck, worker, locked, missed>>
          /\ running' \in {running, FALSE} /\ pool' \in {pool, FALSE}
          /\ listening' \in {listening, FALSE} /\ clockSet' \in {clockSet, TRUE}
      BY <1>6 DEF Stopper, Stop, StopSetsPhase, StopSetsClock, StopPoll, StopHalts,
         StopShutdown, ShutdownCall, StopPoolGone, StopCloses, StopFlushes, StopReturns
    <2>2. QED
      BY <1>2, <2>1
  <1>7. CASE StopCalled
    BY <1>2, <1>7 DEF StopCalled, Stop
  <1>8. CASE ShutdownWaits
    <2>1. /\ UNCHANGED <<setup, flagVars, pool, worker, locked>>
          /\ missed' \subseteq Clients
      BY <1>8 DEF ShutdownWaits, InState
    <2>2. stuck' \in BOOLEAN
      BY <1>8 DEF ShutdownWaits
    <2>3. QED
      BY <1>2, <2>1, <2>2
  <1>10. CASE Expire
    BY <1>2, <1>10 DEF Expire
  <1>11. CASE FlushGoesOn
    BY <1>2, <1>11 DEF FlushGoesOn
  <1>12. CASE UNCHANGED vars
    BY <1>2, <1>12 DEF vars
  <1>9. QED
    BY <1>3, <1>4, <1>5, <1>6, <1>7, <1>8, <1>10, <1>11, <1>12 DEF Next

-----------------------------------------------------------------------------
(* The invariant and what follows from it                                  *)

\* The server as start() finds it satisfies the invariant.
LEMMA InitIInv == Init => IInv
  <1> SUFFICES ASSUME Init PROVE IInv
    OBVIOUS
  <1>1. /\ engine \in {"threadpool", "selectors"} /\ pool = (engine = "threadpool")
        /\ running = TRUE /\ accepting = TRUE /\ listening = TRUE /\ phase = "running"
        /\ loop = "accept" /\ stopper = "idle" /\ shut = "no" /\ shutBy = Nobody
        /\ client = [c \in Clients |-> "away"] /\ cause = {} /\ StoreInit /\ held = Nobody
    BY DEF Init
  <1>2. ControlInv
    <2>1. StateOK
      BY <1>1 DEF StateOK, Early
    <2>2. EngineInv /\ PoolInv
      BY <1>1 DEF EngineInv, PoolInv
    <2>3. FlagInv
      BY <1>1 DEF FlagInv, Early, Halted, LoopEnd
    <2>4. QED
      BY <2>1, <2>2, <2>3 DEF ControlInv
  <1>3. ClientInv /\ HeldInv
    BY <1>1 DEF ClientInv, HeldInv, ClientStates, Holding
  <1>4. \A s \in ClientStates : s # "away" => InState(s) = {}
    BY <1>1 DEF InState
  <1>5. LimitInv
    <2>1. InState("queued") = {} /\ InState("conn") = {}
      BY <1>4 DEF ClientStates
    <2>2. QED
      BY <1>1, <2>1, FS_EmptySet DEF LimitInv
  <1>6. LossInv
    BY <1>1 DEF LossInv, OneLeft, PoolOver, LoopDone, Halted, LoopEnd, InStates
  <1>7. StoreInv(Recorded)
    <2>1. Recorded = {}
      BY <1>4 DEF Recorded, ClientStates
    <2>2. InHand = {}
      BY <1>1 DEF InHand, StoreInit
    <2>3. QED
      BY <1>1, <2>1, <2>2 DEF StoreInv, StoreInit
  <1>8. SealInv
    BY <1>1 DEF SealInv
  <1>9. KindInv
    BY DEF Init, StoreInit, KindInv, Locks
  <1>10. QED
    BY <1>2, <1>3, <1>5, <1>6, <1>7, <1>8, <1>9 DEF IInv

\* The invariant holds throughout, in whatever order the threads of the server come.
THEOREM Invariance == Spec => []IInv
  <1>1. IInv /\ [Next]_vars => IInv'
    BY ControlStep, HeldStep, LimitStep, LossStep, StoreStep, SealStep, KindStep
       DEF IInv
  <1>2. QED
    BY InitIInv, <1>1, PTL DEF Spec

\* Every variable keeps its kind, the loop and stop() keep to their positions, the loop holds
\* a client exactly while it deals with it and nobody else is held, the queue and the
\* connections keep their limits, and a row is in one place only until it is committed.
THEOREM TypeCorrect == Spec => []TypeOK
  <1>1. IInv => TypeOK
    <2> SUFFICES ASSUME IInv PROVE TypeOK
      OBVIOUS
    <2>1. StoreTypeOK
      <3>1. StoreInv(Recorded)
        BY DEF IInv
      <3>2. InHand \subseteq Requests
        BY <3>1 DEF StoreInv, InHand
      <3>3. QED
        BY <3>1, <3>2 DEF IInv, KindInv, StoreInv, StoreTypeOK
    <2>2. /\ held \in IF loop \in Holding \union {"serve"} THEN Clients ELSE {Nobody}
          /\ InState("held") = IF loop \in Holding THEN {held} ELSE {}
      BY DEF IInv, ClientInv, HeldInv, InState
    <2>3. /\ loop \in LoopPlaces /\ stopper \in StopPlaces
          /\ phase \in {"running", "draining", "stopped"} /\ cause \subseteq Causes
          /\ shut \in {"no", "waiting", "stopped"} /\ shutBy \in {"loop", "stop", Nobody}
      BY DEF IInv, ControlInv, StateOK, LoopPlaces, StopPlaces, Holding, LoopEnd, Early, Halted
    <2>4. /\ client \in [Clients -> ClientStates]
          /\ Cardinality(InState("queued")) <= QueueSize
          /\ Cardinality(InState("conn")) <= MaxConns
      BY DEF IInv, ClientInv, LimitInv
    <2>5. /\ engine \in Engines /\ mode \in StopModes
          /\ worker \in {"sleep", "flush", "last", "dead", "ended"}
          /\ locked \in Locks \union {"none"} /\ missed \subseteq Clients
          /\ {running, accepting, listening, clockSet, expired, pool, stuck} \subseteq BOOLEAN
      BY DEF IInv, KindInv
    <2>6. QED
      BY <2>1, <2>2, <2>3, <2>4, <2>5 DEF TypeOK
  <1>2. QED
    BY <1>1, Invariance, PTL

\* When start() and stop() are over and the workers with them, one client at most has no
\* answer, beside those whose handler died and those in missed: in the window between get()
\* and the count when the drain ended, or connected when the event loop ended a drain without
\* a clock; if no deadline and no exception of a loop cut the two short.  Whoever else is
\* queued, read, served or connected after the drain was in the loop's hands when it ended,
\* and nobody gets into them any more.
THEOREM OneClientLost == Spec => []OnlyHeldClientLost
  <1>1. IInv => OnlyHeldClientLost
    <2> SUFFICES ASSUME IInv, Over, cause \subseteq {"pool"}
                 PROVE  Cardinality(Unserved \ missed) <= 1
      BY DEF OnlyHeldClientLost
    <2>1. /\ ControlInv /\ ClientInv /\ LossInv
          /\ engine \in {"threadpool", "selectors"}
      BY DEF IInv, ControlInv, StateOK
    <2>2. \A c \in Unserved : c \in Clients /\ client[c] \in Working \union
                                                 {"held", "queued", "conn", "dropped"}
      BY DEF Unserved, InState, Working
    <2>3. AtMostOne(Unserved \ missed)
      <3>1. CASE engine = "threadpool"
        <4>1. PoolOver
          BY <2>1, <3>1 DEF PoolOver, ControlInv, PoolInv, StateOK, Over, LoopOver, LoopEnd
        <4>2. AtMostOne(InStates(LeftInPool) \ missed)
          BY <2>1, <3>1, <4>1 DEF LossInv, OneLeft
        <4>3. Unserved \subseteq InStates(LeftInPool)
          BY <2>1, <2>2, <3>1 DEF ClientInv, InStates, LeftInPool, Working
        <4>4. QED
          BY <4>2, <4>3 DEF AtMostOne
      <3>2. CASE engine = "selectors"
        <4>1. LoopDone
          BY DEF LoopDone, Over, LoopOver, LoopEnd
        <4>2. AtMostOne(InStates(LeftInLoop) \ missed)
          BY <2>1, <3>2, <4>1 DEF LossInv, OneLeft
        <4>3. Unserved \subseteq InStates(LeftInLoop)
          BY <2>1, <2>2, <3>2 DEF ClientInv, InStates, LeftInLoop, Working
        <4>4. QED
          BY <4>2, <4>3 DEF AtMostOne
      <3>3. QED
        BY <2>1, <3>1, <3>2
    <2> DEFINE L == Unserved \ missed
    <2>4. \A x, y \in L : x = y
      BY <2>3 DEF AtMostOne
    <2> HIDE DEF L
    <2>5. CASE L = {}
      BY <2>5, FS_EmptySet DEF L
    <2>6. CASE L # {}
      <3>1. PICK x : x \in L
        BY <2>6
      <3>2. L = {x}
        BY <2>4, <3>1
      <3>3. Cardinality(L) = 1
        BY <3>2, FS_Singleton
      <3>4. QED
        BY <3>3 DEF L
    <2>7. QED
      BY <2>5, <2>6
  <1>2. QED
    BY <1>1, Invariance, PTL

\* Every request that was answered or refused is counted in the store when the threads have
\* ended, but for the rows that a failed write took along and what came after the last
\* flush had begun.
THEOREM CountedKept == Spec => []RecordsKept
  <1>1. IInv => RecordsKept
    <2> SUFFICES ASSUME IInv, Over, \A a \in Actors : Flushed(a), "pool" \notin cause
                 PROVE  Recorded \subseteq rows \union lost \union late
      BY DEF RecordsKept, Recorded
    <2>1. StoreInv(Recorded)
      BY DEF IInv
    <2>2. InHand = {}
      BY <2>1 DEF StoreInv, Flushed, InHand
    <2>3. sealed
      BY DEF IInv, SealInv, Over, LoopOver
    <2>4. QED
      BY <2>1, <2>2, <2>3 DEF StoreInv
  <1>2. QED
    BY <1>1, Invariance, PTL

\* "stopped" is final: stop() sets the phase before anything it does can end the loop, whose
\* finally block is what sets "stopped".
THEOREM StoppedForGood == Spec => StoppedStays
  <1> DEFINE Stays == phase = "stopped" /\ cause \intersect {"oserror", "crash"} = {}
                        => phase' = "stopped"
  <1>1. IInv /\ [Next]_vars => [Stays]_vars
    <2> SUFFICES ASSUME IInv, [Next]_vars, phase = "stopped",
                        cause \intersect {"oserror", "crash"} = {}
                 PROVE  phase' = "stopped"
      OBVIOUS
    <2> USE DEF setup, flagVars, poolVars
    <2>1. loop = "returned" /\ stopper \notin Early
      BY DEF IInv, ControlInv, FlagInv, Clean, LoopEnd
    <2>2. CASE UNCHANGED ControlVars
      BY <2>2 DEF ControlVars
    <2>3. CASE AcceptLoop \/ ShutdownWaits \/ StopCalled \/ Stopper
      BY <2>1, <2>3 DEF AcceptLoop, Accept, CheckDrain, SubmitTests, SubmitPuts, LeaveAcceptLoop,
         Register, NoMoreClients, Serve, ServeEnds, EndRound, LeaveEventLoop, FinalBegins,
         FinalShutdown,
         FinalPoolGone, FinalFlush, FinalClose, Final, ShutdownWaits, StopCalled, Stopper, Stop,
         StopSetsPhase, StopSetsClock, StopPoll, StopHalts, StopShutdown, StopPoolGone,
         StopCloses, StopFlushes, StopReturns, Early
    <2>4. QED
      BY <2>2, <2>3, Bystanders DEF Next
  <1>2. QED
    BY <1>1, Invariance, PTL DEF Spec, StoppedStays
=============================================================================
