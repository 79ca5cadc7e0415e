-------------------------- MODULE ThreadPoolProofs --------------------------
(***************************************************************************)
(* Proofs about ThreadPool, for every number of workers, every queue size, *)
(* every number of jobs and every set of closers.                          *)
(***************************************************************************)
EXTENDS ThreadPool, SequenceFacts

USE PoolAssumption DEF PoolAssumption, Pill

-----------------------------------------------------------------------------
(* The strengthenings                                                      *)

\* A worker past len(_threads) has not started, and a job being submitted has not
\* been accepted: what makes the next step's worker and job new.
FreshInv ==
    /\ \A w \in Workers : w > threads => wpc[w] = "unborn"
    /\ \A j \in accepted : j <= offered
    /\ spc # "idle" => offered > 0 /\ offered \notin accepted

\* Where the accepted jobs are: the queue is sorted and holds only accepted jobs, and
\* every job with a worker is older than every queued one and differs from the others'.
OrderInv ==
    /\ \A i \in DOMAIN queue : queue[i] # Pill => queue[i] \in accepted
    /\ \A w \in Holding : hand[w] # Pill /\ hand[w] \in accepted
    /\ Fifo

\* A worker past its handler call has finished the job it still holds.
DoneInv == \A w \in Workers : wpc[w] \in {"returned", "raised"} => hand[w] \in finished

\* A closer that drains, stops or puts pills, or that has put pills, is alone in it.
Shutting(c) == cpc[c] \in {"drain", "expired", "stop", "pills"} \/ put[c] > 0

ShutdownInv ==
    /\ \A c \in Closers : Shutting(c) => shutdownStarted
    /\ \A c, d \in Closers : Shutting(c) /\ Shutting(d) => c = d
    /\ \A c \in Closers : cpc[c] = "pills" => stopEvent
    /\ \A i \in DOMAIN queue : queue[i] = Pill => stopEvent

\* A worker waiting in get() has taken nothing since the stop event was set.
LateInv ==
    \A w \in Workers :
        /\ lateTakes[w] <= 1
        /\ ~stopEvent => lateTakes[w] = 0
        /\ wpc[w] = "get" => lateTakes[w] = 0

\* What the job service needs to know beside: the queue is bounded, and only accepted
\* jobs are ever finished.
ServiceInv ==
    /\ Len(queue) <= QueueSize
    /\ finished \subseteq accepted

IInv ==
    /\ TypeOK
    /\ FreshInv
    /\ ActiveExact
    /\ OrderInv
    /\ NoJobLost
    /\ DoneInv
    /\ ShutdownInv
    /\ LateInv
    /\ ServiceInv

-----------------------------------------------------------------------------
\* The workers form a finite set, and so does every part of it.
LEMMA WorkersFinite ==
    ASSUME NEW T, T \subseteq Workers
    PROVE  IsFiniteSet(T)
  <1>1. IsFiniteSet(Workers)
    BY FS_Interval DEF Workers
  <1>2. QED
    BY <1>1, FS_Subset

-----------------------------------------------------------------------------
\* A pool that was just made satisfies the invariant.
LEMMA InitIInv == Init => IInv
  <1> SUFFICES ASSUME Init PROVE IInv
    OBVIOUS
  <1> USE DEF Init
  <1>1. TypeOK
    <2>1. queue \in Seq(Jobs \cup {Pill})
      OBVIOUS
    <2>2. threads \in 0 .. WorkerCount /\ offered \in 0 .. MaxJobs /\ 0 \in 0 .. WorkerCount
      OBVIOUS
    <2>3. QED
      BY <2>1, <2>2 DEF TypeOK
  <1>2. FreshInv
    BY DEF FreshInv
  <1>3. ActiveExact
    <2>1. Counted = {}
      BY DEF Counted
    <2>2. QED
      BY <2>1, FS_EmptySet DEF ActiveExact
  <1>4. OrderInv /\ NoJobLost
    BY DEF OrderInv, NoJobLost, Fifo, Holding
  <1>5. ShutdownInv
    BY DEF ShutdownInv, Shutting
  <1>6. LateInv
    BY DEF LateInv
  <1>7. DoneInv
    BY DEF DoneInv
  <1>8. ServiceInv
    BY DEF ServiceInv
  <1>9. QED
    BY <1>1, <1>2, <1>3, <1>4, <1>5, <1>6, <1>7, <1>8 DEF IInv

\* Every step keeps the type invariant.
LEMMA TypeStep == TypeOK /\ FreshInv /\ OrderInv /\ [Next]_vars => TypeOK'
  <1> SUFFICES ASSUME TypeOK, FreshInv, OrderInv, [Next]_vars PROVE TypeOK'
    OBVIOUS
  <1> USE DEF TypeOK, poolVars, workerVars, submitVars, closerVars
  <1>1. CASE StartWorker
    BY <1>1 DEF StartWorker, Workers
  <1>2. CASE Offer \/ SubmitCheck
    BY <1>2 DEF Offer, SubmitCheck
  <1>3. CASE SubmitPut
    <2>1. offered \in Jobs
      BY <1>3 DEF SubmitPut, FreshInv, Jobs
    <2>2. Append(queue, offered) \in Seq(Jobs \cup {Pill})
      BY <2>1, AppendFacts
    <2>3. QED
      BY <1>3, <2>1, <2>2 DEF SubmitPut
  <1>4. ASSUME NEW w \in Workers, Test(w) PROVE TypeOK'
    BY <1>4 DEF Test
  <1>5. ASSUME NEW w \in Workers, Take(w) PROVE TypeOK'
    <2>1. Head(queue) \in Jobs \cup {Pill} /\ Tail(queue) \in Seq(Jobs \cup {Pill})
      BY <1>5, TailFacts DEF Take
    <2>2. lateTakes' \in [Workers -> Nat]
      BY <1>5 DEF Take, NoteTake
    <2>3. QED
      BY <1>5, <2>1, <2>2 DEF Take
  <1>6. ASSUME NEW w \in Workers, GetTimeout(w) PROVE TypeOK'
    BY <1>6 DEF GetTimeout
  <1>7. ASSUME NEW w \in Workers, CountIn(w) PROVE TypeOK'
    BY <1>7 DEF CountIn
  <1>8. ASSUME NEW w \in Workers, Return(w) \/ Raise(w) PROVE TypeOK'
    <2>1. hand[w] \in Jobs
      BY <1>8 DEF Return, Raise, OrderInv, Holding
    <2>2. QED
      BY <1>8, <2>1 DEF Return, Raise
  <1>9. ASSUME NEW w \in Workers, CountOut(w) PROVE TypeOK'
    BY <1>9 DEF CountOut
  <1>10. ASSUME NEW c \in Closers, Claim(c) PROVE TypeOK'
    BY <1>10 DEF Claim
  <1>11. ASSUME NEW c \in Closers, DrainEnds(c) \/ DrainTimesOut(c) PROVE TypeOK'
    BY <1>11 DEF DrainEnds, DrainTimesOut
  <1>12. ASSUME NEW c \in Closers, SetStop(c) PROVE TypeOK'
    BY <1>12 DEF SetStop
  <1>13. ASSUME NEW c \in Closers, PutPill(c) PROVE TypeOK'
    <2>1. Append(queue, Pill) \in Seq(Jobs \cup {Pill})
      BY AppendFacts
    <2>2. QED
      BY <1>13, <2>1 DEF PutPill
  <1>14. ASSUME NEW c \in Closers, JoinAll(c) PROVE TypeOK'
    BY <1>14 DEF JoinAll
  <1>15. CASE UNCHANGED vars
    BY <1>15 DEF vars
  <1>16. QED
    BY <1>1, <1>2, <1>3, <1>4, <1>5, <1>6, <1>7, <1>8, <1>9, <1>10, <1>11, <1>12,
       <1>13, <1>14, <1>15 DEF Next, Submitter, Worker, Closer

-----------------------------------------------------------------------------
\* A job that is accepted or a worker that starts has not been seen before.
LEMMA FreshStep == TypeOK /\ FreshInv /\ [Next]_vars => FreshInv'
  <1> SUFFICES ASSUME TypeOK, FreshInv, [Next]_vars PROVE FreshInv'
    OBVIOUS
  <1> USE DEF FreshInv, TypeOK, poolVars, workerVars, submitVars, closerVars
  <1>1. CASE StartWorker
    BY <1>1 DEF StartWorker, Workers
  <1>2. CASE Offer
    <2>1. \A j \in accepted : j \in Nat /\ j <= offered
      BY DEF Jobs
    <2>2. offered' = offered + 1 /\ offered \in Nat /\ accepted' = accepted
      BY <1>2 DEF Offer
    <2>3. offered' > 0 /\ offered' \notin accepted' /\ \A j \in accepted' : j <= offered'
      BY <2>1, <2>2
    <2>4. QED
      BY <1>2, <2>3 DEF Offer
  <1>3. CASE SubmitCheck \/ SubmitPut
    BY <1>3 DEF SubmitCheck, SubmitPut
  <1>4. ASSUME NEW w \in Workers, Worker(w) PROVE FreshInv'
    BY <1>4 DEF Worker, Test, Take, GetTimeout, CountIn, Return, Raise, CountOut
  <1>5. ASSUME NEW c \in Closers, Closer(c) PROVE FreshInv'
    BY <1>5 DEF Closer, Claim, DrainEnds, DrainTimesOut, SetStop, PutPill, JoinAll
  <1>6. CASE UNCHANGED vars
    BY <1>6 DEF vars
  <1>7. QED
    BY <1>1, <1>2, <1>3, <1>4, <1>5, <1>6 DEF Next, Submitter

-----------------------------------------------------------------------------
\* _active_jobs moves with the set of workers between the two critical sections.
LEMMA CountStep == TypeOK /\ FreshInv /\ ActiveExact /\ [Next]_vars => ActiveExact'
  <1> SUFFICES ASSUME TypeOK, FreshInv, ActiveExact, [Next]_vars PROVE ActiveExact'
    OBVIOUS
  <1> USE DEF poolVars, workerVars, submitVars, closerVars
  <1>1. IsFiniteSet(Counted)
    BY WorkersFinite DEF Counted
  <1>2. ASSUME activeJobs' = activeJobs, Counted' = Counted PROVE ActiveExact'
    BY <1>2 DEF ActiveExact
  <1>3. CASE StartWorker
    <2>1. Counted' = Counted
      BY <1>3 DEF StartWorker, Counted, TypeOK, FreshInv, Workers
    <2>2. QED
      BY <1>2, <1>3, <2>1 DEF StartWorker
  <1>4. CASE Offer \/ SubmitCheck \/ SubmitPut
    BY <1>2, <1>4 DEF Offer, SubmitCheck, SubmitPut, Counted
  <1>5. ASSUME NEW w \in Workers, Test(w) \/ Take(w) \/ GetTimeout(w) \/ Return(w) \/ Raise(w)
        PROVE  ActiveExact'
    <2>1. Counted' = Counted
      BY <1>5 DEF Test, Take, GetTimeout, Return, Raise, Counted, TypeOK
    <2>2. activeJobs' = activeJobs
      BY <1>5 DEF Test, Take, GetTimeout, Return, Raise
    <2>3. QED
      BY <1>2, <2>1, <2>2
  <1>6. ASSUME NEW w \in Workers, CountIn(w) PROVE ActiveExact'
    <2>1. w \notin Counted /\ Counted' = Counted \cup {w}
      BY <1>6 DEF CountIn, Counted, TypeOK
    <2>2. Cardinality(Counted') = Cardinality(Counted) + 1
      BY <1>1, <2>1, FS_AddElement
    <2>3. QED
      BY <1>6, <2>2 DEF CountIn, ActiveExact
  <1>7. ASSUME NEW w \in Workers, CountOut(w) PROVE ActiveExact'
    <2>1. w \in Counted /\ Counted' = Counted \ {w}
      BY <1>7 DEF CountOut, Counted, TypeOK
    <2>2. Cardinality(Counted') = Cardinality(Counted) - 1
      BY <1>1, <2>1, FS_RemoveElement
    <2>3. Cardinality(Counted) \in Nat /\ Cardinality(Counted) # 0
      BY <1>1, <2>1, FS_CardinalityType, FS_EmptySet
    <2>4. QED
      BY <1>7, <2>2, <2>3 DEF CountOut, ActiveExact
  <1>8. ASSUME NEW c \in Closers, Closer(c) PROVE ActiveExact'
    <2>1. activeJobs' = activeJobs /\ wpc' = wpc
      BY <1>8 DEF Closer, Claim, DrainEnds, DrainTimesOut, SetStop, PutPill, JoinAll
    <2>2. QED
      BY <1>2, <2>1 DEF Counted
  <1>9. CASE UNCHANGED vars
    BY <1>2, <1>9 DEF vars, Counted
  <1>10. QED
    BY <1>3, <1>4, <1>5, <1>6, <1>7, <1>8, <1>9 DEF Next, Submitter, Worker

-----------------------------------------------------------------------------
\* Only one closer runs the shutdown, and pills follow the stop event.
LEMMA ShutdownStep == TypeOK /\ FreshInv /\ ShutdownInv /\ [Next]_vars => ShutdownInv'
  <1> SUFFICES ASSUME TypeOK, FreshInv, ShutdownInv, [Next]_vars PROVE ShutdownInv'
    OBVIOUS
  <1> USE DEF ShutdownInv, Shutting, TypeOK, poolVars, workerVars, submitVars, closerVars
  <1>1. CASE StartWorker \/ Offer \/ SubmitCheck
    BY <1>1 DEF StartWorker, Offer, SubmitCheck
  <1>2. CASE SubmitPut
    <2>1. CASE queue' = queue
      BY <1>2, <2>1 DEF SubmitPut
    <2>2. CASE queue' = Append(queue, offered)
      <3>1. offered \in Jobs
        BY <1>2 DEF SubmitPut, FreshInv, Jobs
      <3>2. \A i \in DOMAIN queue' : queue'[i] = Pill => stopEvent
        BY <2>2, <3>1, AppendFacts DEF Jobs
      <3>3. QED
        BY <1>2, <3>2 DEF SubmitPut
    <2>3. QED
      BY <1>2, <2>1, <2>2 DEF SubmitPut
  <1>3. ASSUME NEW w \in Workers, Take(w) PROVE ShutdownInv'
    <2>1. \A i \in DOMAIN queue' : queue'[i] = Pill => stopEvent
      BY <1>3, TailFacts DEF Take
    <2>2. QED
      BY <1>3, <2>1 DEF Take
  <1>4. ASSUME NEW w \in Workers,
               Test(w) \/ GetTimeout(w) \/ CountIn(w) \/ Return(w) \/ Raise(w) \/ CountOut(w)
        PROVE  ShutdownInv'
    BY <1>4 DEF Test, GetTimeout, CountIn, Return, Raise, CountOut
  <1>5. ASSUME NEW c \in Closers, Claim(c) PROVE ShutdownInv'
    BY <1>5 DEF Claim
  <1>6. ASSUME NEW c \in Closers, DrainEnds(c) \/ DrainTimesOut(c) PROVE ShutdownInv'
    BY <1>6 DEF DrainEnds, DrainTimesOut
  <1>7. ASSUME NEW c \in Closers, SetStop(c) PROVE ShutdownInv'
    BY <1>7 DEF SetStop
  <1>8. ASSUME NEW c \in Closers, PutPill(c) PROVE ShutdownInv'
    <2>1. stopEvent /\ stopEvent' = stopEvent
      BY <1>8 DEF PutPill
    <2>2. QED
      BY <1>8, <2>1 DEF PutPill
  <1>9. ASSUME NEW c \in Closers, JoinAll(c) PROVE ShutdownInv'
    BY <1>9 DEF JoinAll
  <1>10. CASE UNCHANGED vars
    BY <1>10 DEF vars
  <1>11. QED
    BY <1>1, <1>2, <1>3, <1>4, <1>5, <1>6, <1>7, <1>8, <1>9, <1>10
    DEF Next, Submitter, Worker, Closer

-----------------------------------------------------------------------------
\* After the stop event a worker passes the loop test no more, so it takes no second item.
LEMMA LateStep == TypeOK /\ FreshInv /\ LateInv /\ [Next]_vars => LateInv'
  <1> SUFFICES ASSUME TypeOK, FreshInv, LateInv, [Next]_vars PROVE LateInv'
    OBVIOUS
  <1> USE DEF LateInv, TypeOK, poolVars, workerVars, submitVars, closerVars
  <1>1. CASE StartWorker
    BY <1>1 DEF StartWorker, Workers
  <1>2. CASE Offer \/ SubmitCheck \/ SubmitPut
    BY <1>2 DEF Offer, SubmitCheck, SubmitPut
  <1>3. ASSUME NEW w \in Workers, Test(w) PROVE LateInv'
    BY <1>3 DEF Test
  <1>4. ASSUME NEW w \in Workers, Take(w) PROVE LateInv'
    <2>1. CASE stopEvent
      BY <1>4, <2>1 DEF Take, NoteTake
    <2>2. CASE ~stopEvent
      BY <1>4, <2>2 DEF Take, NoteTake
    <2>3. QED
      BY <2>1, <2>2
  <1>5. ASSUME NEW w \in Workers,
               GetTimeout(w) \/ CountIn(w) \/ Return(w) \/ Raise(w) \/ CountOut(w)
        PROVE  LateInv'
    BY <1>5 DEF GetTimeout, CountIn, Return, Raise, CountOut
  <1>6. ASSUME NEW c \in Closers, Closer(c) PROVE LateInv'
    BY <1>6 DEF Closer, Claim, DrainEnds, DrainTimesOut, SetStop, PutPill, JoinAll
  <1>7. CASE UNCHANGED vars
    BY <1>7 DEF vars
  <1>8. QED
    BY <1>1, <1>2, <1>3, <1>4, <1>5, <1>6, <1>7 DEF Next, Submitter, Worker

-----------------------------------------------------------------------------
\* The order of the queue, and the jobs with the workers, in two halves: steps that
\* touch neither, and the two queue operations on jobs.
LEMMA OrderSame ==
    ASSUME OrderInv, NoJobLost, TypeOK,
           queue' = queue \/ (Pill \notin Jobs /\ queue' = Append(queue, Pill)),
           hand' = hand, accepted' = accepted, finished \subseteq finished',
           Holding' \subseteq Holding,
           \A w \in Holding : w \in Holding' \/ hand[w] \in finished'
    PROVE  OrderInv' /\ NoJobLost'
  <1> USE DEF OrderInv, Fifo, NoJobLost
  <1>1. CASE queue' = queue
    <2>1. OrderInv'
      BY <1>1
    <2>2. NoJobLost'
      BY <1>1
    <2>3. QED
      BY <2>1, <2>2
  <1>2. CASE queue' = Append(queue, Pill)
    <2>1. /\ DOMAIN queue' = DOMAIN queue \cup {Len(queue) + 1}
          /\ \A i \in DOMAIN queue : queue'[i] = queue[i]
          /\ queue'[Len(queue) + 1] = Pill
      BY <1>2, AppendFacts DEF TypeOK
    <2>2. OrderInv'
      BY <2>1
    <2>3. NoJobLost'
      BY <2>1
    <2>4. QED
      BY <2>2, <2>3
  <1>3. QED
    BY <1>1, <1>2

\* Every step keeps the order in which jobs are taken, and every accepted job somewhere.
LEMMA OrderStep == IInv /\ [Next]_vars => OrderInv' /\ NoJobLost'
  <1> SUFFICES ASSUME IInv, [Next]_vars PROVE OrderInv' /\ NoJobLost'
    OBVIOUS
  <1>a. TypeOK /\ FreshInv /\ OrderInv /\ NoJobLost /\ Pill \notin Jobs
    BY DEF IInv, Jobs
  <1> USE DEF poolVars, workerVars, submitVars, closerVars
  <1>1. CASE StartWorker
    <2>1. Holding' = Holding
      BY <1>a, <1>1 DEF StartWorker, Holding, TypeOK, FreshInv, Workers
    <2>2. QED
      BY <1>a, <1>1, <2>1, OrderSame DEF StartWorker
  <1>2. CASE Offer \/ SubmitCheck
    <2>1. Holding' = Holding
      BY <1>2 DEF Offer, SubmitCheck, Holding
    <2>2. QED
      BY <1>a, <1>2, <2>1, OrderSame DEF Offer, SubmitCheck
  <1>3. CASE SubmitPut
    <2>1. Holding' = Holding
      BY <1>3 DEF SubmitPut, Holding
    <2>2. CASE queue' = queue /\ accepted' = accepted
      BY <1>a, <1>3, <2>1, <2>2, OrderSame DEF SubmitPut
    <2>3. CASE queue' = Append(queue, offered) /\ accepted' = accepted \cup {offered}
      <3>1. offered \in Jobs /\ offered # Pill /\ \A j \in accepted : j \in Nat /\ j < offered
        BY <1>a, <1>3 DEF SubmitPut, FreshInv, TypeOK, Jobs
      <3>2. /\ DOMAIN queue' = DOMAIN queue \cup {Len(queue) + 1}
            /\ \A i \in DOMAIN queue : queue'[i] = queue[i] /\ i < Len(queue) + 1
            /\ queue'[Len(queue) + 1] = offered
            /\ DOMAIN queue \subseteq Nat /\ Len(queue) \in Nat
        BY <1>a, <2>3, <3>1, AppendFacts DEF TypeOK
      <3>3. \A i \in DOMAIN queue' : queue'[i] # Pill => queue'[i] \in accepted'
        BY <1>a, <2>3, <3>2 DEF OrderInv
      <3>4. \A w \in Holding : hand[w] # Pill /\ hand[w] \in accepted /\ hand[w] < offered
        BY <1>a, <3>1 DEF OrderInv
      <3>5. \A i, k \in DOMAIN queue' :
               i < k /\ queue'[i] # Pill /\ queue'[k] # Pill => queue'[i] < queue'[k]
        <4> SUFFICES ASSUME NEW i \in DOMAIN queue', NEW k \in DOMAIN queue',
                            i < k, queue'[i] # Pill, queue'[k] # Pill
                     PROVE  queue'[i] < queue'[k]
          OBVIOUS
        <4>1. i \in DOMAIN queue
          BY <3>2
        <4>2. CASE k \in DOMAIN queue
          BY <1>a, <3>2, <4>1, <4>2 DEF OrderInv, Fifo
        <4>3. CASE k = Len(queue) + 1
          BY <1>a, <3>1, <3>2, <4>1, <4>3 DEF OrderInv
        <4>4. QED
          BY <3>2, <4>2, <4>3
      <3>6. \A w \in Holding, i \in DOMAIN queue' : queue'[i] # Pill => hand[w] < queue'[i]
        BY <1>a, <3>2, <3>4 DEF OrderInv, Fifo
      <3>7. OrderInv'
        BY <1>a, <1>3, <2>1, <2>3, <3>3, <3>4, <3>5, <3>6 DEF SubmitPut, OrderInv, Fifo
      <3>8. NoJobLost'
        BY <1>a, <1>3, <2>1, <2>3, <3>2 DEF SubmitPut, NoJobLost
      <3>9. QED
        BY <3>7, <3>8
    <2>4. QED
      BY <1>3, <2>2, <2>3 DEF SubmitPut
  <1>4. ASSUME NEW w \in Workers, Take(w) PROVE OrderInv' /\ NoJobLost'
    <2>1. /\ queue # << >> /\ queue \in Seq(Jobs \cup {Pill})
          /\ queue' = Tail(queue) /\ accepted' = accepted /\ finished' = finished
          /\ hand' = [hand EXCEPT ![w] = queue[1]]
          /\ w \notin Holding
      BY <1>a, <1>4, TailFacts DEF Take, TypeOK, Holding
    <2>2. /\ 1 \in DOMAIN queue
          /\ \A i \in DOMAIN queue' : i + 1 \in DOMAIN queue /\ queue'[i] = queue[i + 1]
          /\ \A i \in DOMAIN queue : i # 1 => i - 1 \in DOMAIN queue' /\ queue'[i - 1] = queue[i]
          /\ DOMAIN queue' \subseteq Nat \ {0}
      BY <2>1, TailFacts
    <2>3. Holding' = IF queue[1] = Pill THEN Holding ELSE Holding \cup {w}
      BY <1>a, <1>4, <2>1, TailFacts DEF Take, Holding, TypeOK
    <2>4. \A v \in Holding : v # w /\ hand'[v] = hand[v]
      BY <1>a, <2>1 DEF TypeOK, Holding
    <2>5. w \in Holding' => hand'[w] = queue[1] /\ queue[1] # Pill
      BY <1>a, <2>1, <2>3 DEF TypeOK
    <2>6. \A i \in DOMAIN queue' : queue'[i] # Pill => queue'[i] \in accepted'
      BY <1>a, <2>1, <2>2 DEF OrderInv
    <2>7. \A v \in Holding' : hand'[v] # Pill /\ hand'[v] \in accepted'
      BY <1>a, <2>1, <2>2, <2>3, <2>4, <2>5 DEF OrderInv
    <2>8. \A i, k \in DOMAIN queue' :
             i < k /\ queue'[i] # Pill /\ queue'[k] # Pill => queue'[i] < queue'[k]
      <3> SUFFICES ASSUME NEW i \in DOMAIN queue', NEW k \in DOMAIN queue',
                          i < k, queue'[i] # Pill, queue'[k] # Pill
                   PROVE  queue'[i] < queue'[k]
        OBVIOUS
      <3>1. i + 1 \in DOMAIN queue /\ k + 1 \in DOMAIN queue /\ i + 1 < k + 1
        BY <2>2
      <3>2. QED
        BY <1>a, <2>2, <3>1 DEF OrderInv, Fifo
    <2>9. \A v \in Holding', i \in DOMAIN queue' : queue'[i] # Pill => hand'[v] < queue'[i]
      <3> SUFFICES ASSUME NEW v \in Holding', NEW i \in DOMAIN queue', queue'[i] # Pill
                   PROVE  hand'[v] < queue'[i]
        OBVIOUS
      <3>1. i + 1 \in DOMAIN queue /\ queue[i + 1] = queue'[i] /\ 1 < i + 1
        BY <2>2
      <3>2. CASE v \in Holding
        BY <1>a, <2>4, <3>1, <3>2 DEF OrderInv, Fifo
      <3>3. CASE v = w
        BY <1>a, <2>2, <2>5, <3>1, <3>3 DEF OrderInv, Fifo
      <3>4. QED
        BY <2>3, <3>2, <3>3
    <2>10. \A u, v \in Holding' : u # v => hand'[u] # hand'[v]
      <3>1. w \in Holding' => \A v \in Holding : hand[v] < queue[1]
        BY <1>a, <2>2, <2>5 DEF OrderInv, Fifo
      <3>2. w \in Holding' => \A v \in Holding : hand[v] # queue[1]
        <4> SUFFICES ASSUME w \in Holding', NEW v \in Holding PROVE hand[v] # queue[1]
          OBVIOUS
        <4>1. hand[v] \in accepted
          BY <1>a DEF OrderInv
        <4>2. \A j \in accepted : j \in Nat
          BY <1>a DEF TypeOK, Jobs
        <4>3. QED
          BY <3>1, <4>1, <4>2
      <3>3. QED
        BY <1>a, <2>3, <2>4, <2>5, <3>2 DEF OrderInv, Fifo
    <2>11. OrderInv'
      BY <2>6, <2>7, <2>8, <2>9, <2>10 DEF OrderInv, Fifo
    <2>12. NoJobLost'
      <3> SUFFICES ASSUME NEW j \in accepted
                   PROVE  \/ \E i \in DOMAIN queue' : queue'[i] = j
                          \/ \E v \in Holding' : hand'[v] = j
                          \/ j \in finished'
        BY <2>1 DEF NoJobLost
      <3>1. j # Pill
        BY <1>a DEF TypeOK
      <3>2. CASE \E i \in DOMAIN queue : queue[i] = j
        <4> PICK i \in DOMAIN queue : queue[i] = j
          BY <3>2
        <4>1. CASE i = 1
          <5>1. w \in Holding'
            BY <2>3, <3>1, <4>1
          <5>2. QED
            BY <2>5, <4>1, <5>1
        <4>2. CASE i # 1
          BY <2>2, <4>2
        <4>3. QED
          BY <4>1, <4>2
      <3>3. CASE \E v \in Holding : hand[v] = j
        BY <2>3, <2>4, <3>3
      <3>4. CASE j \in finished
        BY <2>1, <3>4
      <3>5. QED
        BY <1>a, <3>2, <3>3, <3>4 DEF NoJobLost
    <2>13. QED
      BY <2>11, <2>12
  <1>5. ASSUME NEW w \in Workers, Test(w) \/ GetTimeout(w) \/ CountIn(w) \/ Return(w) \/ Raise(w)
        PROVE  OrderInv' /\ NoJobLost'
    <2>1. Holding' = Holding
      BY <1>a, <1>5 DEF Test, GetTimeout, CountIn, Return, Raise, Holding, TypeOK
    <2>2. /\ queue' = queue /\ hand' = hand /\ accepted' = accepted
          /\ finished \subseteq finished'
      BY <1>5 DEF Test, GetTimeout, CountIn, Return, Raise
    <2>3. QED
      BY <1>a, <2>1, <2>2, OrderSame
  <1>6. ASSUME NEW w \in Workers, CountOut(w) PROVE OrderInv' /\ NoJobLost'
    <2>1. Holding' = Holding \ {w} /\ wpc[w] \in {"returned", "raised"}
      BY <1>a, <1>6 DEF CountOut, Holding, TypeOK
    <2>2. hand[w] \in finished
      BY <2>1 DEF IInv, DoneInv
    <2>3. QED
      BY <1>a, <1>6, <2>1, <2>2, OrderSame DEF CountOut
  <1>7. ASSUME NEW c \in Closers, Closer(c) PROVE OrderInv' /\ NoJobLost'
    <2>1. Holding' = Holding /\ hand' = hand /\ accepted' = accepted /\ finished' = finished
      BY <1>7 DEF Closer, Claim, DrainEnds, DrainTimesOut, SetStop, PutPill, JoinAll, Holding
    <2>2. queue' = queue \/ queue' = Append(queue, Pill)
      BY <1>7 DEF Closer, Claim, DrainEnds, DrainTimesOut, SetStop, PutPill, JoinAll
    <2>3. QED
      BY <1>a, <2>1, <2>2, OrderSame
  <1>8. CASE UNCHANGED vars
    <2>1. Holding' = Holding
      BY <1>8 DEF vars, Holding
    <2>2. QED
      BY <1>a, <1>8, <2>1, OrderSame DEF vars
  <1>9. QED
    BY <1>1, <1>2, <1>3, <1>4, <1>5, <1>6, <1>7, <1>8 DEF Next, Submitter, Worker

\* Only _handler's end moves a worker there, and it finishes the job first.
LEMMA DoneStep == TypeOK /\ FreshInv /\ DoneInv /\ [Next]_vars => DoneInv'
  <1> SUFFICES ASSUME TypeOK, FreshInv, DoneInv, [Next]_vars PROVE DoneInv'
    OBVIOUS
  <1> USE DEF DoneInv, TypeOK, poolVars, workerVars, submitVars, closerVars
  <1>1. CASE StartWorker
    BY <1>1 DEF StartWorker, Workers
  <1>2. CASE Offer \/ SubmitCheck \/ SubmitPut
    BY <1>2 DEF Offer, SubmitCheck, SubmitPut
  <1>3. ASSUME NEW w \in Workers, Worker(w) PROVE DoneInv'
    BY <1>3 DEF Worker, Test, Take, GetTimeout, CountIn, Return, Raise, CountOut
  <1>4. ASSUME NEW c \in Closers, Closer(c) PROVE DoneInv'
    BY <1>4 DEF Closer, Claim, DrainEnds, DrainTimesOut, SetStop, PutPill, JoinAll
  <1>5. CASE UNCHANGED vars
    BY <1>5 DEF vars
  <1>6. QED
    BY <1>1, <1>2, <1>3, <1>4, <1>5 DEF Next, Submitter

-----------------------------------------------------------------------------
\* put_nowait and put respect the bound, and a worker finishes what was accepted.
LEMMA ServiceStep == IInv /\ [Next]_vars => ServiceInv'
  <1> SUFFICES ASSUME IInv, [Next]_vars PROVE ServiceInv'
    OBVIOUS
  <1>a. TypeOK /\ OrderInv /\ ServiceInv /\ FreshInv
    BY DEF IInv
  <1> USE DEF poolVars, workerVars, submitVars, closerVars
  <1>1. ASSUME queue' = queue, accepted' = accepted, finished' = finished PROVE ServiceInv'
    BY <1>1, <1>a DEF ServiceInv
  <1>2. CASE StartWorker \/ Offer \/ SubmitCheck
    BY <1>1, <1>2 DEF StartWorker, Offer, SubmitCheck
  <1>3. CASE SubmitPut
    <2>1. CASE queue' = queue /\ accepted' = accepted
      BY <1>1, <1>3, <2>1 DEF SubmitPut
    <2>2. CASE ~Full /\ queue' = Append(queue, offered) /\ accepted' = accepted \cup {offered}
      <3>1. offered \in Jobs
        BY <1>3, <1>a DEF SubmitPut, FreshInv, TypeOK, Jobs
      <3>2. Len(queue') = Len(queue) + 1 /\ Len(queue) \in Nat
        BY <1>a, <2>2, <3>1, AppendFacts DEF TypeOK
      <3>3. finished' = finished
        BY <1>3 DEF SubmitPut
      <3>4. QED
        BY <1>a, <2>2, <3>2, <3>3 DEF ServiceInv, Full
    <2>3. QED
      BY <1>3, <2>1, <2>2 DEF SubmitPut
  <1>4. ASSUME NEW w \in Workers, Take(w) PROVE ServiceInv'
    <2>1. Len(queue') = Len(queue) - 1 /\ Len(queue) \in Nat
      BY <1>4, <1>a, TailFacts DEF Take, TypeOK
    <2>2. QED
      BY <1>4, <1>a, <2>1 DEF Take, ServiceInv
  <1>5. ASSUME NEW w \in Workers, Return(w) \/ Raise(w) PROVE ServiceInv'
    <2>1. hand[w] \in accepted
      BY <1>5, <1>a DEF Return, Raise, OrderInv, Holding
    <2>2. QED
      BY <1>5, <1>a, <2>1 DEF Return, Raise, ServiceInv
  <1>6. ASSUME NEW w \in Workers, Test(w) \/ GetTimeout(w) \/ CountIn(w) \/ CountOut(w)
        PROVE  ServiceInv'
    BY <1>1, <1>6 DEF Test, GetTimeout, CountIn, CountOut
  <1>7. ASSUME NEW c \in Closers, PutPill(c) PROVE ServiceInv'
    <2>1. Len(queue') = Len(queue) + 1 /\ Len(queue) \in Nat
      BY <1>7, <1>a, AppendFacts DEF PutPill, TypeOK
    <2>2. QED
      BY <1>7, <1>a, <2>1 DEF PutPill, ServiceInv, Full
  <1>8. ASSUME NEW c \in Closers,
               Claim(c) \/ DrainEnds(c) \/ DrainTimesOut(c) \/ SetStop(c) \/ JoinAll(c)
        PROVE  ServiceInv'
    BY <1>1, <1>8 DEF Claim, DrainEnds, DrainTimesOut, SetStop, JoinAll
  <1>9. CASE UNCHANGED vars
    BY <1>1, <1>9 DEF vars
  <1>10. QED
    BY <1>2, <1>3, <1>4, <1>5, <1>6, <1>7, <1>8, <1>9 DEF Next, Submitter, Worker, Closer

-----------------------------------------------------------------------------
\* The invariant is inductive.
LEMMA StepIInv == IInv /\ [Next]_vars => IInv'
  BY TypeStep, FreshStep, CountStep, OrderStep, DoneStep, ShutdownStep, LateStep, ServiceStep
  DEF IInv

\* IInv is an invariant of the pool.
THEOREM Invariance == Spec => []IInv
  BY InitIInv, StepIInv, PTL DEF Spec

\* The pool's variables keep their types, for any number of workers and jobs.
THEOREM TypeCorrect == Spec => []TypeOK
  <1>1. IInv => TypeOK
    BY DEF IInv
  <1>2. QED
    BY <1>1, Invariance, PTL

\* _active_jobs counts exactly the workers inside the counted section, so the
\* clamp in the finally block never hides a miscount.
THEOREM ActiveCountExact == Spec => []ActiveExact
  <1>1. IInv => ActiveExact
    BY DEF IInv
  <1>2. QED
    BY <1>1, Invariance, PTL

\* Jobs are taken in the order of their acceptance, by one worker each.
THEOREM FirstComeFirstServed == Spec => []Fifo
  <1>1. IInv => Fifo
    BY DEF IInv, OrderInv
  <1>2. QED
    BY <1>1, Invariance, PTL

\* No accepted job disappears between submit() and the end of its handler call.
THEOREM AcceptedAccountedFor == Spec => []NoJobLost
  <1>1. IInv => NoJobLost
    BY DEF IInv
  <1>2. QED
    BY <1>1, Invariance, PTL

\* At most one caller ever runs the shutdown, and no pill precedes the stop event.
THEOREM ShutdownIdempotent == Spec => []OneShutdown
  <1>1. IInv => OneShutdown
    BY DEF IInv, ShutdownInv, OneShutdown, Shutting, TypeOK
  <1>2. QED
    BY <1>1, Invariance, PTL

\* After the stop event each worker takes at most one more item.
THEOREM LateWorkBounded == Spec => []BoundedLateWork
  <1>1. IInv => BoundedLateWork
    BY DEF IInv, LateInv, BoundedLateWork
  <1>2. QED
    BY <1>1, Invariance, PTL

\* A drain that is reported complete can have missed only jobs that a worker has
\* taken off the queue and not yet counted: the extent of the window.
THEOREM DrainWindow == Spec => DrainMissesOnlyTaken
  <1>1. ASSUME IInv, NEW c \in Closers, DrainEnds(c), NEW j \in accepted
        PROVE  j \in finished \/ \E w \in Workers : wpc[w] = "taken" /\ hand[w] = j
    <2>1. queue = << >> /\ activeJobs = 0
      BY <1>1 DEF DrainEnds, Drained
    <2>2. Counted = {}
      <3>1. IsFiniteSet(Counted)
        BY WorkersFinite DEF Counted
      <3>2. Cardinality(Counted) = 0
        BY <1>1, <2>1 DEF IInv, ActiveExact
      <3>3. QED
        BY <3>1, <3>2, FS_EmptySet
    <2>3. j \in finished \/ \E w \in Holding : hand[w] = j
      BY <1>1, <2>1 DEF IInv, NoJobLost
    <2>4. \A w \in Holding : wpc[w] = "taken"
      BY <2>2 DEF Holding, Counted
    <2>5. QED
      BY <2>3, <2>4 DEF Holding
  <1>2. IInv => [\A c \in Closers : DrainEnds(c) =>
                   \A j \in accepted : \/ j \in finished
                                       \/ \E w \in Workers : wpc[w] = "taken" /\ hand[w] = j]_vars
    BY <1>1
  <1>3. QED
    BY <1>2, Invariance, PTL DEF DrainMissesOnlyTaken

-----------------------------------------------------------------------------
(* The refinement: the jobs of the queue as a sequence of their own        *)

Queues == Seq(Jobs \cup {Pill})

\* JobsOf is a sequence of the queue's jobs, and only of them.
LEMMA JobsOfFacts ==
    ASSUME NEW q \in Queues
    PROVE  /\ JobsOf(q) \in Seq(Jobs)
           /\ Len(JobsOf(q)) = Cardinality(JobPlaces(q)) /\ Len(JobsOf(q)) \in Nat
           /\ \A n \in DOMAIN JobsOf(q) : \E i \in JobPlaces(q) : JobsOf(q)[n] = q[i]
           /\ JobPlaces(q) \subseteq DOMAIN q /\ \A i \in JobPlaces(q) : q[i] \in Jobs
  <1> DEFINE P == JobPlaces(q)
  <1>1. P \subseteq DOMAIN q /\ \A i \in P : q[i] \in Jobs
    BY DEF JobPlaces, Queues
  <1>2. P \subseteq Nat
    BY <1>1 DEF Queues
  <1>3. IsFiniteSet(P)
    BY <1>1, PositionsFinite DEF Queues
  <1>4. /\ Subsequence(q, P) \in Seq(Jobs)
        /\ Len(Subsequence(q, P)) = Cardinality(P) /\ Len(Subsequence(q, P)) \in Nat
        /\ \A n \in DOMAIN Subsequence(q, P) :
              \E i \in P : Rank(P, i) = n /\ Subsequence(q, P)[n] = q[i]
    <2> HIDE DEF P
    <2>1. QED
      BY <1>1, <1>2, <1>3, SubsequenceFacts
  <1>5. QED
    BY <1>1, <1>4 DEF JobsOf

\* A job appended to the queue is appended to its jobs; a pill is not seen.
LEMMA JobsOfAppend ==
    ASSUME NEW q \in Queues, NEW e \in Jobs \cup {Pill}
    PROVE  JobsOf(Append(q, e)) = IF e = Pill THEN JobsOf(q) ELSE Append(JobsOf(q), e)
  <1> DEFINE P == JobPlaces(q)
             S == Jobs \cup {Pill}
  <1>1. P \subseteq DOMAIN q /\ \A i \in P : q[i] \in Jobs
    BY JobsOfFacts
  <1>2. JobPlaces(Append(q, e)) = IF e = Pill THEN P ELSE P \cup {Len(q) + 1}
    BY AppendFacts DEF Queues, JobPlaces
  <1>3. /\ Subsequence(Append(q, e), P) = Subsequence(q, P)
        /\ Subsequence(Append(q, e), P \cup {Len(q) + 1}) = Append(Subsequence(q, P), e)
    <2>1. q \in Seq(S) /\ e \in S
      BY DEF Queues
    <2> HIDE DEF P, S
    <2>2. QED
      BY <1>1, <2>1, SubsequenceAppend
  <1>4. QED
    BY <1>2, <1>3 DEF JobsOf

\* Taking the oldest item off the queue takes the oldest job, unless it is a pill.
LEMMA JobsOfTail ==
    ASSUME NEW q \in Queues, q # << >>
    PROVE  IF q[1] = Pill THEN JobsOf(Tail(q)) = JobsOf(q)
           ELSE JobsOf(q) # << >> /\ Head(JobsOf(q)) = q[1] /\ JobsOf(Tail(q)) = Tail(JobsOf(q))
  <1> DEFINE P == JobPlaces(q)
             R == {i - 1 : i \in P \ {1}}
  <1>1. P \subseteq DOMAIN q /\ \A i \in P : q[i] \in Jobs
    BY JobsOfFacts
  <1>2. /\ 1 \in DOMAIN q
        /\ \A i \in DOMAIN Tail(q) : i + 1 \in DOMAIN q /\ Tail(q)[i] = q[i + 1]
        /\ \A i \in DOMAIN q : i # 1 => i - 1 \in DOMAIN Tail(q) /\ Tail(q)[i - 1] = q[i]
        /\ DOMAIN Tail(q) \subseteq Nat \ {0} /\ DOMAIN q \subseteq Nat
    BY TailFacts DEF Queues
  <1>3. 1 \in P <=> q[1] # Pill
    BY <1>2 DEF JobPlaces
  <1>4. JobPlaces(Tail(q)) = R
    <2>1. \A i \in DOMAIN Tail(q) : Tail(q)[i] # Pill => i \in R
      <3> SUFFICES ASSUME NEW i \in DOMAIN Tail(q), Tail(q)[i] # Pill
                   PROVE  \E j \in P \ {1} : i = j - 1
        OBVIOUS
      <3>1. i \in Nat \ {0} /\ i + 1 \in P
        BY <1>2 DEF JobPlaces
      <3>2. i + 1 # 1 /\ i = (i + 1) - 1
        BY <3>1
      <3>3. QED
        BY <3>1, <3>2
    <2>2. \A j \in P \ {1} : j - 1 \in DOMAIN Tail(q) /\ Tail(q)[j - 1] # Pill
      BY <1>2 DEF JobPlaces
    <2>3. QED
      BY <2>1, <2>2 DEF JobPlaces
  <1>5. IF 1 \in P
        THEN /\ Subsequence(q, P) # << >> /\ Head(Subsequence(q, P)) = q[1]
             /\ Subsequence(Tail(q), R) = Tail(Subsequence(q, P))
        ELSE Subsequence(Tail(q), R) = Subsequence(q, P)
    <2> HIDE DEF P
    <2>1. QED
      BY <1>1, SubsequenceTail DEF Queues
  <1>6. QED
    BY <1>3, <1>4, <1>5 DEF JobsOf

-----------------------------------------------------------------------------
(* The refinement: every step of the pool is a step of the service or none *)

InService == {w \in Workers : wpc[w] \in {"taken", "handling"}}
Hands == {hand[w] : w \in InService}
TurnedAway == (1 .. (IF spc = "idle" THEN offered ELSE offered - 1)) \ accepted

\* What the service knows of has been accepted, or was turned away before.
LEMMA KnownFacts ==
    ASSUME IInv
    PROVE  /\ queue \in Queues
           /\ \A n \in DOMAIN JobsOf(queue) : JobsOf(queue)[n] \in accepted
           /\ Hands \subseteq accepted
           /\ finished \subseteq accepted
           /\ Service!Known \subseteq accepted \cup TurnedAway
  <1>1. TypeOK /\ OrderInv /\ ServiceInv
    BY DEF IInv
  <1>2. queue \in Queues
    BY <1>1 DEF TypeOK, Queues
  <1>3. \A n \in DOMAIN JobsOf(queue) : JobsOf(queue)[n] \in accepted
    <2> SUFFICES ASSUME NEW n \in DOMAIN JobsOf(queue) PROVE JobsOf(queue)[n] \in accepted
      OBVIOUS
    <2>1. PICK i \in JobPlaces(queue) : JobsOf(queue)[n] = queue[i]
      BY <1>2, JobsOfFacts
    <2>2. QED
      BY <1>1, <2>1 DEF JobPlaces, OrderInv
  <1>4. Hands \subseteq accepted
    BY <1>1 DEF Hands, InService, OrderInv, Holding
  <1>5. QED
    BY <1>1, <1>2, <1>3, <1>4 DEF ServiceInv, Service!Known, TurnedAway, Hands, InService

\* A pool that was just made is a job service with nothing in line.
LEMMA RefineInit == Init => Service!Init
  <1> SUFFICES ASSUME Init PROVE Service!Init
    OBVIOUS
  <1>1. queue = << >> /\ queue \in Queues
    BY DEF Init, Queues
  <1>2. JobPlaces(queue) = {}
    BY <1>1 DEF JobPlaces
  <1>3. JobsOf(queue) \in Seq(Jobs) /\ Len(JobsOf(queue)) = 0
    BY <1>1, <1>2, JobsOfFacts, FS_EmptySet
  <1>4. JobsOf(queue) = << >>
    BY <1>3, EmptyFacts
  <1>5. {hand[w] : w \in {v \in Workers : wpc[v] \in {"taken", "handling"}}} = {}
    BY DEF Init
  <1>6. TurnedAway = {}
    BY DEF Init, TurnedAway
  <1>7. QED
    BY <1>4, <1>5, <1>6 DEF Init, Service!Init, TurnedAway

\* Nothing the service can see changes.
LEMMA Stutter ==
    ASSUME JobsOf(queue)' = JobsOf(queue), Hands' = Hands, finished' = finished,
           TurnedAway' = TurnedAway, stopEvent' = stopEvent
    PROVE  UNCHANGED Service!vars
  BY DEF Service!vars, Hands, InService, TurnedAway

\* put_nowait is what the service calls accepting, or refusing a job at full length.
LEMMA RefinePut ==
    ASSUME IInv, SubmitPut
    PROVE  Service!Accept(offered) \/ Service!Refuse(offered)
  <1>1. TypeOK /\ FreshInv /\ ServiceInv /\ ShutdownInv
    BY DEF IInv
  <1>2. /\ offered \in Jobs /\ offered \in Nat \ {0} /\ offered \notin accepted
        /\ TurnedAway = (1 .. (offered - 1)) \ accepted
        /\ spc = "put" /\ spc' = "idle" /\ offered' = offered
    BY <1>1 DEF SubmitPut, FreshInv, TypeOK, Jobs, submitVars, TurnedAway
  <1>3. offered \notin Service!Known
    <2>1. offered \notin TurnedAway
      BY <1>2
    <2>2. QED
      BY <1>2, <2>1, KnownFacts
  <1>4. Hands' = Hands /\ finished' = finished /\ stopEvent' = stopEvent
    BY DEF SubmitPut, workerVars, Hands, InService
  <1>5. /\ JobsOf(queue) \in Seq(Jobs) /\ Len(JobsOf(queue)) = Cardinality(JobPlaces(queue))
        /\ queue \in Queues
    BY KnownFacts, JobsOfFacts
  <1>6. JobPlaces(queue) \subseteq DOMAIN queue
    BY DEF JobPlaces
  <1>7. /\ Len(queue) \in Nat /\ Cardinality(JobPlaces(queue)) <= Len(queue)
        /\ Cardinality(JobPlaces(queue)) \in Nat
        /\ JobPlaces(queue) = DOMAIN queue => Cardinality(JobPlaces(queue)) = Len(queue)
    BY <1>5, <1>6, PositionsFinite DEF Queues
  <1>10. CASE Full /\ UNCHANGED <<queue, accepted>>
    <2>1. ~stopEvent => Len(JobsOf(queue)) = QueueSize
      <3> SUFFICES ASSUME ~stopEvent PROVE Len(JobsOf(queue)) = QueueSize
        OBVIOUS
      <3>1. JobPlaces(queue) = DOMAIN queue
        BY <1>1 DEF ShutdownInv, JobPlaces
      <3>2. Len(queue) = QueueSize
        <4>1. Len(queue) >= QueueSize
          BY <1>10 DEF Full
        <4>2. Len(queue) <= QueueSize
          BY <1>1 DEF ServiceInv
        <4>3. QED
          BY <1>7, <4>1, <4>2
      <3>3. QED
        BY <1>5, <1>7, <3>1, <3>2
    <2>2. TurnedAway' = TurnedAway \cup {offered}
      BY <1>2, <1>10 DEF TurnedAway
    <2>3. JobsOf(queue)' = JobsOf(queue)
      BY <1>10
    <2>4. QED
      BY <1>3, <1>4, <2>1, <2>2, <2>3 DEF Service!Refuse, TurnedAway, Hands, InService
  <1>11. CASE /\ ~Full
              /\ queue' = Append(queue, offered)
              /\ accepted' = accepted \cup {offered}
    <2>1. JobsOf(queue)' = Append(JobsOf(queue), offered)
      <3>1. offered # Pill
        BY <1>2
      <3>2. QED
        BY <1>2, <1>5, <1>11, <3>1, JobsOfAppend
    <2>2. Len(JobsOf(queue)) < QueueSize
      BY <1>5, <1>7, <1>11 DEF Full
    <2>3. TurnedAway' = TurnedAway
      BY <1>2, <1>11 DEF TurnedAway
    <2>4. QED
      BY <1>3, <1>4, <2>1, <2>2, <2>3 DEF Service!Accept, TurnedAway, Hands, InService
  <1>12. QED
    BY <1>10, <1>11 DEF SubmitPut

\* A worker that takes a job starts its service; one that takes a pill is not seen.
LEMMA RefineTake ==
    ASSUME IInv, NEW w \in Workers, Take(w)
    PROVE  Service!Start \/ UNCHANGED Service!vars
  <1>1. TypeOK /\ wpc[w] = "get" /\ queue # << >> /\ queue' = Tail(queue)
        /\ UNCHANGED <<stopEvent, finished, offered, spc, accepted>>
    BY DEF IInv, Take, submitVars
  <1>2. queue \in Queues /\ Head(queue) = queue[1]
    BY <1>1, KnownFacts, TailFacts DEF TypeOK
  <1>3. TurnedAway' = TurnedAway
    BY <1>1 DEF TurnedAway
  <1>4. w \notin InService /\ InService \subseteq Workers
    BY <1>1 DEF InService
  <1>5. \A v \in InService : hand'[v] = hand[v]
    BY <1>1, <1>4 DEF Take, TypeOK
  <1>6. CASE queue[1] = Pill
    <2>1. InService' = InService
      BY <1>1, <1>2, <1>6 DEF Take, InService, TypeOK
    <2>2. Hands' = Hands
      BY <1>5, <2>1 DEF Hands
    <2>3. JobsOf(queue)' = JobsOf(queue)
      BY <1>1, <1>2, <1>6, JobsOfTail
    <2>4. QED
      BY <1>1, <1>3, <2>2, <2>3, Stutter
  <1>7. CASE queue[1] # Pill
    <2>1. InService' = InService \cup {w} /\ hand'[w] = queue[1]
      BY <1>1, <1>2, <1>7 DEF Take, InService, TypeOK
    <2>2. Hands' = Hands \cup {queue[1]}
      BY <1>5, <2>1 DEF Hands
    <2>3. /\ JobsOf(queue) # << >> /\ Head(JobsOf(queue)) = queue[1]
          /\ JobsOf(queue)' = Tail(JobsOf(queue))
      BY <1>1, <1>2, <1>7, JobsOfTail
    <2>4. Cardinality(Hands) < WorkerCount
      <3> DEFINE f == [v \in InService |-> hand[v]]
      <3>1. f \in [InService -> Hands] /\ \A h \in Hands : \E v \in InService : f[v] = h
        BY DEF Hands
      <3>2. f \in Surjection(InService, Hands)
        BY <3>1 DEF Surjection
      <3>3. IsFiniteSet(InService)
        BY <1>4, WorkersFinite
      <3>4. IsFiniteSet(Hands) /\ Cardinality(Hands) <= Cardinality(InService)
        BY <3>2, <3>3, FS_Surjection
      <3>5. IsFiniteSet(Workers) /\ Cardinality(Workers) = WorkerCount
        BY FS_Interval DEF Workers
      <3>6. Cardinality(InService) <= WorkerCount /\ Cardinality(InService) # WorkerCount
        BY <1>4, <3>5, FS_Subset
      <3>7. Cardinality(InService) \in Nat /\ Cardinality(Hands) \in Nat
        BY <3>3, <3>4, FS_CardinalityType
      <3>8. QED
        BY <3>4, <3>6, <3>7
    <2>5. Service!Start
      <3>1. Hands = {hand[v] : v \in {u \in Workers : wpc[u] \in {"taken", "handling"}}}
        BY DEF Hands, InService
      <3>2. UNCHANGED <<finished, ~stopEvent>>
        BY <1>1
      <3>3. Hands' = Hands \cup {Head(JobsOf(queue))}
        BY <2>2, <2>3
      <3>4. Service!Cardinality(Hands) = Cardinality(Hands)
        BY DEF Service!Cardinality, Cardinality
      <3>5. QED
        BY <1>3, <2>3, <2>4, <3>1, <3>2, <3>3, <3>4
        DEF Service!Start, TurnedAway, Hands, InService
    <2>6. QED
      BY <2>5
  <1>8. QED
    BY <1>6, <1>7

\* The end of the handler call, by return or by exception, is the end of the service.
LEMMA RefineFinish ==
    ASSUME IInv, NEW w \in Workers, Return(w) \/ Raise(w)
    PROVE  \E j \in Jobs : Service!Finish(j)
  <1>1. /\ TypeOK /\ OrderInv /\ wpc[w] = "handling"
        /\ finished' = finished \cup {hand[w]}
        /\ UNCHANGED <<hand, queue, stopEvent, offered, spc, accepted>>
    BY DEF IInv, Return, Raise, submitVars, poolVars
  <1>2. w \in InService /\ InService' = InService \ {w}
    BY <1>1 DEF Return, Raise, InService, TypeOK
  <1>3. \A v \in InService : v # w => hand[v] # hand[w]
    BY <1>1, <1>2 DEF OrderInv, Fifo, Holding, InService
  <1>4. Hands' = Hands \ {hand[w]} /\ hand[w] \in Hands
    BY <1>1, <1>2, <1>3 DEF Hands
  <1>5. hand[w] \in Jobs
    BY <1>1 DEF OrderInv, Holding, TypeOK
  <1>6. JobsOf(queue)' = JobsOf(queue) /\ TurnedAway' = TurnedAway
    BY <1>1 DEF TurnedAway
  <1>7. PICK j \in Jobs : j = hand[w]
    BY <1>5
  <1>8. Service!Finish(j)
    BY <1>1, <1>4, <1>6, <1>7 DEF Service!Finish, TurnedAway, Hands, InService
  <1>9. QED
    BY <1>8

\* Every step of the pool is one of the service, or nothing the service can see.
LEMMA RefineStep == IInv /\ [Next]_vars => [Service!Next]_(Service!vars)
  <1> SUFFICES ASSUME IInv, [Next]_vars PROVE Service!Next \/ UNCHANGED Service!vars
    OBVIOUS
  <1>a. TypeOK /\ FreshInv
    BY DEF IInv
  <1> USE DEF poolVars, workerVars, submitVars, closerVars
  <1>1. ASSUME Hands' = Hands, UNCHANGED <<queue, finished, offered, spc, accepted, stopEvent>>
        PROVE  UNCHANGED Service!vars
    <2>1. JobsOf(queue)' = JobsOf(queue) /\ TurnedAway' = TurnedAway
      BY <1>1 DEF TurnedAway
    <2>2. QED
      BY <1>1, <2>1, Stutter
  <1>2. CASE StartWorker
    <2>1. Hands' = Hands
      <3>1. InService' = InService
        BY <1>2, <1>a DEF StartWorker, InService, TypeOK, FreshInv, Workers
      <3>2. QED
        BY <1>2, <3>1 DEF StartWorker, Hands
    <2>2. QED
      BY <1>1, <1>2, <2>1 DEF StartWorker
  <1>3. CASE Offer
    <2>1. Hands' = Hands /\ JobsOf(queue)' = JobsOf(queue)
          /\ UNCHANGED <<finished, accepted, stopEvent>>
      BY <1>3 DEF Offer, Hands, InService
    <2>2. offered \in Nat /\ spc = "idle" /\ spc' = "check" /\ offered' = offered + 1
      BY <1>3, <1>a DEF Offer, TypeOK
    <2>3. TurnedAway' = TurnedAway
      BY <2>1, <2>2 DEF TurnedAway
    <2>4. QED
      BY <2>1, <2>3, Stutter
  <1>13. CASE SubmitCheck
    <2>1. Hands' = Hands /\ JobsOf(queue)' = JobsOf(queue)
          /\ UNCHANGED <<finished, offered, accepted, stopEvent>>
      BY <1>13 DEF SubmitCheck, Hands, InService
    <2>2. /\ offered \in Nat \ {0} /\ offered \in Jobs /\ offered \notin accepted
          /\ TurnedAway = (1 .. (offered - 1)) \ accepted
      BY <1>13, <1>a DEF SubmitCheck, FreshInv, TypeOK, TurnedAway, Jobs
    <2>3. CASE stopEvent
      <3>1. TurnedAway' = TurnedAway \cup {offered}
        BY <1>13, <2>1, <2>2, <2>3 DEF SubmitCheck, TurnedAway
      <3>2. offered \notin Service!Known
        <4>1. offered \notin TurnedAway
          BY <2>2
        <4>2. QED
          BY <2>2, <4>1, KnownFacts
      <3>3. Service!Refuse(offered)
        BY <2>1, <2>3, <3>1, <3>2 DEF Service!Refuse, TurnedAway, Hands, InService
      <3>4. QED
        BY <2>2, <3>3 DEF Service!Next
    <2>4. CASE ~stopEvent
      <3>1. TurnedAway' = TurnedAway
        BY <1>13, <2>1, <2>2, <2>4 DEF SubmitCheck, TurnedAway
      <3>2. QED
        BY <2>1, <3>1, Stutter
    <2>5. QED
      BY <2>3, <2>4
  <1>4. CASE SubmitPut
    <2>1. offered \in Jobs
      BY <1>4, <1>a DEF SubmitPut, FreshInv, TypeOK, Jobs
    <2>2. QED
      BY <1>4, <2>1, RefinePut DEF Service!Next
  <1>5. ASSUME NEW w \in Workers, Take(w) PROVE Service!Next \/ UNCHANGED Service!vars
    BY <1>5, RefineTake DEF Service!Next
  <1>6. ASSUME NEW w \in Workers, Return(w) \/ Raise(w) PROVE Service!Next
    <2>1. \E j \in Jobs : Service!Finish(j)
      BY <1>6, RefineFinish
    <2>2. QED
      BY <2>1 DEF Service!Next
  <1>7. ASSUME NEW w \in Workers, Test(w) \/ GetTimeout(w) \/ CountIn(w) \/ CountOut(w)
        PROVE  UNCHANGED Service!vars
    <2>1. InService' = InService
      BY <1>7, <1>a DEF Test, GetTimeout, CountIn, CountOut, InService, TypeOK
    <2>2. UNCHANGED <<hand, queue, finished, offered, spc, accepted, stopEvent>>
      BY <1>7 DEF Test, GetTimeout, CountIn, CountOut
    <2>3. Hands' = Hands
      BY <2>1, <2>2 DEF Hands
    <2>4. QED
      BY <1>1, <2>2, <2>3
  <1>8. ASSUME NEW c \in Closers, PutPill(c) PROVE UNCHANGED Service!vars
    <2>1. JobsOf(queue)' = JobsOf(queue)
      BY <1>8, KnownFacts, JobsOfAppend DEF PutPill
    <2>2. Hands' = Hands /\ TurnedAway' = TurnedAway /\ UNCHANGED <<finished, stopEvent>>
      BY <1>8 DEF PutPill, Hands, InService, TurnedAway
    <2>3. QED
      BY <2>1, <2>2, Stutter
  <1>9. ASSUME NEW c \in Closers, SetStop(c) PROVE Service!Next \/ UNCHANGED Service!vars
    <2>1. Hands' = Hands /\ TurnedAway' = TurnedAway /\ JobsOf(queue)' = JobsOf(queue)
          /\ finished' = finished /\ stopEvent' = TRUE
      BY <1>9 DEF SetStop, Hands, InService, TurnedAway
    <2>2. CASE stopEvent
      BY <1>a, <2>1, <2>2, Stutter DEF TypeOK
    <2>3. CASE ~stopEvent
      <3>1. Service!Close
        BY <2>1, <2>3 DEF Service!Close, Hands, InService, TurnedAway
      <3>2. QED
        BY <3>1 DEF Service!Next
    <2>4. QED
      BY <2>2, <2>3
  <1>10. ASSUME NEW c \in Closers, Claim(c) \/ DrainEnds(c) \/ DrainTimesOut(c) \/ JoinAll(c)
         PROVE  UNCHANGED Service!vars
    <2>1. UNCHANGED <<hand, wpc, queue, finished, offered, spc, accepted, stopEvent>>
      BY <1>10 DEF Claim, DrainEnds, DrainTimesOut, JoinAll
    <2>2. Hands' = Hands
      BY <2>1 DEF Hands, InService
    <2>3. QED
      BY <1>1, <2>1, <2>2
  <1>11. CASE UNCHANGED vars
    <2>1. Hands' = Hands
      BY <1>11 DEF vars, Hands, InService
    <2>2. QED
      BY <1>1, <1>11, <2>1 DEF vars
  <1>12. QED
    BY <1>2, <1>3, <1>4, <1>5, <1>6, <1>7, <1>8, <1>9, <1>10, <1>11, <1>13
    DEF Next, Submitter, Worker, Closer

\* The pool implements the job service: whatever the number of workers, the size of the
\* queue and the threads that shut the pool down, its callers see one bounded
\* first-come first-served line that is served by at most worker_count servers.
THEOREM PoolIsJobService == Spec => ImplementsJobService
  BY RefineInit, RefineStep, Invariance, PTL DEF Spec, ImplementsJobService, Service!Spec
=============================================================================
