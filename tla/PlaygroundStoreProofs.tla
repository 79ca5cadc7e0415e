------------------------ MODULE PlaygroundStoreProofs ------------------------
(***************************************************************************)
(* Proofs about PlaygroundStore, for any threads, mocks, routes, requests  *)
(* and limits: in whatever order the critical sections of the handlers     *)
(* come, saves fail and the process crashes.                               *)
(***************************************************************************)
EXTENDS PlaygroundStore, SequenceFacts

USE StoreAssumption DEF StoreAssumption

-----------------------------------------------------------------------------
(* The strengthenings                                                      *)

Asked == Requests \union Plain
Records == [number : Nat, asked : Requests]
Recordings == [number : Nat, saved : BOOLEAN]
MockMaps == [Ids -> Mocks \union {None}]
ThreadStates == [at : {"idle", "gone", "dispatch", "update", "record"}, number : Nat,
                 asked : Requests \union {None}, now : Asked \union {None}]

\* What each variable may be.
StateOK ==
    /\ mocks \in MockMaps
    /\ history \in Seq(Records)
    /\ file \in [mocks : MockMaps, history : Seq(Records)]
    /\ thread \in [Threads -> ThreadStates]
    /\ sent \in Nat /\ mishaps \in Nat
    /\ acked \in [Ids -> Mocks \union {None, Unknown}]
    /\ recorded \in Seq(Recordings)

\* A replay asks for a request that was sent before it.
Earlier(asked, number) == asked.kind = "replay" => asked.of < number

\* A thread at work has a request that was sent, and one that it now dispatches.
AtWork(th, n) ==
    th.at \in {"dispatch", "update", "record"} =>
        /\ th.asked \in Requests /\ th.now \in Asked
        /\ th.number <= n
        /\ Earlier(th.asked, th.number)

RequestInv == \A t \in Threads : AtWork(thread[t], sent)

\* Between its validation and its update a request keeps a payload that was accepted: laid
\* over whatever mock is there by then, it makes one that can be served.
Validated(th) ==
    th.at = "update" =>
        /\ th.now.kind = "update"
        /\ th.now.new.route \in (Routes \ Reserved) \union {Keep}
        /\ th.now.new.status \in 100..599 \union {Keep}

UpdateInv == \A t \in Threads : Validated(thread[t])

\* The limits, and that nothing but a finite number of mocks is stored.
StoredIn(ms) == {i \in Ids : ms[i] # None}
Limited(ms) == IsFiniteSet(StoredIn(ms)) /\ Cardinality(StoredIn(ms)) <= MaxMocks
Replayable(h) == Len(h) <= HistoryLimit /\ \A k \in 1..Len(h) : Earlier(h[k].asked, h[k].number)

LimitInv ==
    /\ Limited(mocks) /\ Limited(file.mocks)
    /\ Replayable(history) /\ Replayable(file.history)

\* A saved record is in the history and in the file, no farther from the end than it is
\* among the records: as much as came after it was also recorded after it.
Reaches(done, h) ==
    \A k \in DOMAIN done : done[k].saved =>
        \E j \in DOMAIN h : h[j].number = done[k].number /\ Len(h) - j <= Len(done) - k

RecordInv ==
    /\ Reaches(recorded, history) /\ Reaches(recorded, file.history)
    /\ Len(recorded) <= HistoryLimit

IInv ==
    /\ StateOK
    /\ RequestInv
    /\ UpdateInv
    /\ LimitInv
    /\ RoutesUnique
    /\ AckedKept
    /\ RecordInv

-----------------------------------------------------------------------------
\* A request of a kind has the fields that the handler of this kind reads.
LEMMA AskedFacts ==
    ASSUME NEW r \in Asked
    PROVE  /\ r.kind \in {"create", "update"} => r.id \in Ids /\ r.new \in Payloads
           /\ r.kind = "delete" => r.id \in Ids
           /\ r.kind = "execute" => r.inner \in Plain
           /\ r.kind = "replay" => r.of \in Nat
  <1>1. r \in Plain \/ (r.kind = "execute" /\ r.inner \in Plain)
    BY RequestAssumption DEF Asked
  <1>2. CASE r \in Plain
    BY <1>2 DEF Plain
  <1>3. CASE r.kind = "execute" /\ r.inner \in Plain
    BY <1>3
  <1>4. QED
    BY <1>1, <1>2, <1>3

\* How many of the first records are dropped.
Dropped(s) == IF Len(s) > HistoryLimit THEN Len(s) - HistoryLimit ELSE 0

\* What is kept of a history is its end, as long as the limit allows.
LEMMA LastOnesFacts ==
    ASSUME NEW S, NEW s \in Seq(S), NEW t, t = LastOnes(s), NEW d, d = Dropped(s)
    PROVE  /\ d \in Nat /\ t \in Seq(S) /\ Len(t) = Len(s) - d /\ Len(t) <= HistoryLimit
           /\ Len(s) \in Nat /\ Len(t) \in Nat
           /\ \A k \in DOMAIN t : k + d \in DOMAIN s /\ t[k] = s[k + d]
           /\ \A k \in DOMAIN s : d < k => k - d \in DOMAIN t /\ t[k - d] = s[k]
           /\ d > 0 => Len(t) = HistoryLimit
  <1>1. Len(s) \in Nat /\ HistoryLimit \in Nat
    OBVIOUS
  <1>2. /\ d \in Nat /\ d <= Len(s) /\ Len(s) - d <= HistoryLimit
        /\ d > 0 => Len(s) - d = HistoryLimit
        /\ d + 1 = IF Len(s) > HistoryLimit THEN Len(s) - HistoryLimit + 1 ELSE 1
    BY <1>1 DEF Dropped
  <1>3. t = SubSeq(s, d + 1, Len(s))
    BY <1>2 DEF LastOnes
  <1>4. /\ t \in Seq(S) /\ Len(t) = Len(s) - d /\ Len(t) \in Nat
        /\ \A k \in DOMAIN t : k + d \in DOMAIN s /\ t[k] = s[k + d]
        /\ \A k \in DOMAIN s : d < k => k - d \in DOMAIN t /\ t[k - d] = s[k]
    <2>1. d \in Nat /\ d <= Len(s)
      BY <1>2
    <2>2. QED
      BY <1>3, <2>1, SuffixFacts
  <1>5. QED
    BY <1>1, <1>2, <1>4

-----------------------------------------------------------------------------
(* What a handler may do to a mock                                         *)

\* One mock becomes m: the file follows, and the client is told; or the save fails; or the
\* handler raises before it saves.  The request is over.
Changes(t, i, m) ==
    /\ mocks' = [mocks EXCEPT ![i] = m]
    /\ m # None => ~Taken(m.route, i) /\ (mocks[i] # None \/ ~Full)
    /\ \/ /\ file' = [mocks |-> mocks', history |-> history]
          /\ acked' = [acked EXCEPT ![i] = m]
       \/ /\ file' = file
          /\ acked' = [acked EXCEPT ![i] = Unknown]
       \/ /\ file' = file
          /\ acked' = [acked EXCEPT ![i] = IF m = mocks[i] THEN @ ELSE Unknown]
    /\ mishaps' \in {mishaps, mishaps + 1}
    /\ UNCHANGED <<history, sent, recorded>>

Over(t) == Goes(t, "record") \/ Raises(t)

\* Create, update and delete change one mock into one that can be served, whose route no
\* other has, or into none; or they change nothing.  Then the request is over.
LEMMA ChangeFacts ==
    ASSUME IInv, NEW t \in Threads, Create(t) \/ Update(t) \/ Delete(t)
    PROVE  /\ Over(t)
           /\ \/ UNCHANGED <<mocks, history, file, sent, mishaps, acked, recorded>>
              \/ \E i \in Ids, m \in Mocks \union {None} : Changes(t, i, m)
  <1> DEFINE r == thread[t].now
  <1>1. StateOK /\ RequestInv /\ UpdateInv
    BY DEF IInv
  <1>2. thread[t].at \in {"dispatch", "update"} => r \in Asked
    BY <1>1 DEF RequestInv, AtWork
  <1>3. mocks \in MockMaps
    BY <1>1 DEF StateOK
  <1>4. ASSUME NEW i \in Ids, NEW m \in Mocks \union {None}, mocks' = [mocks EXCEPT ![i] = m],
               m # None => ~Taken(m.route, i) /\ (mocks[i] # None \/ ~Full),
               SaveMock(t, i), UNCHANGED <<history, sent, recorded>>
        PROVE  Over(t) /\ Changes(t, i, m)
    <2>1. mocks'[i] = m
      BY <1>3, <1>4 DEF MockMaps
    <2>2. QED
      BY <1>4, <2>1 DEF SaveMock, Save, SaveFails, Over, Changes
  <1>5. CASE Create(t)
    <2> DEFINE mock == Given(r.new, Fresh)
               ok == Valid(mock, r.new.headers) /\ ~Full /\ ~Taken(mock.route, None)
                     /\ mocks[r.id] = None
    <2>1. CASE ~ok /\ Answers(t)
      BY <2>1 DEF Answers, Over
    <2>2. CASE UNCHANGED <<mocks, history, file, sent, mishaps, acked, recorded>> /\ Raises(t)
      BY <2>2 DEF Over
    <2>3. CASE ok /\ mocks' = [mocks EXCEPT ![r.id] = mock] /\ SaveMock(t, r.id)
               /\ UNCHANGED <<history, sent, recorded>>
      <3>1. r.id \in Ids
        BY <1>2, <1>5, AskedFacts DEF Create, Dispatches
      <3>2. mock \in Mocks
        BY <2>3 DEF Valid, Given, Fresh, Mocks
      <3>3. ~Taken(mock.route, r.id)
        <4>1. Stored \ {None} = Stored
          BY DEF Stored
        <4>2. QED
          BY <2>3, <4>1 DEF Taken
      <3>4. QED
        BY <1>4, <2>3, <3>1, <3>2, <3>3
    <2>4. QED
      BY <1>5, <2>1, <2>2, <2>3 DEF Create
  <1>6. CASE Update(t)
    <2> DEFINE new == r.new
               old == mocks[r.id]
               mock == Given(new, old)
    <2>1. /\ r.id \in Ids /\ new \in Payloads
          /\ new.route \in (Routes \ Reserved) \union {Keep}
          /\ new.status \in 100..599 \union {Keep}
      BY <1>1, <1>2, <1>6, AskedFacts DEF Update, UpdateInv, Validated
    <2>2. ASSUME old # None PROVE mock \in Mocks /\ [mock EXCEPT !.body = old.body] \in Mocks
      <3>1. old \in Mocks
        BY <1>3, <2>1, <2>2 DEF MockMaps
      <3>2. /\ Either(new.route, old.route) \in Routes \ Reserved
            /\ Either(new.status, old.status) \in 100..599
            /\ Either(new.body, old.body) \in {"short", "long"}
            /\ old.body \in {"short", "long"}
        <4>1. /\ old.route \in Routes \ Reserved /\ old.status \in 100..599
              /\ old.body \in {"short", "long"} /\ new.body \in {"short", "long", Keep}
          BY <2>1, <3>1 DEF Mocks, Payloads
        <4>2. Either(new.route, old.route) \in Routes \ Reserved
          BY <2>1, <4>1 DEF Either
        <4>3. Either(new.status, old.status) \in 100..599
          BY <2>1, <4>1 DEF Either
        <4>4. Either(new.body, old.body) \in {"short", "long"}
          BY <4>1 DEF Either
        <4>5. QED
          BY <4>1, <4>2, <4>3, <4>4
      <3>3. QED
        BY <3>2 DEF Given, Mocks
    <2>3. CASE Answers(t)
      BY <2>3 DEF Answers, Over
    <2>4. CASE /\ old # None /\ ~Taken(mock.route, r.id)
               /\ mocks' = [mocks EXCEPT ![r.id] = [mock EXCEPT !.body = old.body]]
               /\ acked' = [acked EXCEPT ![r.id] = IF mocks'[r.id] = old THEN @ ELSE Unknown]
               /\ IF new.headers = "null" THEN Raises(t) ELSE Goes(t, "record")
               /\ UNCHANGED <<history, file, sent, mishaps, recorded>>
      <3> DEFINE part == [mock EXCEPT !.body = old.body]
      <3>1. part \in Mocks /\ part.route = mock.route /\ mocks'[r.id] = part
        BY <1>3, <2>1, <2>2, <2>4 DEF MockMaps, Given
      <3>2. Changes(t, r.id, part)
        <4> HIDE DEF part, mock
        <4>1. QED
          BY <2>4, <3>1 DEF Changes, part
      <3>3. Over(t)
        BY <2>4 DEF Over
      <3>4. QED
        BY <2>1, <3>1, <3>2, <3>3
    <2>5. CASE /\ old # None /\ ~Taken(mock.route, r.id)
               /\ mocks' = [mocks EXCEPT ![r.id] = mock]
               /\ SaveMock(t, r.id)
               /\ UNCHANGED <<history, sent, recorded>>
      BY <1>4, <2>1, <2>2, <2>5
    <2>6. QED
      BY <1>6, <2>3, <2>4, <2>5 DEF Update
  <1>7. CASE Delete(t)
    <2>1. r.id \in Ids
      BY <1>2, <1>7, AskedFacts DEF Delete, Dispatches
    <2>2. CASE Answers(t)
      BY <2>2 DEF Answers, Over
    <2>3. CASE /\ mocks' = [mocks EXCEPT ![r.id] = None] /\ SaveMock(t, r.id)
               /\ UNCHANGED <<history, sent, recorded>>
      BY <1>4, <2>1, <2>3
    <2>4. QED
      BY <1>7, <2>2, <2>3 DEF Delete
  <1>8. QED
    BY <1>5, <1>6, <1>7

-----------------------------------------------------------------------------
(* The steps                                                               *)

\* The empty store satisfies the invariant.
LEMMA InitIInv == Init => IInv
  <1> SUFFICES ASSUME Init PROVE IInv
    OBVIOUS
  <1>1. /\ mocks = [i \in Ids |-> None] /\ history = << >> /\ recorded = << >>
        /\ file.mocks = mocks /\ file.history = history
        /\ file = [mocks |-> mocks, history |-> history]
        /\ acked = [i \in Ids |-> None] /\ sent = 0 /\ mishaps = 0
        /\ thread = [t \in Threads |-> Idle]
    BY DEF Init
  <1>2. StateOK
    <2>1. mocks \in MockMaps /\ history \in Seq(Records) /\ recorded \in Seq(Recordings)
          /\ acked \in [Ids -> Mocks \union {None, Unknown}]
      BY <1>1 DEF MockMaps
    <2>2. thread \in [Threads -> ThreadStates]
      BY <1>1 DEF Idle, ThreadStates
    <2>3. QED
      BY <1>1, <2>1, <2>2 DEF StateOK
  <1>3. RequestInv /\ UpdateInv
    BY <1>1 DEF RequestInv, UpdateInv, Idle, AtWork, Validated
  <1>4. LimitInv
    <2>1. StoredIn(mocks) = {} /\ StoredIn(file.mocks) = {}
      BY <1>1 DEF StoredIn
    <2>2. Limited(mocks) /\ Limited(file.mocks)
      BY <2>1, FS_EmptySet DEF Limited
    <2>3. QED
      BY <1>1, <2>2 DEF LimitInv, Replayable
  <1>5. RoutesUnique /\ AckedKept
    BY <1>1 DEF RoutesUnique, AckedKept
  <1>6. RecordInv
    BY <1>1 DEF RecordInv, Reaches
  <1>7. QED
    BY <1>2, <1>3, <1>4, <1>5, <1>6 DEF IInv

\* A change of one mock keeps the number of mocks within the limit.
LEMMA LimitKept ==
    ASSUME NEW ms \in MockMaps, Limited(ms), NEW i \in Ids, NEW m,
           m # None => ms[i] # None \/ Cardinality(StoredIn(ms)) < MaxMocks
    PROVE  Limited([ms EXCEPT ![i] = m])
  <1> DEFINE now == [ms EXCEPT ![i] = m]
             S == StoredIn(ms)
             R == StoredIn(now)
  <1>1. DOMAIN ms = Ids /\ i \in S <=> ms[i] # None
    BY DEF MockMaps, StoredIn
  <1>2. now[i] = m /\ \A j \in Ids \ {i} : now[j] = ms[j]
    BY DEF MockMaps
  <1>3. IsFiniteSet(S) /\ Cardinality(S) \in Nat /\ Cardinality(S) <= MaxMocks
    BY FS_CardinalityType DEF Limited
  <1>4. CASE m = None \/ ms[i] # None
    <2>1. R \subseteq S
      BY <1>2, <1>4 DEF StoredIn
    <2>2. IsFiniteSet(R) /\ Cardinality(R) <= Cardinality(S) /\ Cardinality(R) \in Nat
      BY <1>3, <2>1, FS_Subset, FS_CardinalityType
    <2>3. QED
      BY <1>3, <2>2 DEF Limited
  <1>5. CASE m # None /\ ms[i] = None
    <2>1. R = S \union {i} /\ i \notin S
      BY <1>2, <1>5 DEF StoredIn
    <2>3. Cardinality(S) < MaxMocks
      BY <1>5
    <2> HIDE DEF R, S
    <2>2. IsFiniteSet(R) /\ Cardinality(R) = Cardinality(S) + 1
      BY <1>3, <2>1, FS_AddElement
    <2>4. QED
      BY <1>3, <2>2, <2>3 DEF Limited, R
  <1>6. QED
    BY <1>4, <1>5

\* What a change of one mock does to the mocks in memory and in the file.
LEMMA ChangeKeeps ==
    ASSUME IInv, NEW t \in Threads, NEW i \in Ids, NEW m \in Mocks \union {None},
           Changes(t, i, m)
    PROVE  /\ mocks' \in MockMaps /\ file' \in [mocks : MockMaps, history : Seq(Records)]
           /\ acked' \in [Ids -> Mocks \union {None, Unknown}]
           /\ Limited(mocks') /\ Limited(file'.mocks)
           /\ RoutesUnique' /\ AckedKept'
           /\ file'.history \in {history, file.history}
  <1>1. /\ mocks \in MockMaps /\ file \in [mocks : MockMaps, history : Seq(Records)]
        /\ history \in Seq(Records) /\ acked \in [Ids -> Mocks \union {None, Unknown}]
        /\ Limited(mocks) /\ Limited(file.mocks) /\ RoutesUnique /\ AckedKept
    BY DEF IInv, StateOK, LimitInv
  <1>2. /\ mocks' \in MockMaps /\ mocks'[i] = m
        /\ \A j \in Ids \ {i} : mocks'[j] = mocks[j]
    BY <1>1 DEF Changes, MockMaps
  <1>0. file' = [mocks |-> mocks', history |-> history] \/ file' = file
    BY Zenon DEF Changes
  <1>3. file'.mocks = mocks' \/ file'.mocks = file.mocks
    BY <1>0
  <1>4. file' \in [mocks : MockMaps, history : Seq(Records)]
        /\ file'.history \in {history, file.history}
    BY <1>0, <1>1, <1>2
  <1>5. acked' \in [Ids -> Mocks \union {None, Unknown}]
    <2>1. acked' = [acked EXCEPT ![i] = m] \/ acked' = [acked EXCEPT ![i] = Unknown]
          \/ acked' = acked
      BY <1>1 DEF Changes
    <2>2. QED
      BY <1>1, <2>1
  <1>6. Limited(mocks') /\ Limited(file'.mocks)
    <2>1. ~Full => Cardinality(StoredIn(mocks)) < MaxMocks
      <3>1. Cardinality(StoredIn(mocks)) \in Nat
        BY <1>1, FS_CardinalityType DEF Limited
      <3>2. QED
        BY <3>1 DEF Full, Stored, StoredIn
    <2>2. m # None => mocks[i] # None \/ Cardinality(StoredIn(mocks)) < MaxMocks
      BY <2>1 DEF Changes
    <2>3. Limited(mocks')
      BY <1>1, <2>2, LimitKept DEF Changes
    <2>4. QED
      BY <1>1, <1>3, <2>3
  <1>7. RoutesUnique'
    <2>1. ASSUME NEW j \in Ids, NEW k \in Ids, mocks'[j] # None, mocks'[k] # None,
                 mocks'[j].route = mocks'[k].route
          PROVE  j = k
      <3>1. m # None => \A x \in Ids \ {i} : mocks[x] # None => mocks[x].route # m.route
        BY DEF Changes, Taken, Stored
      <3>2. QED
        BY <1>1, <1>2, <2>1, <3>1 DEF RoutesUnique
    <2>2. QED
      BY <1>1, <1>3, <2>1 DEF RoutesUnique
  <1>8. AckedKept'
    <2> SUFFICES ASSUME NEW j \in Ids, acked'[j] # Unknown
                 PROVE  mocks'[j] = acked'[j] /\ file'.mocks[j] = acked'[j]
      BY DEF AckedKept
    <2>1. acked[j] # Unknown => mocks[j] = acked[j] /\ file.mocks[j] = acked[j]
      BY <1>1 DEF AckedKept
    <2>2. CASE file' = [mocks |-> mocks', history |-> history] /\ acked' = [acked EXCEPT ![i] = m]
      BY <1>1, <1>2, <2>1, <2>2
    <2>3. CASE file' = file /\ acked' = [acked EXCEPT ![i] = Unknown]
      BY <1>1, <1>2, <2>1, <2>3
    <2>4. CASE file' = file /\ acked' = [acked EXCEPT ![i] = IF m = mocks[i] THEN @ ELSE Unknown]
      BY <1>1, <1>2, <2>1, <2>4
    <2>5. QED
      BY <2>2, <2>3, <2>4 DEF Changes
  <1>9. QED
    BY <1>2, <1>4, <1>5, <1>6, <1>7, <1>8

\* The end of the history that is kept has what the records of the last requests need.
LEMMA KeptReaches ==
    ASSUME NEW h \in Seq(Records), NEW done \in Seq(Recordings), Len(done) <= HistoryLimit,
           Reaches(done, h), NEW g, g = LastOnes(h)
    PROVE  Reaches(done, g)
  <1> DEFINE d == Dropped(h)
  <1>1. /\ d \in Nat
        /\ Len(g) = Len(h) - d /\ Len(h) \in Nat /\ Len(g) \in Nat
        /\ \A k \in DOMAIN h : d < k => k - d \in DOMAIN g /\ g[k - d] = h[k]
        /\ d > 0 => Len(g) = HistoryLimit
    BY LastOnesFacts
  <1> HIDE DEF d
  <1>2. Len(done) \in Nat /\ DOMAIN done = 1 .. Len(done) /\ DOMAIN h = 1 .. Len(h)
    OBVIOUS
  <1>3. SUFFICES ASSUME NEW k \in DOMAIN done, done[k].saved
                 PROVE  \E j \in DOMAIN g : g[j].number = done[k].number
                                             /\ Len(g) - j <= Len(done) - k
    BY DEF Reaches
  <1>4. PICK j \in DOMAIN h : h[j].number = done[k].number /\ Len(h) - j <= Len(done) - k
    BY <1>3 DEF Reaches
  <1>5. d < j /\ Len(g) - (j - d) <= Len(done) - k
    <2>1. j \in Nat /\ j >= 1 /\ j <= Len(h) /\ k \in Nat /\ k >= 1
      BY <1>2
    <2>2. CASE d = 0
      BY <1>1, <1>4, <2>1, <2>2
    <2>3. CASE d > 0
      BY <1>1, <1>2, <1>4, <2>1, <2>3
    <2>4. QED
      BY <1>1, <2>2, <2>3
  <1>6. QED
    BY <1>1, <1>4, <1>5

\* What is kept of a history holds no more than the limit, of requests that it held before.
LEMMA KeptReplayable ==
    ASSUME NEW h \in Seq(Records), \A k \in DOMAIN h : Earlier(h[k].asked, h[k].number),
           NEW g, g = LastOnes(h)
    PROVE  g \in Seq(Records) /\ Replayable(g)
  <1> DEFINE d == Dropped(h)
  <1>1. /\ g \in Seq(Records) /\ Len(g) <= HistoryLimit
        /\ \A k \in DOMAIN g : k + d \in DOMAIN h /\ g[k] = h[k + d]
    BY LastOnesFacts
  <1> HIDE DEF d
  <1>2. QED
    BY <1>1 DEF Replayable

\* _record_and_log: the new record is the last one of the history, and of the records, if
\* it is saved.
LEMMA FinishRecords ==
    ASSUME IInv, NEW t \in Threads, Finish(t)
    PROVE  /\ history' \in Seq(Records) /\ Replayable(history')
           /\ recorded' \in Seq(Recordings)
           /\ RecordInv'
  <1> DEFINE e == [number |-> thread[t].number, asked |-> thread[t].asked]
             o == [number |-> thread[t].number, saved |-> file' # file]
             h == Append(history, e)
             done == Append(recorded, o)
  <1>1. /\ history \in Seq(Records) /\ recorded \in Seq(Recordings)
        /\ file.history \in Seq(Records)
        /\ Replayable(history) /\ Len(recorded) <= HistoryLimit
        /\ Reaches(recorded, history) /\ Reaches(recorded, file.history)
    BY DEF IInv, StateOK, LimitInv, RecordInv
  <1>2. /\ thread[t] \in ThreadStates /\ thread[t].asked \in Requests
        /\ Earlier(thread[t].asked, thread[t].number)
    BY DEF IInv, StateOK, RequestInv, AtWork, Finish
  <1>3. e \in Records /\ o \in Recordings /\ Earlier(e.asked, e.number)
    BY <1>2 DEF ThreadStates, Records, Recordings
  <1>4. history' = LastOnes(h) /\ recorded' = LastOnes(done)
    BY DEF Finish, Kept
  <1>5. \/ file'.history = history'
        \/ file' = file /\ o.saved = FALSE
    <2>1. o.saved = (file' # file)
      OBVIOUS
    <2>2. file'.history = history' \/ file' = file
      <3>1. CASE Save(mocks, history')
        BY <3>1 DEF Save
      <3>2. CASE SaveFails
        BY <3>2 DEF SaveFails
      <3>3. QED
        BY <3>1, <3>2 DEF Finish
    <2>3. file' = file => o.saved = FALSE
      BY <2>1
    <2> HIDE DEF o
    <2>4. QED
      BY <2>2, <2>3
  <1>6. o.number = e.number
    OBVIOUS
  <1> HIDE DEF e, o
  <1>7. /\ h \in Seq(Records) /\ Len(h) = Len(history) + 1 /\ Len(history) \in Nat
        /\ DOMAIN h = DOMAIN history \cup {Len(history) + 1}
        /\ DOMAIN history \subseteq Nat
        /\ \A j \in DOMAIN history : h[j] = history[j]
        /\ h[Len(history) + 1] = e
    BY <1>1, <1>3, AppendFacts
  <1>8. /\ done \in Seq(Recordings) /\ Len(done) = Len(recorded) + 1 /\ Len(recorded) \in Nat
        /\ DOMAIN done = DOMAIN recorded \cup {Len(recorded) + 1}
        /\ DOMAIN recorded \subseteq Nat
        /\ \A k \in DOMAIN recorded : done[k] = recorded[k]
        /\ done[Len(recorded) + 1] = o
    BY <1>1, <1>3, AppendFacts
  <1> HIDE DEF h, done
  <1>9. \A k \in DOMAIN h : Earlier(h[k].asked, h[k].number)
    <2>1. \A k \in DOMAIN history : Earlier(history[k].asked, history[k].number)
      BY <1>1 DEF Replayable
    <2>2. QED
      BY <1>3, <1>7, <2>1
  <1>10. history' \in Seq(Records) /\ Replayable(history')
    BY <1>4, <1>7, <1>9, KeptReplayable
  <1> DEFINE d == Dropped(done)
  <1>11. /\ d \in Nat /\ recorded' \in Seq(Recordings) /\ Len(recorded') = Len(done) - d
         /\ Len(recorded') <= HistoryLimit /\ Len(recorded') \in Nat
         /\ \A k \in DOMAIN recorded' : k + d \in DOMAIN done /\ recorded'[k] = done[k + d]
    <2>1. done \in Seq(Recordings)
      BY <1>8
    <2>2. recorded' = LastOnes(done)
      BY <1>4
    <2>3. QED
      BY <2>1, <2>2, LastOnesFacts
  <1> HIDE DEF d
  <1>12. DOMAIN recorded' \subseteq Nat
    BY <1>11
  <1>13. Reaches(recorded', h)
    <2> SUFFICES ASSUME NEW k \in DOMAIN recorded', recorded'[k].saved
                 PROVE  \E j \in DOMAIN h : h[j].number = recorded'[k].number
                                             /\ Len(h) - j <= Len(recorded') - k
      BY DEF Reaches
    <2>1. k \in Nat /\ k <= Len(recorded')
      BY <1>11
    <2>2. CASE k + d = Len(recorded) + 1
      <3>1. h[Len(history) + 1].number = recorded'[k].number
        BY <1>6, <1>7, <1>8, <1>11, <2>2
      <3>2. Len(h) - (Len(history) + 1) <= Len(recorded') - k
        BY <1>7, <1>11, <2>1
      <3>3. QED
        BY <1>7, <3>1, <3>2
    <2>3. CASE k + d \in DOMAIN recorded
      <3>1. recorded'[k] = recorded[k + d]
        BY <1>8, <1>11, <2>3
      <3>2. PICK j \in DOMAIN history : history[j].number = recorded[k + d].number
                                        /\ Len(history) - j <= Len(recorded) - (k + d)
        BY <1>1, <2>3, <3>1 DEF Reaches
      <3>3. Len(h) - j <= Len(recorded') - k
        <4>1. j \in Nat /\ Len(recorded') - k = Len(recorded) + 1 - (k + d)
          BY <1>7, <1>8, <1>11, <2>1
        <4>2. Len(h) - j = Len(history) - j + 1
          BY <1>7, <4>1
        <4>3. QED
          BY <1>7, <1>8, <1>11, <2>1, <3>2, <4>1, <4>2
      <3>4. QED
        BY <1>7, <3>1, <3>2, <3>3
    <2>4. QED
      BY <1>8, <1>11, <2>2, <2>3
  <1>14. Reaches(recorded', history')
    BY <1>4, <1>7, <1>11, <1>13, KeptReaches
  <1>15. ASSUME file' = file, o.saved = FALSE PROVE Reaches(recorded', file.history)
    <2> SUFFICES ASSUME NEW k \in DOMAIN recorded', recorded'[k].saved
                 PROVE  \E j \in DOMAIN file.history :
                           /\ file.history[j].number = recorded'[k].number
                           /\ Len(file.history) - j <= Len(recorded') - k
      BY DEF Reaches
    <2>1. k \in Nat /\ k + d \in DOMAIN recorded /\ recorded'[k] = recorded[k + d]
      BY <1>8, <1>11, <1>12, <1>15
    <2>2. PICK j \in DOMAIN file.history :
                 /\ file.history[j].number = recorded[k + d].number
                 /\ Len(file.history) - j <= Len(recorded) - (k + d)
      BY <1>1, <2>1 DEF Reaches
    <2>3. Len(recorded) - (k + d) <= Len(recorded') - k
      BY <1>8, <1>11, <2>1
    <2>4. j \in Nat /\ Len(file.history) \in Nat
      BY <1>1
    <2>5. Len(file.history) - j <= Len(recorded') - k
      <3> DEFINE x == Len(recorded) - (k + d)
                 y == Len(recorded') - k
      <3>1. x \in Int /\ y \in Int
        BY <1>8, <1>11, <2>1
      <3> HIDE DEF x, y
      <3>2. QED
        BY <2>2, <2>3, <2>4, <3>1 DEF x, y
    <2>6. QED
      BY <2>1, <2>2, <2>5
  <1>16. Reaches(recorded', file'.history)
    BY <1>5, <1>14, <1>15
  <1>17. QED
    BY <1>10, <1>11, <1>14, <1>16 DEF RecordInv

\* One thread moves on to a state that satisfies the invariants; no request is unsent.
LEMMA ThreadMoves ==
    ASSUME IInv, NEW t \in Threads, NEW th \in ThreadStates,
           thread' = [thread EXCEPT ![t] = th], sent' \in {sent, sent + 1},
           AtWork(th, sent'), Validated(th)
    PROVE  thread' \in [Threads -> ThreadStates] /\ RequestInv' /\ UpdateInv'
  <1>1. thread \in [Threads -> ThreadStates] /\ sent \in Nat /\ RequestInv /\ UpdateInv
    BY DEF IInv, StateOK
  <1>2. thread' \in [Threads -> ThreadStates]
    BY <1>1
  <1>3. ASSUME NEW u \in Threads PROVE AtWork(thread'[u], sent') /\ Validated(thread'[u])
    <2>1. CASE u = t
      BY <1>1, <2>1
    <2>2. CASE u # t
      <3>1. thread'[u] = thread[u] /\ thread[u] \in ThreadStates
        BY <1>1, <2>2
      <3>2. AtWork(thread[u], sent) /\ Validated(thread[u])
        BY <1>1 DEF RequestInv, UpdateInv
      <3>3. sent <= sent' /\ sent' \in Nat /\ thread[u].number \in Nat
        BY <1>1, <3>1 DEF ThreadStates
      <3>4. AtWork(thread[u], sent')
        BY <1>1, <3>2, <3>3 DEF AtWork
      <3>5. QED
        BY <3>1, <3>2, <3>4
    <2>3. QED
      BY <2>1, <2>2
  <1>4. QED
    BY <1>2, <1>3 DEF RequestInv, UpdateInv

\* A thread that ends its request, or ends with it, has nothing more to be said of.
LEMMA OverMoves ==
    ASSUME IInv, NEW t \in Threads, UNCHANGED sent,
           \/ Over(t) /\ thread[t].at \in {"dispatch", "update"}
           \/ Raises(t)
           \/ thread' = [thread EXCEPT ![t] = Idle]
    PROVE  thread' \in [Threads -> ThreadStates] /\ RequestInv' /\ UpdateInv'
  <1>1. thread \in [Threads -> ThreadStates] /\ sent \in Nat /\ AtWork(thread[t], sent)
    BY DEF IInv, StateOK, RequestInv
  <1>2. CASE Goes(t, "record") /\ thread[t].at \in {"dispatch", "update"}
    <2> DEFINE th == [thread[t] EXCEPT !.at = "record"]
    <2>1. th \in ThreadStates /\ AtWork(th, sent) /\ Validated(th)
      BY <1>1, <1>2 DEF ThreadStates, AtWork, Validated
    <2>2. thread' = [thread EXCEPT ![t] = th]
      BY <1>2 DEF Goes
    <2> HIDE DEF th
    <2>3. QED
      BY <2>1, <2>2, ThreadMoves
  <1>3. CASE Raises(t)
    <2> DEFINE th == [Idle EXCEPT !.at = "gone"]
    <2>1. th \in ThreadStates /\ AtWork(th, sent) /\ Validated(th)
      BY DEF Idle, ThreadStates, AtWork, Validated
    <2>2. thread' = [thread EXCEPT ![t] = th]
      BY <1>3 DEF Raises
    <2> HIDE DEF th
    <2>3. QED
      BY <2>1, <2>2, ThreadMoves
  <1>4. CASE thread' = [thread EXCEPT ![t] = Idle]
    <2>1. Idle \in ThreadStates /\ AtWork(Idle, sent) /\ Validated(Idle)
      BY DEF Idle, ThreadStates, AtWork, Validated
    <2>2. QED
      BY <1>4, <2>1, ThreadMoves
  <1>5. QED
    BY <1>2, <1>3, <1>4 DEF Over

\* A request is numbered as it is sent: a replay asks for an earlier one.
LEMMA SendStep ==
    ASSUME IInv, NEW t \in Threads, NEW r \in Requests, Send(t, r)
    PROVE  IInv'
  <1> DEFINE th == [at |-> "dispatch", number |-> sent + 1, asked |-> r, now |-> r]
  <1>1. sent \in Nat /\ sent' = sent + 1 /\ thread' = [thread EXCEPT ![t] = th]
        /\ UNCHANGED <<mocks, history, file, mishaps, acked, recorded>>
    BY DEF IInv, StateOK, Send
  <1>2. r \in Asked
    BY DEF Asked
  <1>3. r.kind = "replay" => r.of \in Nat /\ r.of <= sent
    BY <1>2, AskedFacts DEF Send, Known
  <1>4. r.kind = "replay" => r.of < sent + 1
    BY <1>1, <1>3
  <1>5. th \in ThreadStates /\ AtWork(th, sent') /\ Validated(th)
    <2>1. Earlier(r, sent + 1)
      BY <1>4 DEF Earlier
    <2>2. QED
      BY <1>1, <1>2, <2>1 DEF ThreadStates, AtWork, Validated
  <1> HIDE DEF th
  <1>6. thread' \in [Threads -> ThreadStates] /\ RequestInv' /\ UpdateInv'
    BY <1>1, <1>5, ThreadMoves
  <1>7. QED
    BY <1>1, <1>6 DEF IInv, StateOK, LimitInv, RoutesUnique, AckedKept, RecordInv

\* The steps that change nothing but what the thread is about to do: answering without a
\* change, the validation of an update, and dispatching what was asked for.
LEMMA DispatchStep ==
    ASSUME IInv, NEW t \in Threads, Read(t) \/ Validate(t) \/ Redispatch(t)
    PROVE  IInv'
  <1>1. UNCHANGED <<mocks, history, file, sent, mishaps, acked, recorded>>
    BY DEF Read, Answers, Validate, Redispatch
  <1>2. /\ thread \in [Threads -> ThreadStates] /\ sent \in Nat /\ AtWork(thread[t], sent)
        /\ history \in Seq(Records) /\ mocks \in MockMaps
    BY DEF IInv, StateOK, RequestInv
  <1>3. thread' \in [Threads -> ThreadStates] /\ RequestInv' /\ UpdateInv'
    <2>1. CASE thread[t].at = "dispatch" /\ Goes(t, "record")
      BY <1>1, <2>1, OverMoves DEF Over
    <2>2. CASE Validate(t) /\ Goes(t, "update")
      <3> DEFINE r == thread[t].now
                 th == [thread[t] EXCEPT !.at = "update"]
                 checked == r.new.route # Keep \/ r.new.status # Keep
      <3>1. thread[t].at = "dispatch" /\ r.kind = "update" /\ r \in Asked
        BY <1>2, <2>2 DEF Validate, Dispatches, AtWork
      <3>2. r.id \in Ids /\ r.new \in Payloads
        BY <3>1, AskedFacts
      <3>3. checked => Valid(Given(r.new, mocks[r.id]), r.new.headers)
        <4>1. thread'[t].at = "update"
          BY <1>2, <2>2 DEF Goes
        <4>2. ASSUME checked, ~Valid(Given(r.new, mocks[r.id]), r.new.headers)
              PROVE  thread'[t].at = "record"
          BY <1>2, <2>2, <4>2 DEF Validate, Goes
        <4>3. QED
          BY <4>1, <4>2
      <3>4. r.new.route \in (Routes \ Reserved) \union {Keep}
            /\ r.new.status \in 100..599 \union {Keep}
        BY <3>3 DEF Valid, Given, Either
      <3>5. th \in ThreadStates /\ AtWork(th, sent) /\ Validated(th)
        <4>1. thread[t] \in ThreadStates
          BY <1>2
        <4>2. /\ th \in ThreadStates /\ th.at = "update"
              /\ th.now = r /\ th.asked = thread[t].asked /\ th.number = thread[t].number
          BY <4>1 DEF ThreadStates
        <4>3. AtWork(th, sent)
          BY <1>2, <3>1, <4>2 DEF AtWork
        <4>4. Validated(th)
          BY <3>1, <3>4, <4>2 DEF Validated
        <4>5. QED
          BY <4>2, <4>3, <4>4
      <3>6. thread' = [thread EXCEPT ![t] = th]
        BY <2>2 DEF Goes
      <3> HIDE DEF th
      <3>7. QED
        BY <1>1, <3>5, <3>6, ThreadMoves
    <2>3. ASSUME NEW q \in Asked, thread[t].at = "dispatch",
                 thread' = [thread EXCEPT ![t].now = q]
          PROVE  thread' \in [Threads -> ThreadStates] /\ RequestInv' /\ UpdateInv'
      <3> DEFINE th == [thread[t] EXCEPT !.now = q]
      <3>1. th \in ThreadStates /\ AtWork(th, sent) /\ Validated(th)
        BY <1>2, <2>3 DEF ThreadStates, AtWork, Validated
      <3>2. thread' = [thread EXCEPT ![t] = th]
        BY <2>3
      <3> HIDE DEF th
      <3>3. QED
        BY <1>1, <3>1, <3>2, ThreadMoves
    <2>4. CASE Redispatch(t)
      <3>1. CASE Dispatches(t, "execute") /\ thread' = [thread EXCEPT ![t].now = @.inner]
        <4>1. thread[t].now \in Asked /\ thread[t].at = "dispatch"
          BY <1>2, <3>1 DEF Dispatches, AtWork
        <4>2. thread[t].now.inner \in Asked
          BY <3>1, <4>1, AskedFacts DEF Dispatches, Asked
        <4>3. thread' = [thread EXCEPT ![t].now = thread[t].now.inner]
          BY <3>1
        <4>4. QED
          BY <2>3, <4>1, <4>2, <4>3
      <3>2. ASSUME NEW k \in 1..Len(history), thread[t].at = "dispatch",
                   thread' = [thread EXCEPT ![t].now = history[k].asked]
            PROVE  thread' \in [Threads -> ThreadStates] /\ RequestInv' /\ UpdateInv'
        <4>1. history[k].asked \in Asked
          <5>1. history[k] \in Records
            BY <1>2
          <5>2. QED
            BY <5>1 DEF Records, Asked
        <4>2. QED
          BY <2>3, <3>2, <4>1
      <3>3. QED
        BY <2>1, <2>4, <3>1, <3>2 DEF Redispatch, Dispatches
    <2>5. QED
      BY <2>1, <2>2, <2>4 DEF Read, Dispatches, Answers, Validate
  <1>4. QED
    BY <1>1, <1>3 DEF IInv, StateOK, LimitInv, RoutesUnique, AckedKept, RecordInv

\* Creating, updating and deleting a mock.
LEMMA ChangeStep ==
    ASSUME IInv, NEW t \in Threads, Create(t) \/ Update(t) \/ Delete(t)
    PROVE  IInv'
  <1>1. /\ Over(t)
        /\ \/ UNCHANGED <<mocks, history, file, sent, mishaps, acked, recorded>>
           \/ \E i \in Ids, m \in Mocks \union {None} : Changes(t, i, m)
    BY ChangeFacts
  <1>2. thread[t].at \in {"dispatch", "update"}
    BY DEF Create, Update, Delete, Dispatches
  <1>3. sent' = sent
    BY <1>1 DEF Changes
  <1>4. thread' \in [Threads -> ThreadStates] /\ RequestInv' /\ UpdateInv'
    BY <1>1, <1>2, <1>3, OverMoves
  <1>5. CASE UNCHANGED <<mocks, history, file, sent, mishaps, acked, recorded>>
    BY <1>4, <1>5 DEF IInv, StateOK, LimitInv, RoutesUnique, AckedKept, RecordInv
  <1>6. ASSUME NEW i \in Ids, NEW m \in Mocks \union {None}, Changes(t, i, m)
        PROVE  IInv'
    <2>1. /\ mocks' \in MockMaps /\ file' \in [mocks : MockMaps, history : Seq(Records)]
          /\ acked' \in [Ids -> Mocks \union {None, Unknown}]
          /\ Limited(mocks') /\ Limited(file'.mocks)
          /\ RoutesUnique' /\ AckedKept'
          /\ file'.history \in {history, file.history}
      BY <1>6, ChangeKeeps
    <2>2. history' = history /\ recorded' = recorded /\ mishaps' \in {mishaps, mishaps + 1}
      BY <1>6 DEF Changes
    <2>3. StateOK'
      <3>1. history \in Seq(Records) /\ recorded \in Seq(Recordings)
            /\ sent \in Nat /\ mishaps \in Nat
        BY DEF IInv, StateOK
      <3>2. mishaps' \in Nat
        BY <2>2, <3>1
      <3>3. QED
        BY <1>3, <1>4, <2>1, <2>2, <3>1, <3>2 DEF StateOK
    <2>4. LimitInv' /\ RecordInv'
      <3>1. Replayable(history) /\ Replayable(file.history) /\ RecordInv
        BY DEF IInv, LimitInv
      <3>2. QED
        BY <2>1, <2>2, <3>1 DEF LimitInv, RecordInv
    <2>5. QED
      BY <1>4, <2>1, <2>3, <2>4 DEF IInv
  <1>7. QED
    BY <1>1, <1>5, <1>6

\* The request is recorded once its answer is written.
LEMMA FinishStep ==
    ASSUME IInv, NEW t \in Threads, Finish(t)
    PROVE  IInv'
  <1>1. /\ history' \in Seq(Records) /\ Replayable(history')
        /\ recorded' \in Seq(Recordings) /\ RecordInv'
    BY FinishRecords
  <1>2. StateOK /\ LimitInv /\ RoutesUnique /\ AckedKept
    BY DEF IInv
  <1>3. UNCHANGED <<mocks, sent, acked>>
    BY DEF Finish
  <1>4. /\ \/ file' = [mocks |-> mocks, history |-> history']
           \/ file' = file
        /\ mishaps' \in {mishaps, mishaps + 1}
        /\ Raises(t) \/ thread' = [thread EXCEPT ![t] = Idle]
    <2>1. CASE Save(mocks, history') /\ UNCHANGED mishaps /\ thread' = [thread EXCEPT ![t] = Idle]
      BY <2>1 DEF Save
    <2>2. CASE SaveFails /\ Raises(t)
      BY <2>2 DEF SaveFails
    <2>3. QED
      BY <2>1, <2>2 DEF Finish
  <1>5. thread' \in [Threads -> ThreadStates] /\ RequestInv' /\ UpdateInv'
    BY <1>3, <1>4, OverMoves
  <1>6. file' \in [mocks : MockMaps, history : Seq(Records)]
        /\ file'.mocks \in {mocks, file.mocks} /\ file'.history \in {history', file.history}
    BY <1>1, <1>2, <1>4 DEF StateOK
  <1>7. StateOK'
    <2>1. mishaps' \in Nat
      BY <1>2, <1>4 DEF StateOK
    <2>2. QED
      BY <1>1, <1>2, <1>3, <1>5, <1>6, <2>1 DEF StateOK
  <1>8. LimitInv'
    BY <1>1, <1>2, <1>3, <1>6 DEF LimitInv
  <1>9. RoutesUnique' /\ AckedKept'
    BY <1>2, <1>3, <1>6 DEF RoutesUnique, AckedKept
  <1>10. QED
    BY <1>1, <1>5, <1>7, <1>8, <1>9 DEF IInv

\* Another process loads the file; whoever was being served is gone.
LEMMA RestartStep ==
    ASSUME IInv, Restart
    PROVE  IInv'
  <1>1. StateOK /\ LimitInv /\ RoutesUnique /\ AckedKept /\ RecordInv
    BY DEF IInv
  <1>2. /\ mishaps' = mishaps + 1 /\ mocks' = file.mocks
        /\ history' = LastOnes(file.history) /\ thread' = [t \in Threads |-> Idle]
        /\ UNCHANGED <<file, sent, acked, recorded>>
    BY DEF Restart, Kept
  <1>3. file.history \in Seq(Records) /\ recorded \in Seq(Recordings)
    BY <1>1 DEF StateOK
  <1>4. history' \in Seq(Records) /\ Replayable(history')
    <2>1. \A k \in DOMAIN file.history :
              Earlier(file.history[k].asked, file.history[k].number)
      BY <1>1, <1>3 DEF LimitInv, Replayable
    <2>2. history' = LastOnes(file.history)
      BY <1>2
    <2>3. QED
      BY <1>3, <2>1, <2>2, KeptReplayable
  <1>5. Reaches(recorded, history')
    <2>1. Reaches(recorded, file.history) /\ Len(recorded) <= HistoryLimit
      BY <1>1 DEF RecordInv
    <2>2. history' = LastOnes(file.history)
      BY <1>2
    <2>3. QED
      BY <1>3, <2>1, <2>2, KeptReaches
  <1>6. thread' \in [Threads -> ThreadStates] /\ RequestInv' /\ UpdateInv'
    BY <1>2 DEF RequestInv, UpdateInv, Idle, AtWork, Validated, ThreadStates
  <1>7. StateOK'
    BY <1>1, <1>2, <1>4, <1>6 DEF StateOK
  <1>8. LimitInv' /\ RecordInv'
    BY <1>1, <1>2, <1>4, <1>5 DEF LimitInv, RecordInv
  <1>9. RoutesUnique' /\ AckedKept'
    BY <1>1, <1>2 DEF RoutesUnique, AckedKept
  <1>10. QED
    BY <1>6, <1>7, <1>8, <1>9 DEF IInv

\* No step breaks the invariant.
LEMMA StepIInv == IInv /\ [Next]_vars => IInv'
  <1> SUFFICES ASSUME IInv, [Next]_vars PROVE IInv'
    OBVIOUS
  <1>1. CASE Restart
    BY <1>1, RestartStep
  <1>2. ASSUME NEW t \in Threads, NEW r \in Requests, Send(t, r) PROVE IInv'
    BY <1>2, SendStep
  <1>3. ASSUME NEW t \in Threads, Handle(t) PROVE IInv'
    BY <1>3, DispatchStep, ChangeStep, FinishStep DEF Handle
  <1>4. CASE UNCHANGED vars
    BY <1>4 DEF vars, IInv, StateOK, RequestInv, UpdateInv, LimitInv, RoutesUnique, AckedKept,
            RecordInv
  <1>5. QED
    BY <1>1, <1>2, <1>3, <1>4 DEF Next

-----------------------------------------------------------------------------
\* The invariant holds throughout, in whatever order the handlers' critical sections come,
\* saves fail and the process crashes.
THEOREM Invariance == Spec => []IInv
  <1>1. QED
    BY InitIInv, StepIInv, PTL DEF Spec

\* The limits of mocks and of the history hold in memory and in the file, across restarts;
\* what is stored can be served; replaying replays comes to an end.
THEOREM TypeCorrect == Spec => []TypeOK
  <1>1. IInv => TypeOK
    <2> SUFFICES ASSUME IInv PROVE TypeOK
      OBVIOUS
    <2>1. /\ mocks \in MockMaps /\ file.mocks \in MockMaps
          /\ Limited(mocks) /\ Limited(file.mocks)
          /\ Replayable(history) /\ Replayable(file.history)
      BY DEF IInv, StateOK, LimitInv
    <2>2. QED
      BY <2>1 DEF TypeOK, MockMaps, Limited, StoredIn, Replayable, Earlier
  <1>2. QED
    BY <1>1, Invariance, PTL

\* Two mocks never have the same method and path, in memory or in the file: creating and
\* updating look for the route in the same critical section as they store it, and what an
\* update leaves behind that raises or fails to save was looked for, too.
THEOREM NoRouteTwice == Spec => []RoutesUnique
  <1>1. IInv => RoutesUnique
    BY DEF IInv
  <1>2. QED
    BY <1>1, Invariance, PTL

\* What a client was told of a mock is served, and found by a restart, until somebody
\* changes it again or fails to.
THEOREM AcknowledgedKept == Spec => []AckedKept
  <1>1. IInv => AckedKept
    BY DEF IInv
  <1>2. QED
    BY <1>1, Invariance, PTL

\* A saved record stays replayable, after a restart too, until HistoryLimit newer ones
\* have come: failed saves and crashes never make room for it in the file too early.
THEOREM SavedStaysReplayable == Spec => []RecentKept
  <1>1. IInv => RecentKept
    <2> SUFFICES ASSUME IInv, NEW k \in 1..Len(recorded), recorded[k].saved
                 PROVE  \E j \in 1..Len(file.history) :
                           file.history[j].number = recorded[k].number
      BY DEF RecentKept
    <2>1. /\ Reaches(recorded, file.history)
          /\ recorded \in Seq(Recordings) /\ file.history \in Seq(Records)
      BY DEF IInv, RecordInv, StateOK
    <2>2. k \in DOMAIN recorded /\ DOMAIN file.history = 1..Len(file.history)
      BY <2>1
    <2>3. QED
      BY <2>1, <2>2 DEF Reaches
  <1>2. QED
    BY <1>1, Invariance, PTL
=============================================================================
