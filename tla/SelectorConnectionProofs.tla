---------------------- MODULE SelectorConnectionProofs ----------------------
(***************************************************************************)
(* Proofs about SelectorConnection, for every number of pipelined          *)
(* requests, every keep-alive limit and every size of a response.          *)
(***************************************************************************)
EXTENDS SelectorConnection, SequenceFacts

USE ConnectionAssumption DEF ConnectionAssumption, Requests

-----------------------------------------------------------------------------
(* The strengthenings                                                      *)

\* The type invariant in the two parts that are proved one at a time, numbers and
\* sequences apart from flags; a head in the buffer belongs to a request to come.
DataOK ==
    /\ kind \in [Requests -> Kinds]
    /\ got \in 0 .. MaxRequests /\ served \in 0 .. got
    /\ raw \in Seq(Requests) /\ queued \in Seq(Responses)
    /\ current \in Responses \cup {None}
    /\ sent \in 0 .. Chunks
    /\ interest \subseteq {"read", "write"}
    /\ pc \in {"select", "read", "parse", "interest", "write", "closed", "looping"}
    /\ inflight \in Nat
    /\ wire \in Seq(Pieces)

FlagsOK ==
    /\ half \in BOOLEAN /\ contSent \in BOOLEAN
    /\ closing \in BOOLEAN /\ open \in BOOLEAN /\ writeDue \in BOOLEAN
    /\ draining \in BOOLEAN /\ stalled \in BOOLEAN

HeadInv == half => got < MaxRequests

\* A connection that is closing is read no more, and the write event is registered
\* exactly while something is pending; between the handlers that relation is kept by
\* what each handler may still find pending.
LoopInv ==
    /\ pc \in {"read", "parse"} => ~closing
    /\ pc \in {"select", "write"} /\ closing => "read" \notin interest
    /\ pc = "read" /\ writeDue => "write" \in interest
    /\ pc \in {"select", "read"} => (Pending <=> "write" \in interest)
    /\ pc = "write" /\ Pending => "write" \in interest

\* A response that ends the connection is queued together with closing.
LastInv ==
    /\ NothingAfterLast
    /\ current # None /\ current.last => closing
    /\ \A i \in DOMAIN queued : queued[i].last => closing

\* done requests are answered, the current one with them.  The queue holds the next
\* ones in order, and the wire holds all pieces of the answered ones but those of the
\* current response that are still to be sent.  Only a refusal, which is queued when
\* the connection is closing, may answer a request that was never served.
Progress(done) ==
    /\ \A i \in DOMAIN queued : queued[i].req = done + i
    /\ current = None => Cardinality(Finals) = done * Chunks
    /\ current # None => /\ current.req = done
                         /\ Cardinality(Finals) = (done - 1) * Chunks + sent
    /\ done + Len(queued) <= served + 1
    /\ ~closing => done + Len(queued) = served

OrderInv ==
    /\ pc # "closed" => \E done \in 0 .. (MaxRequests + 1) : Progress(done)
    /\ FinalsInOrder

\* A 100 Continue waits or was written only for a served request or for the one whose
\* head is in the buffer, for each once, and nothing of its response is on the wire.
InterimInv ==
    /\ \A i \in DOMAIN wire : wire[i].req <= served + 1
    /\ \A k \in DOMAIN raw : raw[k] <= served + 1
    /\ ~closing /\ ~contSent => /\ \A i \in DOMAIN wire : wire[i].req <= served
                                /\ \A k \in DOMAIN raw : raw[k] <= served
    /\ \A k \in DOMAIN raw, i \in DOMAIN wire : raw[k] # wire[i].req
    /\ \A k, l \in DOMAIN raw : k < l => raw[k] # raw[l]
    /\ InterimFirst

OpenInv == open <=> pc # "closed"

IInv ==
    /\ TypeOK
    /\ HeadInv
    /\ OpenInv
    /\ LoopInv
    /\ LastInv
    /\ OrderInv
    /\ InterimInv
    /\ InflightExact

-----------------------------------------------------------------------------
\* A response is a Responses record with the fields it is given.
LEMMA ResponseFacts ==
    ASSUME NEW r \in 1 .. (MaxRequests + 1), NEW status, NEW last \in BOOLEAN
    PROVE  /\ Response(r, status, last) \in Responses
           /\ Response(r, status, last).req = r
           /\ Response(r, status, last).last = last
           /\ Response(r, status, last).counted = (status = "ok")
  BY DEF Response, Responses

\* No response is None, and the fields of a response are what they should be.
LEMMA ResponsesNotNone ==
    ASSUME NEW x \in Responses
    PROVE  /\ x # None
           /\ x.req \in 1 .. (MaxRequests + 1) /\ x.last \in BOOLEAN /\ x.counted \in BOOLEAN
  <1>1. x \in [req : Nat, last : BOOLEAN, counted : BOOLEAN]
    BY DEF Responses
  <1>2. QED
    BY <1>1, NoneAssumption DEF Responses

\* The type invariant falls into data and flags, which the provers treat apart.
LEMMA TypeParts == TypeOK <=> DataOK /\ FlagsOK
  BY DEF TypeOK, DataOK, FlagsOK

\* A connection that was just accepted satisfies the invariant.
LEMMA InitIInv == Init => IInv
  <1> SUFFICES ASSUME Init PROVE IInv
    OBVIOUS
  <1> USE DEF Init
  <1>1. Finals = {} /\ CountedQueued = {}
    BY DEF Finals, CountedQueued
  <1>2. Cardinality({}) = 0
    BY FS_EmptySet
  <1>3. TypeOK /\ HeadInv
    <2>1. DataOK
      BY DEF DataOK
    <2>2. FlagsOK
      BY DEF FlagsOK
    <2>3. HeadInv
      BY DEF HeadInv
    <2>4. QED
      BY <2>1, <2>2, <2>3, TypeParts
  <1>4. OpenInv /\ LoopInv /\ LastInv /\ InterimInv
    BY DEF OpenInv, LoopInv, LastInv, InterimInv, InterimFirst, NothingAfterLast, Pending
  <1>5. OrderInv
    <2>1. Progress(0)
      BY <1>1, <1>2 DEF Progress
    <2>2. FinalsInOrder
      BY <1>1 DEF FinalsInOrder
    <2>3. QED
      BY <2>1, <2>2 DEF OrderInv
  <1>6. InflightExact
    BY <1>1, <1>2 DEF InflightExact
  <1>7. QED
    BY <1>3, <1>4, <1>5, <1>6 DEF IInv

-----------------------------------------------------------------------------
\* Every step keeps the types of the numbers and the sequences.
LEMMA DataStep == DataOK /\ HeadInv /\ [Next]_vars => DataOK'
  <1> SUFFICES ASSUME DataOK, HeadInv, [Next]_vars PROVE DataOK'
    OBVIOUS
  <1> USE DEF DataOK, HeadInv, inVars, outVars, loopVars, envVars
  <1>a. served \in Nat /\ served + 1 \in 1 .. (MaxRequests + 1)
    OBVIOUS
  <1>1. CASE StartDrain \/ ClientStalls
    BY <1>1 DEF StartDrain, ClientStalls
  <1>2. CASE SelectRead \/ SelectWrite
    BY <1>2 DEF SelectRead, SelectWrite
  <1>3. CASE Receive
    BY <1>3 DEF Receive
  <1>4. CASE ReceiveBlocks \/ ReceiveEof
    BY <1>4 DEF ReceiveBlocks, ReceiveEof
  <1>c. ASSUME Close, UNCHANGED <<kind, got, served, raw, wire>>, inflight' \in Nat
        PROVE  DataOK'
    <2>1. /\ current' \in Responses \cup {None} /\ queued' \in Seq(Responses)
          /\ sent' \in 0 .. Chunks
          /\ interest' \subseteq {"read", "write"}
          /\ pc' \in {"select", "read", "parse", "interest", "write", "closed", "looping"}
      BY <1>c DEF Close
    <2>2. QED
      BY <1>c, <2>1
  <1>5. CASE ReceiveFails \/ SendFails \/ LoopExits
    <2>1. Close /\ UNCHANGED <<kind, got, served, raw, wire>> /\ inflight' = inflight
      BY <1>5 DEF ReceiveFails, SendFails, LoopExits
    <2>2. QED
      BY <1>c, <2>1
  <1>6. CASE ParseBad
    <2>1. queued' \in Seq(Responses)
      BY <1>6, <1>a, ResponseFacts, AppendFacts DEF ParseBad
    <2>2. QED
      BY <1>6, <2>1 DEF ParseBad
  <1>7. CASE ParseDraining
    <2>1. queued' \in Seq(Responses)
      BY <1>7, <1>a, ResponseFacts, AppendFacts DEF ParseDraining
    <2>2. served' \in 0 .. got' /\ got' = got
      BY <1>7 DEF ParseDraining
    <2>3. QED
      BY <1>7, <2>1, <2>2 DEF ParseDraining
  <1>8. CASE ParseRequest
    <2>1. ShouldClose(served + 1) \in BOOLEAN
      BY DEF ShouldClose
    <2>2. queued' \in Seq(Responses)
      BY <1>8, <1>a, <2>1, ResponseFacts, AppendFacts DEF ParseRequest
    <2>3. QED
      BY <1>8, <2>2 DEF ParseRequest
  <1>9. CASE ParseIncomplete
    <2>1. half => Append(raw, got + 1) \in Seq(Requests)
      BY AppendFacts
    <2>2. raw' \in Seq(Requests)
      BY <1>9, <2>1 DEF ParseIncomplete
    <2>3. QED
      BY <1>9, <2>2 DEF ParseIncomplete
  <1>10. CASE UpdateInterest
    <2>1. UNCHANGED <<kind, got, served, raw, wire, inflight>>
      BY <1>10 DEF UpdateInterest
    <2>2. CASE Close
      BY <1>c, <2>1, <2>2
    <2>3. CASE UNCHANGED <<queued, current, sent>>
      BY <1>10, <2>1, <2>3 DEF UpdateInterest, Close
    <2>4. QED
      BY <1>10, <2>2, <2>3 DEF UpdateInterest
  <1>11. CASE SendInterim
    <2>1. Head(raw) \in Requests /\ Tail(raw) \in Seq(Requests)
      BY <1>11, TailFacts DEF SendInterim
    <2>2. [req |-> Head(raw), part |-> 0] \in Pieces
      BY <2>1 DEF Pieces
    <2>3. wire' \in Seq(Pieces)
      BY <1>11, <2>2, AppendFacts DEF SendInterim
    <2>4. QED
      BY <1>11, <2>1, <2>3 DEF SendInterim
  <1>12. CASE PickResponse
    <2>1. Head(queued) \in Responses /\ Tail(queued) \in Seq(Responses)
      BY <1>12, TailFacts DEF PickResponse
    <2>2. QED
      BY <1>12, <2>1 DEF PickResponse
  <1>13. CASE SendChunk
    <2>1. [req |-> current.req, part |-> sent + 1] \in Pieces
      BY <1>13, ResponsesNotNone DEF SendChunk, Pieces
    <2>2. wire' \in Seq(Pieces)
      BY <1>13, <2>1, AppendFacts DEF SendChunk
    <2>3. QED
      BY <1>13, <2>2 DEF SendChunk
  <1>14. CASE SendBlocks \/ WriteEnds \/ ParseEndless
    BY <1>14 DEF SendBlocks, WriteEnds, ParseEndless
  <1>15. CASE Finalize
    <2>1. UNCHANGED <<kind, got, served, raw, wire>> /\ inflight' \in Nat
      BY <1>15 DEF Finalize
    <2>2. CASE Close
      BY <1>c, <2>1, <2>2
    <2>3. CASE current' = None /\ sent' = 0 /\ pc' \in {"interest", "write"}
               /\ UNCHANGED <<open, interest, queued>>
      BY <2>1, <2>3
    <2>4. QED
      BY <1>15, <2>2, <2>3 DEF Finalize
  <1>16. CASE SweepIdle
    <2>1. queued' \in Seq(Responses)
      BY <1>16, <1>a, ResponseFacts, AppendFacts DEF SweepIdle
    <2>2. QED
      BY <1>16, <2>1 DEF SweepIdle
  <1>17. CASE UNCHANGED vars
    BY <1>17 DEF vars
  <1>18. QED
    BY <1>1, <1>2, <1>3, <1>4, <1>5, <1>6, <1>7, <1>8, <1>9, <1>10, <1>11, <1>12,
       <1>13, <1>14, <1>15, <1>16, <1>17 DEF Next, Read, Parse, Write

\* Every step keeps the flags Boolean.
LEMMA FlagsStep == FlagsOK /\ [Next]_vars => FlagsOK'
  <1> SUFFICES ASSUME FlagsOK, [Next]_vars PROVE FlagsOK'
    OBVIOUS
  <1> USE DEF FlagsOK, inVars, outVars, loopVars, envVars
  <1>1. CASE StartDrain \/ ClientStalls \/ SelectRead \/ SelectWrite
    BY <1>1 DEF StartDrain, ClientStalls, SelectRead, SelectWrite
  <1>2. CASE Receive
    BY <1>2 DEF Receive
  <1>3. CASE ReceiveBlocks \/ ReceiveEof \/ ReceiveFails
    BY <1>3 DEF ReceiveBlocks, ReceiveEof, ReceiveFails, Close
  <1>4. CASE ParseBad \/ ParseEndless \/ ParseDraining
    BY <1>4 DEF ParseBad, ParseEndless, ParseDraining
  <1>5. CASE ParseRequest
    BY <1>5 DEF ParseRequest, ShouldClose
  <1>6. CASE ParseIncomplete
    BY <1>6 DEF ParseIncomplete
  <1>7. CASE UpdateInterest
    BY <1>7 DEF UpdateInterest, Close
  <1>8. CASE SendInterim \/ PickResponse \/ SendChunk \/ SendBlocks \/ WriteEnds
    BY <1>8 DEF SendInterim, PickResponse, SendChunk, SendBlocks, WriteEnds
  <1>9. CASE Finalize
    BY <1>9 DEF Finalize, Close
  <1>10. CASE SendFails \/ SweepIdle \/ LoopExits
    BY <1>10 DEF SendFails, SweepIdle, LoopExits, Close
  <1>11. CASE UNCHANGED vars
    BY <1>11 DEF vars
  <1>12. QED
    BY <1>1, <1>2, <1>3, <1>4, <1>5, <1>6, <1>7, <1>8, <1>9, <1>10, <1>11
    DEF Next, Read, Parse, Write

\* Only recv brings a new head, and then it is not the last request's.
LEMMA HeadStep == HeadInv /\ [Next]_vars => HeadInv'
  <1> SUFFICES ASSUME HeadInv, [Next]_vars PROVE HeadInv'
    OBVIOUS
  <1>1. Receive \/ UNCHANGED <<got, half>>
    BY DEF Next, Read, Parse, Write, StartDrain, ClientStalls, SelectRead, SelectWrite,
           ReceiveBlocks, ReceiveEof, ReceiveFails, ParseBad, ParseEndless, ParseDraining,
           ParseRequest, ParseIncomplete, UpdateInterest, SendInterim, PickResponse, SendChunk,
           SendBlocks, SendFails, Finalize, WriteEnds, SweepIdle, LoopExits, vars, inVars
  <1>2. QED
    BY <1>1 DEF HeadInv, Receive

\* Every step keeps the type invariant.
LEMMA TypeStep == TypeOK /\ HeadInv /\ [Next]_vars => TypeOK' /\ HeadInv'
  <1> SUFFICES ASSUME TypeOK, HeadInv, [Next]_vars PROVE TypeOK' /\ HeadInv'
    OBVIOUS
  <1>1. DataOK /\ FlagsOK
    BY TypeParts
  <1>2. DataOK' /\ FlagsOK' /\ HeadInv'
    BY <1>1, DataStep, FlagsStep, HeadStep
  <1>3. TypeOK' <=> DataOK' /\ FlagsOK'
    BY DEF TypeOK, DataOK, FlagsOK
  <1>4. QED
    BY <1>2, <1>3

-----------------------------------------------------------------------------
\* The interest the socket is registered for follows what is pending.
LEMMA LoopStep == TypeOK /\ OpenInv /\ LoopInv /\ [Next]_vars => OpenInv' /\ LoopInv'
  <1> SUFFICES ASSUME TypeOK, OpenInv, LoopInv, [Next]_vars PROVE OpenInv' /\ LoopInv'
    OBVIOUS
  <1> USE DEF OpenInv, LoopInv, inVars, outVars, loopVars, envVars
  <1>1. CASE StartDrain \/ ClientStalls
    BY <1>1 DEF StartDrain, ClientStalls, Pending
  <1>2. CASE SelectRead \/ SelectWrite
    <2>1. CASE SelectRead
      BY <2>1 DEF SelectRead, Pending, TypeOK
    <2>2. CASE SelectWrite
      BY <2>2 DEF SelectWrite, Pending
    <2>3. QED
      BY <1>2, <2>1, <2>2
  <1>3. CASE Read
    BY <1>3 DEF Read, Receive, ReceiveBlocks, ReceiveEof, ReceiveFails, Close, Pending
  <1>4. CASE Parse
    BY <1>4 DEF Parse, ParseBad, ParseEndless, ParseDraining, ParseRequest, ParseIncomplete, TypeOK
  <1>5. CASE UpdateInterest
    BY <1>5 DEF UpdateInterest, Close, Pending
  <1>6. CASE SendInterim \/ PickResponse \/ SendChunk
    BY <1>6 DEF SendInterim, PickResponse, SendChunk, Pending
  <1>7. CASE SendBlocks \/ SendFails \/ WriteEnds
    BY <1>7 DEF SendBlocks, SendFails, WriteEnds, Sending, Close, Pending
  <1>8. CASE Finalize
    BY <1>8 DEF Finalize, Close, Pending
  <1>9. CASE SweepIdle \/ LoopExits
    BY <1>9 DEF SweepIdle, LoopExits, Close
  <1>10. CASE UNCHANGED vars
    BY <1>10 DEF vars, Pending
  <1>11. QED
    BY <1>1, <1>2, <1>3, <1>4, <1>5, <1>6, <1>7, <1>8, <1>9, <1>10 DEF Next, Write

-----------------------------------------------------------------------------
\* Queueing one more response keeps the order, provided the connection was not closing
\* before and is closing now if the response is the last.
LEMMA AppendKeepsLast ==
    ASSUME TypeOK, LastInv, ~closing, NEW x \in Responses,
           queued' = Append(queued, x), current' = current, closing' \in BOOLEAN,
           x.last => closing'
    PROVE  LastInv'
  <1>1. /\ DOMAIN queued' = DOMAIN queued \cup {Len(queued) + 1}
        /\ \A i \in DOMAIN queued : queued'[i] = queued[i]
        /\ queued'[Len(queued) + 1] = x /\ Len(queued') = Len(queued) + 1
    BY AppendFacts DEF TypeOK
  <1>2. \A i \in DOMAIN queued : ~queued[i].last
    BY DEF LastInv
  <1>3. ~(current # None /\ current.last)
    BY DEF LastInv
  <1>4. QED
    BY <1>1, <1>2, <1>3 DEF LastInv, NothingAfterLast

\* No step queues a response behind one after which the connection is closed (close_after).
LEMMA LastStep == TypeOK /\ LoopInv /\ LastInv /\ [Next]_vars => LastInv'
  <1> SUFFICES ASSUME TypeOK, LoopInv, LastInv, [Next]_vars PROVE LastInv'
    OBVIOUS
  <1> USE DEF inVars, outVars, loopVars, envVars
  <1>a. served + 1 \in 1 .. (MaxRequests + 1)
    BY DEF TypeOK
  <1>1. CASE UNCHANGED <<queued, current>> /\ (closing => closing')
    BY <1>1 DEF LastInv, NothingAfterLast
  <1>2. CASE Close /\ closing' = closing
    BY <1>2 DEF Close, LastInv, NothingAfterLast
  <1>3. CASE ParseBad \/ ParseDraining
    <2>1. PICK status \in {"error", "drain"} :
             queued' = Append(queued, Response(served + 1, status, TRUE))
      BY <1>3 DEF ParseBad, ParseEndless, ParseDraining
    <2>2. ~closing /\ closing' = TRUE /\ current' = current
      BY <1>3 DEF ParseBad, ParseEndless, ParseDraining, LoopInv
    <2>3. QED
      BY <1>a, <2>1, <2>2, ResponseFacts, AppendKeepsLast
  <1>4. CASE ParseRequest
    <2>1. ~closing /\ current' = current
      BY <1>4 DEF ParseRequest, LoopInv
    <2>2. ShouldClose(served + 1) \in BOOLEAN /\ (ShouldClose(served + 1) => closing')
          /\ closing' \in BOOLEAN
      BY <1>4, <2>1 DEF ParseRequest, ShouldClose
    <2>3. queued' = Append(queued, Response(served + 1, "ok", ShouldClose(served + 1)))
      BY <1>4 DEF ParseRequest
    <2>4. QED
      BY <1>a, <2>1, <2>2, <2>3, ResponseFacts, AppendKeepsLast
  <1>5. CASE SweepIdle
    <2>1. ~closing /\ closing' = TRUE /\ current' = current
      BY <1>5 DEF SweepIdle
    <2>2. queued' = Append(queued, Response(served + 1, "timeout", TRUE))
      BY <1>5 DEF SweepIdle
    <2>3. QED
      BY <1>a, <2>1, <2>2, ResponseFacts, AppendKeepsLast
  <1>6. CASE PickResponse
    <2>1. queued \in Seq(Responses) /\ queued # << >>
      BY <1>6 DEF TypeOK, PickResponse
    <2>2. /\ current' = queued[1] /\ closing' = closing /\ 1 \in DOMAIN queued
          /\ Len(queued) \in Nat /\ Len(queued') = Len(queued) - 1
          /\ queued' \in Seq(Responses)
          /\ \A i \in DOMAIN queued' : i + 1 \in DOMAIN queued /\ queued'[i] = queued[i + 1]
      BY <1>6, <2>1, TailFacts DEF PickResponse
    <2>3. current'.last => Len(queued) = 1
      BY <2>2 DEF LastInv, NothingAfterLast
    <2>4. current'.last => queued' = << >>
      <3>1. Len(queued') = 0 => queued' = << >>
        BY <2>2, EmptyFacts
      <3>2. QED
        BY <2>2, <2>3, <3>1
    <2>5. \A i \in DOMAIN queued' : queued'[i].last => i = Len(queued')
      <3> SUFFICES ASSUME NEW i \in DOMAIN queued', queued'[i].last PROVE i = Len(queued')
        OBVIOUS
      <3>1. i \in Nat /\ i + 1 = Len(queued)
        BY <2>2 DEF LastInv, NothingAfterLast
      <3>2. QED
        BY <2>2, <3>1
    <2>6. QED
      BY <2>2, <2>4, <2>5 DEF LastInv, NothingAfterLast
  <1>7. CASE Finalize /\ ~Close
    <2>1. current' = None /\ queued' = queued /\ closing' = closing
      BY <1>7 DEF Finalize
    <2>2. QED
      BY <2>1 DEF LastInv, NothingAfterLast
  <1>8. CASE UNCHANGED vars
    BY <1>1, <1>8 DEF vars
  <1>9. CASE Receive \/ ReceiveBlocks \/ ReceiveEof \/ ParseIncomplete \/ SendInterim \/ SendChunk
    BY <1>1, <1>9 DEF Receive, ReceiveBlocks, ReceiveEof, ParseIncomplete, SendInterim, SendChunk
  <1>10. CASE \/ StartDrain \/ ClientStalls \/ SelectRead \/ SelectWrite
              \/ ParseEndless \/ SendBlocks \/ WriteEnds
    BY <1>1, <1>10 DEF StartDrain, ClientStalls, SelectRead, SelectWrite, ParseEndless,
       SendBlocks, WriteEnds
  <1>11. CASE UpdateInterest \/ ReceiveFails \/ SendFails \/ LoopExits
    BY <1>1, <1>2, <1>11 DEF UpdateInterest, ReceiveFails, SendFails, LoopExits
  <1>12. CASE Finalize /\ Close
    BY <1>2, <1>12 DEF Finalize
  <1>13. QED
    BY <1>3, <1>4, <1>5, <1>6, <1>7, <1>8, <1>9, <1>10, <1>11, <1>12
    DEF Next, Read, Parse, Write

-----------------------------------------------------------------------------
\* One more piece on the wire: what it adds to the final pieces, and what keeps them
\* in order.
LEMMA WireAppend ==
    ASSUME TypeOK, NEW u \in Pieces, wire' = Append(wire, u)
    PROVE  /\ Cardinality(Finals) \in Nat
           /\ u.part = 0 => Finals' = Finals
           /\ u.part > 0 => Cardinality(Finals') = Cardinality(Finals) + 1
           /\ FinalsInOrder /\ (u.part > 0 => (u.req - 1) * Chunks + u.part
                                                 = Cardinality(Finals) + 1)
                 => FinalsInOrder'
  <1> DEFINE n == Len(wire) + 1
  <1>1. /\ DOMAIN wire' = DOMAIN wire \cup {n} /\ n \notin DOMAIN wire /\ n \in Nat
        /\ \A i \in DOMAIN wire : wire'[i] = wire[i] /\ i < n /\ i \in Nat
        /\ wire'[n] = u
    BY AppendFacts DEF TypeOK
  <1>2. u.part \in Nat
    BY DEF Pieces
  <1> HIDE DEF n
  <1>3. Finals \subseteq DOMAIN wire
    BY DEF Finals
  <1>4. IsFiniteSet(Finals) /\ Cardinality(Finals) \in Nat
    BY <1>3, PositionsFinite DEF TypeOK
  <1>5. Finals' = IF u.part > 0 THEN Finals \cup {n} ELSE Finals
    BY <1>1 DEF Finals
  <1>6. n \notin Finals
    BY <1>1, <1>3
  <1>7. u.part > 0 => Cardinality(Finals') = Cardinality(Finals) + 1
    BY <1>4, <1>5, <1>6, FS_AddElement
  <1>8. ASSUME FinalsInOrder,
               u.part > 0 => (u.req - 1) * Chunks + u.part = Cardinality(Finals) + 1
        PROVE  FinalsInOrder'
    <2> SUFFICES ASSUME NEW i \in Finals'
                 PROVE  (wire'[i].req - 1) * Chunks + wire'[i].part
                            = Cardinality({j \in Finals' : j <= i})
      BY DEF FinalsInOrder
    <2>1. CASE i \in Finals
      <3>1. {j \in Finals' : j <= i} = {j \in Finals : j <= i}
        BY <1>1, <1>3, <1>5, <2>1
      <3>2. QED
        BY <1>1, <1>3, <1>8, <2>1, <3>1 DEF FinalsInOrder
    <2>2. CASE i = n /\ u.part > 0
      <3>1. {j \in Finals' : j <= i} = Finals'
        BY <1>1, <1>3, <1>5, <2>2
      <3>2. QED
        BY <1>1, <1>7, <1>8, <2>2, <3>1
    <2>3. QED
      BY <1>5, <2>1, <2>2
  <1>9. QED
    BY <1>2, <1>4, <1>5, <1>7, <1>8

\* A response more is a whole number of pieces more.
LEMMA OneMoreResponse ==
    ASSUME NEW done \in Nat
    PROVE  /\ (done - 1) * Chunks + Chunks = done * Chunks
           /\ (done + 1 - 1) * Chunks + 0 = done * Chunks
  OBVIOUS

\* Queueing the response to the next request: the parser counts the request as served,
\* or the connection is closing and nothing follows.
LEMMA AppendKeepsOrder ==
    ASSUME TypeOK, OrderInv, pc # "closed", ~closing,
           NEW x \in Responses, x.req = served + 1,
           queued' = Append(queued, x), UNCHANGED <<current, sent, wire>>,
           \/ served' = served + 1
           \/ served' = served /\ closing'
    PROVE  OrderInv'
  <1>1. PICK done \in 0 .. (MaxRequests + 1) : Progress(done)
    BY DEF OrderInv
  <1>2. /\ DOMAIN queued' = DOMAIN queued \cup {Len(queued) + 1}
        /\ \A i \in DOMAIN queued : queued'[i] = queued[i]
        /\ queued'[Len(queued) + 1] = x /\ Len(queued') = Len(queued) + 1 /\ Len(queued) \in Nat
    BY AppendFacts DEF TypeOK
  <1>3. Finals' = Finals /\ FinalsInOrder'
    BY DEF Finals, FinalsInOrder, OrderInv
  <1>4. served \in Nat /\ done + Len(queued) = served
    BY <1>1 DEF Progress, TypeOK
  <1>5. \A i \in DOMAIN queued' : queued'[i].req = done + i
    BY <1>1, <1>2, <1>4 DEF Progress
  <1>8. /\ current' = None => Cardinality(Finals') = done * Chunks
        /\ current' # None => /\ current'.req = done
                              /\ Cardinality(Finals') = (done - 1) * Chunks + sent'
    BY <1>1, <1>3 DEF Progress
  <1>9. /\ done + Len(queued') <= served' + 1
        /\ ~closing' => done + Len(queued') = served'
    BY <1>2, <1>4
  <1>6. Progress(done)'
    BY <1>5, <1>8, <1>9 DEF Progress
  <1>7. QED
    BY <1>3, <1>6 DEF OrderInv

\* Every step keeps the responses on the wire, in hand and queued in the order of requests.
LEMMA OrderStep == IInv /\ [Next]_vars => OrderInv'
  <1> SUFFICES ASSUME IInv, [Next]_vars PROVE OrderInv'
    OBVIOUS
  <1>a. TypeOK /\ LoopInv /\ OrderInv
    BY DEF IInv
  <1>b. served + 1 \in 1 .. (MaxRequests + 1) /\ served \in Nat
    BY <1>a DEF TypeOK
  <1> USE DEF inVars, outVars, loopVars, envVars
  <1>1. ASSUME UNCHANGED <<queued, current, sent, wire, served>>, closing => closing',
               pc # "closed" \/ pc' = "closed"
        PROVE  OrderInv'
    <2>1. Finals' = Finals /\ FinalsInOrder'
      BY <1>1, <1>a DEF Finals, FinalsInOrder, OrderInv
    <2>2. \A done \in 0 .. (MaxRequests + 1) : Progress(done) => Progress(done)'
      BY <1>1, <2>1 DEF Progress
    <2>3. QED
      BY <1>1, <1>a, <2>1, <2>2 DEF OrderInv
  <1>2. ASSUME Close, wire' = wire PROVE OrderInv'
    BY <1>2, <1>a DEF Close, OrderInv, FinalsInOrder, Finals
  <1>3. CASE StartDrain \/ ClientStalls \/ SelectRead \/ SelectWrite
    BY <1>1, <1>3 DEF StartDrain, ClientStalls, SelectRead, SelectWrite
  <1>4. CASE Receive \/ ReceiveBlocks \/ ReceiveEof \/ ParseIncomplete
    BY <1>1, <1>4 DEF Receive, ReceiveBlocks, ReceiveEof, ParseIncomplete
  <1>5. CASE ReceiveFails \/ SendFails \/ LoopExits
    BY <1>2, <1>5 DEF ReceiveFails, SendFails, LoopExits
  <1>6. CASE UpdateInterest
    <2>1. UNCHANGED <<wire, served, closing>> /\ pc # "closed"
      BY <1>6 DEF UpdateInterest
    <2>2. CASE Close
      BY <1>2, <2>1, <2>2
    <2>3. CASE UNCHANGED <<queued, current, sent>>
      BY <1>1, <2>1, <2>3
    <2>4. QED
      BY <1>6, <2>2, <2>3 DEF UpdateInterest
  <1>7. CASE ParseBad \/ SweepIdle
    <2>1. PICK status \in {"error", "timeout"} :
             queued' = Append(queued, Response(served + 1, status, TRUE))
      BY <1>7 DEF ParseBad, SweepIdle
    <2>2. ~closing /\ closing' /\ pc # "closed" /\ UNCHANGED <<current, sent, wire, served>>
      BY <1>7, <1>a DEF ParseBad, SweepIdle, LoopInv
    <2> DEFINE x == Response(served + 1, status, TRUE)
    <2>3. x \in Responses /\ x.req = served + 1 /\ queued' = Append(queued, x)
      <3>1. x \in Responses /\ x.req = served + 1
        BY <1>b DEF Response, Responses
      <3>2. QED
        BY <2>1, <3>1
    <2> HIDE DEF x
    <2>4. QED
      BY <1>a, <2>2, <2>3, AppendKeepsOrder
  <1>8. CASE ParseDraining \/ ParseRequest
    <2>1. PICK status \in {"drain", "ok"}, last \in BOOLEAN :
             queued' = Append(queued, Response(served + 1, status, last))
      BY <1>8 DEF ParseDraining, ParseRequest, ShouldClose
    <2>2. ~closing /\ pc # "closed" /\ UNCHANGED <<current, sent, wire>> /\ served' = served + 1
      BY <1>8, <1>a DEF ParseDraining, ParseRequest, LoopInv
    <2> DEFINE x == Response(served + 1, status, last)
    <2>3. x \in Responses /\ x.req = served + 1 /\ queued' = Append(queued, x)
      <3>1. x \in Responses /\ x.req = served + 1
        BY <1>b DEF Response, Responses
      <3>2. QED
        BY <2>1, <3>1
    <2> HIDE DEF x
    <2>4. QED
      BY <1>a, <2>2, <2>3, AppendKeepsOrder
  <1>9. CASE SendInterim
    <2>1. [req |-> Head(raw), part |-> 0] \in Pieces
      BY <1>9, <1>a, TailFacts DEF SendInterim, TypeOK, Pieces
    <2>2. Finals' = Finals /\ FinalsInOrder'
      BY <1>9, <1>a, <2>1, WireAppend DEF SendInterim, OrderInv
    <2>3. \A done \in 0 .. (MaxRequests + 1) : Progress(done) => Progress(done)'
      BY <1>9, <2>2 DEF SendInterim, Progress
    <2>4. QED
      BY <1>9, <1>a, <2>2, <2>3 DEF SendInterim, OrderInv
  <1>10. CASE PickResponse
    <2>1. PICK done \in 0 .. (MaxRequests + 1) : Progress(done)
      BY <1>10, <1>a DEF PickResponse, OrderInv
    <2>2. /\ queued \in Seq(Responses) /\ queued # << >> /\ current = None
          /\ current' = Head(queued) /\ queued' = Tail(queued) /\ sent' = 0
          /\ UNCHANGED <<wire, served, closing>>
      BY <1>10, <1>a DEF PickResponse, TypeOK
    <2>3. /\ current' = queued[1] /\ current' \in Responses /\ 1 \in DOMAIN queued
          /\ Len(queued) \in Nat /\ Len(queued') = Len(queued) - 1
          /\ \A i \in DOMAIN queued' : i + 1 \in DOMAIN queued /\ queued'[i] = queued[i + 1]
                                       /\ i \in Nat
          /\ Len(queued) # 0
      <3>1. Len(queued) # 0
        BY <2>2, EmptyFacts
      <3>2. DOMAIN queued' \subseteq Nat
        BY <2>2, TailFacts
      <3>3. QED
        BY <2>2, <3>1, <3>2, TailFacts
    <2>4. Finals' = Finals /\ FinalsInOrder'
      BY <1>a, <2>2 DEF Finals, FinalsInOrder, OrderInv
    <2>5. done + 1 \in 0 .. (MaxRequests + 1)
      BY <1>b, <2>1, <2>3 DEF Progress
    <2>6. current' # None
      BY <2>3, ResponsesNotNone
    <2>7. \A i \in DOMAIN queued' : queued'[i].req = done + 1 + i
      BY <2>1, <2>3 DEF Progress
    <2>8. current'.req = done + 1
      BY <2>1, <2>3 DEF Progress
    <2>9. Cardinality(Finals') = (done + 1 - 1) * Chunks + sent'
      BY <2>1, <2>2, <2>4, OneMoreResponse DEF Progress
    <2>10. done + 1 + Len(queued') = done + Len(queued)
      BY <2>3
    <2>11. Progress(done + 1)'
      BY <2>1, <2>2, <2>6, <2>7, <2>8, <2>9, <2>10 DEF Progress
    <2>12. QED
      BY <2>4, <2>5, <2>11 DEF OrderInv
  <1>11. CASE SendChunk
    <2>1. PICK done \in 0 .. (MaxRequests + 1) : Progress(done)
      BY <1>11, <1>a DEF SendChunk, OrderInv
    <2> DEFINE u == [req |-> current.req, part |-> sent + 1]
    <2>2. /\ current # None /\ wire' = Append(wire, u) /\ sent' = sent + 1 /\ sent \in Nat
          /\ UNCHANGED <<queued, current, served, closing>>
      BY <1>11, <1>a DEF SendChunk, TypeOK
    <2>3. u \in Pieces /\ u.part > 0 /\ u.part = sent + 1 /\ u.req = done
      BY <1>11, <1>a, <2>1, <2>2, ResponsesNotNone DEF SendChunk, Pieces, TypeOK, Progress
    <2> HIDE DEF u
    <2>4. (u.req - 1) * Chunks + u.part = Cardinality(Finals) + 1
      <3>1. Cardinality(Finals) = (done - 1) * Chunks + sent
        BY <2>1, <2>2 DEF Progress
      <3>2. (done - 1) * Chunks \in Int
        OBVIOUS
      <3>3. QED
        BY <2>2, <2>3, <3>1, <3>2
    <2>5. FinalsInOrder' /\ Cardinality(Finals') = Cardinality(Finals) + 1
      BY <1>a, <2>2, <2>3, <2>4, WireAppend DEF OrderInv
    <2>6. Cardinality(Finals') = (done - 1) * Chunks + sent'
      <3>1. Cardinality(Finals) = (done - 1) * Chunks + sent
        BY <2>1, <2>2 DEF Progress
      <3>2. (done - 1) * Chunks \in Int
        OBVIOUS
      <3>3. QED
        BY <2>2, <2>5, <3>1, <3>2
    <2>7. Progress(done)'
      BY <2>1, <2>2, <2>6 DEF Progress
    <2>8. QED
      BY <2>5, <2>7 DEF OrderInv
  <1>12. CASE SendBlocks \/ WriteEnds \/ ParseEndless
    BY <1>1, <1>12 DEF SendBlocks, WriteEnds, ParseEndless
  <1>13. CASE Finalize
    <2>1. PICK done \in 0 .. (MaxRequests + 1) : Progress(done)
      BY <1>13, <1>a DEF Finalize, OrderInv
    <2>2. wire' = wire /\ served' = served /\ closing' = closing /\ sent = Chunks /\ current # None
      BY <1>13 DEF Finalize
    <2>3. CASE Close
      BY <1>2, <2>2, <2>3
    <2>4. CASE current' = None /\ queued' = queued
      <3>1. Finals' = Finals /\ FinalsInOrder'
        BY <1>a, <2>2 DEF Finals, FinalsInOrder, OrderInv
      <3>2. Cardinality(Finals) = (done - 1) * Chunks + Chunks
        BY <2>1, <2>2 DEF Progress
      <3>3. Cardinality(Finals) = done * Chunks
        BY <3>2, OneMoreResponse
      <3>4. Progress(done)'
        BY <2>1, <2>2, <2>4, <3>1, <3>3 DEF Progress
      <3>5. QED
        BY <3>1, <3>4 DEF OrderInv
    <2>5. QED
      BY <1>13, <2>3, <2>4 DEF Finalize
  <1>14. CASE UNCHANGED vars
    BY <1>1, <1>14 DEF vars
  <1>15. QED
    BY <1>3, <1>4, <1>5, <1>6, <1>7, <1>8, <1>9, <1>10, <1>11, <1>12, <1>13, <1>14
    DEF Next, Read, Parse, Write

-----------------------------------------------------------------------------
\* A 100 Continue precedes its response, and is not repeated.
LEMMA InterimStep == IInv /\ [Next]_vars => InterimInv'
  <1> SUFFICES ASSUME IInv, [Next]_vars PROVE InterimInv'
    OBVIOUS
  <1>a. TypeOK /\ LoopInv /\ OrderInv /\ InterimInv /\ HeadInv /\ served \in Nat
    BY DEF IInv, TypeOK
  <1>b. /\ \A i \in DOMAIN wire : wire[i].req \in Nat
        /\ \A k \in DOMAIN raw : raw[k] \in Nat
    <2>1. /\ \A i \in DOMAIN wire : wire[i] \in Pieces
          /\ \A k \in DOMAIN raw : raw[k] \in Requests
      BY <1>a, EmptyFacts DEF TypeOK
    <2>2. QED
      BY <2>1 DEF Pieces
  <1> USE DEF inVars, outVars, loopVars, envVars
  <1>1. ASSUME UNCHANGED <<raw, wire>>, served' \in Nat,
               \/ served' = served /\ (closing => closing')
                                   /\ (contSent /\ ~closing' => contSent')
               \/ served' = served + 1
        PROVE  InterimInv'
    <2>1. CASE served' = served /\ (closing => closing') /\ (contSent /\ ~closing' => contSent')
      BY <1>1, <1>a, <2>1 DEF InterimInv, InterimFirst
    <2>2. CASE served' = served + 1
      BY <1>1, <1>a, <1>b, <2>2 DEF InterimInv, InterimFirst
    <2>3. QED
      BY <1>1, <2>1, <2>2
  <1>2. CASE StartDrain \/ ClientStalls \/ SelectRead \/ SelectWrite
    BY <1>1, <1>2, <1>a DEF StartDrain, ClientStalls, SelectRead, SelectWrite
  <1>3. CASE Read
    BY <1>1, <1>3, <1>a DEF Read, Receive, ReceiveBlocks, ReceiveEof, ReceiveFails, Close
  <1>4. CASE ParseBad
    BY <1>1, <1>4, <1>a DEF ParseBad
  <1>5. CASE ParseDraining \/ ParseRequest
    <2>1. UNCHANGED <<raw, wire>> /\ served' = served + 1
      BY <1>5 DEF ParseDraining, ParseRequest
    <2>2. QED
      BY <1>1, <1>a, <2>1
  <1>6. CASE ParseIncomplete
    <2>1. CASE raw' = raw /\ (contSent => contSent')
      BY <1>1, <1>6, <1>a, <2>1 DEF ParseIncomplete
    <2>2. CASE half /\ ~contSent /\ contSent' /\ raw' = Append(raw, got + 1)
      <3>1. ~closing /\ served = got /\ UNCHANGED <<served, wire, closing>>
        BY <1>6, <1>a DEF ParseIncomplete, LoopInv
      <3>2. got + 1 \in Requests
        BY <1>a, <2>2 DEF HeadInv, TypeOK
      <3>3. /\ DOMAIN raw' = DOMAIN raw \cup {Len(raw) + 1}
            /\ \A k \in DOMAIN raw : raw'[k] = raw[k] /\ k < Len(raw) + 1
            /\ raw'[Len(raw) + 1] = served + 1
            /\ DOMAIN raw \subseteq Nat /\ Len(raw) \in Nat
        BY <1>a, <2>2, <3>1, <3>2, AppendFacts DEF TypeOK
      <3>4. /\ \A i \in DOMAIN wire : wire[i].req <= served
            /\ \A k \in DOMAIN raw : raw[k] <= served
        BY <1>a, <2>2, <3>1 DEF InterimInv
      <3>5. \A k, l \in DOMAIN raw' : k < l => raw'[k] # raw'[l]
        <4> SUFFICES ASSUME NEW k \in DOMAIN raw', NEW l \in DOMAIN raw', k < l
                     PROVE  raw'[k] # raw'[l]
          OBVIOUS
        <4>1. k \in DOMAIN raw
          BY <3>3
        <4>2. CASE l \in DOMAIN raw
          BY <1>a, <3>3, <4>1, <4>2 DEF InterimInv
        <4>3. CASE l = Len(raw) + 1
          BY <1>a, <1>b, <3>3, <3>4, <4>1, <4>3
        <4>4. QED
          BY <3>3, <4>2, <4>3
      <3>6. \A k \in DOMAIN raw', i \in DOMAIN wire : raw'[k] # wire[i].req
        <4> SUFFICES ASSUME NEW k \in DOMAIN raw', NEW i \in DOMAIN wire
                     PROVE  raw'[k] # wire[i].req
          OBVIOUS
        <4>1. CASE k \in DOMAIN raw
          BY <1>a, <3>3, <4>1 DEF InterimInv
        <4>2. CASE k = Len(raw) + 1
          BY <1>a, <1>b, <3>3, <3>4, <4>2
        <4>3. QED
          BY <3>3, <4>1, <4>2
      <3>7. \A k \in DOMAIN raw' : raw'[k] <= served + 1
        BY <1>a, <3>3 DEF InterimInv
      <3>8. InterimFirst'
        BY <1>a, <3>1 DEF InterimInv, InterimFirst
      <3>9. QED
        BY <1>a, <2>2, <3>1, <3>5, <3>6, <3>7, <3>8 DEF InterimInv
    <2>3. CASE half /\ kind[got + 1] = "expect" /\ ~contSent
      BY <1>6, <2>2, <2>3 DEF ParseIncomplete
    <2>4. CASE ~(half /\ kind[got + 1] = "expect" /\ ~contSent)
      BY <1>6, <2>1, <2>4 DEF ParseIncomplete
    <2>5. QED
      BY <2>3, <2>4
  <1>7. CASE UpdateInterest
    BY <1>1, <1>7, <1>a DEF UpdateInterest
  <1>8. CASE SendInterim
    <2> DEFINE n == Len(wire) + 1
    <2>1. /\ raw # << >> /\ raw \in Seq(Requests) /\ raw' = Tail(raw)
          /\ wire' = Append(wire, [req |-> Head(raw), part |-> 0])
          /\ UNCHANGED <<served, closing, contSent>>
      BY <1>8, <1>a DEF SendInterim, TypeOK
    <2>2. /\ 1 \in DOMAIN raw /\ Head(raw) = raw[1] /\ raw[1] \in Requests
          /\ \A k \in DOMAIN raw' : k + 1 \in DOMAIN raw /\ raw'[k] = raw[k + 1] /\ 1 < k + 1
      <3>1. DOMAIN raw' \subseteq Nat \ {0}
        BY <2>1, TailFacts
      <3>2. QED
        BY <2>1, <3>1, TailFacts
    <2>3. [req |-> Head(raw), part |-> 0] \in Pieces
      BY <2>2 DEF Pieces
    <2>4. /\ DOMAIN wire' = DOMAIN wire \cup {n} /\ n \in Nat
          /\ \A i \in DOMAIN wire : wire'[i] = wire[i] /\ i < n /\ i \in Nat
          /\ wire'[n].req = raw[1] /\ wire'[n].part = 0
      BY <1>a, <2>1, <2>2, <2>3, AppendFacts DEF TypeOK
    <2> HIDE DEF n
    <2>5. \A k \in DOMAIN raw' : raw'[k] # raw[1]
      BY <1>a, <2>2 DEF InterimInv
    <2>6. \A k \in DOMAIN raw', i \in DOMAIN wire' : raw'[k] # wire'[i].req
      BY <1>a, <2>2, <2>4, <2>5 DEF InterimInv
    <2>7. \A k, l \in DOMAIN raw' : k < l => raw'[k] # raw'[l]
      <3> SUFFICES ASSUME NEW k \in DOMAIN raw', NEW l \in DOMAIN raw', k < l
                   PROVE  raw'[k] # raw'[l]
        OBVIOUS
      <3>1. k \in Nat /\ l \in Nat /\ k + 1 < l + 1
        BY <2>1, TailFacts
      <3>2. QED
        BY <1>a, <2>2, <3>1 DEF InterimInv
    <2>8. InterimFirst'
      <3> SUFFICES ASSUME NEW i \in DOMAIN wire', NEW j \in DOMAIN wire',
                          i < j, wire'[i].req = wire'[j].req
                   PROVE  wire'[j].part > 0
        BY DEF InterimFirst
      <3>1. i \in DOMAIN wire
        BY <2>4
      <3>2. j \in DOMAIN wire
        BY <1>a, <2>2, <2>4, <3>1 DEF InterimInv
      <3>3. QED
        BY <1>a, <2>4, <3>1, <3>2 DEF InterimInv, InterimFirst
    <2>9. /\ \A i \in DOMAIN wire' : wire'[i].req <= served + 1
          /\ \A k \in DOMAIN raw' : raw'[k] <= served + 1
      BY <1>a, <2>2, <2>4 DEF InterimInv
    <2>10. ~closing /\ ~contSent => /\ \A i \in DOMAIN wire' : wire'[i].req <= served
                                    /\ \A k \in DOMAIN raw' : raw'[k] <= served
      BY <1>a, <2>2, <2>4 DEF InterimInv
    <2>11. QED
      BY <2>1, <2>6, <2>7, <2>8, <2>9, <2>10 DEF InterimInv
  <1>9. CASE SendChunk
    <2> DEFINE n == Len(wire) + 1
    <2>1. PICK done \in 0 .. (MaxRequests + 1) : Progress(done)
      BY <1>9, <1>a DEF SendChunk, OrderInv
    <2>2. /\ raw = << >> /\ raw' = raw /\ current # None /\ current \in Responses
          /\ sent \in Nat /\ wire' = Append(wire, [req |-> current.req, part |-> sent + 1])
          /\ [req |-> current.req, part |-> sent + 1] \in Pieces
          /\ UNCHANGED <<served, closing, contSent>>
      BY <1>9, <1>a, ResponsesNotNone DEF SendChunk, TypeOK, Pieces
    <2>3. /\ DOMAIN wire' = DOMAIN wire \cup {n} /\ n \in Nat
          /\ \A i \in DOMAIN wire : wire'[i] = wire[i] /\ i < n /\ i \in Nat
          /\ wire'[n].req = current.req /\ wire'[n].part = sent + 1
      BY <1>a, <2>2, AppendFacts DEF TypeOK
    <2> HIDE DEF n
    <2>4. Len(queued) \in Nat
      BY <1>a, EmptyFacts DEF TypeOK
    <2>5. current.req <= served + 1 /\ (~closing => current.req <= served)
      BY <1>a, <2>1, <2>2, <2>4 DEF Progress
    <2>6. InterimFirst'
      <3> SUFFICES ASSUME NEW i \in DOMAIN wire', NEW j \in DOMAIN wire',
                          i < j, wire'[i].req = wire'[j].req
                   PROVE  wire'[j].part > 0
        BY DEF InterimFirst
      <3>1. i \in DOMAIN wire
        BY <2>3
      <3>2. CASE j \in DOMAIN wire
        BY <1>a, <2>3, <3>1, <3>2 DEF InterimInv, InterimFirst
      <3>3. CASE j = n
        BY <2>2, <2>3, <3>3
      <3>4. QED
        BY <2>3, <3>2, <3>3
    <2>7. QED
      BY <1>a, <2>2, <2>3, <2>5, <2>6 DEF InterimInv
  <1>10. CASE \/ ParseEndless \/ PickResponse \/ SendBlocks \/ WriteEnds
              \/ SendFails \/ LoopExits \/ SweepIdle
    BY <1>1, <1>10, <1>a
    DEF ParseEndless, PickResponse, SendBlocks, WriteEnds, SendFails, LoopExits, SweepIdle
  <1>11. CASE Finalize
    BY <1>1, <1>11, <1>a DEF Finalize
  <1>12. CASE UNCHANGED vars
    BY <1>1, <1>12, <1>a DEF vars
  <1>13. QED
    BY <1>2, <1>3, <1>4, <1>5, <1>6, <1>7, <1>8, <1>9, <1>10, <1>11, <1>12
    DEF Next, Parse, Write

-----------------------------------------------------------------------------
\* Queueing a response counts it exactly if the request was counted in.
LEMMA AppendCounts ==
    ASSUME TypeOK, InflightExact, open, open' = open,
           NEW x \in Responses, queued' = Append(queued, x), current' = current,
           inflight' = inflight + (IF x.counted THEN 1 ELSE 0)
    PROVE  InflightExact'
  <1> DEFINE n == Len(queued) + 1
  <1>1. /\ DOMAIN queued' = DOMAIN queued \cup {n} /\ n \notin DOMAIN queued
        /\ \A i \in DOMAIN queued : queued'[i] = queued[i]
        /\ queued'[n] = x
    BY AppendFacts DEF TypeOK
  <1> HIDE DEF n
  <1>2. CountedQueued \subseteq DOMAIN queued
    BY DEF CountedQueued
  <1>3. IsFiniteSet(CountedQueued) /\ Cardinality(CountedQueued) \in Nat
    BY <1>2, PositionsFinite DEF TypeOK
  <1>4. CASE x.counted
    <2>1. CountedQueued' = CountedQueued \cup {n} /\ n \notin CountedQueued
      BY <1>1, <1>2, <1>4 DEF CountedQueued
    <2>2. Cardinality(CountedQueued') = Cardinality(CountedQueued) + 1
      BY <1>3, <2>1, FS_AddElement
    <2>3. QED
      BY <1>3, <1>4, <2>2 DEF InflightExact
  <1>5. CASE ~x.counted
    <2>1. CountedQueued' = CountedQueued
      BY <1>1, <1>5 DEF CountedQueued
    <2>2. QED
      BY <1>5, <2>1 DEF InflightExact, TypeOK
  <1>6. QED
    BY <1>4, <1>5

\* Every step keeps the gauge equal to the responses counted and not yet finished.
LEMMA InflightStep == TypeOK /\ OpenInv /\ InflightExact /\ [Next]_vars => InflightExact'
  <1> SUFFICES ASSUME TypeOK, OpenInv, InflightExact, [Next]_vars PROVE InflightExact'
    OBVIOUS
  <1>a. served + 1 \in 1 .. (MaxRequests + 1) /\ inflight \in Nat
    BY DEF TypeOK
  <1> USE DEF inVars, outVars, loopVars, envVars
  <1>1. ASSUME UNCHANGED <<queued, current, inflight, open>> PROVE InflightExact'
    BY <1>1 DEF InflightExact, CountedQueued
  <1>2. ASSUME Close PROVE InflightExact'
    BY <1>2 DEF Close, InflightExact
  <1>3. CASE StartDrain \/ ClientStalls \/ SelectRead \/ SelectWrite
    BY <1>1, <1>3 DEF StartDrain, ClientStalls, SelectRead, SelectWrite
  <1>4. CASE Receive \/ ReceiveBlocks \/ ReceiveEof \/ ParseIncomplete
    BY <1>1, <1>4 DEF Receive, ReceiveBlocks, ReceiveEof, ParseIncomplete
  <1>5. CASE ReceiveFails \/ SendFails \/ LoopExits
    BY <1>2, <1>5 DEF ReceiveFails, SendFails, LoopExits
  <1>6. CASE UpdateInterest
    BY <1>1, <1>2, <1>6 DEF UpdateInterest
  <1>7. CASE ParseBad \/ ParseDraining \/ SweepIdle
    <2>1. PICK status \in {"error", "drain", "timeout"} :
             queued' = Append(queued, Response(served + 1, status, TRUE))
      BY <1>7 DEF ParseBad, ParseEndless, ParseDraining, SweepIdle
    <2>2. open /\ open' = open /\ current' = current /\ inflight' = inflight
      BY <1>7 DEF ParseBad, ParseEndless, ParseDraining, SweepIdle, OpenInv
    <2> DEFINE x == Response(served + 1, status, TRUE)
    <2>3. x \in Responses /\ ~x.counted
      BY <1>a, ResponseFacts
    <2> HIDE DEF x
    <2>4. inflight' = inflight + (IF x.counted THEN 1 ELSE 0)
      BY <1>a, <2>2, <2>3
    <2>5. QED
      BY <2>1, <2>2, <2>3, <2>4, AppendCounts DEF x
  <1>8. CASE ParseRequest
    <2> DEFINE x == Response(served + 1, "ok", ShouldClose(served + 1))
    <2>1. queued' = Append(queued, x) /\ current' = current /\ open' = open /\ open
          /\ inflight' = inflight + 1
      BY <1>8 DEF ParseRequest, OpenInv
    <2>2. x \in Responses /\ x.counted
      BY <1>a, ResponseFacts DEF ShouldClose
    <2> HIDE DEF x
    <2>3. inflight' = inflight + (IF x.counted THEN 1 ELSE 0)
      BY <2>1, <2>2
    <2>4. QED
      BY <2>1, <2>2, <2>3, AppendCounts
  <1>9. CASE ParseEndless \/ SendInterim \/ SendChunk \/ SendBlocks \/ WriteEnds
    BY <1>1, <1>9 DEF ParseEndless, SendInterim, SendChunk, SendBlocks, WriteEnds
  <1>10. CASE PickResponse
    <2>1. /\ queued \in Seq(Responses) /\ queued # << >> /\ current = None
          /\ current' = Head(queued) /\ queued' = Tail(queued)
          /\ UNCHANGED <<inflight, open>>
      BY <1>10 DEF PickResponse, TypeOK
    <2>2. /\ current' = queued[1] /\ current' \in Responses /\ 1 \in DOMAIN queued
          /\ \A i \in DOMAIN queued' : i + 1 \in DOMAIN queued /\ queued'[i] = queued[i + 1]
          /\ \A i \in DOMAIN queued :
                i # 1 => i - 1 \in DOMAIN queued' /\ queued'[i - 1] = queued[i]
      BY <2>1, TailFacts
    <2>3. DOMAIN queued' \subseteq Nat \ {0} /\ DOMAIN queued \subseteq Nat \ {0}
      BY <2>1, TailFacts
    <2>4. current' # None
      BY <2>2, ResponsesNotNone
    <2>5. CountedQueued \subseteq DOMAIN queued
      BY DEF CountedQueued
    <2>6. IsFiniteSet(CountedQueued) /\ Cardinality(CountedQueued) \in Nat
      BY <2>1, <2>5, PositionsFinite
    <2> DEFINE Rest == CountedQueued \ {1}
    <2>7. CountedQueued' = {i - 1 : i \in Rest}
      <3>1. \A k \in CountedQueued' : k + 1 \in Rest /\ k = (k + 1) - 1
        BY <2>2, <2>3 DEF CountedQueued
      <3>2. \A i \in Rest : i - 1 \in CountedQueued'
        BY <2>2, <2>3 DEF CountedQueued
      <3>3. QED
        BY <3>1, <3>2
    <2>8. Rest \subseteq Int
      BY <2>3, <2>5
    <2>9. IsFiniteSet(Rest)
          /\ Cardinality(Rest) = IF 1 \in CountedQueued THEN Cardinality(CountedQueued) - 1
                                                        ELSE Cardinality(CountedQueued)
      BY <2>6, FS_RemoveElement
    <2> HIDE DEF Rest
    <2>10. Cardinality(CountedQueued') = Cardinality(Rest)
      BY <2>7, <2>8, <2>9, ShiftKeepsCount
    <2>11. 1 \in CountedQueued <=> current'.counted
      BY <2>2 DEF CountedQueued
    <2>12. open => inflight = Cardinality(CountedQueued) + 0
      BY <2>1, <2>6 DEF InflightExact
    <2>13. open' => inflight' = Cardinality(CountedQueued')
                                   + (IF current'.counted THEN 1 ELSE 0)
      BY <2>1, <2>6, <2>9, <2>10, <2>11, <2>12
    <2>14. QED
      BY <2>4, <2>13 DEF InflightExact
  <1>11. CASE Finalize
    <2>1. CASE Close
      BY <1>2, <2>1
    <2>2. CASE current' = None /\ UNCHANGED <<open, queued>>
      <3>1. CountedQueued' = CountedQueued
        BY <2>2 DEF CountedQueued
      <3>2. CountedQueued \subseteq DOMAIN queued
        BY DEF CountedQueued
      <3>3. Cardinality(CountedQueued) \in Nat
        BY <3>2, PositionsFinite DEF TypeOK
      <3>4. current # None
            /\ inflight' = IF current.counted /\ inflight > 0 THEN inflight - 1 ELSE inflight
        BY <1>11 DEF Finalize
      <3>5. CASE current.counted
        BY <1>a, <2>2, <3>1, <3>3, <3>4, <3>5 DEF InflightExact
      <3>6. CASE ~current.counted
        BY <1>a, <2>2, <3>1, <3>3, <3>4, <3>6 DEF InflightExact
      <3>7. QED
        BY <3>5, <3>6
    <2>3. QED
      BY <1>11, <2>1, <2>2 DEF Finalize
  <1>12. CASE UNCHANGED vars
    BY <1>1, <1>12 DEF vars
  <1>13. QED
    BY <1>3, <1>4, <1>5, <1>6, <1>7, <1>8, <1>9, <1>10, <1>11, <1>12
    DEF Next, Read, Parse, Write

-----------------------------------------------------------------------------
\* The invariant is inductive.
LEMMA StepIInv == IInv /\ [Next]_vars => IInv'
  BY TypeStep, LoopStep, LastStep, OrderStep, InterimStep, InflightStep DEF IInv

\* IInv is an invariant of the connection.
THEOREM Invariance == Spec => []IInv
  BY InitIInv, StepIInv, PTL DEF Spec

\* The connection's variables keep their types, whatever is pipelined.
THEOREM TypeCorrect == Spec => []TypeOK
  <1>1. IInv => TypeOK
    BY DEF IInv
  <1>2. QED
    BY <1>1, Invariance, PTL

\* Pipelined responses leave in the order of their requests, each whole and once,
\* whatever mixture of parser, drain and idle sweep queued them.
THEOREM PipelinedInOrder == Spec => []FinalsInOrder
  <1>1. IInv => FinalsInOrder
    BY DEF IInv, OrderInv
  <1>2. QED
    BY <1>1, Invariance, PTL

\* At most one 100 Continue per request, never after its response began.
THEOREM OneInterimEach == Spec => []InterimFirst
  <1>1. IInv => InterimFirst
    BY DEF IInv, InterimInv
  <1>2. QED
    BY <1>1, Invariance, PTL

\* Nothing is queued behind a response after which the connection is closed (close_after).
THEOREM LastIsLast == Spec => []NothingAfterLast
  <1>1. IInv => NothingAfterLast
    BY DEF IInv, LastInv
  <1>2. QED
    BY <1>1, Invariance, PTL

\* inflight_requests is exact while the connection is open, so that the test for a
\* positive count in request_finished() never hides a miscount.
THEOREM InflightCounted == Spec => []InflightExact
  <1>1. IInv => InflightExact
    BY DEF IInv
  <1>2. QED
    BY <1>1, Invariance, PTL

\* Whenever the loop sleeps, the socket is registered for writing exactly if there is
\* something to write.
THEOREM NeverDeaf == Spec => []WriteRegistered
  <1>1. IInv => WriteRegistered
    BY DEF IInv, LoopInv, WriteRegistered
  <1>2. QED
    BY <1>1, Invariance, PTL

-----------------------------------------------------------------------------
(* The handlers end                                                        *)

\* Pieces still to be written, with the steps between two responses.
Writing ==
    Len(raw) + (IF current = None THEN 0 ELSE Chunks - sent + 1) + (Chunks + 2) * Len(queued)

\* How many steps the handlers may take at most before the loop is back in select, where it
\* looks after its other connections: each parsed request adds one response to be written.
RoundLeft ==
    IF pc = "read" THEN 6 + Writing + (Chunks + 3) * (MaxRequests - served)
    ELSE IF pc = "parse" THEN 5 + Writing + (Chunks + 3) * (got - served)
    ELSE IF pc = "write" THEN 2 + Writing
    ELSE IF pc # "interest" THEN 0
    ELSE IF writeDue THEN 3 + Writing ELSE 1

Handling == Read \/ Parse \/ UpdateInterest \/ Write

\* The write handler is still to come only in the round that select has begun with a read.
DueInv == writeDue => pc \in {"read", "parse", "interest", "closed", "looping"}

\* What the loop is caught in is a body with a chunk size that leads back.
CaughtInv == pc = "looping" => served < got /\ kind[served + 1] = "endless"

\* Nothing else keeps the event loop in the handlers of one connection.
RoundInv == DueInv /\ CaughtInv /\ RoundLeft \in Nat
RoundShortens == [][Handling => RoundLeft' < RoundLeft]_vars

\* A product with one factor more, and one with a greater factor.
LEMMA Products ==
    ASSUME NEW k \in Nat, NEW n \in Nat
    PROVE  /\ k * n \in Nat /\ k * (n + 1) = k * n + k
           /\ \A m \in Nat : n <= m => k * n <= k * m
  <1>1. k * n \in Nat /\ k * (n + 1) = k * n + k
    OBVIOUS
  <1>2. ASSUME NEW m \in Nat, n <= m PROVE k * n <= k * m
    <2> DEFINE d == m - n
    <2>1. d \in Nat /\ m = n + d
      BY <1>2
    <2> HIDE DEF d
    <2>2. k * (n + d) = k * n + k * d /\ k * d \in Nat /\ k * n \in Nat
      BY <2>1
    <2>3. QED
      BY <2>1, <2>2
  <1>3. QED
    BY <1>1, <1>2

\* What the measure is made of.
Measured ==
    /\ Len(raw) \in Nat /\ Len(queued) \in Nat /\ Chunks \in Nat /\ sent \in 0 .. Chunks
    /\ (Chunks + 2) * Len(queued) \in Nat /\ Writing \in Nat
    /\ got - served \in Nat /\ MaxRequests - served \in Nat
    /\ (Chunks + 3) * (got - served) \in Nat
    /\ (Chunks + 3) * (got - served) <= (Chunks + 3) * (MaxRequests - served)
    /\ (Chunks + 3) * (MaxRequests - served) \in Nat
    /\ RoundLeft \in Nat

LEMMA RoundFacts == TypeOK => Measured
  <1> SUFFICES ASSUME TypeOK PROVE Measured
    OBVIOUS
  <1>1. /\ Len(raw) \in Nat /\ Len(queued) \in Nat /\ Chunks \in Nat /\ sent \in 0 .. Chunks
        /\ got - served \in Nat /\ MaxRequests - served \in Nat
        /\ got - served <= MaxRequests - served
    BY DEF TypeOK
  <1> DEFINE a == (Chunks + 2) * Len(queued)
             b == (Chunks + 3) * (got - served)
             c == (Chunks + 3) * (MaxRequests - served)
  <1>2. Chunks + 2 \in Nat /\ Chunks + 3 \in Nat
    BY <1>1
  <1>3. a \in Nat /\ b \in Nat /\ c \in Nat /\ b <= c
    BY <1>1, <1>2, Products
  <1> HIDE DEF a, b, c
  <1>4. Writing = Len(raw) + (IF current = None THEN 0 ELSE Chunks - sent + 1) + a
    BY DEF Writing, a
  <1>5. Writing \in Nat
    BY <1>1, <1>3, <1>4
  <1>6. RoundLeft = IF pc = "read" THEN 6 + Writing + c
                    ELSE IF pc = "parse" THEN 5 + Writing + b
                    ELSE IF pc = "write" THEN 2 + Writing
                    ELSE IF pc # "interest" THEN 0
                    ELSE IF writeDue THEN 3 + Writing ELSE 1
    BY DEF RoundLeft, b, c
  <1>7. RoundLeft \in Nat
    BY <1>3, <1>5, <1>6
  <1>8. QED
    BY <1>1, <1>3, <1>5, <1>7 DEF a, b, c, Measured

LEMMA DueStep == TypeOK /\ DueInv /\ [Next]_vars => DueInv'
  <1> SUFFICES ASSUME TypeOK, DueInv, [Next]_vars PROVE DueInv'
    OBVIOUS
  <1> USE DEF DueInv, inVars, outVars, loopVars, envVars
  <1>1. CASE StartDrain \/ ClientStalls \/ SelectRead \/ SelectWrite \/ UNCHANGED vars
    BY <1>1 DEF StartDrain, ClientStalls, SelectRead, SelectWrite, vars
  <1>2. CASE Read \/ Parse
    BY <1>2 DEF Read, Receive, ReceiveBlocks, ReceiveEof, ReceiveFails, Close, Parse, ParseBad,
       ParseEndless, ParseDraining, ParseRequest, ParseIncomplete
  <1>3. CASE UpdateInterest
    BY <1>3 DEF UpdateInterest
  <1>4. CASE Write
    BY <1>4 DEF Write, SendInterim, PickResponse, SendChunk, SendBlocks, SendFails, Finalize,
       WriteEnds, Close
  <1>5. CASE SweepIdle \/ LoopExits
    BY <1>5 DEF SweepIdle, LoopExits, Close
  <1>6. QED
    BY <1>1, <1>2, <1>3, <1>4, <1>5 DEF Next

\* Only ParseEndless is caught, and nothing happens in the loop after it.
LEMMA CaughtStep == TypeOK /\ CaughtInv /\ [Next]_vars => CaughtInv'
  <1> SUFFICES ASSUME TypeOK, CaughtInv, [Next]_vars, pc' = "looping"
               PROVE  served' < got' /\ kind'[served' + 1] = "endless"
    BY DEF CaughtInv
  <1> USE DEF inVars, outVars, loopVars, envVars
  <1>1. CASE StartDrain \/ ClientStalls \/ UNCHANGED vars
    BY <1>1 DEF StartDrain, ClientStalls, vars, CaughtInv
  <1>2. CASE ParseEndless
    BY <1>2 DEF ParseEndless
  <1>3. ASSUME ~ParseEndless, ~StartDrain, ~ClientStalls, ~(UNCHANGED vars) PROVE FALSE
    BY <1>3 DEF Next, SelectRead, SelectWrite, Read, Receive, ReceiveBlocks, ReceiveEof,
       ReceiveFails, Close, Parse, ParseBad, ParseDraining, ParseRequest, ParseIncomplete,
       UpdateInterest, Write, SendInterim, PickResponse, SendChunk, SendBlocks, SendFails,
       Finalize, WriteEnds, SweepIdle, LoopExits
  <1>4. QED
    BY <1>1, <1>2, <1>3

\* A handler goes to a later one, or to its next round with less to parse or to write.
LEMMA HandlingShortens == TypeOK /\ TypeOK' /\ DueInv /\ Handling => RoundLeft' < RoundLeft
  <1> SUFFICES ASSUME TypeOK, TypeOK', DueInv, Handling PROVE RoundLeft' < RoundLeft
    OBVIOUS
  <1> DEFINE a == (Chunks + 2) * Len(queued)
             b == (Chunks + 3) * (got - served)
             c == (Chunks + 3) * (MaxRequests - served)
             now == IF current = None THEN 0 ELSE Chunks - sent + 1
             a2 == (Chunks + 2) * Len(queued')
             b2 == (Chunks + 3) * (got' - served')
             c2 == (Chunks + 3) * (MaxRequests - served')
             now2 == IF current' = None THEN 0 ELSE Chunks - sent' + 1
  <1>1. /\ Len(raw) \in Nat /\ Len(queued) \in Nat /\ Chunks \in Nat /\ a \in Nat
        /\ b \in Nat /\ c \in Nat /\ now \in Nat /\ RoundLeft \in Nat
        /\ Writing \in Nat /\ Writing = Len(raw) + now + a
    <2>1. now \in Nat
      BY RoundFacts DEF Measured
    <2>2. QED
      BY <2>1, RoundFacts DEF Writing, Measured
  <1>2. /\ Len(raw') \in Nat /\ Len(queued') \in Nat /\ a2 \in Nat /\ b2 \in Nat /\ b2 <= c2
        /\ Writing' \in Nat /\ Writing' = Len(raw') + now2 + a2
    <2>a. Measured'
      BY RoundFacts, PTL
    <2>1. /\ Len(raw') \in Nat /\ Len(queued') \in Nat /\ a2 \in Nat /\ b2 \in Nat /\ b2 <= c2
          /\ Writing' \in Nat
      BY <2>a DEF Measured
    <2>2. QED
      BY <2>1 DEF Writing
  <1>3. /\ pc = "read" => RoundLeft = 6 + Writing + c
        /\ pc = "parse" => RoundLeft = 5 + Writing + b
        /\ pc = "write" => RoundLeft = 2 + Writing
        /\ pc = "interest" => RoundLeft = IF writeDue THEN 3 + Writing ELSE 1
        /\ pc' = "parse" => RoundLeft' = 5 + Writing' + b2
        /\ pc' = "write" => RoundLeft' = 2 + Writing'
        /\ pc' = "interest" => RoundLeft' = IF writeDue' THEN 3 + Writing' ELSE 1
        /\ pc' \in {"select", "closed"} => RoundLeft' = 0
    BY DEF RoundLeft
  <1>4. ASSUME NEW r, queued' = Append(queued, r) PROVE a2 = a + Chunks + 2
    <2>1. Len(queued') = Len(queued) + 1
      BY <1>4, Len(queued) \in Nat DEF TypeOK
    <2>2. (Chunks + 2) * (Len(queued) + 1) = (Chunks + 2) * Len(queued) + (Chunks + 2)
      BY <1>1, Products
    <2>3. a2 = a + (Chunks + 2)
      BY <2>1, <2>2
    <2> HIDE DEF a, a2
    <2>4. QED
      BY <1>1, <2>3
  <1>5. ASSUME queued # << >>, queued' = Tail(queued) PROVE a2 = a - (Chunks + 2)
    <2>1. Len(queued) = Len(queued') + 1
      BY <1>1, <1>5 DEF TypeOK
    <2>2. (Chunks + 2) * (Len(queued') + 1) = (Chunks + 2) * Len(queued') + (Chunks + 2)
      BY <1>1, <1>2, Products
    <2>3. a = a2 + (Chunks + 2)
      BY <2>1, <2>2
    <2> HIDE DEF a, a2
    <2>4. QED
      BY <1>1, <1>2, <2>3
  <1>6. ASSUME served < got, served' = served + 1, got' = got PROVE b2 = b - (Chunks + 3)
    <2>1. got' - served' \in Nat /\ got - served = (got' - served') + 1
      BY <1>6 DEF TypeOK
    <2>2. (Chunks + 3) * ((got' - served') + 1) = (Chunks + 3) * (got' - served') + (Chunks + 3)
      BY <1>1, <2>1, Products
    <2>3. b = b2 + (Chunks + 3)
      BY <2>1, <2>2
    <2> HIDE DEF b, b2
    <2>4. QED
      BY <1>1, <1>2, <2>3
  <1>7. ASSUME served < got PROVE b >= Chunks + 3
    <2>1. got - served \in Nat /\ 1 <= got - served
      BY <1>7 DEF TypeOK
    <2>2. (Chunks + 3) * 1 <= (Chunks + 3) * (got - served)
      <3>1. Chunks + 3 \in Nat
        BY <1>1
      <3>2. QED
        BY <2>1, <3>1, Products
    <2>3. QED
      BY <1>1, <2>2
  <1>8. ASSUME UNCHANGED queued PROVE a2 = a
    BY <1>8
  <1>9. ASSUME UNCHANGED <<current, sent>> PROVE now2 = now
    BY <1>9
  <1>10. (UNCHANGED <<got, served>> => b2 = b) /\ (UNCHANGED served => c2 = c)
    OBVIOUS
  <1> HIDE DEF a, b, c, a2, b2, c2
  <1>11. CASE Read
    <2> HIDE DEF now, now2
    <2>1. CASE Receive
      <3>1. pc = "read" /\ pc' = "parse" /\ UNCHANGED <<raw, queued, current, sent, served>>
        BY <2>1 DEF Receive, outVars
      <3>2. Writing' = Writing /\ c2 = c
        BY <1>1, <1>2, <1>8, <1>9, <1>10, <3>1
      <3>3. RoundLeft = 6 + Writing + c /\ RoundLeft' = 5 + Writing' + b2
        BY <1>3, <3>1
      <3>4. QED
        BY <1>1, <1>2, <3>2, <3>3
    <2>2. CASE ReceiveBlocks
      <3>1. /\ pc = "read" /\ pc' \in {"write", "select"}
            /\ UNCHANGED <<raw, queued, current, sent>>
        BY <2>2 DEF ReceiveBlocks, outVars
      <3>2. Writing' = Writing
        BY <1>1, <1>2, <1>8, <1>9, <3>1
      <3>3. RoundLeft = 6 + Writing + c /\ RoundLeft' \in {2 + Writing', 0}
        BY <1>3, <3>1
      <3>4. QED
        BY <1>1, <3>2, <3>3
    <2>3. CASE ReceiveEof
      <3>1. pc = "read" /\ pc' = "interest" /\ UNCHANGED <<raw, queued, current, sent>>
        BY <2>3 DEF ReceiveEof, outVars
      <3>2. Writing' = Writing
        BY <1>1, <1>2, <1>8, <1>9, <3>1
      <3>3. RoundLeft = 6 + Writing + c /\ RoundLeft' \in {3 + Writing', 1}
        BY <1>3, <3>1
      <3>4. QED
        BY <1>1, <3>2, <3>3
    <2>4. CASE ReceiveFails
      BY <1>1, <1>3, <2>4 DEF ReceiveFails, Close
    <2>5. QED
      BY <1>11, <2>1, <2>2, <2>3, <2>4 DEF Read
  <1>12. CASE Parse
    <2> HIDE DEF now, now2
    <2>1. CASE ParseBad \/ ParseDraining \/ ParseRequest
      <3>1. /\ pc = "parse" /\ served < got /\ UNCHANGED <<raw, current, sent, got>>
            /\ \E r : queued' = Append(queued, r)
            /\ \/ pc' = "interest"
               \/ pc' = "parse" /\ served' = served + 1
        BY <2>1 DEF ParseBad, ParseDraining, ParseRequest
      <3>2. a2 = a + Chunks + 2
        BY <1>4, <3>1
      <3>3. b >= Chunks + 3 /\ now2 = now
        BY <1>7, <1>9, <3>1
      <3>w. Writing' = Writing + Chunks + 2 /\ RoundLeft = 5 + Writing + b
        BY <1>1, <1>2, <1>3, <3>1, <3>2, <3>3
      <3>4. CASE pc' = "interest"
        <4>1. RoundLeft' \in {3 + Writing', 1}
          BY <1>3, <3>4
        <4>2. QED
          BY <1>1, <3>3, <3>w, <4>1
      <3>5. CASE pc' = "parse" /\ served' = served + 1
        <4>1. b2 = b - (Chunks + 3)
          BY <1>6, <3>1, <3>5
        <4>2. RoundLeft' = 5 + Writing' + b2
          BY <1>3, <3>5
        <4>3. QED
          BY <1>1, <1>2, <3>w, <4>1, <4>2
      <3>6. QED
        BY <3>1, <3>4, <3>5
    <2>2. CASE ParseIncomplete
      <3>1. /\ pc = "parse" /\ pc' = "interest" /\ UNCHANGED <<queued, current, sent>>
            /\ raw' = raw \/ raw' = Append(raw, got + 1)
        BY <2>2 DEF ParseIncomplete
      <3>2. Len(raw') <= Len(raw) + 1
        BY <1>1, <3>1 DEF TypeOK
      <3>3. Writing' <= Writing + 1
        BY <1>1, <1>2, <1>8, <1>9, <3>1, <3>2
      <3>4. RoundLeft = 5 + Writing + b /\ RoundLeft' \in {3 + Writing', 1}
        BY <1>3, <3>1
      <3>5. QED
        BY <1>1, <1>2, <3>3, <3>4
    <2>3. CASE ParseEndless
      <3>1. RoundLeft' = 0 /\ pc = "parse"
        BY <2>3 DEF ParseEndless, RoundLeft
      <3>2. QED
        BY <1>1, <1>3, <3>1
    <2>4. QED
      BY <1>12, <2>1, <2>2, <2>3 DEF Parse
  <1>13. CASE UpdateInterest
    <2>1. CASE Close
      BY <1>1, <1>3, <1>13, <2>1 DEF UpdateInterest, Close
    <2>2. CASE pc' = (IF writeDue THEN "write" ELSE "select") /\ UNCHANGED <<queued, current, sent>>
      <3>1. pc = "interest" /\ raw' = raw
        BY <1>13 DEF UpdateInterest
      <3>2. Writing' = Writing
        BY <1>1, <1>2, <1>8, <1>9, <2>2, <3>1
      <3>3. IF writeDue THEN RoundLeft = 3 + Writing /\ RoundLeft' = 2 + Writing'
            ELSE RoundLeft = 1 /\ RoundLeft' = 0
        BY <1>3, <2>2, <3>1
      <3>4. QED
        BY <1>1, <3>2, <3>3
    <2>3. QED
      BY <1>13, <2>1, <2>2 DEF UpdateInterest
  <1>14. CASE Write
    <2>1. CASE SendInterim
      <3>1. /\ pc = "write" /\ pc' = "write" /\ raw # << >> /\ raw' = Tail(raw)
            /\ UNCHANGED <<queued, current, sent>>
        BY <2>1 DEF SendInterim, loopVars
      <3>2. Len(raw') = Len(raw) - 1
        BY <1>1, <3>1 DEF TypeOK
      <3>3. Writing' = Writing - 1
        BY <1>1, <1>2, <1>8, <1>9, <3>1, <3>2
      <3>4. RoundLeft = 2 + Writing /\ RoundLeft' = 2 + Writing'
        BY <1>3, <3>1
      <3>5. QED
        BY <1>1, <3>3, <3>4
    <2>2. CASE PickResponse
      <3>1. /\ pc = "write" /\ pc' = "write" /\ queued # << >> /\ queued' = Tail(queued)
            /\ current = None /\ sent' = 0 /\ raw' = raw
        BY <2>2 DEF PickResponse, loopVars
      <3>2. now = 0 /\ now2 <= Chunks + 1
        BY <1>1, <3>1
      <3>3. a2 = a - (Chunks + 2)
        BY <1>5, <3>1
      <3>4. now2 \in Nat
        BY <1>1, <3>1
      <3> HIDE DEF now, now2
      <3>5. Writing' <= Writing - 1
        BY <1>1, <1>2, <3>1, <3>2, <3>3, <3>4
      <3>6. RoundLeft = 2 + Writing /\ RoundLeft' = 2 + Writing'
        BY <1>3, <3>1
      <3>7. QED
        BY <1>1, <1>2, <3>5, <3>6
    <2>3. CASE SendChunk
      <3>1. /\ pc = "write" /\ pc' = "write" /\ current # None /\ sent < Chunks
            /\ sent' = sent + 1 /\ UNCHANGED <<raw, queued, current>>
        BY <2>3 DEF SendChunk, loopVars
      <3>2. now2 = now - 1
        BY <1>1, <3>1 DEF TypeOK
      <3> HIDE DEF now, now2
      <3>3. Writing' = Writing - 1
        BY <1>1, <1>2, <1>8, <3>1, <3>2
      <3>4. RoundLeft = 2 + Writing /\ RoundLeft' = 2 + Writing'
        BY <1>3, <3>1
      <3>5. QED
        BY <1>1, <3>3, <3>4
    <2>4. CASE SendBlocks \/ SendFails
      BY <1>1, <1>3, <2>4 DEF SendBlocks, SendFails, Close
    <2>5. CASE Finalize
      <3>1. CASE Close
        BY <1>1, <1>3, <2>5, <3>1 DEF Finalize, Close
      <3>2. CASE /\ current' = None /\ queued' = queued
                 /\ pc' = (IF closing THEN "interest" ELSE "write")
        <4>1. /\ pc = "write" /\ current # None /\ sent = Chunks /\ UNCHANGED <<raw, writeDue>>
          BY <2>5 DEF Finalize
        <4>2. now = 1 /\ now2 = 0 /\ ~writeDue
          BY <1>1, <3>2, <4>1 DEF DueInv
        <4> HIDE DEF now, now2
        <4>3. Writing' = Writing - 1
          BY <1>1, <1>2, <1>8, <3>2, <4>1, <4>2
        <4>4. RoundLeft = 2 + Writing /\ RoundLeft' \in {1, 2 + Writing'}
          BY <1>3, <3>2, <4>1, <4>2
        <4>5. QED
          BY <1>1, <1>2, <4>3, <4>4
      <3>3. QED
        BY <2>5, <3>1, <3>2 DEF Finalize
    <2>6. CASE WriteEnds
      <3>1. pc = "write" /\ pc' = "interest" /\ writeDue' = writeDue /\ ~writeDue
        BY <2>6 DEF WriteEnds, DueInv
      <3>2. QED
        BY <1>1, <1>3, <3>1
    <2>7. QED
      BY <1>14, <2>1, <2>2, <2>3, <2>4, <2>5, <2>6 DEF Write
  <1>15. QED
    BY <1>11, <1>12, <1>13, <1>14 DEF Handling

\* Once select has reported the connection, the read and the write handler come back to the
\* loop after a number of steps that is known beforehand, however much is pipelined, sent or
\* queued: each message is found once, dispatched once and queued once.  The finding and the
\* dispatch of one message are a step each here: a dispatch takes as long as what it calls (a
\* proxy target until its timeout), and the only message that is never found or refused is
\* the one that CaughtInv names, with which the event loop is lost to all its connections.
THEOREM HandlersReturn == Spec => []RoundInv /\ RoundShortens
  <1>1. Init => DueInv /\ CaughtInv
    BY DEF Init, DueInv, CaughtInv
  <1>2. TypeOK /\ DueInv /\ CaughtInv => RoundInv
    BY RoundFacts DEF RoundInv, Measured
  <1>3. TypeOK /\ TypeOK' /\ DueInv /\ [Next]_vars => [Handling => RoundLeft' < RoundLeft]_vars
    BY HandlingShortens
  <1>4. QED
    BY <1>1, <1>2, <1>3, DueStep, CaughtStep, TypeCorrect, PTL DEF Spec, RoundShortens
=============================================================================
