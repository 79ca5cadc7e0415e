--------------------------- MODULE LiveFeedProofs ---------------------------
(***************************************************************************)
(* Theorems about LiveFeed, for every buffer size, limit, set of topics    *)
(* and bound.  The hub first: whatever the clients do, the buffer is the   *)
(* newest window of the published events, and a poll that reports no       *)
(* overflow has every event after its cursor in that window.  Then the     *)
(* client: what its cursor passes it has shown or was told of.             *)
(***************************************************************************)
EXTENDS LiveFeed, SequenceFacts

\* HubWindow says nothing of a full buffer's length; that it never exceeds what was
\* published is what keeps every buffered id in the range of the history.
HubInv ==
    /\ HubTypeOK
    /\ HubWindow
    /\ Len(events) <= nextId - 1

\* What publish() appends, before the deque evicts.
Extended(t) == Append(events, [id |-> nextId, type |-> t])

\* The hub's initial state satisfies the invariant.
LEMMA HubInitInv == HubInit => HubInv
  BY HubAssumption DEF HubInit, HubInv, HubTypeOK, HubWindow

\* Before eviction the longer sequence is a window that ends at the new event.
LEMMA ExtendedWindow ==
    ASSUME HubInv, NEW t \in Topics
    PROVE  /\ Extended(t) \in Seq(Events)
           /\ Len(Extended(t)) = Len(events) + 1
           /\ \A i \in 1 .. Len(events) + 1 :
                 /\ Extended(t)[i].id = nextId - 1 - Len(events) + i
                 /\ Extended(t)[i].id \in 1 .. nextId
                 /\ Extended(t)[i].type = Append(topicOf, t)[Extended(t)[i].id]
<1> USE DEF HubInv, HubTypeOK
<1>1. /\ Extended(t) \in Seq(Events)
      /\ Len(Extended(t)) = Len(events) + 1
  BY DEF Extended, Events
<1>2. ASSUME NEW i \in 1 .. Len(events) + 1
      PROVE  /\ Extended(t)[i].id = nextId - 1 - Len(events) + i
             /\ Extended(t)[i].id \in 1 .. nextId
             /\ Extended(t)[i].type = Append(topicOf, t)[Extended(t)[i].id]
  <2>1. CASE i = Len(events) + 1
    <3>1. Extended(t)[i] = [id |-> nextId, type |-> t]
      BY <2>1 DEF Extended
    <3>2. Append(topicOf, t)[nextId] = t
      OBVIOUS
    <3> QED BY <2>1, <3>1, <3>2
  <2>2. CASE i \in DOMAIN events
    <3>1. Extended(t)[i] = events[i]
      BY <2>2 DEF Extended
    <3>2. /\ events[i].id = nextId - 1 - Len(events) + i
          /\ events[i].type = topicOf[events[i].id]
      BY <2>2 DEF HubWindow
    <3>3. events[i].id \in 1 .. Len(topicOf)
      BY <2>2, <3>2
    <3>4. Append(topicOf, t)[events[i].id] = topicOf[events[i].id]
      BY <3>3
    <3> QED BY <3>1, <3>2, <3>3, <3>4
  <2> QED BY <2>1, <2>2
<1> QED BY <1>1, <1>2

\* publish() preserves the invariant, whether or not the oldest event is evicted.
LEMMA PublishStep ==
    ASSUME HubInv, NEW t \in Topics, Publish(t)
    PROVE  HubInv'
<1> DEFINE s == Extended(t)
<1>1. /\ s \in Seq(Events)
      /\ Len(s) = Len(events) + 1
      /\ \A i \in 1 .. Len(events) + 1 :
            /\ s[i].id = nextId - 1 - Len(events) + i
            /\ s[i].id \in 1 .. nextId
            /\ s[i].type = Append(topicOf, t)[s[i].id]
  BY ExtendedWindow
<1>2. /\ events' = Evict(s)
      /\ nextId' = nextId + 1
      /\ topicOf' = Append(topicOf, t)
  BY DEF Publish, Extended
<1>3. /\ nextId \in Nat \ {0}
      /\ topicOf \in Seq(Topics)
      /\ Len(topicOf) = nextId - 1
      /\ Len(events) \in Nat
      /\ Len(events) <= BufferSize
      /\ Len(events) <= nextId - 1
      /\ Len(events) < BufferSize => Len(events) = nextId - 1
  BY DEF HubInv, HubTypeOK, HubWindow
<1>4. /\ nextId' \in Nat \ {0}
      /\ topicOf' \in Seq(Topics)
      /\ Len(topicOf') = nextId' - 1
  BY <1>2, <1>3
<1> HIDE DEF s
<1>5. CASE Len(s) > BufferSize
  <2>1. events' = Tail(s)
    BY <1>2, <1>5 DEF Evict
  <2>2. Len(events) = BufferSize
    BY <1>1, <1>3, <1>5, HubAssumption
  <2>3. /\ events' \in Seq(Events)
        /\ Len(events') = Len(events)
        /\ \A i \in 1 .. Len(events) : events'[i] = s[i + 1]
    BY <1>1, <1>3, <2>1
  <2>4. \A i \in DOMAIN events' :
           /\ events'[i].id = nextId' - 1 - Len(events') + i
           /\ events'[i].type = topicOf'[events'[i].id]
    <3>1. TAKE i \in DOMAIN events'
    <3>2. i \in 1 .. Len(events) /\ i + 1 \in 1 .. Len(events) + 1
      BY <1>3, <2>3
    <3>3. /\ s[i + 1].id = nextId - 1 - Len(events) + (i + 1)
          /\ s[i + 1].type = Append(topicOf, t)[s[i + 1].id]
      BY <1>1, <3>2
    <3>4. events'[i] = s[i + 1]
      BY <2>3, <3>2
    <3>5. events'[i].id = nextId' - 1 - Len(events') + i
      BY <1>2, <1>3, <2>3, <3>2, <3>3, <3>4
    <3>6. events'[i].type = topicOf'[events'[i].id]
      BY <1>2, <3>3, <3>4
    <3> QED BY <3>5, <3>6
  <2>5. HubTypeOK'
    BY <1>3, <1>4, <2>3 DEF HubTypeOK
  <2>6. HubWindow' /\ Len(events') <= nextId' - 1
    BY <1>2, <1>3, <2>2, <2>3, <2>4 DEF HubWindow
  <2> QED BY <2>5, <2>6 DEF HubInv
<1>6. CASE ~(Len(s) > BufferSize)
  <2>1. events' = s
    BY <1>2, <1>6 DEF Evict
  <2>2. Len(events) < BufferSize
    BY <1>1, <1>3, <1>6, HubAssumption
  <2>3. \A i \in DOMAIN events' :
           /\ events'[i].id = nextId' - 1 - Len(events') + i
           /\ events'[i].type = topicOf'[events'[i].id]
    <3>1. TAKE i \in DOMAIN events'
    <3>2. i \in 1 .. Len(events) + 1
      BY <1>1, <2>1
    <3>3. /\ s[i].id = nextId - 1 - Len(events) + i
          /\ s[i].type = Append(topicOf, t)[s[i].id]
      BY <1>1, <3>2
    <3>4. events'[i].id = nextId' - 1 - Len(events') + i
      <4>1. events'[i].id = nextId - 1 - Len(events) + i
        BY <2>1, <3>3
      <4>2. Len(events') = Len(events) + 1
        BY <1>1, <2>1
      <4>3. nextId' = nextId + 1 /\ nextId \in Nat /\ Len(events) \in Nat
        BY <1>2, <1>3
      <4>4. i \in Nat
        BY <1>3, <3>2
      <4>5. nextId - 1 - Len(events) + i = nextId' - 1 - Len(events') + i
        BY <4>2, <4>3, <4>4
      <4> QED BY <4>1, <4>5
    <3>5. events'[i].type = topicOf'[events'[i].id]
      BY <1>2, <2>1, <3>3
    <3> QED BY <3>4, <3>5
  <2>4. HubTypeOK'
    BY <1>1, <1>3, <1>4, <2>1, <2>2, HubAssumption DEF HubTypeOK
  <2>5. HubWindow' /\ Len(events') <= nextId' - 1
    BY <1>1, <1>2, <1>3, <2>1, <2>2, <2>3, HubAssumption DEF HubWindow
  <2> QED BY <2>4, <2>5 DEF HubInv
<1> QED BY <1>5, <1>6

\* Every step of LiveFeed preserves the hub's invariant.
LEMMA HubStep == HubInv /\ [Next]_vars => HubInv'
<1> SUFFICES ASSUME HubInv, [Next]_vars PROVE HubInv'
  OBVIOUS
<1>1. CASE \E t \in Topics : PublishEvent(t)
  BY <1>1, PublishStep DEF PublishEvent
<1>2. CASE RestartServer
  BY <1>2, HubAssumption DEF RestartServer, Restart, HubInv, HubTypeOK, HubWindow
<1>3. CASE UNCHANGED hubVars
  BY <1>3 DEF hubVars, HubInv, HubTypeOK, HubWindow
<1>4. CASE Poll \/ ApplyAny \/ PollFails \/ ResetKey \/ OpenStream \/ StreamNext \/ CloseStream
  <2>1. UNCHANGED hubVars
    BY <1>4 DEF Poll, ApplyAny, Apply, PollFails, ResetKey, OpenStream, StreamNext, CloseStream
  <2> QED BY <2>1, <1>3
<1>5. CASE UNCHANGED vars
  BY <1>3, <1>5 DEF vars
<1> QED BY <1>1, <1>2, <1>4, <1>5 DEF Next

\* The hub's variables keep their types and its deque its bound, and the buffer is the
\* newest window of what publish() was given, whatever the clients do.
THEOREM HubInvariance == Spec => []HubInv
<1>1. Init => HubInv
  BY HubInitInv DEF Init
<1>2. HubInv /\ [Next]_vars => HubInv'
  BY HubStep
<1> QED BY <1>1, <1>2, PTL DEF Spec

\* The buffered ids are consecutive, end at latest_id and carry the types published.
THEOREM BufferIsNewestWindow == Spec => []HubWindow
<1>1. HubInv => HubWindow
  BY DEF HubInv
<1> QED BY <1>1, HubInvariance, PTL

\* A snapshot that does not report an overflow has lost nothing: every event published
\* after the cursor is still in the buffer.
NoOverflowNoLoss ==
    \A since \in Nat : ~Overflowed(since) =>
        \A n \in since + 1 .. LatestId : \E i \in DOMAIN events : events[i].id = n

\* The overflowed flag of a snapshot is never missing when an event after the cursor
\* has been evicted.
THEOREM OverflowReported == Spec => []NoOverflowNoLoss
<1>1. HubInv => NoOverflowNoLoss
  <2> SUFFICES ASSUME HubInv, NEW since \in Nat, ~Overflowed(since),
                      NEW n \in since + 1 .. LatestId
               PROVE  \E i \in DOMAIN events : events[i].id = n
    BY DEF NoOverflowNoLoss
  <2>1. /\ nextId \in Nat \ {0}
        /\ Len(events) \in Nat
        /\ DOMAIN events = 1 .. Len(events)
        /\ Len(events) <= nextId - 1
        /\ \A i \in DOMAIN events : events[i].id = nextId - 1 - Len(events) + i
    BY DEF HubInv, HubTypeOK, HubWindow
  <2>2. events # << >>
    BY <2>1, HubAssumption DEF HubInv, HubTypeOK, HubWindow, LatestId
  <2>3. 1 \in DOMAIN events
    BY <2>1, <2>2 DEF HubInv, HubTypeOK
  <2>4. since + 1 >= nextId - Len(events)
    BY <2>1, <2>2, <2>3 DEF Overflowed, OldestId
  <2>5. n - (nextId - 1 - Len(events)) \in DOMAIN events
    BY <2>1, <2>4 DEF LatestId
  <2>6. events[n - (nextId - 1 - Len(events))].id = n
    <3>1. /\ n \in Nat
          /\ events[n - (nextId - 1 - Len(events))].id
               = nextId - 1 - Len(events) + (n - (nextId - 1 - Len(events)))
      BY <2>1, <2>5 DEF LatestId
    <3> QED BY <2>1, <3>1
  <2> QED BY <2>5, <2>6
<1> QED BY <1>1, HubInvariance, PTL

-----------------------------------------------------------------------------
(* The strengthenings for the client                                       *)

\* An id the client has may be followed without meeting it again as a new event: it
\* is from this server process and published, or covered by the mark.
Past(x) == x <= mark \/ x < nextId

\* Everything the client has or will receive is past, and an answer agrees with itself.
BoundInv ==
    /\ IsFiniteSet(fetched)
    /\ Past(cursor)
    /\ \A a \in fetched :
          /\ Past(a.latest)
          /\ \A k \in DOMAIN a.events : a.events[k].id <= a.latest
          /\ a.overflowed => a.oldest <= a.latest
    /\ \A k \in DOMAIN stream : Past(stream[k].id)

\* What an answer under way does not hold of the events up to its latest_id is known
\* already, from the state in which it was made.
AnswerInv ==
    \A a \in fetched : \A i \in 1 .. a.latest : Due(i) => Known(i) \/ i \in Ids(a.events)

\* What is due up to an event of the stream is known, or dispatched no later than it.
StreamInv ==
    \A k \in DOMAIN stream : \A i \in 1 .. stream[k].id :
        Due(i) => Known(i) \/ \E l \in 1 .. k : stream[l].id = i

\* The terminal client has no stream and one answer under way, made for the cursor it
\* still has, and it has shown nothing past that cursor.
TerminalInv ==
    mode # "page" =>
        /\ stream = << >>
        /\ \A a, b \in fetched : a = b
        /\ mode = "gone" => fetched = {}
        /\ \A a \in fetched :
              /\ \A k \in DOMAIN a.events : cursor < a.events[k].id
              /\ a.overflowed => cursor < a.oldest
        /\ \A n \in shown : n <= cursor

IInv ==
    /\ HubInv
    /\ TypeOK
    /\ BoundInv
    /\ NoOtherLoss
    /\ AnswerInv
    /\ StreamInv
    /\ TerminalInv

-----------------------------------------------------------------------------
(* What the operators of the model return                                  *)

\* The Max of a finite set of numbers is its largest one.
LEMMA MaxFacts ==
    ASSUME NEW P, P \subseteq Nat, IsFiniteSet(P), P # {}
    PROVE  Max(P) \in P /\ \A i \in P : i <= Max(P)
<1>1. \E m \in P : \A i \in P : m >= i
  <2>1. PICK m \in P : \A i \in P : i <= m
    BY LargestExists
  <2>2. \A i \in P : m >= i
    BY <2>1
  <2> QED BY <2>2
<1>2. Max(P) \in P /\ \A i \in P : Max(P) >= i
  BY <1>1 DEF Max
<1> QED BY <1>2

\* The same for the maxima by which the histories and the cursor move on.
LEMMA MaxOfTwo ==
    ASSUME NEW a \in Nat, NEW b \in Nat
    PROVE  Max({a, b}) \in {a, b} /\ a <= Max({a, b}) /\ b <= Max({a, b})
<1>1. IsFiniteSet({a, b})
  <2>1. IsFiniteSet({a} \cup {b})
    BY FS_Singleton, FS_Union
  <2>2. {a} \cup {b} = {a, b}
    OBVIOUS
  <2> QED BY <2>1, <2>2
<1> QED BY <1>1, MaxFacts

\* A cursor goes to the largest of itself and the ids received.
LEMMA MaxOfIds ==
    ASSUME NEW s \in Seq(Events), NEW c, c \subseteq Nat, IsFiniteSet(c), c # {}
    PROVE  LET m == Max(c \cup Ids(s))
           IN  /\ m \in Nat
               /\ m \in c \/ \E k \in DOMAIN s : m = s[k].id
               /\ \A x \in c : x <= m
               /\ \A k \in DOMAIN s : s[k].id <= m
<1>1. IsFiniteSet(Ids(s)) /\ Ids(s) \subseteq Nat
  <2> DEFINE f == [i \in DOMAIN s |-> s[i].id]
  <2>1. DOMAIN f = DOMAIN s /\ \A i \in DOMAIN s : f[i] = s[i].id
    OBVIOUS
  <2>2. Ids(s) = {f[i] : i \in DOMAIN s}
    BY <2>1 DEF Ids
  <2> HIDE DEF f
  <2>3. IsFiniteSet(Ids(s))
    BY <2>1, <2>2, ImageFinite
  <2>4. \A i \in DOMAIN s : s[i].id \in Nat
    <3>1. \A i \in DOMAIN s : s[i] \in Events
      OBVIOUS
    <3> QED BY <3>1 DEF Events
  <2> QED BY <2>3, <2>4 DEF Ids
<1>2. IsFiniteSet(c \cup Ids(s)) /\ c \cup Ids(s) \subseteq Nat /\ c \cup Ids(s) # {}
  BY <1>1, FS_Union
<1>3. /\ Max(c \cup Ids(s)) \in c \cup Ids(s)
      /\ \A x \in c \cup Ids(s) : x <= Max(c \cup Ids(s))
  BY <1>2, MaxFacts
<1>4. \A k \in DOMAIN s : s[k].id \in Ids(s)
  BY DEF Ids
<1>5. Max(c \cup Ids(s)) \in c \/ \E k \in DOMAIN s : Max(c \cup Ids(s)) = s[k].id
  BY <1>3 DEF Ids
<1> QED BY <1>2, <1>3, <1>4, <1>5

\* What a poll looks at: the buffered events after the cursor of the wanted topics, in
\* their order, and all of them.
LEMMA SinceFacts ==
    ASSUME HubInv, NEW since \in Nat, NEW wanted, NEW s, s = Since(since, wanted)
    PROVE  /\ s \in Seq(Events)
           /\ \A k \in DOMAIN s : since < s[k].id /\ s[k].id <= LatestId
           /\ \A k, l \in DOMAIN s : k < l => s[k].id < s[l].id
           /\ \A i \in since + 1 .. LatestId : OldestId <= i /\ topicOf[i] \in wanted
                 => \E k \in DOMAIN s : s[k].id = i
<1> DEFINE P == Places(since, wanted)
           d == nextId - 1 - Len(events)
<1>1. /\ events \in Seq(Events) /\ Len(events) \in Nat /\ DOMAIN events = 1 .. Len(events)
      /\ nextId \in Nat \ {0} /\ d \in Nat
      /\ \A i \in DOMAIN events :
            events[i].id = d + i /\ events[i].type = topicOf[events[i].id]
  BY DEF HubInv, HubTypeOK, HubWindow
<1> HIDE DEF d
<1>2. P \subseteq DOMAIN events /\ P \subseteq Nat
      /\ \A i \in P : events[i] \in Events
  BY <1>1 DEF Places
<1>3. IsFiniteSet(P)
  BY <1>1, <1>2, PositionsFinite
<1>4. \A i \in P : since < events[i].id /\ events[i].id <= LatestId
  BY <1>1, <1>2 DEF Places, LatestId, d
<1> HIDE DEF P
<1>5. s = Subsequence(events, P)
  BY DEF Since, P
<1>6. /\ s \in Seq(Events)
      /\ \A n \in DOMAIN s : \E i \in P : Rank(P, i) = n /\ s[n] = events[i]
      /\ \A i \in P : Rank(P, i) \in DOMAIN s /\ s[Rank(P, i)] = events[i]
  BY <1>2, <1>3, <1>5, SubsequenceFacts
<1>7. \A k \in DOMAIN s : since < s[k].id /\ s[k].id <= LatestId
  BY <1>4, <1>6
<1>8. ASSUME NEW k \in DOMAIN s, NEW l \in DOMAIN s, k < l PROVE s[k].id < s[l].id
  <2>1. PICK i \in P : Rank(P, i) = k /\ s[k] = events[i]
    BY <1>6
  <2>2. PICK j \in P : Rank(P, j) = l /\ s[l] = events[j]
    BY <1>6
  <2>3. i \in Nat /\ j \in Nat /\ k \in Nat /\ l \in Nat
    BY <1>2, <1>6
  <2>4. ~(j < i) /\ i # j
    <3>1. j < i => Rank(P, j) < Rank(P, i)
      BY <1>2, <1>3, RankFacts
    <3> QED BY <1>8, <2>1, <2>2, <2>3, <3>1
  <2>5. events[i].id = d + i /\ events[j].id = d + j
    BY <1>1, <1>2
  <2> QED BY <1>1, <2>1, <2>2, <2>3, <2>4, <2>5
<1>9. ASSUME NEW i \in since + 1 .. LatestId, OldestId <= i, topicOf[i] \in wanted
      PROVE  \E k \in DOMAIN s : s[k].id = i
  <2>1. i \in Nat /\ since < i /\ i <= nextId - 1
    BY <1>1 DEF LatestId
  <2>2. i - d \in DOMAIN events
    <3>1. events # << >>
      BY <1>1, <1>9, <2>1 DEF OldestId
    <3>2. 1 \in DOMAIN events
      BY <1>1, <3>1
    <3>3. d + 1 <= i
      BY <1>1, <1>9, <3>1, <3>2 DEF OldestId
    <3> QED BY <1>1, <2>1, <3>3 DEF d
  <2>3. events[i - d].id = i
    <3>1. events[i - d].id = d + (i - d)
      BY <1>1, <2>2
    <3> QED BY <1>1, <2>1, <3>1
  <2>4. i - d \in P
    BY <1>1, <1>9, <2>1, <2>2, <2>3 DEF P, Places
  <2> QED BY <1>6, <2>3, <2>4
<1> QED BY <1>6, <1>7, <1>8, <1>9

\* The limit keeps the last ones.
LEMMA NewestFacts ==
    ASSUME NEW s \in Seq(Events), NEW t, t = Newest(s)
    PROVE  \E d \in Nat :
              /\ t \in Seq(Events) /\ Len(t) = Len(s) - d
              /\ \A k \in DOMAIN t : k + d \in DOMAIN s /\ t[k] = s[k + d]
              /\ \A k \in DOMAIN s : d < k => k - d \in DOMAIN t /\ t[k - d] = s[k]
              /\ t # s => d > 0 /\ t # << >>
              /\ d = 0 => t = s
<1>1. CASE Len(s) > Limit
  <2> DEFINE d == Len(s) - Limit
  <2>1. d \in Nat /\ d <= Len(s) /\ Len(s) \in Nat /\ Len(s) - Limit + 1 = d + 1 /\ d > 0
        /\ Len(s) - d = Limit /\ Limit > 0
    BY <1>1, HubAssumption
  <2>2. t = SubSeq(s, d + 1, Len(s))
    BY <1>1, <2>1 DEF Newest
  <2> HIDE DEF d
  <2>3. /\ t \in Seq(Events) /\ Len(t) = Len(s) - d
        /\ \A k \in DOMAIN t : k + d \in DOMAIN s /\ t[k] = s[k + d]
        /\ \A k \in DOMAIN s : d < k => k - d \in DOMAIN t /\ t[k - d] = s[k]
    BY <2>1, <2>2, SuffixFacts
  <2>4. t # << >>
    BY <2>1, <2>3
  <2>5. d # 0
    BY <2>1
  <2> QED BY <2>1, <2>3, <2>4, <2>5
<1>2. CASE ~(Len(s) > Limit)
  <2>1. t = s /\ 0 \in Nat /\ Len(s) = Len(s) - 0 /\ \A k \in DOMAIN s : k + 0 = k /\ k - 0 = k
    BY <1>2 DEF Newest
  <2> QED BY <2>1
<1> QED BY <1>1, <1>2

\* An answer holds every event published after the cursor that the client wants, but
\* for those that overflowed reports lost and those that the limit cuts off.
LEMMA AnswerFacts ==
    ASSUME HubInv, cursor \in Nat, told \in Nat, cut \in Nat, NoOtherLoss, NoteAnswer
    PROVE  /\ Answer \in Answers /\ Answer.latest = LatestId
           /\ told' \in Nat /\ cut' \in Nat /\ told <= told' /\ cut <= cut'
           /\ \A k \in DOMAIN Answer.events :
                 cursor < Answer.events[k].id /\ Answer.events[k].id <= LatestId
           /\ \A k, l \in DOMAIN Answer.events :
                 k < l => Answer.events[k].id < Answer.events[l].id
           /\ Answer.overflowed => cursor < Answer.oldest /\ Answer.oldest <= LatestId
           /\ \A i \in 1 .. LatestId : Due(i) => \/ i \in shown \/ i < told' \/ i <= cut'
                                                 \/ i \in Ids(Answer.events)
<1> DEFINE all == Since(cursor, Wanted)
           kept == Newest(all)
<1>1. /\ nextId \in Nat \ {0} /\ LatestId \in Nat /\ LatestId = nextId - 1
  BY DEF HubInv, HubTypeOK, LatestId
<1>2. OldestId \in Nat /\ (Overflowed(cursor) => cursor < OldestId /\ OldestId <= LatestId)
  <2>1. CASE events = << >>
    <3>1. nextId = 1
      BY <1>1, <2>1, HubAssumption DEF HubInv, HubTypeOK, HubWindow
    <3> QED BY <1>1, <2>1, <3>1 DEF OldestId, Overflowed
  <2>2. CASE events # << >>
    <3>1. 1 \in DOMAIN events /\ events[1] \in Events
      BY <2>2 DEF HubInv, HubTypeOK
    <3>2. events[1].id \in Nat /\ events[1].id = nextId - 1 - Len(events) + 1
          /\ Len(events) \in Nat /\ Len(events) >= 1
      BY <3>1 DEF HubInv, HubTypeOK, HubWindow, Events
    <3> QED BY <1>1, <2>2, <3>2 DEF OldestId, Overflowed
  <2> QED BY <2>1, <2>2
<1>3. /\ all \in Seq(Events) /\ Len(all) \in Nat
      /\ \A k \in DOMAIN all : cursor < all[k].id /\ all[k].id <= LatestId
      /\ \A k, l \in DOMAIN all : k < l => all[k].id < all[l].id
      /\ \A i \in cursor + 1 .. LatestId : OldestId <= i /\ topicOf[i] \in Wanted
            => \E k \in DOMAIN all : all[k].id = i
  <2>1. \E s : s = all
    OBVIOUS
  <2> HIDE DEF all
  <2>2. all = Since(cursor, Wanted)
    BY DEF all
  <2> QED BY <2>2, SinceFacts
<1>4. /\ Answer.events = kept /\ Answer.latest = LatestId /\ Answer.oldest = OldestId
      /\ Answer.overflowed = Overflowed(cursor)
      /\ Answer = [events |-> kept, latest |-> LatestId, oldest |-> OldestId,
                   overflowed |-> Overflowed(cursor)]
  BY DEF Answer, Snapshot
<1>5. /\ told' = IF Overflowed(cursor) THEN Max({told, OldestId}) ELSE told
      /\ cut' = IF kept # all THEN Max({cut, kept[1].id - 1}) ELSE cut
  BY DEF NoteAnswer
<1> HIDE DEF all
<1>6. PICK d \in Nat :
         /\ kept \in Seq(Events) /\ Len(kept) = Len(all) - d
         /\ \A k \in DOMAIN kept : k + d \in DOMAIN all /\ kept[k] = all[k + d]
         /\ \A k \in DOMAIN all : d < k => k - d \in DOMAIN kept /\ kept[k - d] = all[k]
         /\ kept # all => d > 0 /\ kept # << >>
         /\ d = 0 => kept = all
  BY <1>3, NewestFacts
<1> HIDE DEF kept
<1>7. \A k \in DOMAIN kept : cursor < kept[k].id /\ kept[k].id <= LatestId
  BY <1>3, <1>6
<1>8. \A k, l \in DOMAIN kept : k < l => kept[k].id < kept[l].id
  <2> SUFFICES ASSUME NEW k \in DOMAIN kept, NEW l \in DOMAIN kept, k < l
               PROVE  kept[k].id < kept[l].id
    OBVIOUS
  <2>1. k + d \in DOMAIN all /\ l + d \in DOMAIN all
        /\ kept[k] = all[k + d] /\ kept[l] = all[l + d]
    BY <1>6
  <2>2. k \in Nat /\ l \in Nat
    BY <1>6
  <2>3. k + d < l + d
    BY <2>2
  <2> QED BY <1>3, <2>1, <2>3
<1>9. kept # all => /\ 1 \in DOMAIN kept /\ kept[1].id \in Nat \ {0}
                    /\ kept[1].id - 1 \in Nat
  <2> SUFFICES ASSUME kept # all
               PROVE  /\ 1 \in DOMAIN kept /\ kept[1].id \in Nat \ {0}
                      /\ kept[1].id - 1 \in Nat
    OBVIOUS
  <2>1. 1 \in DOMAIN kept /\ kept[1] \in Events
    BY <1>6
  <2>2. kept[1].id \in Nat /\ cursor < kept[1].id
    BY <1>7, <2>1 DEF Events
  <2>3. kept[1].id \in Nat \ {0} /\ kept[1].id - 1 \in Nat
    BY <2>2
  <2> QED BY <2>1, <2>3
<1>10. /\ told' \in Nat /\ told <= told'
       /\ Overflowed(cursor) => OldestId <= told'
  BY <1>2, <1>5, MaxOfTwo
<1>11. /\ cut' \in Nat /\ cut <= cut'
       /\ kept # all => kept[1].id - 1 <= cut'
  <2>1. CASE kept = all
    BY <1>5, <2>1
  <2>2. CASE kept # all
    <3>1. cut' = Max({cut, kept[1].id - 1}) /\ kept[1].id - 1 \in Nat
      BY <1>5, <1>9, <2>2
    <3> QED BY <3>1, MaxOfTwo
  <2> QED BY <2>1, <2>2
<1>12. ASSUME NEW i \in 1 .. LatestId, Due(i)
       PROVE  i \in shown \/ i < told' \/ i <= cut' \/ i \in Ids(kept)
  <2>1. i \in Nat /\ topicOf[i] \in Wanted
    BY <1>12 DEF Due
  <2>2. CASE i <= cursor
    <3>1. Known(i)
      <4>1. i \in 1 .. cursor
        BY <1>12, <2>2
      <4> QED BY <1>12, <4>1 DEF NoOtherLoss
    <3> QED BY <1>10, <1>11, <2>1, <3>1 DEF Known
  <2>3. CASE cursor < i /\ i < OldestId
    <3>1. Overflowed(cursor)
      BY <1>2, <2>1, <2>3 DEF Overflowed
    <3> QED BY <1>2, <1>10, <2>1, <2>3, <3>1
  <2>4. CASE cursor < i /\ OldestId <= i
    <3>1. i \in cursor + 1 .. LatestId
      BY <1>1, <1>12, <2>4
    <3>2. PICK k \in DOMAIN all : all[k].id = i
      BY <1>3, <2>1, <2>4, <3>1
    <3>3. CASE d < k
      <4>1. k - d \in DOMAIN kept /\ kept[k - d].id = i
        BY <1>6, <3>2, <3>3
      <4> QED BY <4>1 DEF Ids
    <3>4. CASE ~(d < k)
      <4>1. k \in Nat /\ k <= d /\ d > 0
        BY <1>3, <3>4
      <4>2. kept # all
        <5>1. Len(kept) # Len(all)
          BY <1>3, <1>6, <4>1
        <5> QED BY <5>1
      <4>3. 1 \in DOMAIN kept /\ 1 + d \in DOMAIN all /\ kept[1] = all[1 + d]
        BY <1>6, <1>9, <4>2
      <4>4. k < 1 + d
        BY <4>1
      <4>5. i < kept[1].id
        BY <1>3, <3>2, <4>3, <4>4
      <4>6. kept[1].id - 1 <= cut'
        BY <1>11, <4>2
      <4>7. kept[1].id \in Nat
        BY <1>9, <4>2
      <4> QED BY <1>11, <2>1, <4>5, <4>6, <4>7
    <3> QED BY <3>3, <3>4
  <2> QED BY <1>2, <2>1, <2>2, <2>3, <2>4
<1>13. Answer \in Answers
  BY <1>1, <1>2, <1>4, <1>6 DEF Answers, Overflowed
<1> QED BY <1>2, <1>4, <1>7, <1>8, <1>10, <1>11, <1>12, <1>13

-----------------------------------------------------------------------------
(* What the actions do to the cursor and to the mark                       *)

\* An answer under way and an event of the stream are what their types say.
LEMMA ReceivedFacts ==
    ASSUME TypeOK
    PROVE  /\ \A a \in fetched : /\ a.latest \in Nat /\ a.oldest \in Nat
                                 /\ a.events \in Seq(Events) /\ a.overflowed \in BOOLEAN
                                 /\ \A k \in DOMAIN a.events : a.events[k].id \in Nat
           /\ \A k \in DOMAIN stream : k \in Nat \ {0} /\ stream[k].id \in Nat
<1>1. ASSUME NEW q \in Seq(Events), NEW k \in DOMAIN q
      PROVE  k \in Nat \ {0} /\ q[k].id \in Nat
  <2>1. q[k] \in Events /\ k \in Nat \ {0}
    OBVIOUS
  <2> QED BY <2>1 DEF Events
<1>2. \A a \in fetched : /\ a.latest \in Nat /\ a.oldest \in Nat
                         /\ a.events \in Seq(Events) /\ a.overflowed \in BOOLEAN
  BY DEF TypeOK, Answers
<1>3. stream \in Seq(Events)
  BY DEF TypeOK
<1> QED BY <1>1, <1>2, <1>3

\* The cursor after a snapshot covers its events and, but for the cursor it had, goes
\* no further than latest_id; the terminal client's does not go back.
LEMMA ApplyFacts ==
    ASSUME IInv, NEW a \in fetched, Apply(a)
    PROVE  /\ cursor' \in Nat
           /\ cursor' <= cursor \/ cursor' <= a.latest
           /\ cursor <= cursor'
           /\ \A k \in DOMAIN a.events : a.events[k].id <= cursor'
<1> DEFINE ids == Ids(a.events)
           base == CASE mode = "page"   -> {cursor, a.latest}
                     [] mode = "curses" -> {IF a.overflowed THEN a.oldest ELSE cursor}
                     [] mode = "plain"  -> {cursor}
<1>1. /\ cursor \in Nat /\ a.latest \in Nat /\ a.oldest \in Nat
      /\ a.events \in Seq(Events) /\ a.overflowed \in BOOLEAN
      /\ mode \in {"page", "curses", "plain", "gone"}
  BY ReceivedFacts DEF IInv, TypeOK
<1>2. mode # "gone"
  BY DEF IInv, TerminalInv
<1>3. cursor' = Max(base \cup ids)
  <2>1. cursor' = Advance(a)
    BY DEF Apply
  <2>2. CASE mode = "page"
    BY <2>1, <2>2 DEF Advance
  <2>3. CASE mode = "curses"
    BY <2>1, <2>3 DEF Advance
  <2>4. CASE mode = "plain"
    BY <2>1, <2>4 DEF Advance
  <2> QED BY <1>1, <1>2, <2>2, <2>3, <2>4
<1>4. base \subseteq Nat /\ IsFiniteSet(base) /\ base # {}
  <2>1. IsFiniteSet({cursor, a.latest})
    <3>1. IsFiniteSet({cursor} \cup {a.latest})
      BY FS_Singleton, FS_Union
    <3>2. {cursor} \cup {a.latest} = {cursor, a.latest}
      OBVIOUS
    <3> QED BY <3>1, <3>2
  <2>2. CASE mode = "page"
    BY <1>1, <2>1, <2>2
  <2>3. CASE mode = "curses"
    <3>1. base = {IF a.overflowed THEN a.oldest ELSE cursor}
      BY <2>3
    <3> HIDE DEF base
    <3> QED BY <1>1, <3>1, FS_Singleton
  <2>4. CASE mode = "plain"
    <3>1. base = {cursor}
      BY <2>4
    <3> HIDE DEF base
    <3> QED BY <1>1, <3>1, FS_Singleton
  <2> QED BY <1>1, <1>2, <2>2, <2>3, <2>4
<1>5. \A x \in base : x <= cursor \/ x <= a.latest
  BY <1>1, <1>2 DEF IInv, BoundInv
<1>6. \E x \in base : cursor <= x
  <2>1. CASE mode = "curses"
    <3>1. a.overflowed => cursor < a.oldest
      BY <2>1 DEF IInv, TerminalInv
    <3> QED BY <1>1, <2>1, <3>1
  <2>2. CASE mode \in {"page", "plain"}
    <3>1. cursor \in base /\ cursor <= cursor
      BY <1>1, <2>2
    <3> QED BY <3>1
  <2> QED BY <1>1, <1>2, <2>1, <2>2
<1> HIDE DEF base, ids
<1>7. /\ cursor' \in Nat
      /\ cursor' \in base \/ \E k \in DOMAIN a.events : cursor' = a.events[k].id
      /\ \A x \in base : x <= cursor'
      /\ \A k \in DOMAIN a.events : a.events[k].id <= cursor'
  BY <1>1, <1>3, <1>4, MaxOfIds DEF ids
<1>8. \A k \in DOMAIN a.events : a.events[k].id <= a.latest
  BY DEF IInv, BoundInv
<1>9. cursor <= cursor'
  <2>1. PICK x \in base : cursor <= x
    BY <1>6
  <2> QED BY <1>1, <1>4, <1>7, <2>1
<1> QED BY <1>5, <1>7, <1>8, <1>9

\* A dispatched event moves the cursor to it, or not at all.
LEMMA DispatchFacts ==
    ASSUME TypeOK, StreamNext
    PROVE  /\ 1 \in DOMAIN stream /\ stream[1].id \in Nat
           /\ cursor' \in {cursor, stream[1].id} /\ cursor' \in Nat
           /\ cursor <= cursor' /\ stream[1].id <= cursor'
<1>1. stream \in Seq(Events) /\ stream # << >> /\ cursor' = Max({cursor, stream[1].id})
      /\ cursor \in Nat
  BY DEF TypeOK, StreamNext
<1>2. 1 \in DOMAIN stream
  BY <1>1
<1>3. stream[1].id \in Nat
  BY <1>2, ReceivedFacts
<1> QED BY <1>1, <1>2, <1>3, MaxOfTwo

\* At a restart the mark rises over everything the client has or will receive.
LEMMA RestartFacts ==
    ASSUME TypeOK, IsFiniteSet(fetched), RestartServer
    PROVE  /\ mark' \in Nat /\ cursor <= mark'
           /\ \A a \in fetched : a.latest <= mark'
           /\ \A k \in DOMAIN stream : stream[k].id <= mark'
<1> DEFINE L == {a.latest : a \in fetched}
           c == {mark, cursor} \cup L
<1>1. stream \in Seq(Events) /\ mark \in Nat /\ cursor \in Nat /\ L \subseteq Nat
  BY ReceivedFacts DEF TypeOK
<1>2. IsFiniteSet(L)
  <2> DEFINE f == [a \in fetched |-> a.latest]
  <2>1. f \in [fetched -> L] /\ \A x \in L : \E a \in fetched : f[a] = x
    OBVIOUS
  <2>2. f \in Surjection(fetched, L)
    <3> HIDE DEF f, L
    <3> QED BY <2>1 DEF Surjection
  <2> QED BY <2>2, FS_Surjection
<1>3. IsFiniteSet(c) /\ c \subseteq Nat /\ c # {}
  <2>1. IsFiniteSet({mark} \cup {cursor} \cup L)
    BY <1>2, FS_Singleton, FS_Union
  <2>2. c = {mark} \cup {cursor} \cup L
    OBVIOUS
  <2> QED BY <1>1, <2>1, <2>2
<1>4. mark' = Max(c \cup Ids(stream))
  <2>1. mark' = Max({mark, cursor} \cup Ids(stream) \cup L)
    BY DEF RestartServer
  <2>2. {mark, cursor} \cup Ids(stream) \cup L = c \cup Ids(stream)
    OBVIOUS
  <2> QED BY <2>1, <2>2
<1>5. cursor \in c /\ \A a \in fetched : a.latest \in c
  OBVIOUS
<1> HIDE DEF c, L
<1>6. /\ mark' \in Nat /\ \A x \in c : x <= mark'
      /\ \A k \in DOMAIN stream : stream[k].id <= mark'
  BY <1>1, <1>3, <1>4, MaxOfIds
<1> QED BY <1>5, <1>6

\* What is known stays known, and nothing becomes due, while the server runs and the
\* client does not start over.
LEMMA KnownKept ==
    ASSUME TypeOK, UNCHANGED <<hubVars, mode, mark>>, shown \subseteq shown',
           told \in Nat, told' \in Nat, told <= told', cut \in Nat, cut' \in Nat, cut <= cut'
    PROVE  \A i \in Nat : (Known(i) => Known(i)') /\ (Due(i)' <=> Due(i))
<1>1. nextId' = nextId /\ topicOf' = topicOf /\ Wanted' = Wanted /\ mark' = mark
  BY DEF hubVars, Wanted
<1>2. \A i \in Nat : Due(i)' <=> Due(i)
  BY <1>1 DEF Due
<1>3. \A i \in Nat : Known(i) => Known(i)'
  BY DEF Known
<1> QED BY <1>2, <1>3

\* An event that is published is not yet due to anyone who has only past events.
LEMMA PublishFacts ==
    ASSUME HubInv, TypeOK, NEW t \in Topics, PublishEvent(t)
    PROVE  /\ UNCHANGED <<clientVars, boots, historyVars>>
           /\ \A x \in Nat : Past(x) => Past(x)' /\ \A i \in 1 .. x : Due(i)' => Due(i)
           /\ \A i \in Nat : Known(i)' <=> Known(i)
<1>1. /\ nextId' = nextId + 1 /\ topicOf' = Append(topicOf, t) /\ nextId \in Nat \ {0}
      /\ topicOf \in Seq(Topics) /\ Len(topicOf) = nextId - 1 /\ mark \in Nat
  BY DEF PublishEvent, Publish, HubInv, HubTypeOK, TypeOK
<1>2. UNCHANGED <<clientVars, boots, historyVars>> /\ Wanted' = Wanted
  BY DEF PublishEvent, clientVars, Wanted
<1>3. \A i \in Nat : Known(i)' <=> Known(i)
  BY <1>2 DEF Known, historyVars
<1>4. ASSUME NEW x \in Nat, Past(x) PROVE Past(x)' /\ \A i \in 1 .. x : Due(i)' => Due(i)
  <2>1. mark' = mark
    BY <1>2 DEF historyVars
  <2>2. Past(x)'
    BY <1>1, <1>4, <2>1 DEF Past
  <2>3. ASSUME NEW i \in 1 .. x, Due(i)' PROVE Due(i)
    <3>1. mark < i /\ topicOf'[i] \in Wanted
      BY <1>2, <2>1, <2>3 DEF Due
    <3>2. i < nextId
      BY <1>1, <1>4, <3>1 DEF Past
    <3>3. topicOf'[i] = topicOf[i]
      BY <1>1, <3>2
    <3> QED BY <3>1, <3>2, <3>3 DEF Due
  <2> QED BY <2>2, <2>3
<1> QED BY <1>2, <1>3, <1>4

-----------------------------------------------------------------------------
(* The invariant                                                           *)

\* The invariant holds before the first event and the first poll.
LEMMA InitIInv == Init => IInv
<1> SUFFICES ASSUME Init PROVE IInv
  OBVIOUS
<1> USE DEF Init
<1>1. HubInv
  BY HubInitInv
<1>2. TypeOK
  <2>1. Cardinality(fetched) = 0
    BY FS_EmptySet
  <2>2. stream \in Seq(Events) /\ fetched \subseteq Answers /\ shown \subseteq Nat
    OBVIOUS
  <2> QED BY <1>1, <2>1, <2>2, FeedAssumption DEF TypeOK, HubInv
<1>3. BoundInv
  BY FS_EmptySet DEF BoundInv, Past
<1>4. NoOtherLoss /\ AnswerInv /\ StreamInv /\ TerminalInv
  BY DEF NoOtherLoss, AnswerInv, StreamInv, TerminalInv
<1> QED BY <1>1, <1>2, <1>3, <1>4 DEF IInv

\* Each action keeps the types, and the answers under way within their bound.
LEMMA TypeStep == IInv /\ [Next]_vars => TypeOK' /\ IsFiniteSet(fetched)'
<1> SUFFICES ASSUME IInv, [Next]_vars PROVE TypeOK' /\ IsFiniteSet(fetched)'
  OBVIOUS
<1>1. HubTypeOK'
  BY HubStep DEF IInv, HubInv
<1>2. TypeOK /\ HubInv /\ BoundInv /\ NoOtherLoss /\ TerminalInv /\ IsFiniteSet(fetched)
  BY DEF IInv, BoundInv
<1>3. /\ mode \in {"page", "curses", "plain", "gone"} /\ cursor \in Nat
      /\ fetched \subseteq Answers /\ Cardinality(fetched) <= MaxFetches
      /\ stream \in Seq(Events) /\ boots \in Nat /\ shown \subseteq Nat
      /\ told \in Nat /\ cut \in Nat /\ mark \in Nat
  BY <1>2 DEF TypeOK
<1>4. CASE \E t \in Topics : PublishEvent(t)
  BY <1>1, <1>2, <1>4 DEF PublishEvent, TypeOK, clientVars, historyVars
<1>5. CASE RestartServer
  BY <1>1, <1>2, <1>3, <1>5, RestartFacts DEF RestartServer, TypeOK, clientVars
<1>6. CASE Poll
  <2>1. Answer \in Answers /\ told' \in Nat /\ cut' \in Nat
    BY <1>2, <1>3, <1>6, AnswerFacts DEF Poll
  <2>2. IsFiniteSet(fetched') /\ Cardinality(fetched') <= MaxFetches
    <3>3. Cardinality(fetched) \in Nat
      BY <1>2, FS_CardinalityType
    <3>1. fetched' = fetched \cup {Answer} /\ Cardinality(fetched) < MaxFetches
      BY <1>6, <3>3, FeedAssumption DEF Poll
    <3>2. IsFiniteSet(fetched')
          /\ (Cardinality(fetched') = Cardinality(fetched)
              \/ Cardinality(fetched') = Cardinality(fetched) + 1)
      BY <1>2, <3>1, FS_AddElement
    <3> QED BY <3>1, <3>2, <3>3, FeedAssumption
  <2>3. /\ fetched' \subseteq Answers
        /\ UNCHANGED <<mode, cursor, stream, boots, shown, mark>>
    BY <1>3, <1>6, <2>1 DEF Poll, NoteAnswer
  <2> QED BY <1>1, <1>3, <2>1, <2>2, <2>3 DEF TypeOK
<1>7. ASSUME NEW a \in fetched, Apply(a) PROVE TypeOK' /\ IsFiniteSet(fetched)'
  <2>1. cursor' \in Nat
    BY <1>7, ApplyFacts
  <2>2. /\ fetched' \subseteq fetched /\ shown' = shown \cup Ids(a.events)
        /\ UNCHANGED <<mode, stream, boots, told, cut, mark>>
    BY <1>7 DEF Apply
  <2>3. IsFiniteSet(fetched') /\ Cardinality(fetched') <= MaxFetches
    <3>1. IsFiniteSet(fetched') /\ Cardinality(fetched') <= Cardinality(fetched)
      BY <1>2, <2>2, FS_Subset
    <3>2. Cardinality(fetched') \in Nat /\ Cardinality(fetched) \in Nat
      BY <1>2, <3>1, FS_CardinalityType
    <3> QED BY <1>3, <3>1, <3>2, FeedAssumption
  <2>4. Ids(a.events) \subseteq Nat
    BY <1>2, ReceivedFacts DEF Ids
  <2> QED BY <1>1, <1>3, <2>1, <2>2, <2>3, <2>4 DEF TypeOK
<1>8. CASE PollFails \/ ResetKey
  <2>1. /\ cursor' = 0 /\ fetched' = {} /\ shown' = {} /\ told' = 0 /\ cut' = 0 /\ mark' = 0
        /\ mode' \in {"curses", "plain", "gone"} /\ UNCHANGED <<stream, boots>>
    BY <1>8 DEF PollFails, ResetKey, StartOver
  <2>2. IsFiniteSet(fetched') /\ Cardinality(fetched') = 0
    BY <2>1, FS_EmptySet
  <2> QED BY <1>1, <1>3, <2>1, <2>2, FeedAssumption DEF TypeOK
<1>9. CASE OpenStream
  <2>1. Answer.events \in Seq(Events) /\ told' \in Nat /\ cut' \in Nat
    BY <1>2, <1>3, <1>9, AnswerFacts DEF OpenStream, Answers
  <2> QED BY <1>1, <1>2, <1>3, <1>9, <2>1 DEF OpenStream, NoteAnswer, TypeOK
<1>10. CASE StreamNext
  <2>1. cursor' \in Nat /\ 1 \in DOMAIN stream /\ stream[1].id \in Nat
    BY <1>2, <1>10, DispatchFacts
  <2>2. Tail(stream) \in Seq(Events)
    BY <1>3, <1>10 DEF StreamNext
  <2>3. /\ stream' = Tail(stream) /\ shown' = shown \cup {stream[1].id}
        /\ UNCHANGED <<mode, fetched, boots, told, cut, mark>>
    BY <1>10 DEF StreamNext
  <2> QED BY <1>1, <1>2, <1>3, <2>1, <2>2, <2>3 DEF TypeOK
<1>11. CASE CloseStream
  <2>1. stream' \in Seq(Events)
    BY <1>11 DEF CloseStream
  <2> QED BY <1>1, <1>2, <1>3, <1>11, <2>1 DEF CloseStream, historyVars, TypeOK
<1>12. CASE UNCHANGED vars
  BY <1>1, <1>2, <1>3, <1>12 DEF vars, clientVars, historyVars, TypeOK
<1> QED BY <1>4, <1>5, <1>6, <1>7, <1>8, <1>9, <1>10, <1>11, <1>12 DEF Next, ApplyAny

\* Each action gives the client only what is past.
LEMMA BoundStep == IInv /\ [Next]_vars => BoundInv'
<1> SUFFICES ASSUME IInv, [Next]_vars PROVE BoundInv'
  OBVIOUS
<1>1. TypeOK /\ HubInv /\ BoundInv /\ NoOtherLoss
  BY DEF IInv
<1>2. /\ cursor \in Nat /\ mark \in Nat /\ told \in Nat /\ cut \in Nat /\ stream \in Seq(Events)
      /\ nextId \in Nat \ {0}
  BY <1>1 DEF TypeOK, HubTypeOK
<1>3. /\ \A a \in fetched : a.latest \in Nat
      /\ \A k \in DOMAIN stream : stream[k].id \in Nat
  BY <1>1, ReceivedFacts
<1>4. IsFiniteSet(fetched)'
  BY TypeStep
<1>5. ASSUME NEW t \in Topics, PublishEvent(t) PROVE BoundInv'
  <2>1. \A x \in Nat : Past(x) => Past(x)'
    BY <1>1, <1>5, PublishFacts
  <2>2. cursor' = cursor /\ fetched' = fetched /\ stream' = stream
    BY <1>5 DEF PublishEvent, clientVars
  <2>3. Past(cursor)'
    BY <1>1, <1>2, <2>1, <2>2 DEF BoundInv, Past
  <2>4. \A a \in fetched : Past(a.latest)'
    BY <1>1, <1>3, <2>1, <2>2 DEF BoundInv
  <2>5. \A k \in DOMAIN stream' : Past(stream[k].id)'
    BY <1>1, <1>3, <2>1, <2>2 DEF BoundInv, Past
  <2> QED BY <1>1, <1>4, <2>2, <2>3, <2>4, <2>5 DEF BoundInv
<1>6. CASE RestartServer
  <2>1. /\ cursor <= mark' /\ \A a \in fetched : a.latest <= mark'
        /\ \A k \in DOMAIN stream : stream[k].id <= mark'
    BY <1>1, <1>6, RestartFacts DEF BoundInv
  <2>2. cursor' = cursor /\ fetched' = fetched /\ stream' = stream
    BY <1>6 DEF RestartServer, clientVars
  <2> QED BY <1>1, <1>4, <2>1, <2>2 DEF BoundInv, Past
<1>7. CASE Poll \/ OpenStream
  <2>1. NoteAnswer /\ UNCHANGED <<hubVars, cursor>> /\ mark' = mark
    BY <1>7 DEF Poll, OpenStream, NoteAnswer
  <2>2. /\ Answer.latest = LatestId
        /\ \A k \in DOMAIN Answer.events : Answer.events[k].id <= LatestId
        /\ Answer.overflowed => Answer.oldest <= LatestId
        /\ Answer \in Answers
    BY <1>1, <1>2, <2>1, AnswerFacts
  <2>3. \A x \in Nat : (Past(x) => Past(x)') /\ (x <= LatestId => Past(x)')
    BY <1>2, <2>1 DEF Past, LatestId, hubVars
  <2>4. /\ LatestId \in Nat
        /\ \A k \in DOMAIN Answer.events : Answer.events[k].id \in Nat
    <3>1. Answer.events \in Seq(Events)
      BY <2>2 DEF Answers
    <3>2. \A k \in DOMAIN Answer.events : Answer.events[k] \in Events
      BY <3>1
    <3> QED BY <1>2, <3>2 DEF Events, LatestId
  <2>5. Past(cursor)'
    BY <1>1, <1>2, <2>1, <2>3 DEF BoundInv, Past
  <2>6. CASE Poll
    <3>1. fetched' = fetched \cup {Answer} /\ stream' = stream
      BY <2>6 DEF Poll
    <3>2. \A a \in fetched' : /\ Past(a.latest)'
                              /\ \A k \in DOMAIN a.events : a.events[k].id <= a.latest
                              /\ a.overflowed => a.oldest <= a.latest
      <4> SUFFICES ASSUME NEW a \in fetched'
                   PROVE  /\ Past(a.latest)'
                          /\ \A k \in DOMAIN a.events : a.events[k].id <= a.latest
                          /\ a.overflowed => a.oldest <= a.latest
        BY DEF Past
      <4>1. CASE a \in fetched
        BY <1>1, <1>3, <2>3, <4>1 DEF BoundInv, Past
      <4>2. CASE a = Answer
        BY <2>2, <2>3, <2>4, <4>2 DEF Past
      <4> QED BY <3>1, <4>1, <4>2
    <3>3. \A k \in DOMAIN stream' : Past(stream[k].id)'
      BY <1>1, <1>3, <2>3, <3>1 DEF BoundInv, Past
    <3> QED BY <1>4, <2>5, <3>2, <3>3 DEF BoundInv, Past
  <2>7. CASE OpenStream
    <3>1. fetched' = fetched /\ stream' = Answer.events
      BY <2>7 DEF OpenStream
    <3>2. \A k \in DOMAIN stream' : Past(stream[k].id)'
      BY <2>2, <2>3, <2>4, <3>1 DEF Past
    <3>3. \A a \in fetched' : Past(a.latest)'
      BY <1>1, <1>3, <2>3, <3>1 DEF BoundInv, Past
    <3> QED BY <1>1, <1>4, <2>5, <3>1, <3>2, <3>3 DEF BoundInv, Past
  <2> QED BY <1>7, <2>6, <2>7
<1>8. ASSUME NEW a \in fetched, Apply(a) PROVE BoundInv'
  <2>1. /\ nextId' = nextId /\ mark' = mark /\ stream' = stream /\ fetched' \subseteq fetched
    BY <1>8 DEF Apply, hubVars
  <2>2. cursor' \in Nat /\ (cursor' <= cursor \/ cursor' <= a.latest)
    BY <1>8, ApplyFacts
  <2>3. Past(cursor) /\ Past(a.latest)
    BY <1>1 DEF BoundInv
  <2>4. Past(cursor)'
    BY <1>2, <1>3, <2>1, <2>2, <2>3 DEF Past
  <2> QED BY <1>1, <1>4, <2>1, <2>4 DEF BoundInv, Past
<1>9. CASE PollFails \/ ResetKey
  <2>1. stream = << >> /\ stream' = stream /\ cursor' = 0 /\ fetched' = {} /\ mark' = 0
    BY <1>9 DEF IInv, TerminalInv, PollFails, ResetKey, StartOver
  <2> QED BY <1>4, <2>1 DEF BoundInv, Past
<1>10. CASE StreamNext
  <2>1. /\ nextId' = nextId /\ mark' = mark /\ fetched' = fetched /\ stream' = Tail(stream)
        /\ stream # << >>
    BY <1>10 DEF StreamNext, hubVars
  <2>2. 1 \in DOMAIN stream /\ cursor' \in {cursor, stream[1].id}
    BY <1>1, <1>10, DispatchFacts
  <2>3. Past(cursor)'
    BY <1>1, <2>1, <2>2 DEF BoundInv, Past
  <2>4. \A k \in DOMAIN stream' : k + 1 \in DOMAIN stream /\ stream'[k] = stream[k + 1]
    BY <1>2, <2>1, TailFacts
  <2>5. \A k \in DOMAIN stream' : Past(stream[k].id)'
    BY <1>1, <2>1, <2>4 DEF BoundInv, Past
  <2> QED BY <1>1, <1>4, <2>1, <2>3, <2>5 DEF BoundInv, Past
<1>11. CASE CloseStream
  <2>1. /\ UNCHANGED <<nextId, mark, cursor, fetched>> /\ stream' = << >>
    BY <1>11 DEF CloseStream, hubVars, historyVars
  <2> QED BY <1>1, <1>4, <2>1 DEF BoundInv, Past
<1>12. CASE UNCHANGED vars
  <2>1. UNCHANGED <<nextId, mark, cursor, fetched, stream>>
    BY <1>12 DEF vars, hubVars, clientVars, historyVars
  <2> QED BY <1>1, <1>4, <2>1 DEF BoundInv, Past
<1> QED BY <1>5, <1>6, <1>7, <1>8, <1>9, <1>10, <1>11, <1>12 DEF Next, ApplyAny

\* Each action keeps what the cursor, the answers and the stream may pass covered.
LEMMA LossStep == IInv /\ [Next]_vars => NoOtherLoss' /\ AnswerInv' /\ StreamInv'
<1> SUFFICES ASSUME IInv, [Next]_vars PROVE NoOtherLoss' /\ AnswerInv' /\ StreamInv'
  OBVIOUS
<1>1. TypeOK /\ HubInv /\ BoundInv /\ NoOtherLoss /\ AnswerInv /\ StreamInv
  BY DEF IInv
<1>2. /\ cursor \in Nat /\ mark \in Nat /\ told \in Nat /\ cut \in Nat /\ stream \in Seq(Events)
      /\ nextId \in Nat \ {0} /\ shown \subseteq Nat
  BY <1>1 DEF TypeOK, HubTypeOK
<1>3. /\ \A a \in fetched : a.latest \in Nat
      /\ \A k \in DOMAIN stream : k \in Nat \ {0} /\ stream[k].id \in Nat
  BY <1>1, ReceivedFacts
<1>4. /\ \A i \in 1 .. cursor : Due(i) => Known(i)
      /\ \A a \in fetched : \A i \in 1 .. a.latest : Due(i) => Known(i) \/ i \in Ids(a.events)
      /\ \A k \in DOMAIN stream : \A i \in 1 .. stream[k].id :
            Due(i) => Known(i) \/ \E l \in 1 .. k : stream[l].id = i
  BY <1>1 DEF NoOtherLoss, AnswerInv, StreamInv
\* While what is known only grows and nothing becomes due, what was covered still is.
<1>5. ASSUME \A i \in Nat : (Known(i) => Known(i)') /\ (Due(i)' => Due(i))
      PROVE  /\ \A i \in 1 .. cursor : Due(i)' => Known(i)'
             /\ \A a \in fetched : \A i \in 1 .. a.latest :
                   Due(i)' => Known(i)' \/ i \in Ids(a.events)
             /\ \A k \in DOMAIN stream : \A i \in 1 .. stream[k].id :
                   Due(i)' => Known(i)' \/ \E l \in 1 .. k : stream[l].id = i
  <2>1. \A i \in 1 .. cursor : i \in Nat
    BY <1>2
  <2>2. \A a \in fetched : \A i \in 1 .. a.latest : i \in Nat
    BY <1>3
  <2>3. \A k \in DOMAIN stream : \A i \in 1 .. stream[k].id : i \in Nat
    BY <1>3
  <2> QED BY <1>4, <1>5, <2>1, <2>2, <2>3
<1>6. ASSUME \A i \in Nat : (Known(i) => Known(i)') /\ (Due(i)' => Due(i)),
             UNCHANGED <<cursor, fetched, stream>>
      PROVE  NoOtherLoss' /\ AnswerInv' /\ StreamInv'
  BY <1>5, <1>6 DEF NoOtherLoss, AnswerInv, StreamInv
<1>7. ASSUME NEW t \in Topics, PublishEvent(t) PROVE NoOtherLoss' /\ AnswerInv' /\ StreamInv'
  <2>1. /\ UNCHANGED <<cursor, fetched, stream>>
        /\ \A x \in Nat : Past(x) => \A i \in 1 .. x : Due(i)' => Due(i)
        /\ \A i \in Nat : Known(i)' <=> Known(i)
    BY <1>1, <1>7, PublishFacts DEF clientVars
  <2>2. NoOtherLoss'
    <3>1. \A i \in 1 .. cursor : i \in Nat /\ (Due(i)' => Due(i))
      BY <1>1, <1>2, <2>1 DEF BoundInv
    <3> QED BY <1>4, <2>1, <3>1 DEF NoOtherLoss
  <2>3. AnswerInv'
    <3>1. \A a \in fetched : \A i \in 1 .. a.latest : i \in Nat /\ (Due(i)' => Due(i))
      BY <1>1, <1>3, <2>1 DEF BoundInv
    <3> QED BY <1>4, <2>1, <3>1 DEF AnswerInv
  <2>4. StreamInv'
    <3>1. \A k \in DOMAIN stream : \A i \in 1 .. stream[k].id : i \in Nat /\ (Due(i)' => Due(i))
      BY <1>1, <1>3, <2>1 DEF BoundInv
    <3> QED BY <1>4, <2>1, <3>1 DEF StreamInv
  <2> QED BY <2>2, <2>3, <2>4
<1>8. CASE RestartServer
  <2>1. nextId' = 1 /\ UNCHANGED <<cursor, fetched, stream>>
    BY <1>8 DEF RestartServer, Restart, clientVars
  <2>2. \A i \in Nat \ {0} : ~Due(i)'
    BY <2>1 DEF Due
  <2>3. \A i \in 1 .. cursor : i \in Nat \ {0}
    BY <1>2
  <2>4. \A a \in fetched : \A i \in 1 .. a.latest : i \in Nat \ {0}
    BY <1>3
  <2>5. \A k \in DOMAIN stream : \A i \in 1 .. stream[k].id : i \in Nat \ {0}
    BY <1>3
  <2> QED BY <2>1, <2>2, <2>3, <2>4, <2>5 DEF NoOtherLoss, AnswerInv, StreamInv
<1>9. CASE Poll \/ OpenStream
  <2>1. /\ NoteAnswer /\ UNCHANGED <<hubVars, mode, mark, cursor>> /\ shown' = shown
        /\ nextId' = nextId
    BY <1>9 DEF Poll, OpenStream, NoteAnswer, hubVars
  <2>2. /\ Answer \in Answers /\ Answer.latest = LatestId
        /\ told' \in Nat /\ cut' \in Nat /\ told <= told' /\ cut <= cut'
        /\ \A k \in DOMAIN Answer.events : Answer.events[k].id <= LatestId
        /\ \A k, l \in DOMAIN Answer.events :
              k < l => Answer.events[k].id < Answer.events[l].id
        /\ \A i \in 1 .. LatestId : Due(i) => \/ i \in shown \/ i < told' \/ i <= cut'
                                              \/ i \in Ids(Answer.events)
    BY <1>1, <1>2, <2>1, AnswerFacts
  <2>3. \A i \in Nat : (Known(i) => Known(i)') /\ (Due(i)' <=> Due(i))
    BY <1>1, <1>2, <2>1, <2>2, KnownKept
  <2>4. \A i \in 1 .. LatestId : i \in Nat /\ (Due(i)' => Known(i)' \/ i \in Ids(Answer.events))
    <3>1. \A i \in 1 .. LatestId : i \in Nat
      BY <1>2 DEF LatestId
    <3>2. \A i \in 1 .. LatestId : i \in shown \/ i < told' \/ i <= cut' => Known(i)'
      BY <2>1 DEF Known
    <3> QED BY <2>2, <2>3, <3>1, <3>2
  <2>5. NoOtherLoss'
    BY <1>5, <2>1, <2>3 DEF NoOtherLoss
  <2>6. CASE Poll
    <3>1. fetched' = fetched \cup {Answer} /\ stream' = stream
      BY <2>6 DEF Poll
    <3>2. AnswerInv'
      <4>1. \A a \in fetched' : \A i \in 1 .. a.latest : Due(i)' => Known(i)' \/ i \in Ids(a.events)
        <5>1. TAKE a \in fetched'
        <5>2. CASE a \in fetched
          BY <1>5, <2>3, <5>2
        <5>3. CASE a = Answer
          BY <2>2, <2>4, <5>3
        <5> QED BY <3>1, <5>2, <5>3
      <4> QED BY <4>1 DEF AnswerInv
    <3>3. StreamInv'
      BY <1>5, <2>3, <3>1 DEF StreamInv
    <3> QED BY <2>5, <3>2, <3>3
  <2>7. CASE OpenStream
    <3> DEFINE s == Answer.events
    <3>1. fetched' = fetched /\ stream' = s
      BY <2>7 DEF OpenStream
    <3>2. AnswerInv'
      BY <1>5, <2>3, <3>1 DEF AnswerInv
    <3>3. s \in Seq(Events) /\ \A k \in DOMAIN s : k \in Nat \ {0} /\ s[k].id \in Nat
      <4>1. s \in Seq(Events)
        BY <2>2 DEF Answers
      <4>2. \A k \in DOMAIN s : k \in Nat \ {0} /\ s[k] \in Events
        BY <4>1
      <4> QED BY <4>1, <4>2 DEF Events
    <3>4. \A k \in DOMAIN s : \A i \in 1 .. s[k].id :
             Due(i)' => Known(i)' \/ \E l \in 1 .. k : s[l].id = i
      <4> SUFFICES ASSUME NEW k \in DOMAIN s, NEW i \in 1 .. s[k].id, Due(i)', ~Known(i)'
                   PROVE  \E l \in 1 .. k : s[l].id = i
        OBVIOUS
      <4>1. i \in 1 .. LatestId /\ s[k].id \in Nat
        BY <1>2, <2>2, <3>3 DEF LatestId
      <4>2. PICK l \in DOMAIN s : s[l].id = i
        BY <2>4, <4>1 DEF Ids
      <4>3. ~(k < l)
        <5>1. k < l => s[k].id < s[l].id
          BY <2>2
        <5> QED BY <4>1, <4>2, <5>1
      <4>4. l \in 1 .. k
        BY <3>3, <4>3
      <4> QED BY <4>2, <4>4
    <3> HIDE DEF s
    <3>5. StreamInv'
      BY <3>1, <3>4 DEF StreamInv
    <3> QED BY <2>5, <3>2, <3>5
  <2> QED BY <1>9, <2>6, <2>7
<1>10. ASSUME NEW a \in fetched, Apply(a) PROVE NoOtherLoss' /\ AnswerInv' /\ StreamInv'
  <2>1. /\ UNCHANGED <<hubVars, mode, mark, told, cut>> /\ shown' = shown \cup Ids(a.events)
        /\ fetched' \subseteq fetched /\ stream' = stream
    BY <1>10 DEF Apply
  <2>2. \A i \in Nat : (Known(i) => Known(i)') /\ (Due(i)' <=> Due(i))
    BY <1>1, <1>2, <2>1, KnownKept
  <2>3. cursor' \in Nat /\ (cursor' <= cursor \/ cursor' <= a.latest)
    BY <1>10, ApplyFacts
  <2>4. NoOtherLoss'
    <3>1. ASSUME NEW i \in 1 .. cursor', Due(i)' PROVE Known(i)'
      <4>1. i \in 1 .. cursor \/ i \in 1 .. a.latest
        BY <1>2, <1>3, <2>3
      <4>2. CASE i \in 1 .. cursor
        BY <1>5, <2>2, <3>1, <4>2
      <4>3. CASE i \in 1 .. a.latest
        <5>1. Known(i)' \/ i \in Ids(a.events)
          BY <1>5, <2>2, <3>1, <4>3
        <5> QED BY <2>1, <5>1 DEF Known
      <4> QED BY <4>1, <4>2, <4>3
    <3> QED BY <3>1 DEF NoOtherLoss
  <2>5. AnswerInv'
    BY <1>5, <2>1, <2>2 DEF AnswerInv
  <2>6. StreamInv'
    BY <1>5, <2>1, <2>2 DEF StreamInv
  <2> QED BY <2>4, <2>5, <2>6
<1>11. CASE PollFails \/ ResetKey
  <2>1. stream = << >> /\ stream' = stream /\ cursor' = 0 /\ fetched' = {}
    BY <1>11 DEF IInv, TerminalInv, PollFails, ResetKey, StartOver
  <2> QED BY <2>1 DEF NoOtherLoss, AnswerInv, StreamInv
<1>12. CASE StreamNext
  <2>1. /\ UNCHANGED <<hubVars, mode, mark, told, cut, fetched>>
        /\ shown' = shown \cup {stream[1].id} /\ stream' = Tail(stream) /\ stream # << >>
    BY <1>12 DEF StreamNext
  <2>2. \A i \in Nat : (Known(i) => Known(i)') /\ (Due(i)' <=> Due(i))
    BY <1>1, <1>2, <2>1, KnownKept
  <2>3. 1 \in DOMAIN stream /\ stream[1].id \in Nat /\ cursor' \in {cursor, stream[1].id}
    BY <1>1, <1>12, DispatchFacts
  <2>4. \A i \in Nat : i = stream[1].id => Known(i)'
    BY <2>1 DEF Known
  <2>5. NoOtherLoss'
    <3>1. ASSUME NEW i \in 1 .. stream[1].id, Due(i)' PROVE Known(i)'
      <4>1. Known(i)' \/ \E l \in 1 .. 1 : stream[l].id = i
        BY <1>5, <2>2, <2>3, <3>1
      <4> QED BY <2>3, <2>4, <3>1, <4>1
    <3> QED BY <1>5, <2>2, <2>3, <3>1 DEF NoOtherLoss
  <2>6. AnswerInv'
    BY <1>5, <2>1, <2>2 DEF AnswerInv
  <2>7. StreamInv'
    <3>1. ASSUME NEW k \in DOMAIN Tail(stream), NEW i \in 1 .. Tail(stream)[k].id,
                 Due(i)', ~Known(i)'
          PROVE  \E l \in 1 .. k : Tail(stream)[l].id = i
      <4>1. k + 1 \in DOMAIN stream /\ Tail(stream)[k] = stream[k + 1] /\ k \in Nat
            /\ DOMAIN stream = 1 .. Len(stream) /\ Len(stream) \in Nat
        BY <1>2, <2>1, TailFacts
      <4>2. PICK l \in 1 .. k + 1 : stream[l].id = i
        BY <1>5, <2>2, <3>1, <4>1
      <4>3. l # 1
        BY <2>3, <2>4, <3>1, <4>2
      <4>4. l - 1 \in 1 .. k /\ l \in DOMAIN stream
        BY <4>1, <4>3
      <4>5. Tail(stream)[l - 1] = stream[l]
        BY <1>2, <2>1, <4>3, <4>4, TailFacts
      <4> QED BY <4>2, <4>4, <4>5
    <3> QED BY <2>1, <3>1 DEF StreamInv
  <2> QED BY <2>5, <2>6, <2>7
<1>13. CASE CloseStream
  <2>1. /\ UNCHANGED <<hubVars, mode, mark, cursor, fetched, shown, told, cut>>
        /\ stream' = << >>
    BY <1>13 DEF CloseStream, historyVars
  <2>2. \A i \in Nat : (Known(i) => Known(i)') /\ (Due(i)' <=> Due(i))
    BY <1>1, <1>2, <2>1, KnownKept
  <2> QED BY <1>5, <2>1, <2>2 DEF NoOtherLoss, AnswerInv, StreamInv
<1>14. CASE UNCHANGED vars
  <2>1. UNCHANGED <<hubVars, mode, mark, cursor, fetched, stream, shown, told, cut>>
    BY <1>14 DEF vars, clientVars, historyVars
  <2>2. \A i \in Nat : (Known(i) => Known(i)') /\ (Due(i)' <=> Due(i))
    BY <1>1, <1>2, <2>1, KnownKept
  <2> QED BY <1>6, <2>1, <2>2
<1> QED BY <1>7, <1>8, <1>9, <1>10, <1>11, <1>12, <1>13, <1>14 DEF Next, ApplyAny

\* Each action leaves the terminal client with one answer at most, made for its cursor.
LEMMA TerminalStep == IInv /\ [Next]_vars => TerminalInv'
<1> SUFFICES ASSUME IInv, [Next]_vars, mode' # "page"
             PROVE  /\ stream' = << >>
                    /\ \A a, b \in fetched' : a = b
                    /\ mode' = "gone" => fetched' = {}
                    /\ \A a \in fetched' :
                          /\ \A k \in DOMAIN a.events : cursor' < a.events[k].id
                          /\ a.overflowed => cursor' < a.oldest
                    /\ \A n \in shown' : n <= cursor'
  BY DEF TerminalInv
<1>1. TypeOK /\ HubInv /\ BoundInv /\ NoOtherLoss /\ TerminalInv
  BY DEF IInv
<1>2. /\ cursor \in Nat /\ told \in Nat /\ cut \in Nat /\ shown \subseteq Nat
      /\ stream \in Seq(Events)
  BY <1>1 DEF TypeOK
<1>3. mode # "page"
  BY DEF Next, PublishEvent, RestartServer, Poll, ApplyAny, Apply, PollFails, ResetKey, OpenStream,
         StreamNext, CloseStream, vars, clientVars
<1>4. /\ stream = << >> /\ \A a, b \in fetched : a = b
      /\ mode = "gone" => fetched = {}
      /\ \A a \in fetched : /\ \A k \in DOMAIN a.events : cursor < a.events[k].id
                            /\ a.overflowed => cursor < a.oldest
      /\ \A n \in shown : n <= cursor
  BY <1>1, <1>3 DEF TerminalInv
<1>5. CASE UNCHANGED <<mode, cursor, fetched, stream, shown>>
  BY <1>4, <1>5
<1>6. CASE (\E t \in Topics : PublishEvent(t)) \/ RestartServer \/ UNCHANGED vars
  <2>1. UNCHANGED <<mode, cursor, fetched, stream, shown>>
    BY <1>6 DEF PublishEvent, RestartServer, vars, clientVars, historyVars
  <2> QED BY <1>5, <2>1
<1>7. CASE Poll
  <2>1. NoteAnswer /\ UNCHANGED <<mode, cursor, stream, shown>> /\ mode # "gone"
        /\ fetched' = fetched \cup {Answer} /\ Cardinality(fetched) < 1
    BY <1>3, <1>7 DEF Poll, NoteAnswer
  <2>2. fetched = {}
    <3>1. IsFiniteSet(fetched)
      BY <1>1 DEF BoundInv
    <3>2. Cardinality(fetched) = 0
      <4>1. Cardinality(fetched) \in Nat
        BY <3>1, FS_CardinalityType
      <4> QED BY <2>1, <4>1
    <3> QED BY <3>1, <3>2, FS_EmptySet
  <2>3. /\ \A k \in DOMAIN Answer.events : cursor < Answer.events[k].id
        /\ Answer.overflowed => cursor < Answer.oldest
    BY <1>1, <1>2, <2>1, AnswerFacts
  <2>4. \A a \in fetched' : a = Answer
    BY <2>1, <2>2
  <2> QED BY <1>4, <2>1, <2>3, <2>4
<1>8. ASSUME NEW a \in fetched, Apply(a)
      PROVE  /\ fetched' = {} /\ stream' = << >> /\ \A n \in shown' : n <= cursor'
  <2>1. fetched' = {} /\ stream' = stream /\ shown' = shown \cup Ids(a.events)
    BY <1>4, <1>8 DEF Apply
  <2>2. /\ cursor' \in Nat /\ cursor <= cursor'
        /\ \A k \in DOMAIN a.events : a.events[k].id <= cursor'
    BY <1>8, ApplyFacts
  <2>3. \A n \in shown : n <= cursor'
    BY <1>2, <1>4, <2>2
  <2>4. \A n \in Ids(a.events) : n <= cursor'
    BY <2>2 DEF Ids
  <2> QED BY <1>4, <2>1, <2>3, <2>4
<1>9. CASE PollFails \/ ResetKey
  BY <1>4, <1>9 DEF PollFails, ResetKey, StartOver
<1>10. ~OpenStream /\ ~StreamNext /\ ~CloseStream
  BY <1>3, <1>4 DEF OpenStream, StreamNext, CloseStream
<1> QED BY <1>6, <1>7, <1>8, <1>9, <1>10 DEF Next, ApplyAny

\* Each action keeps the invariant.
LEMMA StepIInv == IInv /\ [Next]_vars => IInv'
  BY HubStep, TypeStep, BoundStep, LossStep, TerminalStep DEF IInv

\* The invariant holds in every state the server and the client can reach.
THEOREM Invariance == Spec => []IInv
  BY InitIInv, StepIInv, PTL DEF Spec

\* Every variable of the hub and of the client keeps the kind of value the code gives it,
\* for any number of answers under way.
THEOREM TypeCorrect == Spec => []TypeOK
<1>1. IInv => TypeOK
  BY DEF IInv
<1> QED BY <1>1, Invariance, PTL

\* A cursor of the page or of the terminal client passes no event but those it has shown,
\* that overflowed reported lost, or that the limit cut off: in whatever order answers
\* arrive, and whatever happens to streams and servers meanwhile.
THEOREM NothingElseLost == Spec => []NoOtherLoss
<1>1. IInv => NoOtherLoss
  BY DEF IInv
<1> QED BY <1>1, Invariance, PTL

\* The terminal client shows no event twice before it starts over.
THEOREM NeverShownTwice == Spec => ShownOnce
<1>1. ASSUME IInv, NEW a \in fetched, mode # "page"
      PROVE  Ids(a.events) \cap shown = {}
  <2>1. /\ \A k \in DOMAIN a.events : cursor < a.events[k].id
        /\ \A n \in shown : n <= cursor
    BY <1>1 DEF IInv, TerminalInv
  <2>2. /\ cursor \in Nat /\ shown \subseteq Nat
        /\ \A k \in DOMAIN a.events : a.events[k].id \in Nat
    BY <1>1, ReceivedFacts DEF IInv, TypeOK
  <2>3. \A k \in DOMAIN a.events : a.events[k].id \notin shown
    BY <2>1, <2>2
  <2> QED BY <2>3 DEF Ids
<1>2. IInv /\ [Next]_vars =>
        [\A a \in fetched : mode # "page" /\ Apply(a) => Ids(a.events) \cap shown = {}]_vars
  BY <1>1
<1> QED BY <1>2, Invariance, PTL DEF Spec, ShownOnce

\* No answer, no event of a stream and no restart of the server moves a cursor back.
THEOREM CursorOnlyForward == Spec => CursorNeverBack
<1>1. ASSUME IInv, Next, cursor' < cursor PROVE PollFails \/ ResetKey
  <2>1. cursor \in Nat
    BY <1>1 DEF IInv, TypeOK
  <2>2. cursor' # cursor
    BY <1>1, <2>1
  <2>3. ~StreamNext
    <3>1. StreamNext => cursor' \in Nat /\ cursor <= cursor'
      BY <1>1, DispatchFacts DEF IInv
    <3> QED BY <1>1, <2>1, <3>1
  <2>4. ASSUME NEW a \in fetched, Apply(a) PROVE FALSE
    <3>1. cursor' \in Nat /\ cursor <= cursor'
      BY <1>1, <2>4, ApplyFacts
    <3> QED BY <1>1, <2>1, <3>1
  <2>5. /\ ~(\E t \in Topics : PublishEvent(t)) /\ ~RestartServer
        /\ ~Poll /\ ~OpenStream /\ ~CloseStream
    BY <2>2 DEF PublishEvent, RestartServer, Poll, OpenStream, CloseStream, clientVars
  <2> QED BY <1>1, <2>3, <2>4, <2>5 DEF Next, ApplyAny
<1>2. IInv /\ [Next]_vars => [cursor' < cursor => PollFails \/ ResetKey]_vars
  BY <1>1
<1> QED BY <1>2, Invariance, PTL DEF Spec, CursorNeverBack
=============================================================================
