------------------------- MODULE ClientHandlerProofs -------------------------
(***************************************************************************)
(* Proofs that the threadpool engine's handler answers the requests of a   *)
(* connection in order, with a 100 Continue at its place, counts them,     *)
(* gives each to the dispatcher with the body that was meant, and refuses  *)
(* none without a cause: for every set of messages, every limit and every  *)
(* way the bytes arrive.                                                   *)
(*                                                                         *)
(* First the decoders: the loops over the chunks are functions of a place  *)
(* in the bytes that call themselves for a later place.  RecursionExists   *)
(* says that there is such a function, SetInduction carries a fact from    *)
(* chunk to chunk.  ExtractFinds and FromBytesFinds are what is known of   *)
(* them then.  Two invariants follow: IInv, of the wire, which uses none   *)
(* of it, and StreamInv, of the bytes, which rests on it.                  *)
(***************************************************************************)
EXTENDS ClientHandler, SequenceFacts

(***************************************************************************)
(* Sequences one after the other.                                          *)
(***************************************************************************)

\* A function on 1 .. n is a sequence of n elements.
LEMMA FunctionIsSequence ==
    ASSUME NEW S, NEW n \in Nat, NEW s \in [1 .. n -> S]
    PROVE  s \in Seq(S) /\ Len(s) = n /\ DOMAIN s = 1 .. n
  OBVIOUS

\* g[i] is what FlattenSeq makes of the first i sequences of s.
Flattens(g, T, n, s) ==
    /\ g \in [1 .. n -> Seq(T)]
    /\ \A i \in 1 .. n : g[i] = IF i = 1 THEN s[i] ELSE g[i - 1] \o s[i]
    /\ FlattenSeq(s) = g[n]

\* FlattenSeq goes from each sequence to the next.
LEMMA FlattenRecursion ==
    ASSUME NEW T, NEW n \in Nat \ {0}, NEW s \in [1 .. n -> Seq(T)]
    PROVE  \E g : Flattens(g, T, n, s)
  <1> DEFINE X == 1 .. n
             V == Seq(T)
             rank == [i \in X |-> n - i]
             stop == [i \in X |-> i = 1]
             prev == [i \in X |-> i - 1]
             use == [i \in X |-> [v \in V |-> v \o s[i]]]
             Rec(g) == [i \in X |-> IF i = 1 THEN s[i] ELSE g[i - 1] \o s[i]]
  <1>1. Len(s) = n /\ s \in [X -> V]
    BY FunctionIsSequence
  <1>2. \A a, b \in V : a \o b \in V
    OBVIOUS
  <1>3. rank \in [X -> 0 .. n]
    OBVIOUS
  <1>4. use \in [X -> [V -> V]]
    <2> HIDE DEF V
    <2>1. QED
      BY <1>1, <1>2
  <1>s. \A i \in X : stop[i] <=> i = 1
    BY Zenon
  <1>p. \A i \in X : i # 1 => prev[i] = i - 1 /\ i - 1 \in X
    OBVIOUS
  <1>r. \A i \in X : rank[i] = n - i
    OBVIOUS
  <1>5. \A i \in X : ~stop[i] => prev[i] \in X /\ rank[i] < rank[prev[i]]
    <2> HIDE DEF rank, stop, prev
    <2> SUFFICES ASSUME NEW i \in X, i # 1 PROVE prev[i] \in X /\ rank[i] < rank[prev[i]]
      BY <1>s
    <2>1. rank[i - 1] = n - (i - 1) /\ rank[i] = n - i /\ prev[i] = i - 1 /\ i - 1 \in X
      BY <1>p, <1>r
    <2>2. n - i < n - (i - 1)
      OBVIOUS
    <2>3. QED
      BY <2>1, <2>2
  <1> HIDE DEF rank, use, stop, prev, V
  <1>6. PICK f \in [X -> V] : \A i \in X : f[i] = IF stop[i] THEN s[i] ELSE use[i][f[prev[i]]]
    <2>1. Recursion(n, X, V, rank, stop, s, prev, use)
      BY <1>1, <1>3, <1>4, <1>5 DEF Recursion
    <2>2. PICK f : Recurs(f, X, V, stop, s, prev, use)
      BY <2>1, RecursionExists
    <2>3. QED
      BY <2>2 DEF Recurs
  <1>7. \A i \in X : f[i] = IF i = 1 THEN s[i] ELSE f[i - 1] \o s[i]
    <2> SUFFICES ASSUME NEW i \in X PROVE f[i] = IF i = 1 THEN s[i] ELSE f[i - 1] \o s[i]
      OBVIOUS
    <2>1. CASE i = 1
      BY <1>6, <2>1 DEF stop
    <2>2. CASE i # 1
      <3>1. prev[i] = i - 1 /\ i - 1 \in X /\ ~stop[i]
        BY <2>2, <1>s, <1>p
      <3>2. f[i - 1] \in V
        BY <3>1
      <3>3. use[i][f[i - 1]] = f[i - 1] \o s[i]
        BY <3>2 DEF use
      <3>4. QED
        BY <1>6, <2>2, <3>1, <3>3
    <2>3. QED
      BY <2>1, <2>2
  <1>8. f = Rec(f)
    BY <1>7
  <1>9. PICK g : g = Rec(g) /\ FlattenSeq(s) = g[n]
    <2>1. \E g : g = Rec(g)
      BY <1>8
    <2>2. (CHOOSE g : g = Rec(g)) = Rec(CHOOSE g : g = Rec(g))
      BY <2>1
    <2>3. FlattenSeq(s) = (CHOOSE g : g = Rec(g))[n]
      BY <1>1 DEF FlattenSeq
    <2>4. QED
      BY <2>2, <2>3
  <1>10. \A i \in X : g[i] = IF i = 1 THEN s[i] ELSE g[i - 1] \o s[i]
    BY <1>9
  <1>11. \A i \in X : g[i] = f[i]
    <2> DEFINE A == {k \in 0 .. n : k > 0 => g[k] = f[k]}
    <2>1. 0 \in A
      OBVIOUS
    <2>2. ASSUME NEW k \in 0 .. n - 1, k \in A PROVE k + 1 \in A
      <3>1. k + 1 \in X /\ (k + 1) - 1 = k /\ (k + 1 # 1 => k > 0)
        OBVIOUS
      <3>2. g[k + 1] = IF k + 1 = 1 THEN s[k + 1] ELSE g[k] \o s[k + 1]
        BY <1>10, <3>1
      <3>3. f[k + 1] = IF k + 1 = 1 THEN s[k + 1] ELSE f[k] \o s[k + 1]
        BY <1>7, <3>1
      <3>4. g[k + 1] = f[k + 1]
        BY <2>2, <3>1, <3>2, <3>3
      <3>5. QED
        BY <3>4
    <2>3. ASSUME NEW i \in X PROVE i \in A
      <3> HIDE DEF A
      <3>1. \A k \in 0 .. i - 1 : k \in A => k + 1 \in A
        <4>1. 0 .. i - 1 \subseteq 0 .. n - 1
          OBVIOUS
        <4>2. QED
          BY <2>2, <4>1
      <3>2. QED
        BY <2>1, <3>1, SetInduction
    <2>4. QED
      BY <2>3
  <1>12. FlattenSeq(s) = f[n]
    <2>1. n \in X
      OBVIOUS
    <2>2. QED
      BY <1>9, <1>11, <2>1, Zenon
  <1>13. QED
    BY <1>7, <1>12 DEF V, Flattens

\* FlattenSeq adds the last sequence to what it makes of the ones before it.
LEMMA FlattenLast ==
    ASSUME NEW T, NEW n \in Nat, NEW s \in [1 .. n -> Seq(T)]
    PROVE  /\ FlattenSeq(s) \in Seq(T)
           /\ n = 0 => FlattenSeq(s) = << >>
           /\ n > 0 => FlattenSeq(s) = FlattenSeq([i \in 1 .. n - 1 |-> s[i]]) \o s[n]
  <1>1. Len(s) = n /\ DOMAIN s = 1 .. n
    BY FunctionIsSequence
  <1>2. CASE n = 0
    <2>1. s = << >>
      BY <1>2
    <2>2. FlattenSeq(s) = << >>
      BY <1>1, <1>2, <2>1 DEF FlattenSeq
    <2>3. QED
      BY <1>2, <2>2
  <1>3. CASE n > 0
    <2> DEFINE h == [i \in 1 .. n - 1 |-> s[i]]
    <2>0. n \in Nat \ {0}
      BY <1>3
    <2>1. PICK g \in [1 .. n -> Seq(T)] :
             /\ \A i \in 1 .. n : g[i] = IF i = 1 THEN s[i] ELSE g[i - 1] \o s[i]
             /\ FlattenSeq(s) = g[n]
      <3>1. PICK g : Flattens(g, T, n, s)
        BY <2>0, FlattenRecursion
      <3>2. QED
        BY <3>1 DEF Flattens
    <2>2. FlattenSeq(s) \in Seq(T)
      BY <1>3, <2>1
    <2>3. CASE n = 1
      <3>1. FlattenSeq(h) = << >>
        <4>1. h = << >> /\ Len(h) = 0
          BY <2>3
        <4>2. QED
          BY <4>1 DEF FlattenSeq
      <3>2. << >> \o s[1] = s[1]
        BY <2>3
      <3>3. QED
        BY <2>1, <2>2, <2>3, <3>1, <3>2
    <2>4. CASE n # 1
      <3>1. n - 1 \in Nat \ {0} /\ h \in [1 .. n - 1 -> Seq(T)]
        BY <1>3, <2>4
      <3>2. PICK f \in [1 .. n - 1 -> Seq(T)] :
               /\ \A i \in 1 .. n - 1 : f[i] = IF i = 1 THEN h[i] ELSE f[i - 1] \o h[i]
               /\ FlattenSeq(h) = f[n - 1]
        <4> HIDE DEF h
        <4>1. PICK f : Flattens(f, T, n - 1, h)
          BY <3>1, FlattenRecursion
        <4>2. QED
          BY <4>1 DEF Flattens
      <3>3. \A i \in 1 .. n - 1 : f[i] = IF i = 1 THEN s[i] ELSE f[i - 1] \o s[i]
        BY <3>2
      <3>4. g[n - 1] = f[n - 1]
        <4> DEFINE A == {k \in 0 .. n : k > 0 => g[k] = f[k]}
        <4>1. 0 \in A
          OBVIOUS
        <4>2. ASSUME NEW k \in 0 .. (n - 1) - 1, k \in A PROVE k + 1 \in A
          <5>1. k + 1 \in 1 .. n - 1 /\ k + 1 \in 1 .. n /\ (k + 1) - 1 = k /\ (k + 1 # 1 => k > 0)
            BY <3>1
          <5>2. g[k + 1] = IF k + 1 = 1 THEN s[k + 1] ELSE g[k] \o s[k + 1]
            BY <2>1, <5>1
          <5>3. f[k + 1] = IF k + 1 = 1 THEN s[k + 1] ELSE f[k] \o s[k + 1]
            BY <3>3, <5>1
          <5>4. g[k + 1] = f[k + 1]
            BY <4>2, <5>1, <5>2, <5>3
          <5>5. QED
            BY <5>1, <5>4
        <4> HIDE DEF A
        <4>3. n - 1 \in A
          BY <3>1, <4>1, <4>2, SetInduction
        <4>4. QED
          BY <3>1, <4>3 DEF A
      <3>5. g[n] = g[n - 1] \o s[n]
        <4>1. n \in 1 .. n
          BY <1>3
        <4>2. g[n] = IF n = 1 THEN s[n] ELSE g[n - 1] \o s[n]
          BY <2>1, <4>1, Zenon
        <4>3. QED
          BY <2>4, <4>2
      <3>6. QED
        <4>1. FlattenSeq(s) = FlattenSeq(h) \o s[n]
          BY <2>1, <3>2, <3>4, <3>5, Zenon
        <4>2. QED
          BY <1>3, <2>2, <4>1
    <2>5. QED
      BY <2>3, <2>4
  <1>4. QED
    BY <1>2, <1>3

\* The same from the other end: the first sequence, and then what is made of the others.
LEMMA FlattenFirst ==
    ASSUME NEW T, NEW n \in Nat, n > 0, NEW s \in [1 .. n -> Seq(T)]
    PROVE  FlattenSeq(s) = s[1] \o FlattenSeq([i \in 1 .. n - 1 |-> s[i + 1]])
  <1> DEFINE Tails(k, r) == [i \in 1 .. k |-> r[i + 1]]
             Heads(k, r) == [i \in 1 .. k |-> r[i]]
             A == {k \in 0 .. n - 1 : \A r \in [1 .. k + 1 -> Seq(T)] :
                      FlattenSeq(r) = r[1] \o FlattenSeq(Tails(k, r))}
  <1>1. ASSUME NEW k \in Nat, NEW r \in [1 .. k + 1 -> Seq(T)]
        PROVE  /\ FlattenSeq(r) = FlattenSeq(Heads(k, r)) \o r[k + 1]
               /\ Heads(k, r) \in [1 .. k -> Seq(T)] /\ Tails(k, r) \in [1 .. k -> Seq(T)]
               /\ FlattenSeq(Heads(k, r)) \in Seq(T) /\ FlattenSeq(Tails(k, r)) \in Seq(T)
               /\ r[1] \in Seq(T) /\ r[k + 1] \in Seq(T)
               /\ k = 0 => FlattenSeq(Heads(k, r)) = << >> /\ FlattenSeq(Tails(k, r)) = << >>
    <2>1. k + 1 \in Nat /\ (k + 1) - 1 = k /\ k + 1 > 0
      OBVIOUS
    <2>2. Heads(k, r) \in [1 .. k -> Seq(T)] /\ Tails(k, r) \in [1 .. k -> Seq(T)]
      OBVIOUS
    <2>3. r[1] \in Seq(T) /\ r[k + 1] \in Seq(T)
      OBVIOUS
    <2>4. FlattenSeq(r) = FlattenSeq([i \in 1 .. (k + 1) - 1 |-> r[i]]) \o r[k + 1]
      BY <2>1, FlattenLast
    <2>5. FlattenSeq(r) = FlattenSeq(Heads(k, r)) \o r[k + 1]
      BY <2>1, <2>4
    <2> HIDE DEF Heads, Tails
    <2>6. QED
      BY <2>2, <2>3, <2>5, FlattenLast
  <1>2. 0 \in A
    <2>1. ASSUME NEW r \in [1 .. 0 + 1 -> Seq(T)]
          PROVE  FlattenSeq(r) = r[1] \o FlattenSeq(Tails(0, r))
      <3>1. /\ FlattenSeq(r) = << >> \o r[1] /\ FlattenSeq(Tails(0, r)) = << >>
            /\ r[1] \in Seq(T)
        <4> HIDE DEF Heads, Tails
        <4>1. 0 \in Nat /\ 0 + 1 = 1
          OBVIOUS
        <4>2. QED
          BY <1>1, <4>1
      <3>2. << >> \o r[1] = r[1] /\ r[1] \o << >> = r[1]
        BY <3>1
      <3>3. QED
        BY <3>1, <3>2, Zenon
    <2>2. 0 \in 0 .. n - 1
      OBVIOUS
    <2> HIDE DEF Heads, Tails
    <2>3. QED
      BY <2>1, <2>2
  <1>3. ASSUME NEW k \in 0 .. (n - 1) - 1, k \in A PROVE k + 1 \in A
    <2>1. k \in Nat /\ k + 1 \in Nat /\ k + 1 \in 0 .. n - 1
      OBVIOUS
    <2>2. ASSUME NEW r \in [1 .. (k + 1) + 1 -> Seq(T)]
          PROVE  FlattenSeq(r) = r[1] \o FlattenSeq(Tails(k + 1, r))
      <3> DEFINE h == Heads(k + 1, r)
                 t == Tails(k + 1, r)
      <3>1. /\ FlattenSeq(r) = FlattenSeq(h) \o r[(k + 1) + 1]
            /\ h \in [1 .. k + 1 -> Seq(T)] /\ t \in [1 .. k + 1 -> Seq(T)]
            /\ r[1] \in Seq(T) /\ r[(k + 1) + 1] \in Seq(T)
        <4> HIDE DEF Heads, Tails
        <4>1. QED
          BY <1>1, <2>1
      <3>2. h[1] = r[1] /\ t[k + 1] = r[(k + 1) + 1] /\ Tails(k, h) = Heads(k, t)
        BY <2>1
      <3> HIDE DEF h, t, Tails, Heads
      <3>3. FlattenSeq(h) = h[1] \o FlattenSeq(Tails(k, h))
        BY <1>3, <3>1
      <3>4. FlattenSeq(t) = FlattenSeq(Heads(k, t)) \o t[k + 1]
        BY <1>1, <2>1, <3>1
      <3>5. FlattenSeq(Heads(k, t)) \in Seq(T)
        BY <1>1, <2>1, <3>1
      <3>6. ASSUME NEW a \in Seq(T), NEW b \in Seq(T), NEW c \in Seq(T)
            PROVE  (a \o b) \o c = a \o (b \o c)
        BY ConcatAssociative, SMTT(30)
      <3>7. /\ (r[1] \o FlattenSeq(Heads(k, t))) \o r[(k + 1) + 1]
               = r[1] \o (FlattenSeq(Heads(k, t)) \o r[(k + 1) + 1])
        BY <3>1, <3>5, <3>6
      <3>8. FlattenSeq(r) = r[1] \o FlattenSeq(t)
        BY <3>1, <3>2, <3>3, <3>4, <3>7, Zenon
      <3>9. QED
        BY <3>8 DEF t
    <2> HIDE DEF Heads, Tails
    <2>3. QED
      BY <2>1, <2>2
  <1> HIDE DEF A
  <1>4. n - 1 \in A
    <2>1. n - 1 \in Nat
      OBVIOUS
    <2>2. QED
      BY <1>2, <1>3, <2>1, SetInduction
  <1>5. (n - 1) + 1 = n
    OBVIOUS
  <1>6. QED
    BY <1>4, <1>5 DEF A

-----------------------------------------------------------------------------
(***************************************************************************)
(* What is on the wire.                                                    *)
(***************************************************************************)

\* The units that messages are made of.
Units ==
    [type : {"line", "end", "size", "crlf", "trailer", "junk", "over", "back"}, of : Nat, n : Nat]
    \cup [type : {"data"}, of : Nat, part : Nat, at : Nat]
    \cup [type : {"head"}, of : Nat, head : Messages]

Chunked(m) == m.framing \in {"chunked", "both"}

\* What the first j parts of a message are, plain and in chunks.
DataUpTo(i, m, j) == FlattenSeq([p \in 1 .. j |-> Data(i, m, p)])
ChunksUpTo(i, m, j) == FlattenSeq([p \in 1 .. j |-> Chunk(i, m, p)])

\* The parts of a message are sequences of units, as long as the message says.
LEMMA PartFacts ==
    ASSUME NEW i \in Nat, NEW m \in Messages, NEW p \in DOMAIN m.parts
    PROVE  /\ DOMAIN m.parts = 1 .. Len(m.parts) /\ Len(m.parts) \in Nat /\ p \in Nat
           /\ m.parts[p] \in Nat \ {0}
           /\ Data(i, m, p) \in Seq(Units) /\ Len(Data(i, m, p)) = m.parts[p]
           /\ Chunk(i, m, p) \in Seq(Units) /\ Len(Chunk(i, m, p)) = m.parts[p] + 2
           /\ Chunk(i, m, p)[1] = Unit(Marked("size", m), i, m.parts[p])
           /\ \A q \in 1 .. m.parts[p] : Chunk(i, m, p)[q + 1] = Data(i, m, p)[q]
           /\ Chunk(i, m, p)[m.parts[p] + 2] = Unit(Marked("crlf", m), i, 0)
  <1> DEFINE n == m.parts[p]
             size == Unit(Marked("size", m), i, n)
             crlf == Unit(Marked("crlf", m), i, 0)
             data == Data(i, m, p)
  <1>1. m.parts \in Seq(Nat \ {0})
    BY MessageAssumption
  <1>2. DOMAIN m.parts = 1 .. Len(m.parts) /\ Len(m.parts) \in Nat /\ p \in Nat /\ n \in Nat \ {0}
    BY <1>1
  <1>4. size \in Units /\ crlf \in Units
    <2>1. Marked("size", m) \in {"size", "junk"} /\ Marked("crlf", m) \in {"crlf", "junk"}
      BY DEF Marked
    <2>2. QED
      BY <1>2, <2>1 DEF Unit, Units
  <1>5. data \in Seq(Units) /\ Len(data) = n
    <2>1. \A j \in 1 .. n : [type |-> "data", of |-> i, part |-> p, at |-> j] \in Units
      BY <1>2 DEF Units
    <2> HIDE DEF n
    <2>2. data \in [1 .. n -> Units]
      BY <2>1 DEF Data, n
    <2>3. n \in Nat
      BY <1>2
    <2> HIDE DEF data
    <2>4. QED
      BY <2>2, <2>3, FunctionIsSequence
  <1> HIDE DEF n, size, crlf, data
  <1>6. Chunk(i, m, p) = <<size>> \o data \o <<crlf>>
    BY DEF Chunk, size, data, crlf, n
  <1>7. /\ <<size>> \o data \o <<crlf>> \in Seq(Units)
        /\ Len(<<size>> \o data \o <<crlf>>) = n + 2
        /\ (<<size>> \o data \o <<crlf>>)[1] = size
        /\ \A q \in 1 .. n : (<<size>> \o data \o <<crlf>>)[q + 1] = data[q]
        /\ (<<size>> \o data \o <<crlf>>)[n + 2] = crlf
    BY <1>2, <1>4, <1>5
  <1>8. QED
    BY <1>2, <1>5, <1>6, <1>7 DEF n, size, crlf, data

\* Each part adds to the parts before it what it is long.
LEMMA UpToFacts ==
    ASSUME NEW i \in Nat, NEW m \in Messages, NEW j \in 0 .. Len(m.parts)
    PROVE  /\ DataUpTo(i, m, j) \in Seq(Units) /\ ChunksUpTo(i, m, j) \in Seq(Units)
           /\ j = 0 => DataUpTo(i, m, j) = << >> /\ ChunksUpTo(i, m, j) = << >>
           /\ j > 0 => /\ DataUpTo(i, m, j) = DataUpTo(i, m, j - 1) \o Data(i, m, j)
                       /\ ChunksUpTo(i, m, j) = ChunksUpTo(i, m, j - 1) \o Chunk(i, m, j)
  <1> DEFINE data == [p \in 1 .. j |-> Data(i, m, p)]
             chunks == [p \in 1 .. j |-> Chunk(i, m, p)]
  <1>1. j \in Nat /\ DOMAIN m.parts = 1 .. Len(m.parts) /\ 1 .. j \subseteq DOMAIN m.parts
    BY MessageAssumption
  <1>2. data \in [1 .. j -> Seq(Units)] /\ chunks \in [1 .. j -> Seq(Units)]
    BY <1>1, PartFacts
  <1>3. /\ j > 0 => [p \in 1 .. j - 1 |-> data[p]] = [p \in 1 .. j - 1 |-> Data(i, m, p)]
        /\ j > 0 => [p \in 1 .. j - 1 |-> chunks[p]] = [p \in 1 .. j - 1 |-> Chunk(i, m, p)]
        /\ j > 0 => data[j] = Data(i, m, j) /\ chunks[j] = Chunk(i, m, j)
    BY <1>1
  <1> HIDE DEF data, chunks
  <1>4. /\ FlattenSeq(data) \in Seq(Units)
        /\ j = 0 => FlattenSeq(data) = << >>
        /\ j > 0 => FlattenSeq(data) = FlattenSeq([p \in 1 .. j - 1 |-> data[p]]) \o data[j]
    BY <1>1, <1>2, FlattenLast
  <1>5. /\ FlattenSeq(chunks) \in Seq(Units)
        /\ j = 0 => FlattenSeq(chunks) = << >>
        /\ j > 0 => FlattenSeq(chunks) = FlattenSeq([p \in 1 .. j - 1 |-> chunks[p]]) \o chunks[j]
    BY <1>1, <1>2, FlattenLast
  <1>6. DataUpTo(i, m, j) = FlattenSeq(data) /\ ChunksUpTo(i, m, j) = FlattenSeq(chunks)
    BY DEF DataUpTo, ChunksUpTo, data, chunks
  <1>7. j > 0 => /\ DataUpTo(i, m, j) = DataUpTo(i, m, j - 1) \o Data(i, m, j)
                 /\ ChunksUpTo(i, m, j) = ChunksUpTo(i, m, j - 1) \o Chunk(i, m, j)
    BY <1>3, <1>4, <1>5, <1>6, Zenon DEF DataUpTo, ChunksUpTo
  <1>8. QED
    BY <1>4, <1>5, <1>6, <1>7

\* How long the parts are depends on the message alone, and they only get longer.
LEMMA LengthFacts ==
    ASSUME NEW i \in Nat, NEW m \in Messages, NEW j \in 0 .. Len(m.parts)
    PROVE  /\ Len(DataUpTo(i, m, j)) = Len(DataUpTo(1, m, j))
           /\ Len(ChunksUpTo(i, m, j)) = Len(ChunksUpTo(1, m, j))
           /\ Len(DataUpTo(i, m, j)) \in Nat /\ Len(ChunksUpTo(i, m, j)) \in Nat
           /\ j = 0 => Len(DataUpTo(i, m, j)) = 0 /\ Len(ChunksUpTo(i, m, j)) = 0
           /\ j > 0 => /\ Len(DataUpTo(i, m, j)) = Len(DataUpTo(i, m, j - 1)) + m.parts[j]
                       /\ Len(ChunksUpTo(i, m, j)) = Len(ChunksUpTo(i, m, j - 1)) + m.parts[j] + 2
  <1> DEFINE n == Len(m.parts)
             D(l, k) == Len(DataUpTo(l, m, k))
             C(l, k) == Len(ChunksUpTo(l, m, k))
             S == {k \in 0 .. n : D(i, k) = D(1, k) /\ C(i, k) = C(1, k)}
  <1>1. n \in Nat /\ DOMAIN m.parts = 1 .. n
    BY MessageAssumption
  <1>2. ASSUME NEW l \in Nat, NEW k \in 0 .. n
        PROVE  /\ D(l, k) \in Nat /\ C(l, k) \in Nat
               /\ k = 0 => D(l, k) = 0 /\ C(l, k) = 0
               /\ k > 0 => /\ D(l, k) = D(l, k - 1) + m.parts[k]
                           /\ C(l, k) = C(l, k - 1) + m.parts[k] + 2
    <2>1. DataUpTo(l, m, k) \in Seq(Units) /\ ChunksUpTo(l, m, k) \in Seq(Units)
      BY <1>1, UpToFacts
    <2>2. CASE k = 0
      <3>1. DataUpTo(l, m, k) = << >> /\ ChunksUpTo(l, m, k) = << >>
        BY <1>1, <2>2, UpToFacts
      <3>2. QED
        BY <2>2, <3>1
    <2>3. CASE k > 0
      <3> DEFINE a == DataUpTo(l, m, k - 1)
                 b == ChunksUpTo(l, m, k - 1)
                 d == Data(l, m, k)
                 c == Chunk(l, m, k)
      <3>1. k \in DOMAIN m.parts /\ k - 1 \in 0 .. n
        BY <1>1, <2>3
      <3>2. DataUpTo(l, m, k) = a \o d /\ ChunksUpTo(l, m, k) = b \o c
        BY <1>1, <2>3, UpToFacts
      <3>3. a \in Seq(Units) /\ b \in Seq(Units)
        BY <3>1, UpToFacts
      <3>4. /\ d \in Seq(Units) /\ c \in Seq(Units) /\ m.parts[k] \in Nat
            /\ Len(d) = m.parts[k] /\ Len(c) = m.parts[k] + 2
        <4>1. m.parts[k] \in Nat
          BY <3>1, PartFacts
        <4>2. d \in Seq(Units) /\ Len(d) = m.parts[k]
          BY <3>1, PartFacts
        <4>3. c \in Seq(Units) /\ Len(c) = m.parts[k] + 2
          BY <3>1, PartFacts
        <4>4. QED
          BY <4>1, <4>2, <4>3
      <3> HIDE DEF a, b, d, c
      <3>5. /\ Len(a \o d) = Len(a) + Len(d) /\ Len(b \o c) = Len(b) + Len(c)
            /\ Len(a) \in Nat /\ Len(b) \in Nat
        <4>1. a \in Seq(Units) /\ d \in Seq(Units)
          BY <3>3, <3>4
        <4>2. b \in Seq(Units) /\ c \in Seq(Units)
          BY <3>3, <3>4
        <4>3. Len(a \o d) = Len(a) + Len(d) /\ Len(a) \in Nat
          BY ONLY <4>1
        <4>4. Len(b \o c) = Len(b) + Len(c) /\ Len(b) \in Nat
          BY ONLY <4>2
        <4>5. QED
          BY <4>3, <4>4, Zenon
      <3>6. D(l, k) = Len(a) + m.parts[k] /\ C(l, k) = Len(b) + m.parts[k] + 2
        <4>1. D(l, k) = Len(a) + Len(d) /\ C(l, k) = Len(b) + Len(c)
          BY <3>2, <3>5, Zenon
        <4>2. Len(b) \in Nat /\ m.parts[k] \in Nat
          BY <3>4, <3>5, Zenon
        <4>3. Len(b) + (m.parts[k] + 2) = Len(b) + m.parts[k] + 2
          BY ONLY <4>2
        <4>4. QED
          BY <3>4, <4>1, <4>3, Zenon
      <3>7. D(l, k) \in Nat /\ C(l, k) \in Nat
        BY <3>4, <3>5, <3>6
      <3>8. QED
        BY <2>3, <3>6, <3>7 DEF a, b
    <2>4. QED
      BY <2>2, <2>3
  <1> HIDE DEF D, C, n
  <1>3. j \in S
    <2>1. 0 \in S
      <3>1. 0 \in 0 .. n /\ 1 \in Nat
        BY <1>1 DEF n
      <3>2. D(i, 0) = 0 /\ D(1, 0) = 0 /\ C(i, 0) = 0 /\ C(1, 0) = 0
        BY <1>2, <3>1
      <3>3. QED
        BY <3>1, <3>2
    <2>2. ASSUME NEW k \in 0 .. j - 1, k \in S PROVE k + 1 \in S
      <3>1. k + 1 \in 0 .. n /\ k + 1 > 0 /\ (k + 1) - 1 = k
        BY <1>1 DEF n
      <3>2. 1 \in Nat
        OBVIOUS
      <3>3. /\ D(i, k + 1) = D(i, k) + m.parts[k + 1] /\ C(i, k + 1) = C(i, k) + m.parts[k + 1] + 2
            /\ D(1, k + 1) = D(1, k) + m.parts[k + 1] /\ C(1, k + 1) = C(1, k) + m.parts[k + 1] + 2
        BY <1>2, <3>1, <3>2
      <3>4. QED
        BY <2>2, <3>1, <3>3
    <2>3. j \in Nat
      BY <1>1 DEF n
    <2> HIDE DEF S
    <2>4. QED
      BY <2>1, <2>2, <2>3, SetInduction
  <1>4. j \in 0 .. n
    BY DEF n
  <1>5. QED
    BY <1>2, <1>3, <1>4 DEF D, C

\* What the first j parts are is where all parts begin.
LEMMA PrefixFacts ==
    ASSUME NEW i \in Nat, NEW m \in Messages, NEW j \in 0 .. Len(m.parts)
    PROVE  LET n == Len(m.parts)
           IN  /\ Len(DataUpTo(i, m, j)) <= Len(DataUpTo(i, m, n))
               /\ Len(ChunksUpTo(i, m, j)) <= Len(ChunksUpTo(i, m, n))
               /\ \A q \in 1 .. Len(ChunksUpTo(i, m, j)) :
                     ChunksUpTo(i, m, n)[q] = ChunksUpTo(i, m, j)[q]
  <1> DEFINE n == Len(m.parts)
             d(k) == Len(DataUpTo(i, m, k))
             c(k) == Len(ChunksUpTo(i, m, k))
             Begins(k) == /\ d(k) <= d(n) /\ c(k) <= c(n)
                          /\ \A q \in 1 .. c(k) : ChunksUpTo(i, m, n)[q] = ChunksUpTo(i, m, k)[q]
             S == {k \in 0 .. n : Begins(n - k)}
  <1>1. n \in Nat /\ DOMAIN m.parts = 1 .. n
    BY MessageAssumption
  <1>2. 0 \in S
    <2>1. d(n) \in Nat /\ c(n) \in Nat /\ n - 0 = n
      BY <1>1, LengthFacts
    <2> HIDE DEF n, d, c
    <2>2. QED
      BY <1>1, <2>1
  <1>3. ASSUME NEW k \in 0 .. n - 1, k \in S PROVE k + 1 \in S
    <2> DEFINE b == n - k
               before == ChunksUpTo(i, m, b - 1)
               chunk == Chunk(i, m, b)
    <2>1. b \in 1 .. n /\ b \in 0 .. n /\ b - 1 \in 0 .. n /\ n - (k + 1) = b - 1 /\ b > 0
      BY <1>1
    <2> HIDE DEF b
    <2>2. /\ ChunksUpTo(i, m, b) = before \o chunk
          /\ before \in Seq(Units) /\ chunk \in Seq(Units)
      <3>1. b \in DOMAIN m.parts
        BY <1>1, <2>1
      <3>2. chunk \in Seq(Units)
        BY <3>1, PartFacts
      <3>3. ChunksUpTo(i, m, b) = before \o chunk /\ before \in Seq(Units)
        BY <2>1, UpToFacts
      <3>4. QED
        BY <3>2, <3>3
    <2>3. /\ d(b) = d(b - 1) + m.parts[b] /\ c(b) = c(b - 1) + m.parts[b] + 2
          /\ d(b - 1) \in Nat /\ c(b - 1) \in Nat /\ d(n) \in Nat /\ c(n) \in Nat
          /\ m.parts[b] \in Nat
      <3>1. n \in 0 .. n
        BY <1>1
      <3>2. m.parts[b] \in Nat
        BY <1>1, <2>1, PartFacts
      <3>3. QED
        BY <2>1, <3>1, <3>2, LengthFacts
    <2>4. Begins(b)
      BY <1>3, <2>1 DEF b
    <2> HIDE DEF before, chunk
    <2>5. \A q \in 1 .. Len(before) : (before \o chunk)[q] = before[q]
      BY ONLY <2>2
    <2>6. c(b - 1) = Len(before)
      BY DEF before
    <2> HIDE DEF n
    <2>7. d(b - 1) <= d(n) /\ c(b - 1) <= c(n)
      <3> HIDE DEF d, c
      <3>1. QED
        BY <2>3, <2>4
    <2>8. \A q \in 1 .. c(b - 1) : ChunksUpTo(i, m, n)[q] = ChunksUpTo(i, m, b - 1)[q]
      <3> SUFFICES ASSUME NEW q \in 1 .. c(b - 1)
                   PROVE  ChunksUpTo(i, m, n)[q] = before[q]
        BY DEF before
      <3>1. q \in 1 .. c(b) /\ q \in 1 .. Len(before)
        <4> HIDE DEF d, c
        <4>1. QED
          BY <2>3, <2>6
      <3>2. ChunksUpTo(i, m, n)[q] = ChunksUpTo(i, m, b)[q]
        BY <2>4, <3>1
      <3>3. QED
        BY <2>2, <2>5, <3>1, <3>2
    <2>9. Begins(n - (k + 1)) /\ k + 1 \in 0 .. n
      <3>1. Begins(b - 1)
        BY <2>7, <2>8
      <3> HIDE DEF Begins
      <3>2. QED
        BY <1>1, <2>1, <3>1
    <2> HIDE DEF Begins
    <2>10. QED
      BY <2>9
  <1>4. n - j \in S
    <2>1. n - j \in Nat /\ n - j <= n
      BY <1>1
    <2>2. \A k \in 0 .. (n - j) - 1 : k \in S => k + 1 \in S
      <3> HIDE DEF S
      <3>1. 0 .. (n - j) - 1 \subseteq 0 .. n - 1
        BY <1>1
      <3>2. QED
        BY <1>3, <3>1
    <2> HIDE DEF S
    <2>3. QED
      BY <1>2, <2>1, <2>2, SetInduction
  <1>5. Begins(j)
    <2>1. n - (n - j) = j
      BY <1>1
    <2> HIDE DEF Begins
    <2>2. QED
      BY <1>4, <2>1
  <1>6. QED
    BY <1>5

\* How long the first j parts are, plain and in chunks.
DataLen(m, j) == Len(DataUpTo(1, m, j))
ChunksLen(m, j) == Len(ChunksUpTo(1, m, j))

\* Chunk j of the message is what stands in s after its first c elements.
ChunkAt(s, c, i, m, j) ==
    /\ s[c + 1] = Unit(Marked("size", m), i, m.parts[j])
    /\ \A q \in 1 .. m.parts[j] : s[c + 1 + q] = Data(i, m, j)[q]
    /\ s[c + m.parts[j] + 2] = Unit(Marked("crlf", m), i, 0)

\* How many units of a negative size stand before the last chunk, and where that chunk starts.
Gap(m) == IF m.fault \in {"over", "back"} THEN 1 ELSE 0
LastAfter(m) == ChunksLen(m, Len(m.parts)) + Gap(m)

\* The lengths, as numbers that each part adds to.
LEMMA LenFacts ==
    ASSUME NEW m \in Messages, NEW j \in 0 .. Len(m.parts)
    PROVE  LET n == Len(m.parts)
           IN  /\ n \in Nat /\ DOMAIN m.parts = 1 .. n
               /\ DataLen(m, j) \in Nat /\ ChunksLen(m, j) \in Nat
               /\ DataLen(m, n) \in Nat /\ ChunksLen(m, n) \in Nat
               /\ DataLen(m, j) <= DataLen(m, n) /\ ChunksLen(m, j) <= ChunksLen(m, n)
               /\ DataLen(m, 0) = 0 /\ ChunksLen(m, 0) = 0
               /\ j > 0 => /\ m.parts[j] \in Nat \ {0} /\ j - 1 \in 0 .. n
                           /\ DataLen(m, j) = DataLen(m, j - 1) + m.parts[j]
                           /\ ChunksLen(m, j) = ChunksLen(m, j - 1) + m.parts[j] + 2
  <1> DEFINE n == Len(m.parts)
  <1>1. n \in Nat /\ DOMAIN m.parts = 1 .. n /\ 1 \in Nat
    BY MessageAssumption
  <1>2. 0 \in 0 .. n /\ n \in 0 .. n
    BY <1>1
  <1>3. /\ DataLen(m, j) \in Nat /\ ChunksLen(m, j) \in Nat
        /\ DataLen(m, n) \in Nat /\ ChunksLen(m, n) \in Nat
        /\ DataLen(m, 0) = 0 /\ ChunksLen(m, 0) = 0
    BY <1>1, <1>2, LengthFacts DEF DataLen, ChunksLen
  <1>4. DataLen(m, j) <= DataLen(m, n) /\ ChunksLen(m, j) <= ChunksLen(m, n)
    BY <1>1, PrefixFacts DEF DataLen, ChunksLen
  <1>5. j > 0 => /\ DataLen(m, j) = DataLen(m, j - 1) + m.parts[j]
                 /\ ChunksLen(m, j) = ChunksLen(m, j - 1) + m.parts[j] + 2
    BY <1>1, LengthFacts DEF DataLen, ChunksLen
  <1>6. j > 0 => m.parts[j] \in Nat \ {0} /\ j - 1 \in 0 .. n
    <2>1. j > 0 => j \in DOMAIN m.parts /\ j - 1 \in 0 .. n
      BY <1>1
    <2>2. QED
      BY <1>1, <2>1, PartFacts
  <1>7. QED
    BY <1>1, <1>3, <1>4, <1>5, <1>6

\* The last chunk comes after all the others.
LEMMA LastAfterFacts ==
    ASSUME NEW m \in Messages
    PROVE  /\ ChunksLen(m, Len(m.parts)) \in Nat /\ LastAfter(m) \in Nat
           /\ ChunksLen(m, Len(m.parts)) <= LastAfter(m)
  <1> DEFINE c == ChunksLen(m, Len(m.parts))
  <1>1. c \in Nat
    <2>1. Len(m.parts) \in 0 .. Len(m.parts)
      BY MessageAssumption
    <2>2. QED
      BY <2>1, LenFacts
  <1>2. LastAfter(m) = c + Gap(m) /\ Gap(m) \in {0, 1}
    BY DEF LastAfter, Gap
  <1> HIDE DEF c
  <1>3. LastAfter(m) \in Nat /\ c <= LastAfter(m)
    BY <1>1, <1>2
  <1>4. QED
    BY <1>1, <1>3 DEF c

\* The body that is meant, and how long it is.
LEMMA MeantFacts ==
    ASSUME NEW i \in Nat, NEW m \in Messages
    PROVE  /\ Meant(i, m) = DataUpTo(i, m, Len(m.parts))
           /\ Meant(i, m) \in Seq(Units)
           /\ Len(Meant(i, m)) = DataLen(m, Len(m.parts))
           /\ Len(Meant(i, m)) = Len(Meant(1, m)) /\ Len(Meant(i, m)) \in Nat
  <1> DEFINE n == Len(m.parts)
  <1>1. n \in Nat /\ DOMAIN m.parts = 1 .. n /\ n \in 0 .. n /\ 1 \in Nat
    BY MessageAssumption
  <1>2. Meant(i, m) = DataUpTo(i, m, n) /\ Meant(1, m) = DataUpTo(1, m, n)
    BY <1>1, Zenon DEF Meant, DataUpTo
  <1> HIDE DEF n
  <1>3. DataUpTo(i, m, n) \in Seq(Units)
    BY <1>1, UpToFacts DEF n
  <1>4. Len(DataUpTo(i, m, n)) = Len(DataUpTo(1, m, n)) /\ Len(DataUpTo(i, m, n)) \in Nat
    BY <1>1, LengthFacts DEF n
  <1>5. QED
    BY <1>2, <1>3, <1>4 DEF n, DataLen

\* Where the chunks are in a chunked body.
LEMMA ChunkedLayout ==
    ASSUME NEW i \in Nat, NEW m \in Messages, Chunked(m)
    PROVE  LET c == ChunksLen(m, Len(m.parts))
               l == LastAfter(m)
               body == BodyUnits(i, m)
           IN  /\ body \in Seq(Units) /\ Len(body) = l + 3 /\ l \in Nat
               /\ \A j \in 1 .. Len(m.parts) : ChunkAt(body, ChunksLen(m, j - 1), i, m, j)
               /\ Gap(m) = 1 => body[c + 1] = Unit(m.fault, i, 0)
               /\ body[l + 1] = Unit("size", i, 0)
               /\ body[l + 2] = Unit(Marked("trailer", m), i, 0)
               /\ body[l + 3] = Unit("crlf", i, 0)
  <1> DEFINE n == Len(m.parts)
             c == ChunksLen(m, n)
             chunks == ChunksUpTo(i, m, n)
             last == LastChunk(i, m)
             body == BodyUnits(i, m)
             g == Gap(m)
  <1>1. n \in Nat /\ DOMAIN m.parts = 1 .. n /\ n \in 0 .. n /\ 1 \in Nat
    BY MessageAssumption
  <1>2. body = chunks \o last
    <2>1. chunks = FlattenSeq([p \in DOMAIN m.parts |-> Chunk(i, m, p)])
      BY <1>1, Zenon DEF ChunksUpTo
    <2>2. QED
      BY <2>1, Zenon DEF BodyUnits, Chunked
  <1>3. /\ last \in Seq(Units) /\ Len(last) = g + 3 /\ g \in Nat
        /\ g = 1 => last[1] = Unit(m.fault, i, 0)
        /\ last[g + 1] = Unit("size", i, 0) /\ last[g + 2] = Unit(Marked("trailer", m), i, 0)
        /\ last[g + 3] = Unit("crlf", i, 0)
    <2>1. /\ Unit("size", i, 0) \in Units /\ Unit("crlf", i, 0) \in Units
          /\ Unit(Marked("trailer", m), i, 0) \in Units
      BY DEF Unit, Units, Marked
    <2> DEFINE three == <<Unit("size", i, 0), Unit(Marked("trailer", m), i, 0), Unit("crlf", i, 0)>>
    <2>2. /\ three \in Seq(Units) /\ Len(three) = 3 /\ three[1] = Unit("size", i, 0)
          /\ three[2] = Unit(Marked("trailer", m), i, 0) /\ three[3] = Unit("crlf", i, 0)
      BY <2>1
    <2> HIDE DEF three
    <2>3. CASE m.fault \in {"over", "back"}
      <3>1. Unit(m.fault, i, 0) \in Units
        BY <2>3 DEF Unit, Units
      <3>2. last = <<Unit(m.fault, i, 0)>> \o three
        BY <2>3 DEF LastChunk, Negative, three
      <3>3. /\ last \in Seq(Units) /\ Len(last) = 4 /\ last[1] = Unit(m.fault, i, 0)
            /\ last[2] = three[1] /\ last[3] = three[2] /\ last[4] = three[3]
        <4> DEFINE u == Unit(m.fault, i, 0)
        <4> HIDE DEF last, u
        <4>1. <<u>> \in Seq(Units) /\ Len(<<u>>) = 1 /\ <<u>>[1] = u
          BY <3>1 DEF u
        <4> DEFINE one == <<u>>
        <4> HIDE DEF one
        <4>2. /\ one \o three \in Seq(Units) /\ Len(one \o three) = 4
              /\ (one \o three)[1] = one[1] /\ (one \o three)[2] = three[1]
              /\ (one \o three)[3] = three[2] /\ (one \o three)[4] = three[3]
          <5>1. one \in Seq(Units) /\ three \in Seq(Units) /\ Len(one) = 1 /\ Len(three) = 3
            BY <2>2, <4>1 DEF one
          <5>2. /\ one \o three \in Seq(Units) /\ Len(one \o three) = Len(one) + Len(three)
                /\ \A q \in 1 .. Len(one) : (one \o three)[q] = one[q]
                /\ \A q \in 1 .. Len(three) : (one \o three)[Len(one) + q] = three[q]
            <6>1. one \in Seq(Units) /\ three \in Seq(Units)
              BY <5>1
            <6>2. QED
              BY ONLY <6>1
          <5>3. /\ (one \o three)[1 + 1] = three[1] /\ (one \o three)[1 + 2] = three[2]
                /\ (one \o three)[1 + 3] = three[3]
            BY <5>1, <5>2
          <5>4. /\ (one \o three)[2] = three[1] /\ (one \o three)[3] = three[2]
                /\ (one \o three)[4] = three[3]
            <6>1. 1 + 1 = 2 /\ 1 + 2 = 3 /\ 1 + 3 = 4
              OBVIOUS
            <6>2. QED
              BY <5>3, <6>1, Zenon
          <5>5. QED
            BY <5>1, <5>2, <5>4
        <4>3. QED
          BY <3>2, <4>1, <4>2 DEF u, one
      <3>4. g = 1
        BY <2>3 DEF Gap
      <3>5. QED
        BY <2>2, <3>3, <3>4
    <2>4. CASE m.fault \notin {"over", "back"}
      <3>1. last = << >> \o three
        BY <2>4 DEF LastChunk, Negative, three
      <3> HIDE DEF last
      <3>2. last = three
        BY <2>2, <3>1
      <3>3. g = 0
        BY <2>4 DEF Gap
      <3>4. QED
        BY <2>2, <3>2, <3>3
    <2>5. QED
      BY <2>3, <2>4
  <1>4. \A k \in 0 .. n : /\ ChunksUpTo(i, m, k) \in Seq(Units)
                          /\ Len(ChunksUpTo(i, m, k)) = ChunksLen(m, k)
                          /\ \A q \in 1 .. ChunksLen(m, k) : chunks[q] = ChunksUpTo(i, m, k)[q]
    <2> SUFFICES ASSUME NEW k \in 0 .. n
                 PROVE  /\ ChunksUpTo(i, m, k) \in Seq(Units)
                        /\ Len(ChunksUpTo(i, m, k)) = ChunksLen(m, k)
                        /\ \A q \in 1 .. ChunksLen(m, k) : chunks[q] = ChunksUpTo(i, m, k)[q]
      OBVIOUS
    <2>1. Len(ChunksUpTo(i, m, k)) = ChunksLen(m, k)
      BY LengthFacts DEF ChunksLen
    <2>2. \A q \in 1 .. Len(ChunksUpTo(i, m, k)) : chunks[q] = ChunksUpTo(i, m, k)[q]
      BY PrefixFacts
    <2>3. ChunksUpTo(i, m, k) \in Seq(Units)
      BY UpToFacts
    <2>4. QED
      BY <2>1, <2>2, <2>3, Zenon
  <1>5. chunks \in Seq(Units) /\ Len(chunks) = c /\ c \in Nat
    BY <1>1, <1>4, LenFacts
  <1> HIDE DEF chunks, last, body, c, g
  <1>6. /\ chunks \o last \in Seq(Units) /\ Len(chunks \o last) = c + (g + 3)
        /\ \A q \in 1 .. c : (chunks \o last)[q] = chunks[q]
        /\ \A q \in 1 .. g + 3 : (chunks \o last)[c + q] = last[q]
    <2>1. /\ chunks \o last \in Seq(Units) /\ Len(chunks \o last) = Len(chunks) + Len(last)
          /\ \A q \in 1 .. Len(chunks) : (chunks \o last)[q] = chunks[q]
          /\ \A q \in 1 .. Len(last) : (chunks \o last)[Len(chunks) + q] = last[q]
      <3>1. chunks \in Seq(Units) /\ last \in Seq(Units)
        BY <1>3, <1>5
      <3>2. QED
        BY ONLY <3>1
    <2>2. Len(chunks) = c /\ Len(last) = g + 3
      BY <1>3, <1>5
    <2>3. QED
      BY <2>1, <2>2, Zenon
  <1>7. /\ g = 1 => body[c + 1] = Unit(m.fault, i, 0)
        /\ body[c + g + 1] = Unit("size", i, 0)
        /\ body[c + g + 2] = Unit(Marked("trailer", m), i, 0)
        /\ body[c + g + 3] = Unit("crlf", i, 0)
    <2>1. \A q \in 1 .. g + 3 : body[c + q] = last[q]
      BY <1>2, <1>6, Zenon
    <2>2. /\ body[c + 1] = last[1] /\ body[c + (g + 1)] = last[g + 1]
          /\ body[c + (g + 2)] = last[g + 2] /\ body[c + (g + 3)] = last[g + 3]
      BY <1>3, <2>1
    <2>3. c + (g + 1) = c + g + 1 /\ c + (g + 2) = c + g + 2 /\ c + (g + 3) = c + g + 3
      BY <1>3, <1>5
    <2>4. QED
      BY <1>3, <2>2, <2>3
  <1>8. ASSUME NEW j \in 1 .. n PROVE ChunkAt(body, ChunksLen(m, j - 1), i, m, j)
    <2> DEFINE b == ChunksLen(m, j - 1)
               l == m.parts[j]
               before == ChunksUpTo(i, m, j - 1)
               chunk == Chunk(i, m, j)
    <2>1. j \in DOMAIN m.parts /\ j - 1 \in 0 .. n /\ j \in 0 .. n /\ j > 0
      BY <1>1
    <2>2. /\ b \in Nat /\ l \in Nat \ {0} /\ ChunksLen(m, j) = b + l + 2
          /\ ChunksLen(m, j) <= c
      <3>1. b \in Nat
        BY <2>1, LenFacts
      <3>2. l \in Nat \ {0} /\ ChunksLen(m, j) = b + l + 2
        BY <2>1, LenFacts
      <3>3. ChunksLen(m, j) <= c
        BY <2>1, LenFacts DEF c
      <3>4. QED
        BY <3>1, <3>2, <3>3, Zenon
    <2>3. /\ chunk \in Seq(Units) /\ Len(chunk) = l + 2
          /\ chunk[1] = Unit(Marked("size", m), i, l)
          /\ \A q \in 1 .. l : chunk[q + 1] = Data(i, m, j)[q]
          /\ chunk[l + 2] = Unit(Marked("crlf", m), i, 0)
      <3>1. chunk \in Seq(Units) /\ Len(chunk) = l + 2
        BY <2>1, PartFacts
      <3>2. chunk[1] = Unit(Marked("size", m), i, l)
        BY <2>1, PartFacts
      <3>3. \A q \in 1 .. l : chunk[q + 1] = Data(i, m, j)[q]
        BY <2>1, PartFacts, SMTT(20)
      <3>4. chunk[l + 2] = Unit(Marked("crlf", m), i, 0)
        BY <2>1, PartFacts
      <3>5. QED
        BY <3>1, <3>2, <3>3, <3>4
    <2>4. before \in Seq(Units) /\ Len(before) = b
      BY <1>4, <2>1
    <2>5. ChunksUpTo(i, m, j) = before \o chunk
      BY <2>1, UpToFacts
    <2> HIDE DEF b, l, before, chunk, n
    <2>6. \A q \in 1 .. l + 2 : (before \o chunk)[b + q] = chunk[q]
      BY ONLY <2>2, <2>3, <2>4
    <2>7. ASSUME NEW q \in 1 .. l + 2 PROVE body[b + q] = chunk[q]
      <3>1. b + q \in 1 .. c /\ b + q \in 1 .. ChunksLen(m, j)
        BY <1>5, <2>2
      <3>2. chunks[b + q] = ChunksUpTo(i, m, j)[b + q]
        BY <1>4, <2>1, <3>1
      <3>3. QED
        BY <1>2, <1>6, <2>5, <2>6, <3>1, <3>2
    <2>8. body[b + 1] = chunk[1]
      BY <2>2, <2>7
    <2>9. body[b + l + 2] = chunk[l + 2]
      <3>1. b + (l + 2) = b + l + 2 /\ l + 2 \in 1 .. l + 2
        BY <2>2
      <3>2. body[b + (l + 2)] = chunk[l + 2]
        BY <2>7, <3>1
      <3>3. QED
        BY <3>1, <3>2
    <2>10. ASSUME NEW q \in 1 .. l PROVE body[b + 1 + q] = Data(i, m, j)[q]
      <3>1. b + (q + 1) = b + 1 + q /\ q + 1 \in 1 .. l + 2
        BY <2>2
      <3>2. body[b + (q + 1)] = chunk[q + 1]
        BY <2>7, <3>1
      <3>3. QED
        BY <2>3, <3>1, <3>2
    <2>11. QED
      BY <2>3, <2>8, <2>9, <2>10 DEF ChunkAt, b, l
  <1>9. LastAfter(m) = c + g /\ c + g \in Nat /\ c + (g + 3) = c + g + 3
    <2>1. LastAfter(m) = c + g
      BY DEF LastAfter, c, g
    <2>2. QED
      BY <1>3, <1>5, <2>1
  <1>10. QED
    BY <1>2, <1>6, <1>7, <1>8, <1>9 DEF body, c, g

\* The head of a message ends with its first blank line.
LEMMA HeadFacts ==
    ASSUME NEW i \in Nat, NEW m \in Messages
    PROVE  /\ HeadUnits(i, m) \in Seq(Units) /\ Len(HeadUnits(i, m)) = m.lines + 1
           /\ m.lines \in Nat \ {0}
           /\ HeadUnits(i, m)[1].type = "head" /\ HeadUnits(i, m)[1].head = m
           /\ \A q \in 1 .. m.lines : HeadUnits(i, m)[q].type # "end"
           /\ HeadUnits(i, m)[m.lines + 1].type = "end"
  <1> DEFINE first == [type |-> "head", of |-> i, head |-> m]
             lines == [j \in 1 .. m.lines - 1 |-> Unit("line", i, j)]
             end == Unit("end", i, 0)
             l == m.lines
             head == <<first>> \o lines \o <<end>>
  <1>1. l \in Nat \ {0}
    BY MessageAssumption
  <1>2. /\ first \in Units /\ end \in Units
        /\ first.type = "head" /\ first.head = m /\ end.type = "end"
    BY DEF Unit, Units
  <1>3. \A j \in 1 .. l - 1 : Unit("line", i, j) \in Units /\ Unit("line", i, j).type = "line"
    BY <1>1 DEF Unit, Units
  <1>4. lines \in Seq(Units) /\ Len(lines) = l - 1 /\ \A j \in 1 .. l - 1 : lines[j].type = "line"
    <2>1. l - 1 \in Nat /\ lines \in [1 .. l - 1 -> Units]
      BY <1>1, <1>3
    <2>2. \A j \in 1 .. l - 1 : lines[j].type = "line"
      BY <1>3
    <2> HIDE DEF lines, l
    <2>3. QED
      BY <2>1, <2>2, FunctionIsSequence
  <1>5. HeadUnits(i, m) = head
    BY DEF HeadUnits
  <1> HIDE DEF first, lines, end, l
  <1>6. /\ head \in Seq(Units) /\ Len(head) = l + 1 /\ head[1] = first /\ head[l + 1] = end
        /\ \A j \in 1 .. l - 1 : head[j + 1] = lines[j]
    BY ONLY <1>1, <1>2, <1>4
  <1> HIDE DEF head
  <1>7. ASSUME NEW q \in 1 .. l PROVE head[q].type # "end"
    <2>1. CASE q = 1
      BY <1>2, <1>6, <2>1
    <2>2. CASE q # 1
      <3>1. q - 1 \in 1 .. l - 1 /\ (q - 1) + 1 = q
        BY <1>1, <2>2
      <3>2. head[q] = lines[q - 1]
        BY <1>6, <3>1
      <3>3. QED
        BY <1>4, <3>1, <3>2
    <2>3. QED
      BY <2>1, <2>2
  <1>8. QED
    BY <1>1, <1>2, <1>5, <1>6, <1>7 DEF l

-----------------------------------------------------------------------------
(***************************************************************************)
(* The loops of the two decoders.                                          *)
(***************************************************************************)

\* Is there a size line that is a chunk of its own?
PassesOver(e, at) == at.position <= Len(e) /\ e[at.position].type = "over"

\* Both loops end where they do not find a chunk that is whole, right and not too much.
Stops(e, at) ==
    LET p == at.position  n == e[p].n IN
    /\ ~PassesOver(e, at)
    /\ \/ p > Len(e) \/ e[p].type # "size" \/ n = 0 \/ Len(e) < p + n + 1
       \/ at.decoded + n > MaxBody \/ e[p + n + 1].type # "crlf"

\* What the loop of _chunked_body_complete_length finds where it ends.
ScanEnds(e, at) ==
    LET p == at.position  n == e[p].n IN
    IF p > Len(e) THEN More
    ELSE IF e[p].type = "back" THEN IF p = 1 THEN Refused("400") ELSE Loops
    ELSE IF e[p].type # "size" THEN Refused("400")
    ELSE IF n = 0 THEN ChunkedEnd(e, p + 1)
    ELSE IF Len(e) < p + n + 1 THEN More
    ELSE IF at.decoded + n > MaxBody THEN Refused("413") ELSE Refused("400")

\* The same of _decode_chunked_body.
DecodeEnds(e, at) ==
    LET p == at.position  n == e[p].n IN
    IF p > Len(e) THEN Unreadable("400")
    ELSE IF e[p].type = "back" THEN Unreadable(IF p = 1 THEN "400" ELSE "loops")
    ELSE IF e[p].type # "size" THEN Unreadable("400")
    ELSE IF n = 0 THEN DecodedEnd(e, p + 1)
    ELSE IF p + n + 1 > Len(e) THEN Unreadable("400")
    ELSE IF at.decoded + n > MaxBody THEN Unreadable("413") ELSE Unreadable("400")

ChunkOf(e, at) == SubSeq(e, at.position + 1, at.position + e[at.position].n)
PastChunk(e, at) ==
    IF PassesOver(e, at) THEN PastLine(at) ELSE Past(at, e[at.position].n)

\* What the second decoder makes of a chunk and of what r is decoded after it.
Joined(e, at, r) == IF PassesOver(e, at) THEN r ELSE Before(ChunkOf(e, at), r)

\* The place after a chunk is a place, further on.
LEMMA PastIsPlace ==
    ASSUME NEW e \in Seq(Units), NEW at \in Places(e), ~Stops(e, at)
    PROVE  PastChunk(e, at) \in Places(e) /\ at.position < PastChunk(e, at).position
  <1> DEFINE p == at.position
             n == e[p].n
             d == at.decoded
  <1>0. CASE PassesOver(e, at)
    <2>1. p \in 1 .. Len(e) /\ d \in 0 .. MaxBody
      BY <1>0 DEF Places, PassesOver
    <2>2. PastChunk(e, at) = [position |-> p + 1, decoded |-> d]
      BY <1>0 DEF PastChunk, PastLine, Places
    <2> HIDE DEF p, d
    <2>3. p + 1 \in 1 .. Len(e) + 1 /\ p < p + 1
      BY <2>1
    <2>4. QED
      BY <2>1, <2>2, <2>3 DEF Places, p
  <1> SUFFICES ASSUME ~PassesOver(e, at)
               PROVE  PastChunk(e, at) \in Places(e) /\ at.position < PastChunk(e, at).position
    BY <1>0
  <1>1. /\ p \in Nat \ {0} /\ d \in Nat /\ Len(e) \in Nat /\ MaxBody \in Nat
        /\ p <= Len(e) /\ e[p].type = "size" /\ n # 0 /\ ~(Len(e) < p + n + 1) /\ ~(d + n > MaxBody)
    BY FramingAssumption DEF Places, Stops
  <1>2. n \in Nat
    <2>1. p \in 1 .. Len(e)
      BY <1>1
    <2>2. e[p] \in Units
      BY <2>1
    <2>3. QED
      BY <1>1, <2>2 DEF Units
  <1> HIDE DEF p, n, d
  <1>3. p + n + 2 \in 1 .. Len(e) + 1 /\ d + n \in 0 .. MaxBody /\ p < p + n + 2
    BY <1>1, <1>2
  <1>4. PastChunk(e, at) = [position |-> p + n + 2, decoded |-> d + n]
    BY DEF PastChunk, Past, p, n, d
  <1>5. QED
    BY <1>3, <1>4 DEF Places, p

\* The loop of _chunked_body_complete_length goes from chunk to chunk until it ends.
LEMMA ScanRecursion ==
    ASSUME NEW e \in Seq(Units), NEW at \in Places(e)
    PROVE  ScanChunks(e)[at] =
              IF Stops(e, at) THEN ScanEnds(e, at) ELSE ScanChunks(e)[PastChunk(e, at)]
  <1> DEFINE X == Places(e)
             N == Len(e) + 1
             rank == [x \in X |-> x.position]
             stop == [x \in X |-> Stops(e, x)]
             val == [x \in X |-> ScanEnds(e, x)]
             next == [x \in X |-> PastChunk(e, x)]
             V == {val[x] : x \in X}
             use == [x \in X |-> [v \in V |-> v]]
             Step(f, x) == IF Stops(e, x) THEN ScanEnds(e, x) ELSE f[PastChunk(e, x)]
             Rec(f) == [x \in X |->
                          LET p == x.position  n == e[p].n IN
                          IF p > Len(e) THEN More
                          ELSE IF e[p].type = "over" THEN f[PastLine(x)]
                          ELSE IF e[p].type = "back" THEN IF p = 1 THEN Refused("400") ELSE Loops
                          ELSE IF e[p].type # "size" THEN Refused("400")
                          ELSE IF n = 0 THEN ChunkedEnd(e, p + 1)
                          ELSE IF Len(e) < p + n + 1 THEN More
                          ELSE IF x.decoded + n > MaxBody THEN Refused("413")
                          ELSE IF e[p + n + 1].type # "crlf" THEN Refused("400")
                          ELSE f[Past(x, n)]]
  <1>1. \A x \in X : stop[x] <=> Stops(e, x)
    BY Zenon
  <1>2. \A x \in X : val[x] = ScanEnds(e, x) /\ val[x] \in V /\ next[x] = PastChunk(e, x)
    BY Zenon
  <1>3. N \in Nat /\ rank \in [X -> 0 .. N] /\ \A x \in X : rank[x] = x.position
    BY DEF Places
  <1>4. val \in [X -> V] /\ use \in [X -> [V -> V]] /\ \A x \in X, v \in V : use[x][v] = v
    BY Zenon
  <1>5. \A x \in X : ~Stops(e, x) => PastChunk(e, x) \in X /\ x.position < PastChunk(e, x).position
    BY PastIsPlace
  <1>6. \A f, x : x \in X => Rec(f)[x] = Step(f, x)
    <2> SUFFICES ASSUME NEW f, NEW x \in X PROVE Rec(f)[x] = Step(f, x)
      OBVIOUS
    <2> HIDE DEF X
    <2>1. CASE PassesOver(e, x)
      <3>1. ~(x.position > Len(e)) /\ e[x.position].type = "over"
        <4>1. x.position \in Int /\ Len(e) \in Int
          BY DEF X, Places
        <4>2. QED
          BY <2>1, <4>1 DEF PassesOver
      <3>2. ~Stops(e, x) /\ PastChunk(e, x) = PastLine(x)
        BY <2>1, Zenon DEF Stops, PastChunk
      <3>3. Rec(f)[x] = f[PastLine(x)]
        BY <3>1, Zenon
      <3>4. QED
        BY <3>2, <3>3
    <2>2. CASE ~PassesOver(e, x)
      <3>1. x.position > Len(e) \/ e[x.position].type # "over"
        <4>1. x.position \in Int /\ Len(e) \in Int
          BY DEF X, Places
        <4>2. QED
          BY <2>2, <4>1 DEF PassesOver
      <3>2. QED
        BY <2>2, <3>1 DEF Stops, ScanEnds, PastChunk
    <2>3. QED
      BY <2>1, <2>2
  <1>7. ScanChunks(e) = CHOOSE f : f = Rec(f)
    BY Zenon DEF ScanChunks
  <1> HIDE DEF X, N, rank, stop, val, next, V, use, Rec
  <1>8. \A x \in X : ~stop[x] => next[x] \in X /\ rank[x] < rank[next[x]]
    BY <1>1, <1>2, <1>3, <1>5
  <1>9. Recursion(N, X, V, rank, stop, val, next, use)
    BY <1>3, <1>4, <1>8 DEF Recursion
  <1>10. PICK f : Recurs(f, X, V, stop, val, next, use)
    BY <1>9, RecursionExists
  <1>11. f \in [X -> V] /\ \A x \in X : f[x] = IF stop[x] THEN val[x] ELSE use[x][f[next[x]]]
    BY <1>10 DEF Recurs
  <1>12. ASSUME NEW x \in X PROVE f[x] = Step(f, x)
    <2>1. CASE stop[x]
      BY <1>1, <1>2, <1>11, <2>1
    <2>2. CASE ~stop[x]
      <3>1. next[x] \in X /\ next[x] = PastChunk(e, x) /\ ~Stops(e, x)
        BY <1>1, <1>2, <1>8, <2>2
      <3>2. f[next[x]] \in V
        BY <1>11, <3>1
      <3>3. f[x] = f[next[x]]
        BY <1>4, <1>11, <2>2, <3>2
      <3>4. QED
        BY <3>1, <3>3
    <2>3. QED
      BY <2>1, <2>2
  <1>13. f = Rec(f)
    <2>1. Rec(f) = [x \in X |-> Rec(f)[x]]
      BY DEF Rec
    <2>2. f = [x \in X |-> f[x]]
      BY <1>11
    <2>3. \A x \in X : f[x] = Rec(f)[x]
      BY <1>6, <1>12
    <2>4. QED
      BY <2>1, <2>2, <2>3
  <1>14. ScanChunks(e) = Rec(ScanChunks(e))
    <2>1. (CHOOSE g : g = Rec(g)) = Rec(CHOOSE g : g = Rec(g))
      BY <1>13
    <2>2. QED
      BY <1>7, <2>1
  <1>15. ScanChunks(e)[at] = Step(ScanChunks(e), at)
    <2>1. at \in X
      BY DEF X
    <2>2. Rec(ScanChunks(e))[at] = Step(ScanChunks(e), at)
      BY <1>6, <2>1
    <2>3. QED
      BY <1>14, <2>2
  <1>16. QED
    BY <1>15

\* What a decoder may return.
Decoded == [ok : BOOLEAN, status : {"200", "400", "413", "loops"}, body : Seq(Units)]

\* The data of a whole chunk are units, and go before what is decoded after them.
LEMMA ChunkOfFacts ==
    ASSUME NEW e \in Seq(Units), NEW at \in Places(e), ~Stops(e, at), ~PassesOver(e, at),
           NEW r \in Decoded
    PROVE  ChunkOf(e, at) \in Seq(Units) /\ Before(ChunkOf(e, at), r) \in Decoded
  <1> DEFINE p == at.position
             n == e[p].n
             chunk == ChunkOf(e, at)
  <1>1. /\ p \in Nat \ {0} /\ Len(e) \in Nat
        /\ p <= Len(e) /\ e[p].type = "size" /\ n # 0 /\ ~(Len(e) < p + n + 1)
    BY DEF Places, Stops
  <1>2. n \in Nat
    <2>1. p \in 1 .. Len(e)
      BY <1>1
    <2>2. e[p] \in Units
      BY <2>1
    <2>3. QED
      BY <1>1, <2>2 DEF Units
  <1> HIDE DEF p, n
  <1>3. chunk \in Seq(Units)
    <2>1. p + 1 \in Int /\ p + n \in Int /\ \A i \in (p + 1) .. (p + n) : e[i] \in Units
      <3>1. (p + 1) .. (p + n) \subseteq 1 .. Len(e)
        BY <1>1, <1>2
      <3>2. QED
        BY <1>1, <1>2, <3>1
    <2>2. SubSeq(e, p + 1, p + n) \in Seq(Units)
      BY <2>1, SubSeqProperties
    <2>3. QED
      BY <2>2 DEF ChunkOf, p, n
  <1> HIDE DEF chunk
  <1>4. Before(chunk, r) \in Decoded
    <2>1. CASE r.ok
      <3>1. r.body \in Seq(Units)
        BY DEF Decoded
      <3>2. chunk \o r.body \in Seq(Units)
        BY ONLY <1>3, <3>1
      <3>3. Before(chunk, r) = Readable(chunk \o r.body)
        BY <2>1 DEF Before
      <3> DEFINE b == chunk \o r.body
      <3> HIDE DEF b
      <3>4. Readable(b) \in Decoded
        BY <3>2 DEF Readable, Decoded, b
      <3>5. QED
        BY <3>3, <3>4 DEF b
    <2>2. CASE ~r.ok
      BY <2>2 DEF Before
    <2>3. QED
      BY <2>1, <2>2
  <1>5. QED
    BY <1>3, <1>4 DEF chunk

\* The loop of _decode_chunked_body puts each chunk before what it decodes of the rest.
LEMMA DecodeRecursion ==
    ASSUME NEW e \in Seq(Units), NEW at \in Places(e)
    PROVE  DecodeChunks(e)[at] =
              IF Stops(e, at) THEN DecodeEnds(e, at)
              ELSE Joined(e, at, DecodeChunks(e)[PastChunk(e, at)])
  <1> DEFINE X == Places(e)
             N == Len(e) + 1
             rank == [x \in X |-> x.position]
             stop == [x \in X |-> Stops(e, x)]
             val == [x \in X |-> DecodeEnds(e, x)]
             next == [x \in X |-> PastChunk(e, x)]
             V == Decoded
             use == [x \in X |-> [v \in V |-> IF Stops(e, x) THEN v ELSE Joined(e, x, v)]]
             Step(f, x) == IF Stops(e, x) THEN DecodeEnds(e, x)
                           ELSE Joined(e, x, f[PastChunk(e, x)])
             Rec(f) == [x \in X |->
                          LET p == x.position  n == e[p].n  end == p + n IN
                          IF p > Len(e) THEN Unreadable("400")
                          ELSE IF e[p].type = "over" THEN f[PastLine(x)]
                          ELSE IF e[p].type = "back"
                               THEN Unreadable(IF p = 1 THEN "400" ELSE "loops")
                          ELSE IF e[p].type # "size" THEN Unreadable("400")
                          ELSE IF n = 0 THEN DecodedEnd(e, p + 1)
                          ELSE IF end + 1 > Len(e) THEN Unreadable("400")
                          ELSE IF x.decoded + n > MaxBody THEN Unreadable("413")
                          ELSE IF e[end + 1].type # "crlf" THEN Unreadable("400")
                          ELSE Before(SubSeq(e, p + 1, end), f[Past(x, n)])]
  <1>1. \A x \in X : stop[x] <=> Stops(e, x)
    BY Zenon
  <1>2. \A x \in X : val[x] = DecodeEnds(e, x) /\ next[x] = PastChunk(e, x)
    BY Zenon
  <1>3. N \in Nat /\ rank \in [X -> 0 .. N] /\ \A x \in X : rank[x] = x.position
    BY DEF Places
  <1>4. val \in [X -> V]
    <2>1. /\ Unreadable("400") \in Decoded /\ Unreadable("413") \in Decoded
          /\ Unreadable("loops") \in Decoded
          /\ Readable(<< >>) \in Decoded
      BY DEF Unreadable, Readable, Decoded
    <2>2. \A p : DecodedEnd(e, p) \in Decoded
      BY <2>1 DEF DecodedEnd
    <2>3. \A x : DecodeEnds(e, x) \in Decoded
      BY <2>1, <2>2, Zenon DEF DecodeEnds
    <2>4. QED
      BY <2>3, Zenon
  <1>5. /\ use \in [X -> [V -> V]]
        /\ \A x \in X, v \in V : ~Stops(e, x) => use[x][v] = Joined(e, x, v)
    <2>1. \A x \in X, v \in V : ~Stops(e, x) => Joined(e, x, v) \in V
      BY ChunkOfFacts DEF Joined
    <2> HIDE DEF V
    <2>2. QED
      BY <2>1, Zenon
  <1>6. \A x \in X : ~Stops(e, x) => PastChunk(e, x) \in X /\ x.position < PastChunk(e, x).position
    BY PastIsPlace
  <1>7. \A f, x : x \in X => Rec(f)[x] = Step(f, x)
    <2> SUFFICES ASSUME NEW f, NEW x \in X PROVE Rec(f)[x] = Step(f, x)
      OBVIOUS
    <2> DEFINE p == x.position
               n == e[p].n
    <2>0. p \in Nat /\ Len(e) \in Nat
      BY DEF Places
    <2>1. p <= Len(e) /\ e[p].type = "size" => n \in Nat
      <3> SUFFICES ASSUME p <= Len(e), e[p].type = "size" PROVE n \in Nat
        OBVIOUS
      <3>1. p \in 1 .. Len(e)
        BY DEF Places
      <3>2. e[p] \in Units
        BY <3>1
      <3>3. QED
        BY <3>2 DEF Units
    <2> HIDE DEF X
    <2>2. ~(p > Len(e)) /\ e[p].type = "size" => (p + n + 1 > Len(e) <=> Len(e) < p + n + 1)
      BY <2>0, <2>1
    <2>3. CASE PassesOver(e, x)
      <3>1. ~(p > Len(e)) /\ e[p].type = "over"
        BY <2>0, <2>3 DEF PassesOver
      <3>2. ~Stops(e, x) /\ PastChunk(e, x) = PastLine(x)
        BY <2>3, Zenon DEF Stops, PastChunk
      <3>3. Rec(f)[x] = f[PastLine(x)]
        BY <3>1, Zenon
      <3>4. QED
        BY <2>3, <3>2, <3>3, Zenon DEF Joined
    <2>4. CASE ~PassesOver(e, x)
      <3>1. p > Len(e) \/ e[p].type # "over"
        BY <2>0, <2>4 DEF PassesOver
      <3>2. QED
        BY <2>2, <2>4, <3>1, Zenon DEF Stops, DecodeEnds, PastChunk, ChunkOf, Joined
    <2>5. QED
      BY <2>3, <2>4
  <1>8. DecodeChunks(e) = CHOOSE f : f = Rec(f)
    BY Zenon DEF DecodeChunks
  <1> HIDE DEF X, N, rank, stop, val, next, V, use, Rec
  <1>9. \A x \in X : ~stop[x] => next[x] \in X /\ rank[x] < rank[next[x]]
    BY <1>1, <1>2, <1>3, <1>6
  <1>10. Recursion(N, X, V, rank, stop, val, next, use)
    BY <1>3, <1>4, <1>5, <1>9 DEF Recursion
  <1>11. PICK f : Recurs(f, X, V, stop, val, next, use)
    BY <1>10, RecursionExists
  <1>12. f \in [X -> V] /\ \A x \in X : f[x] = IF stop[x] THEN val[x] ELSE use[x][f[next[x]]]
    BY <1>11 DEF Recurs
  <1>13. ASSUME NEW x \in X PROVE f[x] = Step(f, x)
    <2>1. CASE stop[x]
      BY <1>1, <1>2, <1>12, <2>1
    <2>2. CASE ~stop[x]
      <3>1. next[x] \in X /\ next[x] = PastChunk(e, x) /\ ~Stops(e, x)
        BY <1>1, <1>2, <1>9, <2>2
      <3>2. f[next[x]] \in V
        BY <1>12, <3>1
      <3>3. f[x] = Joined(e, x, f[next[x]])
        BY <1>5, <1>12, <2>2, <3>1, <3>2
      <3>4. QED
        BY <3>1, <3>3
    <2>3. QED
      BY <2>1, <2>2
  <1>14. f = Rec(f)
    <2>1. Rec(f) = [x \in X |-> Rec(f)[x]]
      BY DEF Rec
    <2>2. f = [x \in X |-> f[x]]
      BY <1>12
    <2>3. \A x \in X : f[x] = Rec(f)[x]
      BY <1>7, <1>13
    <2>4. QED
      BY <2>1, <2>2, <2>3
  <1>15. DecodeChunks(e) = Rec(DecodeChunks(e))
    <2>1. (CHOOSE g : g = Rec(g)) = Rec(CHOOSE g : g = Rec(g))
      BY <1>14
    <2>2. QED
      BY <1>8, <2>1
  <1>16. DecodeChunks(e)[at] = Step(DecodeChunks(e), at)
    <2>1. at \in X
      BY DEF X
    <2>2. Rec(DecodeChunks(e))[at] = Step(DecodeChunks(e), at)
      BY <1>7, <2>1
    <2>3. QED
      BY <1>15, <2>2
  <1>17. QED
    BY <1>16

\* The first place of a set of places is the only one with none before it.
LEMMA FirstIsMin ==
    ASSUME NEW P, P \subseteq Int, NEW q \in P, \A r \in P : q <= r
    PROVE  Min(P) = q
  <1>1. \A x \in P : (\A y \in P : x <= y) => x = q
    BY DEF Min
  <1>2. Min(P) = CHOOSE x \in P : \A y \in P : x <= y
    BY Zenon DEF Min
  <1>3. QED
    BY <1>1, <1>2

\* The first unit that is no trailer, wherever it is.
LEMMA TrailersEndFacts ==
    ASSUME NEW e \in Seq(Units), NEW p \in Nat
    PROVE  /\ (\A q \in p .. Len(e) : e[q].type = "trailer") => TrailersEnd(e, p) = 0
           /\ \A q \in p .. Len(e) :
                 /\ e[q].type # "trailer" /\ \A r \in p .. q - 1 : e[r].type = "trailer"
                 => TrailersEnd(e, p) = q
  <1> DEFINE I == {q \in p .. Len(e) : e[q].type # "trailer"}
  <1>1. TrailersEnd(e, p) = IF I # {} THEN Min(I) ELSE 0
    BY Zenon DEF TrailersEnd, SelectInSubSeq
  <1>2. ASSUME \A q \in p .. Len(e) : e[q].type = "trailer" PROVE TrailersEnd(e, p) = 0
    <2>1. I = {}
      BY <1>2
    <2>2. QED
      BY <1>1, <2>1
  <1>3. ASSUME NEW q \in p .. Len(e), e[q].type # "trailer",
               \A r \in p .. q - 1 : e[r].type = "trailer"
        PROVE  TrailersEnd(e, p) = q
    <2>1. q \in I /\ I \subseteq Int
      BY <1>3
    <2>2. ASSUME NEW r \in I PROVE q <= r
      <3>1. r \in p .. Len(e) /\ ~(r \in p .. q - 1)
        BY <1>3
      <3>2. QED
        BY <3>1
    <2> HIDE DEF I
    <2>3. Min(I) = q
      BY <2>1, <2>2, FirstIsMin
    <2>4. QED
      BY <1>1, <2>1, <2>3
  <1>4. QED
    BY <1>2, <1>3

\* The head ends with the first blank line.
LEMMA HeadEndFacts ==
    ASSUME NEW b \in Seq(Units)
    PROVE  /\ (\A q \in 1 .. Len(b) : b[q].type # "end") => HeadEnd(b) = 0
           /\ \A q \in 1 .. Len(b) :
                 /\ b[q].type = "end" /\ \A r \in 1 .. q - 1 : b[r].type # "end"
                 => HeadEnd(b) = q
  <1> DEFINE I == {q \in 1 .. Len(b) : b[q].type = "end"}
  <1>1. HeadEnd(b) = IF I # {} THEN Min(I) ELSE 0
    BY Zenon DEF HeadEnd, SelectInSeq
  <1>2. ASSUME \A q \in 1 .. Len(b) : b[q].type # "end" PROVE HeadEnd(b) = 0
    <2>1. I = {}
      BY <1>2
    <2>2. QED
      BY <1>1, <2>1
  <1>3. ASSUME NEW q \in 1 .. Len(b), b[q].type = "end", \A r \in 1 .. q - 1 : b[r].type # "end"
        PROVE  HeadEnd(b) = q
    <2>1. q \in I /\ I \subseteq Int
      BY <1>3
    <2>2. ASSUME NEW r \in I PROVE q <= r
      <3>1. r \in 1 .. Len(b) /\ ~(r \in 1 .. q - 1)
        BY <1>3
      <3>2. QED
        BY <3>1
    <2> HIDE DEF I
    <2>3. Min(I) = q
      BY <2>1, <2>2, FirstIsMin
    <2>4. QED
      BY <1>1, <2>1, <2>3
  <1>4. QED
    BY <1>2, <1>3

\* Where the loops are after j chunks of the message.
PlaceOf(m, j) == [position |-> ChunksLen(m, j) + 1, decoded |-> DataLen(m, j)]

\* What has arrived is what was sent, as far as both go.
Agree(e, s) == \A q \in 1 .. Len(e) : q <= Len(s) => e[q] = s[q]

\* At chunk j the loops wait for more, find what is wrong, or go on to the next chunk.
LEMMA ChunkStep ==
    ASSUME NEW i \in Nat, NEW m \in Messages, Chunked(m),
           NEW e \in Seq(Units), Agree(e, BodyUnits(i, m)),
           NEW j \in 1 .. Len(m.parts),
           ChunksLen(m, j - 1) <= Len(e), DataLen(m, j - 1) <= MaxBody
    PROVE  LET at == PlaceOf(m, j - 1)
           IN  /\ at \in Places(e)
               /\ \/ /\ Stops(e, at) /\ ScanEnds(e, at) = More
                     /\ Len(e) < ChunksLen(m, j)
                  \/ /\ Stops(e, at) /\ ScanEnds(e, at) = Refused("400")
                     /\ m.fault \in {"size", "crlf"}
                  \/ /\ Stops(e, at) /\ ScanEnds(e, at) = Refused("413")
                     /\ DataLen(m, j) > MaxBody
                  \/ /\ ~Stops(e, at) /\ ~PassesOver(e, at) /\ PastChunk(e, at) = PlaceOf(m, j)
                     /\ ChunkOf(e, at) = Data(i, m, j)
                     /\ ChunksLen(m, j) <= Len(e) /\ DataLen(m, j) <= MaxBody
                     /\ m.fault \notin {"size", "crlf"}
  <1> DEFINE at == PlaceOf(m, j - 1)
             c == ChunksLen(m, j - 1)
             d == DataLen(m, j - 1)
             l == m.parts[j]
             p == c + 1
             n == e[p].n
             body == BodyUnits(i, m)
  <1>1. /\ c \in Nat /\ d \in Nat /\ l \in Nat \ {0} /\ j \in DOMAIN m.parts
        /\ ChunksLen(m, j) = c + l + 2 /\ DataLen(m, j) = d + l
        /\ c + l + 2 < Len(body) /\ Len(body) \in Nat /\ Len(e) \in Nat /\ MaxBody \in Nat
        /\ c <= Len(e) /\ d <= MaxBody
    <2>1. j \in 0 .. Len(m.parts) /\ j > 0
      BY MessageAssumption
    <2>2. /\ j - 1 \in 0 .. Len(m.parts) /\ l \in Nat \ {0}
          /\ ChunksLen(m, j) = c + l + 2 /\ DataLen(m, j) = d + l
          /\ ChunksLen(m, j) <= ChunksLen(m, Len(m.parts)) /\ ChunksLen(m, Len(m.parts)) \in Nat
          /\ DOMAIN m.parts = 1 .. Len(m.parts)
      BY <2>1, LenFacts
    <2>3. c \in Nat /\ d \in Nat
      BY <2>2, LenFacts
    <2>4. /\ Len(body) = LastAfter(m) + 3 /\ LastAfter(m) \in Nat
          /\ ChunksLen(m, Len(m.parts)) <= LastAfter(m)
      BY ChunkedLayout, LastAfterFacts
    <2> HIDE DEF body, l, c, d
    <2>5. Len(e) \in Nat /\ MaxBody \in Nat
      BY FramingAssumption
    <2>6. c + l + 2 < Len(body) /\ Len(body) \in Nat
      <3> DEFINE here == ChunksLen(m, j)
                 all == ChunksLen(m, Len(m.parts))
                 before == LastAfter(m)
      <3>1. /\ c \in Nat /\ l \in Nat /\ here = c + l + 2 /\ here <= all /\ all \in Nat
            /\ all <= before /\ before \in Nat /\ Len(body) = before + 3
        BY <2>2, <2>3, <2>4
      <3> HIDE DEF here, all, before
      <3>2. QED
        BY ONLY <3>1
    <2>7. c <= Len(e) /\ d <= MaxBody
      BY DEF c, d
    <2>8. j \in DOMAIN m.parts
      BY <2>2
    <2>9. QED
      BY <2>2, <2>3, <2>5, <2>6, <2>7, <2>8, Zenon
  <1>2. at.position = p /\ at.decoded = d
    BY DEF PlaceOf
  <1>3. at \in Places(e)
    <2>1. p \in 1 .. Len(e) + 1 /\ d \in 0 .. MaxBody
      <3> HIDE DEF c, d
      <3>1. c \in Nat /\ c <= Len(e) /\ Len(e) \in Nat
        BY <1>1
      <3>2. d \in Nat /\ d <= MaxBody /\ MaxBody \in Nat
        BY <1>1
      <3>3. p \in 1 .. Len(e) + 1
        BY ONLY <3>1 DEF p
      <3>4. d \in 0 .. MaxBody
        BY ONLY <3>2
      <3>5. QED
        BY <3>3, <3>4
    <2> HIDE DEF p, d
    <2>2. at = [position |-> p, decoded |-> d]
      BY DEF PlaceOf, p, c, d
    <2>3. QED
      BY <2>1, <2>2 DEF Places
  <1>4. \A q \in 1 .. c + l + 2 : q <= Len(e) => e[q] = body[q]
    <2> HIDE DEF c, d, body, l
    <2>1. Agree(e, body)
      BY DEF body
    <2>2. QED
      BY <1>1, <2>1 DEF Agree
  <1>5. ChunkAt(body, c, i, m, j)
    BY ChunkedLayout
  <1> HIDE DEF at, c, d, l, p, n, body
  <1>6. /\ body[c + 1] = Unit(Marked("size", m), i, l)
        /\ \A q \in 1 .. l : body[c + 1 + q] = Data(i, m, j)[q]
        /\ body[c + l + 2] = Unit(Marked("crlf", m), i, 0)
    BY <1>5 DEF ChunkAt, l
  <1>7. p \in Nat /\ p = c + 1
    BY <1>1 DEF p
  <1>8. CASE p > Len(e)
    <2>0. ~PassesOver(e, at)
      <3>1. p \in Nat /\ Len(e) \in Nat
        BY <1>1, <1>7
      <3>2. QED
        BY <1>2, <1>8, <3>1 DEF PassesOver
    <2>1. Stops(e, at) /\ ScanEnds(e, at) = More
      BY <1>2, <1>8, <2>0, Zenon DEF Stops, ScanEnds
    <2>2. Len(e) < c + l + 2
      BY <1>1, <1>7, <1>8
    <2>3. QED
      BY <1>1, <1>3, <2>1, <2>2 DEF at
  <1>9. CASE ~(p > Len(e))
    <2>1. p \in 1 .. c + l + 2 /\ p <= Len(e)
      <3>1. p \in Nat /\ Len(e) \in Nat /\ c \in Nat /\ l \in Nat \ {0} /\ p = c + 1
        BY <1>1, <1>7
      <3>2. QED
        BY ONLY <1>9, <3>1
    <2>2. e[p] = Unit(Marked("size", m), i, l)
      BY <1>4, <1>6, <1>7, <2>1
    <2>3. n = l /\ e[p].type = IF m.fault = "size" THEN "junk" ELSE "size"
      BY <2>2 DEF Unit, Marked, n
    <2>0. ~PassesOver(e, at) /\ e[p].type # "back"
      BY <1>2, <2>3 DEF PassesOver
    <2>4. CASE m.fault = "size"
      <3>1. e[p].type # "size"
        BY <2>3, <2>4
      <3>2. Stops(e, at) /\ ScanEnds(e, at) = Refused("400")
        BY <1>2, <1>9, <2>0, <3>1, Zenon DEF Stops, ScanEnds
      <3>3. QED
        BY <1>3, <2>4, <3>2 DEF at
    <2>5. CASE m.fault # "size" /\ Len(e) < p + l + 1
      <3>1. e[p].type = "size" /\ e[p].n = l /\ l # 0
        BY <1>1, <2>3, <2>5 DEF n
      <3>2. Stops(e, at) /\ ScanEnds(e, at) = More
        BY <1>2, <1>9, <2>5, <2>0, <3>1, Zenon DEF Stops, ScanEnds
      <3>3. Len(e) < c + l + 2
        BY <1>1, <1>7, <2>5
      <3>4. QED
        BY <1>1, <1>3, <3>2, <3>3 DEF at
    <2>6. CASE m.fault # "size" /\ ~(Len(e) < p + l + 1) /\ d + l > MaxBody
      <3>1. e[p].type = "size" /\ e[p].n = l /\ l # 0
        BY <1>1, <2>3, <2>6 DEF n
      <3>2. Stops(e, at) /\ ScanEnds(e, at) = Refused("413")
        BY <1>2, <1>9, <2>6, <2>0, <3>1, Zenon DEF Stops, ScanEnds
      <3>3. QED
        BY <1>1, <1>3, <2>6, <3>2 DEF at
    <2>7. CASE m.fault # "size" /\ ~(Len(e) < p + l + 1) /\ ~(d + l > MaxBody)
      <3>1. e[p].type = "size" /\ e[p].n = l /\ l # 0
        BY <1>1, <2>3, <2>7 DEF n
      <3>2. p + l + 1 = c + l + 2 /\ p + l + 1 \in 1 .. c + l + 2 /\ p + l + 1 <= Len(e)
        BY <1>1, <1>7, <2>7
      <3>3. e[p + l + 1] = Unit(Marked("crlf", m), i, 0)
        BY <1>4, <1>6, <3>2
      <3>4. e[p + l + 1].type = IF m.fault = "crlf" THEN "junk" ELSE "crlf"
        BY <3>3 DEF Unit, Marked
      <3>5. CASE m.fault = "crlf"
        <4>1. e[p + l + 1].type # "crlf"
          BY <3>4, <3>5
        <4>2. Stops(e, at) /\ ScanEnds(e, at) = Refused("400")
          BY <1>2, <1>9, <2>7, <2>0, <3>1, <4>1, Zenon DEF Stops, ScanEnds
        <4>3. QED
          BY <1>3, <3>5, <4>2 DEF at
      <3>6. CASE m.fault # "crlf"
        <4>1. e[p + l + 1].type = "crlf"
          BY <3>4, <3>6
        <4>2. ~Stops(e, at)
          BY <1>2, <1>9, <2>7, <2>0, <3>1, <4>1, Zenon DEF Stops
        <4>3. PastChunk(e, at) = PlaceOf(m, j)
          <5>1. PastChunk(e, at) = [position |-> p + l + 2, decoded |-> d + l]
            BY <1>2, <2>0, <3>1, Zenon DEF PastChunk, Past
          <5>2. p + l + 2 = c + l + 2 + 1
            BY <1>1, <1>7
          <5>3. QED
            BY <1>1, <5>1, <5>2, Zenon DEF PlaceOf
        <4>4. ChunkOf(e, at) = Data(i, m, j)
          <5>1. ChunkOf(e, at) = SubSeq(e, p + 1, p + l)
            BY <1>2, <3>1, Zenon DEF ChunkOf
          <5>2. Data(i, m, j) \in Seq(Units) /\ Len(Data(i, m, j)) = l
            BY <1>1, PartFacts DEF l
          <5>3. ASSUME NEW q \in 1 .. l PROVE e[p + q] = Data(i, m, j)[q]
            <6>1. p + q = c + 1 + q /\ p + q \in 1 .. c + l + 2 /\ p + q <= Len(e)
              <7>1. q \in Nat /\ 1 <= q /\ q <= l /\ l \in Nat /\ c \in Nat /\ Len(e) \in Nat
                BY <1>1
              <7>2. c + 1 + l + 1 <= Len(e)
                BY <1>1, <1>7, <3>2
              <7>3. c + 1 + q \in 1 .. c + l + 2 /\ c + 1 + q <= Len(e)
                BY ONLY <7>1, <7>2
              <7>4. QED
                BY <1>7, <7>3
            <6>2. QED
              BY <1>4, <1>6, <6>1
          <5>4. /\ p + 1 \in Int /\ p + l \in Int /\ (p + l) - (p + 1) + 1 = l
                /\ (IF p + 1 <= p + l THEN (p + l) - (p + 1) + 1 ELSE 0) = l
                /\ \A q \in 1 .. l : (p + 1) + q - 1 = p + q
            BY <1>1, <1>7
          <5>5. \A q \in (p + 1) .. (p + l) : e[q] \in Units
            <6>1. (p + 1) .. (p + l) \subseteq 1 .. Len(e)
              BY <1>1, <1>7, <3>2
            <6>2. QED
              BY <6>1
          <5> DEFINE s == SubSeq(e, p + 1, p + l)
          <5>6. s \in Seq(Units) /\ Len(s) = l /\ \A q \in 1 .. l : s[q] = e[p + q]
            BY <5>4, <5>5, SubSeqProperties
          <5> DEFINE t == Data(i, m, j)
          <5> HIDE DEF s, t
          <5>7. t \in Seq(Units) /\ Len(t) = Len(s) /\ \A q \in 1 .. Len(s) : s[q] = t[q]
            BY <5>2, <5>3, <5>6 DEF t
          <5>8. s = t
            BY <5>6, <5>7, SeqEqual
          <5>9. QED
            BY <5>1, <5>8 DEF s, t
        <4>5. ChunksLen(m, j) <= Len(e) /\ DataLen(m, j) <= MaxBody
          BY <1>1, <2>7, <3>2
        <4>6. QED
          BY <1>3, <2>7, <3>6, <2>0, <4>2, <4>3, <4>4, <4>5 DEF at
      <3>7. QED
        BY <3>5, <3>6
    <2>8. QED
      BY <2>4, <2>5, <2>6, <2>7
  <1>10. QED
    BY <1>8, <1>9

\* Where the loops are at the last chunk, which is empty.
LastPlace(m) == [position |-> LastAfter(m) + 1, decoded |-> DataLen(m, Len(m.parts))]

\* A size line before the last chunk, of a negative size, is waited for, passed over, refused
\* when it is the first line, or else gone back to for ever.
LEMMA NegativeStep ==
    ASSUME NEW i \in Nat, NEW m \in Messages, Chunked(m), Gap(m) = 1,
           NEW e \in Seq(Units), Agree(e, BodyUnits(i, m)),
           ChunksLen(m, Len(m.parts)) <= Len(e), DataLen(m, Len(m.parts)) <= MaxBody
    PROVE  LET at == PlaceOf(m, Len(m.parts))
           IN  /\ at \in Places(e)
               /\ \/ /\ Stops(e, at) /\ ScanEnds(e, at) = More
                     /\ Len(e) < Len(BodyUnits(i, m)) /\ Len(e) < LastAfter(m)
                  \/ Stops(e, at) /\ ScanEnds(e, at) = Refused("400") /\ m.fault = "back"
                  \/ /\ Stops(e, at) /\ ScanEnds(e, at) = Loops /\ m.fault = "back"
                     /\ m.parts # << >>
                  \/ /\ ~Stops(e, at) /\ PassesOver(e, at) /\ PastChunk(e, at) = LastPlace(m)
                     /\ LastAfter(m) <= Len(e) /\ m.fault = "over"
  <1> DEFINE at == PlaceOf(m, Len(m.parts))
             c == ChunksLen(m, Len(m.parts))
             d == DataLen(m, Len(m.parts))
             body == BodyUnits(i, m)
             l == Len(e)
  <1>1. /\ c \in Nat /\ d \in Nat /\ l \in Nat /\ MaxBody \in Nat /\ c <= l /\ d <= MaxBody
    <2>1. Len(m.parts) \in 0 .. Len(m.parts)
      BY MessageAssumption
    <2>2. c \in Nat /\ d \in Nat
      BY <2>1, LenFacts
    <2>3. l \in Nat /\ MaxBody \in Nat
      BY FramingAssumption
    <2>4. QED
      BY <2>2, <2>3
  <1>2. Len(body) = c + 4 /\ body[c + 1] = Unit(m.fault, i, 0) /\ LastAfter(m) = c + 1
    <2>1. Len(body) = LastAfter(m) + 3 /\ body[c + 1] = Unit(m.fault, i, 0)
      BY ChunkedLayout
    <2>2. LastAfter(m) = c + 1
      BY DEF LastAfter
    <2> HIDE DEF body, c
    <2>3. QED
      BY <1>1, <2>1, <2>2
  <1>3. at.position = c + 1 /\ at = [position |-> c + 1, decoded |-> d]
    BY DEF PlaceOf
  <1>0. m.fault \in {"over", "back"}
    BY DEF Gap
  <1>4. m.parts = << >> => c = 0
    <2>1. m.parts = << >> => Len(m.parts) = 0
      OBVIOUS
    <2>2. ChunksLen(m, 0) = 0
      BY MessageAssumption, LenFacts
    <2>3. QED
      BY <2>1, <2>2
  <1>5. LastPlace(m) = [position |-> c + 2, decoded |-> d]
    BY <1>1, <1>2 DEF LastPlace
  <1> HIDE DEF at, c, d, body, l
  <1>6. at \in Places(e)
    <2>1. c + 1 \in 1 .. l + 1 /\ d \in 0 .. MaxBody
      BY <1>1
    <2>2. QED
      BY <1>3, <2>1 DEF Places, l
  <1>7. c + 1 <= l => e[c + 1] = body[c + 1]
    <2>1. Agree(e, body)
      BY DEF body
    <2>2. QED
      BY <1>1, <1>2, <2>1 DEF Agree, l
  <1>8. CASE l < c + 1
    <2>1. c + 1 > Len(e) /\ ~(c + 1 <= Len(e))
      BY <1>1, <1>8 DEF l
    <2>2. Stops(e, at) /\ ScanEnds(e, at) = More
      BY <1>3, <2>1, Zenon DEF Stops, ScanEnds, PassesOver
    <2>3. l < Len(body) /\ l < LastAfter(m)
      BY <1>1, <1>2, <1>8
    <2>4. QED
      BY <1>6, <2>2, <2>3 DEF at, l, body
  <1>9. CASE ~(l < c + 1)
    <2>1. c + 1 <= Len(e) /\ ~(c + 1 > Len(e))
      BY <1>1, <1>9 DEF l
    <2>2. e[c + 1].type = m.fault
      <3>1. e[c + 1] = Unit(m.fault, i, 0)
        BY <1>2, <1>7, <2>1 DEF l
      <3>2. QED
        BY <3>1 DEF Unit
    <2>3. CASE m.fault = "back"
      <3>1. ~PassesOver(e, at)
        BY <1>3, <2>2, <2>3 DEF PassesOver
      <3>2. Stops(e, at)
        BY <1>3, <2>2, <2>3, <3>1 DEF Stops
      <3>3. ScanEnds(e, at) = IF c + 1 = 1 THEN Refused("400") ELSE Loops
        BY <1>3, <2>1, <2>2, <2>3, Zenon DEF ScanEnds
      <3>4. \/ ScanEnds(e, at) = Refused("400")
            \/ ScanEnds(e, at) = Loops /\ m.parts # << >>
        <4>1. CASE c + 1 = 1
          BY <3>3, <4>1
        <4>2. CASE c + 1 # 1
          <5>1. m.parts # << >>
            BY <1>4, <4>2
          <5>2. QED
            BY <3>3, <4>2, <5>1
        <4>3. QED
          BY <4>1, <4>2
      <3>5. QED
        BY <1>6, <2>3, <3>2, <3>4 DEF at
    <2>4. CASE m.fault = "over"
      <3>1. PassesOver(e, at)
        BY <1>3, <2>1, <2>2, <2>4 DEF PassesOver
      <3>2. ~Stops(e, at)
        BY <3>1 DEF Stops
      <3>3. PastChunk(e, at) = [position |-> (c + 1) + 1, decoded |-> d]
        BY <1>3, <3>1 DEF PastChunk, PastLine
      <3>4. (c + 1) + 1 = c + 2 /\ LastAfter(m) <= Len(e)
        BY <1>1, <1>2, <2>1
      <3>5. QED
        BY <1>5, <1>6, <2>4, <3>1, <3>2, <3>3, <3>4 DEF at
    <2>5. QED
      BY <1>0, <2>3, <2>4
  <1>10. QED
    BY <1>8, <1>9

\* After the last chunk the loops wait for the trailer and the blank line, and that is all.
LEMMA LastChunkStep ==
    ASSUME NEW i \in Nat, NEW m \in Messages, Chunked(m),
           NEW e \in Seq(Units), Agree(e, BodyUnits(i, m)),
           LastAfter(m) <= Len(e), DataLen(m, Len(m.parts)) <= MaxBody
    PROVE  LET at == LastPlace(m)
               all == Len(BodyUnits(i, m))
           IN  /\ at \in Places(e) /\ Stops(e, at)
               /\ \/ ScanEnds(e, at) = More /\ Len(e) < all
                  \/ ScanEnds(e, at) = Refused("400") /\ m.fault = "trailer"
                  \/ /\ ScanEnds(e, at) = Whole(all) /\ all <= Len(e) /\ m.fault # "trailer"
                     /\ Len(e) = all => DecodeEnds(e, at) = Readable(<< >>)
  <1> DEFINE at == LastPlace(m)
             c == LastAfter(m)
             d == DataLen(m, Len(m.parts))
             body == BodyUnits(i, m)
             l == Len(e)
  <1>1. /\ c \in Nat /\ d \in Nat /\ l \in Nat /\ MaxBody \in Nat /\ c <= l /\ d <= MaxBody
    <2>1. Len(m.parts) \in 0 .. Len(m.parts)
      BY MessageAssumption
    <2>2. c \in Nat /\ d \in Nat
      BY <2>1, LenFacts, ChunkedLayout
    <2>3. l \in Nat /\ MaxBody \in Nat
      BY FramingAssumption
    <2>4. QED
      BY <2>2, <2>3
  <1>2. /\ Len(body) = c + 3 /\ body[c + 1] = Unit("size", i, 0)
        /\ body[c + 2] = Unit(Marked("trailer", m), i, 0) /\ body[c + 3] = Unit("crlf", i, 0)
    BY ChunkedLayout
  <1>3. at.position = c + 1 /\ at = [position |-> c + 1, decoded |-> d]
    BY DEF LastPlace
  <1> HIDE DEF at, c, d, body, l
  <1>4. at \in Places(e)
    <2>1. c + 1 \in 1 .. l + 1 /\ d \in 0 .. MaxBody
      BY <1>1
    <2>2. QED
      BY <1>3, <2>1 DEF Places, l
  <1>5. \A q \in 1 .. c + 3 : q <= l => e[q] = body[q]
    <2>1. Agree(e, body)
      BY DEF body
    <2>2. QED
      BY <1>1, <1>2, <2>1 DEF Agree, l
  <1>6. CASE l < c + 1
    <2>1. Stops(e, at) /\ ScanEnds(e, at) = More
      <3>1. c + 1 > Len(e)
        BY <1>1, <1>6 DEF l
      <3>2. ~(c + 1 <= Len(e))
        BY <1>1, <1>6 DEF l
      <3>3. QED
        BY <1>3, <3>1, <3>2, Zenon DEF Stops, ScanEnds, PassesOver
    <2>2. l < Len(body)
      BY <1>1, <1>2, <1>6
    <2>3. QED
      BY <1>4, <2>1, <2>2 DEF at, l, body
  <1>7. CASE ~(l < c + 1)
    <2>1. ~(c + 1 > Len(e)) /\ c + 1 + 1 = c + 2
      BY <1>1, <1>7 DEF l
    <2>2. e[c + 1].type = "size" /\ e[c + 1].n = 0
      <3>1. e[c + 1] = body[c + 1]
        BY <1>1, <1>5, <1>7
      <3>2. QED
        BY <1>2, <3>1 DEF Unit
    <2>3. /\ Stops(e, at) /\ ScanEnds(e, at) = ChunkedEnd(e, c + 2)
          /\ DecodeEnds(e, at) = DecodedEnd(e, c + 2)
      <3>1. e[c + 1].type # "over" /\ e[c + 1].type # "back"
        BY <2>2
      <3>2. QED
        BY <1>3, <2>1, <2>2, <3>1, Zenon DEF Stops, ScanEnds, DecodeEnds, PassesOver
    <2>4. c + 2 \in Nat
      BY <1>1
    <2>5. CASE l = c + 1
      <3>1. \A q \in c + 2 .. Len(e) : e[q].type = "trailer"
        BY <1>1, <2>5 DEF l
      <3>2. TrailersEnd(e, c + 2) = 0
        BY <2>4, <3>1, TrailersEndFacts
      <3>3. ScanEnds(e, at) = More
        BY <2>3, <3>2 DEF ChunkedEnd
      <3>4. l < Len(body)
        BY <1>1, <1>2, <2>5
      <3>5. QED
        BY <1>4, <2>3, <3>3, <3>4 DEF at, l, body
    <2>6. CASE l > c + 1
      <3>1. e[c + 2].type = IF m.fault = "trailer" THEN "junk" ELSE "trailer"
        <4>1. e[c + 2] = body[c + 2]
          BY <1>1, <1>5, <2>6
        <4>2. QED
          BY <1>2, <4>1 DEF Unit, Marked
      <3>2. c + 2 \in c + 2 .. Len(e)
        BY <1>1, <2>6 DEF l
      <3>3. CASE m.fault = "trailer"
        <4>1. e[c + 2].type = "junk"
          BY <3>1, <3>3
        <4>2. \A r \in c + 2 .. (c + 2) - 1 : e[r].type = "trailer"
          BY <1>1
        <4>3. TrailersEnd(e, c + 2) = c + 2
          BY <2>4, <3>2, <4>1, <4>2, TrailersEndFacts
        <4>4. c + 2 # 0
          BY <1>1
        <4>5. ScanEnds(e, at) = Refused("400")
          BY <2>3, <4>1, <4>3, <4>4 DEF ChunkedEnd
        <4>6. QED
          BY <1>4, <2>3, <3>3, <4>5 DEF at
      <3>4. CASE m.fault # "trailer" /\ l = c + 2
        <4>1. \A q \in c + 2 .. Len(e) : e[q].type = "trailer"
          BY <1>1, <3>1, <3>4 DEF l
        <4>2. TrailersEnd(e, c + 2) = 0
          BY <2>4, <4>1, TrailersEndFacts
        <4>3. ScanEnds(e, at) = More
          BY <2>3, <4>2 DEF ChunkedEnd
        <4>4. l < Len(body)
          BY <1>1, <1>2, <3>4
        <4>5. QED
          BY <1>4, <2>3, <4>3, <4>4 DEF at, l, body
      <3>5. CASE m.fault # "trailer" /\ l # c + 2
        <4>1. c + 3 <= l /\ c + 3 \in c + 2 .. Len(e) /\ c + 3 # 0
          BY <1>1, <2>6, <3>5 DEF l
        <4>2. e[c + 3].type = "crlf"
          <5>1. e[c + 3] = body[c + 3]
            <6>1. c + 3 \in 1 .. c + 3
              BY <1>1
            <6>2. QED
              BY <1>5, <4>1, <6>1
          <5>2. QED
            BY <1>2, <5>1 DEF Unit
        <4>3. \A r \in c + 2 .. (c + 3) - 1 : e[r].type = "trailer"
          BY <1>1, <3>1, <3>5
        <4>4. TrailersEnd(e, c + 2) = c + 3
          <5>1. e[c + 3].type # "trailer"
            BY <4>2
          <5>2. QED
            BY <2>4, <4>1, <4>3, <5>1, TrailersEndFacts
        <4>5. ScanEnds(e, at) = Whole(c + 3)
          BY <2>3, <4>1, <4>2, <4>4, Zenon DEF ChunkedEnd
        <4>6. Len(e) = c + 3 => DecodeEnds(e, at) = Readable(<< >>)
          BY <2>3, <4>1, <4>2, <4>4, Zenon DEF DecodedEnd
        <4>7. QED
          BY <1>2, <1>4, <2>3, <3>5, <4>1, <4>5, <4>6 DEF at, l, body
      <3>6. QED
        BY <3>3, <3>4, <3>5
    <2>7. QED
      BY <1>1, <1>7, <2>5, <2>6
  <1>8. QED
    BY <1>6, <1>7

\* The faults of chunks that a decoder does not get past.
ChunkFaults == {"size", "crlf", "trailer", "back"}

\* What _chunked_body_complete_length says of what has arrived of a chunked body, and of
\* whatever comes after it: to wait while it is not all there, how long it is once it is, and
\* that it is to be refused only when it is; and it says nothing, for ever, only of a chunk of
\* negative size after another chunk.
LEMMA ChunkedLengthFinds ==
    ASSUME NEW i \in Nat, NEW m \in Messages, Chunked(m),
           NEW e \in Seq(Units), Agree(e, BodyUnits(i, m))
    PROVE  LET all == Len(BodyUnits(i, m))
               meant == DataLen(m, Len(m.parts))
           IN  \/ ChunkedLength(e) = More /\ Len(e) < all
               \/ ChunkedLength(e) = Refused("400") /\ m.fault \in ChunkFaults
               \/ ChunkedLength(e) = Refused("413") /\ meant > MaxBody
               \/ ChunkedLength(e) = Loops /\ m.fault = "back" /\ m.parts # << >>
               \/ /\ ChunkedLength(e) = Whole(all) /\ all <= Len(e)
                  /\ m.fault \notin ChunkFaults /\ meant <= MaxBody
  <1> DEFINE n == Len(m.parts)
             all == Len(BodyUnits(i, m))
             meant == DataLen(m, n)
             out == ChunkedLength(e)
             scan == ScanChunks(e)
             c(j) == ChunksLen(m, j)
             Decided == \/ out = More /\ Len(e) < all
                        \/ out = Refused("400") /\ m.fault \in ChunkFaults
                        \/ out = Refused("413") /\ meant > MaxBody
                        \/ out = Loops /\ m.fault = "back" /\ m.parts # << >>
             At(j) == /\ out = scan[PlaceOf(m, j)] /\ c(j) <= Len(e) /\ DataLen(m, j) <= MaxBody
                      /\ j > 0 => m.fault \notin {"size", "crlf"}
             S == {j \in 0 .. n : Decided \/ At(j)}
  <1>1. n \in Nat /\ MaxBody \in Nat /\ Len(e) \in Nat
    BY MessageAssumption, FramingAssumption
  <1>2. 0 \in S
    <2>1. c(0) = 0 /\ DataLen(m, 0) = 0
      <3>1. 0 \in 0 .. n
        BY <1>1
      <3>2. QED
        BY <3>1, LenFacts
    <2>2. PlaceOf(m, 0) = Start
      BY <2>1 DEF PlaceOf, Start
    <2>3. out = scan[PlaceOf(m, 0)]
      BY <2>2, Zenon DEF ChunkedLength
    <2> HIDE DEF c, out, scan, Decided, n
    <2>4. At(0) /\ 0 \in 0 .. n
      BY <1>1, <2>1, <2>3
    <2> HIDE DEF At
    <2>5. QED
      BY <2>4
  <1>3. ASSUME NEW k \in 0 .. n - 1, k \in S PROVE k + 1 \in S
    <2> DEFINE j == k + 1
               at == PlaceOf(m, k)
    <2>1. j \in 1 .. n /\ j \in 0 .. n /\ j - 1 = k /\ j > 0
      BY <1>1
    <2> HIDE DEF At, Decided
    <2>2. CASE Decided
      BY <2>1, <2>2
    <2>3. CASE At(k)
      <3>1. out = scan[at] /\ c(k) <= Len(e) /\ DataLen(m, k) <= MaxBody
        BY <2>3 DEF At
      <3>2. /\ at \in Places(e)
            /\ \/ /\ Stops(e, at) /\ ScanEnds(e, at) = More
                  /\ Len(e) < c(j)
               \/ /\ Stops(e, at) /\ ScanEnds(e, at) = Refused("400")
                  /\ m.fault \in {"size", "crlf"}
               \/ /\ Stops(e, at) /\ ScanEnds(e, at) = Refused("413")
                  /\ DataLen(m, j) > MaxBody
               \/ /\ ~Stops(e, at) /\ ~PassesOver(e, at) /\ PastChunk(e, at) = PlaceOf(m, j)
                  /\ ChunkOf(e, at) = Data(i, m, j)
                  /\ c(j) <= Len(e) /\ DataLen(m, j) <= MaxBody
                  /\ m.fault \notin {"size", "crlf"}
        <4> HIDE DEF j, n
        <4>1. j \in 1 .. Len(m.parts) /\ c(j - 1) <= Len(e) /\ DataLen(m, j - 1) <= MaxBody
          BY <2>1, <3>1 DEF n
        <4>2. QED
          BY <2>1, <4>1, ChunkStep
      <3>3. scan[at] = IF Stops(e, at) THEN ScanEnds(e, at) ELSE scan[PastChunk(e, at)]
        BY <3>2, ScanRecursion
      <3>4. /\ c(j) \in Nat /\ c(j) < all /\ DataLen(m, j) <= meant
            /\ DataLen(m, j) \in Nat /\ meant \in Nat /\ all \in Nat
        <4>1. /\ c(j) \in Nat /\ c(j) <= c(n) /\ DataLen(m, j) <= meant
              /\ DataLen(m, j) \in Nat /\ meant \in Nat /\ c(n) \in Nat
          BY <2>1, LenFacts
        <4>2. all = LastAfter(m) + 3 /\ LastAfter(m) \in Nat /\ c(n) <= LastAfter(m)
          BY ChunkedLayout, LastAfterFacts
        <4> HIDE DEF c, all, n, meant, j
        <4>3. QED
          BY <4>1, <4>2
      <3> HIDE DEF scan, at, c, meant, out, all, j
      <3>5. CASE Stops(e, at) /\ ScanEnds(e, at) = More /\ Len(e) < c(j)
        <4>1. out = More /\ Len(e) < all
          BY <1>1, <3>1, <3>3, <3>4, <3>5
        <4>2. Decided
          BY <4>1 DEF Decided
        <4>3. QED
          BY <2>1, <4>2 DEF j
      <3>6. CASE Stops(e, at) /\ ScanEnds(e, at) = Refused("400") /\ m.fault \in {"size", "crlf"}
        <4>1. Decided
          BY <3>1, <3>3, <3>6 DEF Decided, ChunkFaults
        <4>2. QED
          BY <2>1, <4>1 DEF j
      <3>7. CASE Stops(e, at) /\ ScanEnds(e, at) = Refused("413") /\ DataLen(m, j) > MaxBody
        <4>1. meant > MaxBody
          BY <1>1, <3>4, <3>7
        <4>2. Decided
          BY <3>1, <3>3, <3>7, <4>1 DEF Decided
        <4>3. QED
          BY <2>1, <4>2 DEF j
      <3>8. CASE /\ ~Stops(e, at) /\ PastChunk(e, at) = PlaceOf(m, j)
                 /\ c(j) <= Len(e) /\ DataLen(m, j) <= MaxBody
                 /\ m.fault \notin {"size", "crlf"}
        <4>1. At(j)
          BY <3>1, <3>3, <3>8 DEF At
        <4>2. QED
          BY <2>1, <4>1 DEF j
      <3>9. QED
        BY <3>2, <3>5, <3>6, <3>7, <3>8
    <2>4. QED
      BY <1>3, <2>2, <2>3
  <1>4. n \in S
    <2> HIDE DEF S, n
    <2>1. QED
      BY <1>1, <1>2, <1>3, SetInduction
  <1>5. CASE Decided
    BY <1>5
  <1>6. CASE At(n)
    <2> DEFINE at == PlaceOf(m, n)
    <2>1. out = scan[at] /\ c(n) <= Len(e) /\ meant <= MaxBody
      BY <1>6
    <2>2. n > 0 \/ n = 0
      BY <1>1
    <2>3. m.fault \notin {"size", "crlf"}
      <3>1. CASE n > 0
        BY <1>6, <3>1
      <3>2. CASE n = 0
        <4>1. m.parts = << >>
          BY <3>2, MessageAssumption
        <4>2. QED
          BY <4>1, MessageAssumption
      <3>3. QED
        BY <2>2, <3>1, <3>2
    <2> DEFINE end == LastPlace(m)
    <2>4. ASSUME LastAfter(m) <= Len(e)
          PROVE  /\ scan[end] = ScanEnds(e, end)
                 /\ \/ ScanEnds(e, end) = More /\ Len(e) < all
                    \/ ScanEnds(e, end) = Refused("400") /\ m.fault = "trailer"
                    \/ ScanEnds(e, end) = Whole(all) /\ all <= Len(e) /\ m.fault # "trailer"
      <3>1. /\ end \in Places(e) /\ Stops(e, end)
            /\ \/ ScanEnds(e, end) = More /\ Len(e) < all
               \/ ScanEnds(e, end) = Refused("400") /\ m.fault = "trailer"
               \/ ScanEnds(e, end) = Whole(all) /\ all <= Len(e) /\ m.fault # "trailer"
        BY <2>1, <2>4, LastChunkStep
      <3>2. scan[end] = ScanEnds(e, end)
        BY <3>1, ScanRecursion
      <3>3. QED
        BY <3>1, <3>2
    <2>5. \/ /\ out = scan[end] /\ LastAfter(m) <= Len(e) /\ m.fault # "back"
          \/ Decided
      <3>1. CASE Gap(m) = 0
        <4>1. LastAfter(m) = c(n) /\ m.fault # "back"
          <5>1. c(n) \in Nat
            BY <1>1, LenFacts
          <5>2. m.fault # "back"
            BY <3>1 DEF Gap
          <5>3. LastAfter(m) = c(n) + 0
            BY <3>1 DEF LastAfter
          <5> HIDE DEF c, n
          <5>4. QED
            BY <5>1, <5>2, <5>3
        <4>2. end = at
          BY <4>1, Zenon DEF LastPlace, PlaceOf
        <4> HIDE DEF out, scan, Decided, end, at, c, n
        <4>3. QED
          BY <2>1, <4>1, <4>2
      <3>2. CASE Gap(m) = 1
        <4>1. /\ at \in Places(e)
              /\ \/ Stops(e, at) /\ ScanEnds(e, at) = More /\ Len(e) < all
                 \/ Stops(e, at) /\ ScanEnds(e, at) = Refused("400") /\ m.fault = "back"
                 \/ /\ Stops(e, at) /\ ScanEnds(e, at) = Loops /\ m.fault = "back"
                    /\ m.parts # << >>
                 \/ /\ ~Stops(e, at) /\ PassesOver(e, at) /\ PastChunk(e, at) = end
                    /\ LastAfter(m) <= Len(e) /\ m.fault = "over"
          BY <2>1, <3>2, NegativeStep
        <4>2. scan[at] = IF Stops(e, at) THEN ScanEnds(e, at) ELSE scan[PastChunk(e, at)]
          BY <4>1, ScanRecursion
        <4> HIDE DEF out, scan, end, at, c, n, all, meant
        <4>3. QED
          BY <2>1, <4>1, <4>2 DEF ChunkFaults
      <3>3. QED
        BY <3>1, <3>2 DEF Gap
    <2> HIDE DEF at, scan, n, c, out, all, meant, end, Decided
    <2>6. CASE out = scan[end] /\ LastAfter(m) <= Len(e) /\ m.fault # "back"
      <3>1. \/ out = More /\ Len(e) < all
            \/ out = Refused("400") /\ m.fault \in ChunkFaults
            \/ out = Whole(all) /\ all <= Len(e) /\ m.fault \notin ChunkFaults
        BY <2>3, <2>4, <2>6 DEF ChunkFaults
      <3>2. QED
        BY <2>1, <3>1 DEF out, all, meant, n
    <2>7. CASE Decided
      BY <2>7 DEF Decided, out, all, meant, n
    <2>8. QED
      BY <2>5, <2>6, <2>7
  <1>7. QED
    <2> HIDE DEF At, Decided
    <2>1. Decided \/ At(n)
      BY <1>4
    <2>2. QED
      BY <2>1, <1>5, <1>6

\* What _decode_chunked_body makes of a chunked body that was found whole is the body that was
\* meant, with or without a chunk of size -2 at its end.
LEMMA DecodeFinds ==
    ASSUME NEW i \in Nat, NEW m \in Messages, Chunked(m), m.fault \notin ChunkFaults,
           DataLen(m, Len(m.parts)) <= MaxBody
    PROVE  DecodeChunked(BodyUnits(i, m)) = Readable(Meant(i, m))
  <1> DEFINE n == Len(m.parts)
             e == BodyUnits(i, m)
             scan == DecodeChunks(e)
             data(j) == DataUpTo(i, m, j)
             Leads(j) == \A b \in Seq(Units) :
                            scan[PlaceOf(m, j)] = Readable(b)
                            => scan[Start] = Readable(data(j) \o b)
             S == {j \in 0 .. n : Leads(j)}
  <1>1. n \in Nat /\ MaxBody \in Nat /\ n \in 0 .. n /\ 0 \in 0 .. n
    BY MessageAssumption, FramingAssumption
  <1>2. e \in Seq(Units) /\ Len(e) = LastAfter(m) + 3 /\ Agree(e, e) /\ LastAfter(m) \in Nat
    BY ChunkedLayout DEF Agree
  <1>3. ASSUME NEW j \in 0 .. n
        PROVE  /\ ChunksLen(m, j) <= Len(e) /\ DataLen(m, j) <= MaxBody
               /\ data(j) \in Seq(Units)
               /\ ChunksLen(m, j) \in Nat /\ DataLen(m, j) \in Nat
    <2>1. /\ ChunksLen(m, j) \in Nat /\ ChunksLen(m, n) \in Nat
          /\ ChunksLen(m, j) <= ChunksLen(m, n)
          /\ DataLen(m, j) \in Nat /\ DataLen(m, n) \in Nat /\ DataLen(m, j) <= DataLen(m, n)
      BY LenFacts
    <2>2. data(j) \in Seq(Units)
      BY UpToFacts
    <2>3. DataLen(m, n) <= MaxBody /\ ChunksLen(m, n) <= LastAfter(m)
      BY LastAfterFacts
    <2> HIDE DEF n, e, data
    <2>4. ChunksLen(m, j) <= Len(e)
      <3> DEFINE here == ChunksLen(m, j)
                 all == ChunksLen(m, n)
                 before == LastAfter(m)
      <3>1. /\ here \in Nat /\ here <= all /\ all \in Nat
            /\ all <= before /\ before \in Nat /\ Len(e) = before + 3
        BY <1>2, <2>1, <2>3
      <3> HIDE DEF here, all, before
      <3>2. here <= Len(e)
        BY <3>1
      <3>3. QED
        BY <3>2 DEF here
    <2>5. DataLen(m, j) <= MaxBody
      BY <1>1, <2>1, <2>3
    <2>6. QED
      BY <2>1, <2>2, <2>4, <2>5
  <1>4. 0 \in S
    <2>1. ChunksLen(m, 0) = 0 /\ DataLen(m, 0) = 0
      BY <1>1, LenFacts
    <2>2. PlaceOf(m, 0) = Start
      BY <2>1 DEF PlaceOf, Start
    <2>3. data(0) = << >>
      BY <1>1, UpToFacts
    <2>4. \A b \in Seq(Units) : << >> \o b = b
      OBVIOUS
    <2> HIDE DEF scan, data, n
    <2>5. Leads(0)
      BY <2>2, <2>3, <2>4, Zenon
    <2> HIDE DEF Leads
    <2>6. QED
      BY <1>1, <2>5
  <1>5. ASSUME NEW k \in 0 .. n - 1, k \in S PROVE k + 1 \in S
    <2> DEFINE j == k + 1
               at == PlaceOf(m, k)
               chunk == Data(i, m, j)
    <2>1. j \in 1 .. n /\ j \in 0 .. n /\ j - 1 = k /\ j > 0 /\ k \in 0 .. n /\ j \in DOMAIN m.parts
      <3>1. j \in 1 .. n /\ j \in 0 .. n /\ j - 1 = k /\ j > 0 /\ k \in 0 .. n
        BY <1>1
      <3>2. DOMAIN m.parts = 1 .. n
        BY MessageAssumption
      <3> HIDE DEF j, n
      <3>3. QED
        BY <3>1, <3>2, Zenon
    <2> HIDE DEF j, e, n
    <2>2. /\ at \in Places(e)
          /\ \/ /\ Stops(e, at) /\ ScanEnds(e, at) = More
                /\ Len(e) < ChunksLen(m, j)
             \/ /\ Stops(e, at) /\ ScanEnds(e, at) = Refused("400")
                /\ m.fault \in {"size", "crlf"}
             \/ /\ Stops(e, at) /\ ScanEnds(e, at) = Refused("413")
                /\ DataLen(m, j) > MaxBody
             \/ /\ ~Stops(e, at) /\ ~PassesOver(e, at) /\ PastChunk(e, at) = PlaceOf(m, j)
                /\ ChunkOf(e, at) = Data(i, m, j)
                /\ ChunksLen(m, j) <= Len(e) /\ DataLen(m, j) <= MaxBody
                /\ m.fault \notin {"size", "crlf"}
      <3>1. /\ j \in 1 .. Len(m.parts) /\ ChunksLen(m, j - 1) <= Len(e)
            /\ DataLen(m, j - 1) <= MaxBody
        BY <1>3, <2>1 DEF n
      <3>2. Agree(e, BodyUnits(i, m)) /\ e \in Seq(Units)
        BY <1>2 DEF e
      <3>3. QED
        BY <2>1, <3>1, <3>2, ChunkStep
    <2>3. ~(Len(e) < ChunksLen(m, j)) /\ ~(DataLen(m, j) > MaxBody)
      <3>1. /\ ChunksLen(m, j) <= Len(e) /\ DataLen(m, j) <= MaxBody
            /\ ChunksLen(m, j) \in Nat /\ DataLen(m, j) \in Nat
        BY <1>3, <2>1
      <3>2. Len(e) \in Nat
        BY <1>2
      <3>3. QED
        BY <1>1, <3>1, <3>2
    <2>4. /\ ~Stops(e, at) /\ ~PassesOver(e, at)
          /\ PastChunk(e, at) = PlaceOf(m, j) /\ ChunkOf(e, at) = chunk
      BY <2>2, <2>3 DEF ChunkFaults
    <2>5. scan[at] = Before(chunk, scan[PlaceOf(m, j)])
      <3>1. scan[at] = IF Stops(e, at) THEN DecodeEnds(e, at)
                       ELSE Joined(e, at, scan[PastChunk(e, at)])
        BY <1>2, <2>2, DecodeRecursion
      <3>2. QED
        BY <2>4, <3>1 DEF Joined
    <2>6. ASSUME NEW b \in Seq(Units), scan[PlaceOf(m, j)] = Readable(b)
          PROVE  scan[Start] = Readable(data(j) \o b)
      <3>1. chunk \in Seq(Units) /\ data(k) \in Seq(Units)
        BY <1>3, <2>1, PartFacts
      <3>2. scan[at] = Readable(chunk \o b)
        <4>1. Readable(b).ok /\ Readable(b).body = b
          BY DEF Readable
        <4>2. QED
          BY <2>5, <2>6, <4>1, Zenon DEF Before
      <3> HIDE DEF chunk, data, scan, at
      <3>3. chunk \o b \in Seq(Units)
        BY ONLY <3>1, b \in Seq(Units)
      <3>4. scan[Start] = Readable(data(k) \o (chunk \o b))
        <4>1. Leads(k)
          BY <1>5
        <4>2. QED
          BY <3>2, <3>3, <4>1 DEF at
      <3>5. data(k) \o (chunk \o b) = (data(k) \o chunk) \o b
        BY ONLY <3>1, b \in Seq(Units)
      <3>6. data(j) = data(k) \o chunk
        BY <2>1, UpToFacts DEF data, chunk, n
      <3>7. QED
        BY <3>4, <3>5, <3>6, Zenon
    <2>7. Leads(j)
      BY <2>6
    <2> HIDE DEF Leads
    <2>8. QED
      BY <2>1, <2>7 DEF j
  <1>6. n \in S
    <2> HIDE DEF S, n
    <2>1. QED
      BY <1>1, <1>4, <1>5, SetInduction
  <1>7. scan[PlaceOf(m, n)] = Readable(<< >>)
    <2> DEFINE at == PlaceOf(m, n)
               end == LastPlace(m)
               all == Len(e)
    <2>1. /\ ChunksLen(m, n) <= Len(e) /\ LastAfter(m) <= Len(e) /\ DataLen(m, n) <= MaxBody
          /\ ~(Len(e) < all)
      <3> HIDE DEF e, n
      <3>1. LastAfter(m) <= Len(e) /\ ~(Len(e) < all)
        BY <1>2
      <3>2. QED
        BY <1>1, <1>3, <3>1
    <2>2. /\ end \in Places(e) /\ Stops(e, end)
          /\ \/ ScanEnds(e, end) = More /\ Len(e) < all
             \/ ScanEnds(e, end) = Refused("400") /\ m.fault = "trailer"
             \/ /\ ScanEnds(e, end) = Whole(all) /\ all <= Len(e) /\ m.fault # "trailer"
                /\ Len(e) = all => DecodeEnds(e, end) = Readable(<< >>)
      BY <1>2, <2>1, LastChunkStep
    <2>3. DecodeEnds(e, end) = Readable(<< >>)
      BY <2>1, <2>2 DEF ChunkFaults
    <2>4. scan[end] = DecodeEnds(e, end)
      BY <1>2, <2>2, DecodeRecursion
    <2>5. CASE Gap(m) = 0
      <3>1. LastAfter(m) = ChunksLen(m, n)
        <4>1. ChunksLen(m, n) \in Nat
          BY <1>1, <1>3
        <4>2. LastAfter(m) = ChunksLen(m, n) + 0
          BY <2>5 DEF LastAfter
        <4> HIDE DEF n
        <4>3. QED
          BY <4>1, <4>2
      <3>2. end = at
        BY <3>1, Zenon DEF LastPlace, PlaceOf
      <3>3. QED
        BY <2>3, <2>4, <3>2
    <2>6. CASE Gap(m) = 1
      <3>1. /\ at \in Places(e)
            /\ \/ Stops(e, at) /\ ScanEnds(e, at) = More /\ Len(e) < all
               \/ Stops(e, at) /\ ScanEnds(e, at) = Refused("400") /\ m.fault = "back"
               \/ Stops(e, at) /\ ScanEnds(e, at) = Loops /\ m.fault = "back"
               \/ ~Stops(e, at) /\ PassesOver(e, at) /\ PastChunk(e, at) = end
        BY <1>2, <2>1, <2>6, NegativeStep
      <3>2. ~Stops(e, at) /\ PassesOver(e, at) /\ PastChunk(e, at) = end
        BY <2>1, <3>1 DEF ChunkFaults
      <3>3. scan[at] = IF Stops(e, at) THEN DecodeEnds(e, at)
                       ELSE Joined(e, at, scan[PastChunk(e, at)])
        BY <1>2, <3>1, DecodeRecursion
      <3>4. scan[at] = scan[end]
        BY <3>2, <3>3 DEF Joined
      <3>5. QED
        BY <2>3, <2>4, <3>4
    <2>7. QED
      BY <2>5, <2>6 DEF Gap
  <1>8. scan[Start] = Readable(data(n) \o << >>)
    <2>1. Leads(n) /\ << >> \in Seq(Units)
      BY <1>6
    <2> HIDE DEF scan, data, n
    <2>2. QED
      BY <1>7, <2>1
  <1>9. data(n) \o << >> = data(n)
    <2>1. data(n) \in Seq(Units)
      BY <1>1, <1>3
    <2> HIDE DEF data
    <2>2. QED
      BY ONLY <2>1
  <1>10. Meant(i, m) = data(n)
    BY MeantFacts
  <1>11. QED
    BY <1>8, <1>9, <1>10, Zenon DEF DecodeChunked

-----------------------------------------------------------------------------
(***************************************************************************)
(* The head, and the message as a whole.                                   *)
(***************************************************************************)

\* A message on the wire: its head, up to the first blank line, and then its body.
LEMMA EncodeFacts ==
    ASSUME NEW i \in Nat, NEW m \in Messages
    PROVE  LET e == Encode(i, m)
               body == BodyUnits(i, m)
               h == m.lines + 1
           IN  /\ h \in Nat \ {0} /\ body \in Seq(Units) /\ Len(body) \in Nat
               /\ e \in Seq(Units) /\ Len(e) = h + Len(body) /\ Len(e) \in Nat
               /\ e[1].type = "head" /\ e[1].head = m
               /\ \A q \in 1 .. m.lines : e[q].type # "end"
               /\ e[h].type = "end"
               /\ \A q \in 1 .. Len(body) : e[h + q] = body[q]
               /\ SubSeq(e, h + 1, Len(e)) = body
               /\ ~Chunked(m) => body = Meant(i, m)
               /\ Len(Encode(1, m)) = Len(e)
  <1> DEFINE h == m.lines + 1
             body(k) == BodyUnits(k, m)
             head(k) == HeadUnits(k, m)
             e == Encode(i, m)
  <1>1. ASSUME NEW k \in Nat
        PROVE  /\ body(k) \in Seq(Units) /\ Len(body(k)) \in Nat
               /\ Len(body(k)) = IF Chunked(m) THEN LastAfter(m) + 3
                                 ELSE DataLen(m, Len(m.parts))
               /\ ~Chunked(m) => body(k) = Meant(k, m)
    <2>1. CASE Chunked(m)
      <3>1. body(k) \in Seq(Units) /\ Len(body(k)) = LastAfter(m) + 3
        BY <2>1, ChunkedLayout
      <3>2. QED
        BY <2>1, <3>1
    <2>2. CASE ~Chunked(m)
      <3>1. body(k) = Meant(k, m)
        BY <2>2 DEF BodyUnits, Chunked
      <3>2. Meant(k, m) \in Seq(Units) /\ Len(Meant(k, m)) = DataLen(m, Len(m.parts))
        BY MeantFacts
      <3>3. QED
        BY <2>2, <3>1, <3>2
    <2>3. QED
      BY <2>1, <2>2
  <1>2. ASSUME NEW k \in Nat
        PROVE  /\ head(k) \in Seq(Units) /\ Len(head(k)) = h /\ h \in Nat \ {0}
               /\ Encode(k, m) = head(k) \o body(k)
               /\ Encode(k, m) \in Seq(Units) /\ Len(Encode(k, m)) = h + Len(body(k))
               /\ \A q \in 1 .. h : Encode(k, m)[q] = head(k)[q]
               /\ \A q \in 1 .. Len(body(k)) : Encode(k, m)[h + q] = body(k)[q]
    <2> DEFINE a == head(k)
               b == body(k)
    <2>1. a \in Seq(Units) /\ Len(a) = h /\ h \in Nat \ {0}
      BY HeadFacts
    <2>2. b \in Seq(Units)
      BY <1>1
    <2>3. Encode(k, m) = a \o b
      BY DEF Encode
    <2> HIDE DEF a, b, h
    <2>4. /\ a \o b \in Seq(Units) /\ Len(a \o b) = Len(a) + Len(b)
          /\ \A q \in 1 .. Len(a) : (a \o b)[q] = a[q]
          /\ \A q \in 1 .. Len(b) : (a \o b)[Len(a) + q] = b[q]
      BY ONLY <2>1, <2>2
    <2>5. /\ a \o b \in Seq(Units) /\ Len(a \o b) = h + Len(b)
          /\ \A q \in 1 .. h : (a \o b)[q] = a[q]
          /\ \A q \in 1 .. Len(b) : (a \o b)[h + q] = b[q]
      BY <2>1, <2>4, Zenon
    <2>6. QED
      BY <2>1, <2>3, <2>5 DEF a, b
  <1>3. 1 \in Nat /\ i \in Nat
    OBVIOUS
  <1> HIDE DEF h, body
  <1>4. Len(Encode(1, m)) = Len(e)
    <2>1. Len(Encode(1, m)) = h + Len(body(1)) /\ Len(Encode(i, m)) = h + Len(body(i))
      BY <1>2, <1>3
    <2>2. Len(body(1)) = Len(body(i))
      <3>1. \A k \in Nat : Len(body(k)) = IF Chunked(m) THEN LastAfter(m) + 3
                                          ELSE DataLen(m, Len(m.parts))
        BY <1>1
      <3>2. QED
        BY <1>3, <3>1, Zenon
    <2>3. QED
      BY <2>1, <2>2, Zenon
  <1>5. /\ e[1].type = "head" /\ e[1].head = m
        /\ \A q \in 1 .. m.lines : e[q].type # "end"
        /\ e[h].type = "end"
    <2>1. /\ head(i)[1].type = "head" /\ head(i)[1].head = m
          /\ \A q \in 1 .. m.lines : head(i)[q].type # "end"
          /\ head(i)[h].type = "end" /\ m.lines \in Nat \ {0}
      BY HeadFacts DEF h
    <2>2. 1 \in 1 .. h /\ h \in 1 .. h /\ 1 .. m.lines \subseteq 1 .. h
      BY <2>1 DEF h
    <2> HIDE DEF head, e
    <2>3. \A q \in 1 .. h : e[q] = head(i)[q]
      BY <1>2 DEF e
    <2>4. QED
      BY <2>1, <2>2, <2>3
  <1>6. SubSeq(e, h + 1, Len(e)) = body(i)
    <2> DEFINE b == body(i)
               n == Len(b)
    <2>1. /\ b \in Seq(Units) /\ n \in Nat /\ e \in Seq(Units) /\ Len(e) = h + n
          /\ h \in Nat \ {0} /\ \A q \in 1 .. n : e[h + q] = b[q]
      BY <1>1, <1>2
    <2> HIDE DEF e, b, n
    <2>2. h \in Nat /\ h <= Len(e) /\ Len(e) - h = n
      BY <2>1
    <2>3. /\ SubSeq(e, h + 1, Len(e)) \in Seq(Units) /\ Len(SubSeq(e, h + 1, Len(e))) = n
          /\ \A k \in DOMAIN SubSeq(e, h + 1, Len(e)) :
                SubSeq(e, h + 1, Len(e))[k] = e[k + h]
      BY <2>1, <2>2, SuffixFacts
    <2> DEFINE s == SubSeq(e, h + 1, Len(e))
    <2> HIDE DEF s
    <2>4. s \in Seq(Units) /\ Len(s) = n /\ DOMAIN s = 1 .. n /\ \A k \in DOMAIN s : s[k] = e[k + h]
      <3>1. s \in Seq(Units) /\ Len(s) = n
        BY <2>3 DEF s
      <3>2. \A k \in DOMAIN s : s[k] = e[k + h]
        BY <2>3, Zenon DEF s
      <3>3. DOMAIN s = 1 .. n
        BY <3>1
      <3>4. QED
        BY <3>1, <3>2, <3>3
    <2>5. \A k \in 1 .. Len(s) : s[k] = b[k]
      <3> SUFFICES ASSUME NEW k \in 1 .. n PROVE s[k] = b[k]
        BY <2>4
      <3>1. s[k] = e[k + h] /\ e[h + k] = b[k]
        BY <2>1, <2>4
      <3>2. k + h = h + k
        BY <2>1
      <3>3. QED
        BY <3>1, <3>2
    <2>6. Len(s) = Len(b)
      BY <2>4 DEF n
    <2>7. s = b
      BY <2>1, <2>4, <2>5, <2>6, SeqEqual
    <2>8. QED
      BY <2>7 DEF s, b
  <1>7. /\ h \in Nat \ {0} /\ body(i) \in Seq(Units) /\ Len(body(i)) \in Nat
        /\ e \in Seq(Units) /\ Len(e) = h + Len(body(i)) /\ Len(e) \in Nat
        /\ \A q \in 1 .. Len(body(i)) : e[h + q] = body(i)[q]
        /\ ~Chunked(m) => body(i) = Meant(i, m)
    BY <1>1, <1>2
  <1>8. QED
    BY <1>4, <1>5, <1>6, <1>7 DEF h, body, e

\* What is over a limit in a message, in numbers.
LEMMA UnfitFacts ==
    ASSUME NEW m \in Messages
    PROVE  Unfit(m) <=> \/ m.framing = "both"
                        \/ m.lines + 1 > MaxHeader
                        \/ DataLen(m, Len(m.parts)) > MaxBody
                        \/ Len(Encode(1, m)) > MaxRequest
  <1>1. Len(Meant(1, m)) = DataLen(m, Len(m.parts))
    BY MeantFacts
  <1>2. QED
    BY <1>1 DEF Unfit

\* A message that is found whole: within the limits, and only what the fields of its head say
\* may yet be refused.
Framed(m) == ~Unfit(m) /\ m.fault \in {"none", "line", "twice", "over"}

\* Where the head ends in what has arrived.
LEMMA HeadEndFinds ==
    ASSUME NEW i \in Nat, NEW m \in Messages, NEW b \in Seq(Units), Agree(b, Encode(i, m))
    PROVE  /\ HeadEnd(b) = IF Len(b) < m.lines + 1 THEN 0 ELSE m.lines + 1
           /\ Len(b) > 0 => b[1].type = "head" /\ b[1].head = m
  <1> DEFINE h == m.lines + 1
             e == Encode(i, m)
  <1>1. /\ h \in Nat \ {0} /\ Len(e) \in Nat /\ h <= Len(e) /\ Len(b) \in Nat
        /\ e[1].type = "head" /\ e[1].head = m
        /\ \A q \in 1 .. m.lines : e[q].type # "end"
        /\ e[h].type = "end" /\ m.lines \in Nat
    <2>1. /\ h \in Nat \ {0} /\ Len(e) \in Nat /\ Len(e) = h + Len(BodyUnits(i, m))
          /\ Len(BodyUnits(i, m)) \in Nat
          /\ e[1].type = "head" /\ e[1].head = m
          /\ \A q \in 1 .. m.lines : e[q].type # "end"
          /\ e[h].type = "end"
      BY EncodeFacts
    <2>2. m.lines \in Nat
      BY MessageAssumption
    <2> HIDE DEF h, e
    <2>3. h <= Len(e)
      BY <2>1
    <2>4. QED
      BY <2>1, <2>2, <2>3
  <1>2. \A q \in 1 .. Len(b) : q <= Len(e) => b[q] = e[q]
    BY DEF Agree
  <1>3. \A q \in 1 .. m.lines : q <= Len(b) => b[q].type # "end"
    <2> SUFFICES ASSUME NEW q \in 1 .. m.lines, q <= Len(b) PROVE b[q].type # "end"
      OBVIOUS
    <2>1. q \in 1 .. Len(b) /\ q <= h
      BY <1>1
    <2> HIDE DEF h, e
    <2>2. q <= Len(e)
      BY <1>1, <2>1
    <2>3. b[q] = e[q]
      BY <1>2, <2>1, <2>2
    <2>4. QED
      BY <1>1, <2>3
  <1>4. CASE Len(b) < h
    <2>1. \A q \in 1 .. Len(b) : b[q].type # "end"
      BY <1>1, <1>3, <1>4
    <2>2. HeadEnd(b) = 0
      BY <2>1, HeadEndFacts
    <2>3. Len(b) > 0 => b[1] = e[1]
      BY <1>1, <1>2
    <2>4. QED
      BY <1>1, <1>4, <2>2, <2>3
  <1>5. CASE ~(Len(b) < h)
    <2>1. h \in 1 .. Len(b) /\ b[h] = e[h] /\ b[1] = e[1]
      BY <1>1, <1>2, <1>5
    <2>2. \A q \in 1 .. h - 1 : b[q].type # "end"
      BY <1>1, <1>3, <1>5
    <2>3. HeadEnd(b) = h
      BY <1>1, <2>1, <2>2, HeadEndFacts
    <2>4. QED
      BY <1>1, <1>5, <2>1, <2>3
  <1>6. QED
    BY <1>4, <1>5

\* What inspect_http_request_head says of what has arrived: to wait while the head is not all
\* there, where it ends once it is, and a refusal only when there is a reason.
LEMMA InspectFinds ==
    ASSUME NEW i \in Nat, NEW m \in Messages, NEW b \in Seq(Units), Agree(b, Encode(i, m))
    PROVE  LET h == m.lines + 1
           IN  \/ /\ InspectHead(b) \in {Refused("400"), Refused("413"), Refused("431")}
                  /\ Wrong(m) \/ Len(b) > MaxRequest
               \/ InspectHead(b) = More /\ Len(b) < h
               \/ /\ InspectHead(b) = Whole(h) /\ h <= Len(b) /\ Len(b) <= MaxRequest
                  /\ h <= MaxHeader /\ m.fault \notin {"colon", "length"} /\ m.framing # "both"
                  /\ ~(Announced(m) > MaxBody) /\ b[1].head = m
  <1> DEFINE h == m.lines + 1
  <1>1. /\ h \in Nat \ {0} /\ Len(b) \in Nat /\ MaxHeader \in Nat /\ MaxRequest \in Nat
    BY MessageAssumption, FramingAssumption
  <1>2. /\ HeadEnd(b) = IF Len(b) < h THEN 0 ELSE h
        /\ Len(b) > 0 => b[1].type = "head" /\ b[1].head = m
    BY HeadEndFinds
  <1>3. m.framing = "both" => Wrong(m)
    BY DEF Wrong, Unfit
  <1>4. m.fault # "none" => Wrong(m)
    BY DEF Wrong
  <1>5. h > MaxHeader => Wrong(m)
    BY DEF Wrong, Unfit
  <1>6. Announced(m) > MaxBody => Wrong(m)
    <2>1. Len(Meant(1, m)) \in Nat /\ MaxBody \in Nat
      BY MeantFacts, FramingAssumption
    <2>2. Announced(m) > MaxBody => Len(Meant(1, m)) > MaxBody
      BY <2>1 DEF Announced
    <2>3. QED
      BY <2>2 DEF Wrong, Unfit
  <1> HIDE DEF h
  <1>7. CASE Len(b) > MaxRequest
    <2>1. InspectHead(b) = Refused("413")
      BY <1>7 DEF InspectHead
    <2>2. QED
      BY <1>7, <2>1
  <1>8. CASE ~(Len(b) > MaxRequest) /\ Len(b) < h
    <2>1. HeadEnd(b) = 0
      BY <1>2, <1>8
    <2>2. CASE Len(b) > MaxHeader
      <3>1. InspectHead(b) = Refused("431")
        BY <1>8, <2>1, <2>2 DEF InspectHead
      <3>2. Wrong(m)
        BY <1>1, <1>5, <1>8, <2>2
      <3>3. QED
        BY <3>1, <3>2
    <2>3. CASE ~(Len(b) > MaxHeader)
      <3>1. InspectHead(b) = More
        BY <1>8, <2>1, <2>3 DEF InspectHead
      <3>2. QED
        BY <1>8, <3>1 DEF h
    <2>4. QED
      BY <2>2, <2>3
  <1>9. CASE ~(Len(b) > MaxRequest) /\ ~(Len(b) < h)
    <2>1. HeadEnd(b) = h /\ h # 0 /\ b[1].type = "head" /\ b[1].head = m
      BY <1>1, <1>2, <1>9
    <2>2. HeadReadable(b) <=> m.fault # "colon"
      BY <2>1 DEF HeadReadable
    <2>3. InspectHead(b) =
             IF h > MaxHeader THEN Refused("431")
             ELSE IF ~(m.fault # "colon") THEN Refused("400")
             ELSE IF m.framing = "both" \/ m.fault = "length" THEN Refused("400")
             ELSE IF Announced(m) > MaxBody THEN Refused("413")
             ELSE Whole(h)
      BY <1>9, <2>1, <2>2, Zenon DEF InspectHead
    <2>4. CASE \/ h > MaxHeader \/ m.fault = "colon" \/ m.framing = "both" \/ m.fault = "length"
               \/ Announced(m) > MaxBody
      <3>1. InspectHead(b) \in {Refused("400"), Refused("413"), Refused("431")}
        BY <2>3, <2>4, Zenon
      <3>2. Wrong(m)
        BY <1>3, <1>4, <1>5, <1>6, <2>4
      <3>3. QED
        BY <3>1, <3>2
    <2>5. CASE ~(\/ h > MaxHeader \/ m.fault = "colon" \/ m.framing = "both" \/ m.fault = "length"
                 \/ Announced(m) > MaxBody)
      <3>1. InspectHead(b) = Whole(h)
        BY <2>3, <2>5, Zenon
      <3>2. h <= Len(b) /\ Len(b) <= MaxRequest /\ h <= MaxHeader
        BY <1>1, <1>9, <2>5
      <3>3. m.fault \notin {"colon", "length"} /\ m.framing # "both" /\ ~(Announced(m) > MaxBody)
        BY <2>5
      <3>4. QED
        BY <2>1, <3>1, <3>2, <3>3 DEF h
    <2>6. QED
      BY <2>4, <2>5
  <1>10. QED
    BY <1>7, <1>8, <1>9

\* After the head, what has arrived is the body, as far as both go.
LEMMA BodyAgrees ==
    ASSUME NEW i \in Nat, NEW m \in Messages, NEW b \in Seq(Units), Agree(b, Encode(i, m)),
           m.lines + 1 <= Len(b)
    PROVE  LET e == SubSeq(b, m.lines + 2, Len(b))
           IN  e \in Seq(Units) /\ Len(e) = Len(b) - (m.lines + 1) /\ Agree(e, BodyUnits(i, m))
  <1> DEFINE h == m.lines + 1
             e == SubSeq(b, h + 1, Len(b))
             s == Encode(i, m)
             body == BodyUnits(i, m)
  <1>1. /\ h \in Nat /\ Len(b) \in Nat /\ h <= Len(b) /\ h + 1 = m.lines + 2
        /\ Len(body) \in Nat /\ Len(s) = h + Len(body)
        /\ \A q \in 1 .. Len(body) : s[h + q] = body[q]
    <2>1. /\ h \in Nat \ {0} /\ Len(body) \in Nat /\ Len(s) = h + Len(body)
          /\ \A q \in 1 .. Len(body) : s[h + q] = body[q]
      BY EncodeFacts
    <2>2. Len(b) \in Nat /\ h <= Len(b) /\ h + 1 = m.lines + 2
      BY MessageAssumption
    <2>3. QED
      BY <2>1, <2>2
  <1>2. \A q \in 1 .. Len(b) : q <= Len(s) => b[q] = s[q]
    BY DEF Agree
  <1> HIDE DEF h, s, body
  <1>3. e \in Seq(Units) /\ Len(e) = Len(b) - h /\ \A k \in DOMAIN e : e[k] = b[k + h]
    BY <1>1, SuffixFacts
  <1> HIDE DEF e
  <1>4. DOMAIN e = 1 .. Len(e)
    BY <1>3
  <1>5. ASSUME NEW q \in 1 .. Len(e), q <= Len(body) PROVE e[q] = body[q]
    <2>1. /\ q + h \in 1 .. Len(b) /\ q + h <= Len(s) /\ q \in 1 .. Len(body) /\ q + h = h + q
      BY <1>1, <1>3, <1>5
    <2>2. e[q] = b[q + h] /\ b[q + h] = s[q + h] /\ s[h + q] = body[q]
      BY <1>1, <1>2, <1>3, <1>4, <2>1
    <2>3. QED
      BY <2>1, <2>2
  <1>6. Agree(e, body)
    BY <1>5 DEF Agree
  <1>7. e = SubSeq(b, m.lines + 2, Len(b))
    BY <1>1 DEF e
  <1>8. QED
    BY <1>3, <1>6, <1>7 DEF h, body

\* What extract_http_request_message says of what has arrived of a message, and of whatever
\* comes after it, at every point it may have been cut: to wait only while it is not all there,
\* where it ends once it is, and a refusal only when there is a reason; and it never returns
\* from a chunk of negative size that leads back to the chunk before it, and from no other.
THEOREM ExtractFinds ==
    ASSUME NEW i \in Nat, NEW m \in Messages, NEW b \in Seq(Units), Agree(b, Encode(i, m))
    PROVE  LET all == Len(Encode(i, m))
           IN  \/ Extract(b) = More /\ Len(b) < all
               \/ /\ Extract(b) \in {Refused("400"), Refused("413"), Refused("431")}
                  /\ Wrong(m) \/ Len(b) > MaxRequest
               \/ Extract(b) = Loops /\ Endless(m)
               \/ /\ Extract(b) = Whole(all) /\ all <= Len(b) /\ Len(b) <= MaxRequest
                  /\ Framed(m)
  <1> DEFINE all == Len(Encode(i, m))
             h == m.lines + 1
             body == BodyUnits(i, m)
             meant == DataLen(m, Len(m.parts))
  <1>1. /\ h \in Nat \ {0} /\ Len(body) \in Nat /\ all = h + Len(body) /\ all \in Nat
        /\ Len(Encode(1, m)) = all
        /\ ~Chunked(m) => body = Meant(i, m)
    <2>1. h \in Nat \ {0} /\ Len(body) \in Nat /\ all = h + Len(body) /\ all \in Nat
      <3>1. h \in Nat \ {0} /\ Len(body) \in Nat
        BY EncodeFacts
      <3>2. all = h + Len(body) /\ all \in Nat
        BY EncodeFacts
      <3>3. QED
        BY <3>1, <3>2
    <2>2. Len(Encode(1, m)) = all
      BY EncodeFacts
    <2>3. ~Chunked(m) => body = Meant(i, m)
      BY EncodeFacts
    <2>4. QED
      BY <2>1, <2>2, <2>3
  <1>2. Len(b) \in Nat /\ MaxRequest \in Nat /\ MaxBody \in Nat /\ MaxHeader \in Nat
    BY FramingAssumption
  <1>3. Len(Meant(1, m)) = meant /\ Len(Meant(i, m)) = meant /\ meant \in Nat
    <2>1. 1 \in Nat /\ Len(Meant(i, m)) \in Nat
      BY MeantFacts
    <2>2. QED
      BY <2>1, MeantFacts
  <1>4. Unfit(m) <=> \/ m.framing = "both" \/ h > MaxHeader
                     \/ meant > MaxBody \/ all > MaxRequest
    <2>1. Unfit(m) <=> \/ m.framing = "both" \/ h > MaxHeader
                       \/ meant > MaxBody \/ Len(Encode(1, m)) > MaxRequest
      BY UnfitFacts
    <2>2. Len(Encode(1, m)) = all
      BY <1>1
    <2> HIDE DEF all, h, meant
    <2>3. QED
      BY <2>1, <2>2, Zenon
  <1> HIDE DEF all, h, body, meant
  <1>5. CASE /\ InspectHead(b) \in {Refused("400"), Refused("413"), Refused("431")}
             /\ Wrong(m) \/ Len(b) > MaxRequest
    <2>1. InspectHead(b).out # "whole"
      BY <1>5 DEF Refused
    <2>2. Extract(b) = InspectHead(b)
      BY <2>1 DEF Extract
    <2>3. QED
      BY <1>5, <2>2
  <1>6. CASE InspectHead(b) = More /\ Len(b) < h
    <2>1. InspectHead(b).out # "whole"
      BY <1>6 DEF More
    <2>2. Extract(b) = More
      BY <1>6, <2>1 DEF Extract
    <2>3. Len(b) < all
      BY <1>1, <1>2, <1>6
    <2>4. QED
      BY <2>2, <2>3 DEF all
  <1>7. CASE /\ InspectHead(b) = Whole(h) /\ h <= Len(b) /\ Len(b) <= MaxRequest
             /\ h <= MaxHeader /\ m.fault \notin {"colon", "length"} /\ m.framing # "both"
             /\ ~(Announced(m) > MaxBody) /\ b[1].head = m
    <2> DEFINE e == SubSeq(b, h + 1, Len(b))
    <2>1. InspectHead(b).out = "whole" /\ InspectHead(b).len = h
      BY <1>7 DEF Whole
    <2>2. CASE m.framing = "chunked"
      <3>1. Chunked(m)
        BY <2>2 DEF Chunked
      <3>2. Extract(b) = IF ChunkedLength(e).out = "whole" THEN Whole(h + ChunkedLength(e).len)
                         ELSE ChunkedLength(e)
        BY <1>7, <2>1, <2>2, Zenon DEF Extract
      <3>3. e \in Seq(Units) /\ Len(e) = Len(b) - h /\ Agree(e, body)
        <4>1. h + 1 = m.lines + 2 /\ m.lines + 1 <= Len(b)
          BY <1>7, MessageAssumption DEF h
        <4>2. QED
          BY <4>1, BodyAgrees DEF h, body
      <3>4. \/ ChunkedLength(e) = More /\ Len(e) < Len(body)
            \/ ChunkedLength(e) = Refused("400") /\ m.fault \in ChunkFaults
            \/ ChunkedLength(e) = Refused("413") /\ meant > MaxBody
            \/ ChunkedLength(e) = Loops /\ m.fault = "back" /\ m.parts # << >>
            \/ /\ ChunkedLength(e) = Whole(Len(body)) /\ Len(body) <= Len(e)
               /\ m.fault \notin ChunkFaults /\ meant <= MaxBody
        BY <3>1, <3>3, ChunkedLengthFinds DEF body, meant
      <3> HIDE DEF e
      <3>5. CASE ChunkedLength(e) = More /\ Len(e) < Len(body)
        <4>1. Extract(b) = More
          BY <3>2, <3>5 DEF More
        <4>2. Len(b) < all
          BY <1>1, <1>2, <1>7, <3>3, <3>5
        <4>3. QED
          BY <4>1, <4>2 DEF all
      <3>6. CASE ChunkedLength(e) = Refused("400") /\ m.fault \in ChunkFaults
        <4>1. Extract(b) = Refused("400")
          BY <3>2, <3>6 DEF Refused
        <4>2. Wrong(m)
          BY <3>6 DEF ChunkFaults, Wrong
        <4>3. QED
          BY <4>1, <4>2
      <3>7. CASE ChunkedLength(e) = Refused("413") /\ meant > MaxBody
        <4>1. Extract(b) = Refused("413")
          BY <3>2, <3>7 DEF Refused
        <4>2. Wrong(m)
          BY <1>4, <3>7 DEF Wrong
        <4>3. QED
          BY <4>1, <4>2
      <3>8. CASE /\ ChunkedLength(e) = Whole(Len(body)) /\ Len(body) <= Len(e)
                 /\ m.fault \notin ChunkFaults /\ meant <= MaxBody
        <4>1. Extract(b) = Whole(all)
          BY <1>1, <3>2, <3>8 DEF Whole
        <4>2. all <= Len(b) /\ ~(h > MaxHeader) /\ ~(meant > MaxBody) /\ ~(all > MaxRequest)
          BY <1>1, <1>2, <1>3, <1>7, <3>3, <3>8
        <4>3. m.fault \in {"none", "line", "twice", "over"}
          BY <1>7, <3>8, MessageAssumption DEF ChunkFaults
        <4>4. Framed(m)
          BY <1>4, <1>7, <4>2, <4>3 DEF Framed
        <4>5. QED
          BY <1>7, <4>1, <4>2, <4>4 DEF all
      <3>9. CASE ChunkedLength(e) = Loops /\ m.fault = "back" /\ m.parts # << >>
        <4>1. Extract(b) = Loops
          BY <3>2, <3>9 DEF Loops
        <4>2. QED
          BY <2>2, <3>9, <4>1 DEF Endless
      <3>10. QED
        BY <3>4, <3>5, <3>6, <3>7, <3>8, <3>9
    <2>3. CASE m.framing # "chunked"
      <3>1. ~Chunked(m)
        BY <1>7, <2>3 DEF Chunked
      <3>2. Len(body) = meant /\ Announced(m) = meant
        <4>1. Len(body) = meant
          <5>1. body = Meant(i, m)
            BY <1>1, <3>1
          <5>2. QED
            BY <1>3, <5>1, Zenon
        <4>2. m.framing = "length" \/ m.framing = "none"
          BY <1>7, <2>3, MessageAssumption
        <4>3. m.framing = "none" => meant = 0
          <5>1. m.framing = "none" => Len(m.parts) = 0
            BY MessageAssumption
          <5>2. 0 \in 0 .. Len(m.parts)
            BY MessageAssumption
          <5>3. DataLen(m, 0) = 0
            BY <5>2, LenFacts
          <5>4. QED
            BY <5>1, <5>3 DEF meant
        <4>4. m.framing = "none" => Announced(m) = 0
          BY DEF Announced
        <4>5. m.framing = "length" => Announced(m) = meant
          BY <1>3 DEF Announced
        <4>6. QED
          BY <4>1, <4>2, <4>3, <4>4, <4>5
      <3>3. Extract(b) = IF Len(b) < h + Announced(m) THEN More ELSE Whole(h + Announced(m))
        BY <1>7, <2>1, <2>3, Zenon DEF Extract
      <3>4. h + Announced(m) = all
        BY <1>1, <3>2
      <3>5. CASE Len(b) < all
        BY <3>3, <3>4, <3>5 DEF all
      <3>6. CASE ~(Len(b) < all)
        <4>1. all <= Len(b) /\ ~(all > MaxRequest) /\ ~(h > MaxHeader) /\ ~(meant > MaxBody)
          BY <1>1, <1>2, <1>7, <3>2, <3>6
        <4>2. m.fault \in {"none", "line", "twice", "over"}
          <5>1. m.fault \notin {"size", "crlf", "trailer", "back"}
            BY <3>1, MessageAssumption DEF Chunked
          <5>2. QED
            BY <1>7, <5>1, MessageAssumption
        <4>3. Framed(m)
          BY <1>4, <1>7, <4>1, <4>2 DEF Framed
        <4>4. Extract(b) = Whole(all)
          BY <3>3, <3>4, <3>6
        <4>5. QED
          BY <1>7, <4>1, <4>3, <4>4 DEF all
      <3>7. QED
        BY <3>5, <3>6
    <2>4. QED
      BY <2>2, <2>3
  <1>8. QED
    BY <1>5, <1>6, <1>7, InspectFinds DEF h

\* What HTTPRequest.from_bytes makes of a message that was found whole: it is refused only
\* when there is a reason, and when it is not refused the body is the one that was meant, and
\* the message right but for the two faults that are overlooked: a chunk of size -2 changes
\* nothing, and under two Transfer-Encodings the chunks as they are become the body.
THEOREM FromBytesFinds ==
    ASSUME NEW i \in Nat, NEW m \in Messages, Framed(m)
    PROVE  \/ /\ FromBytes(Encode(i, m)) \in {Unreadable("400"), Unreadable("413")}
              /\ Wrong(m)
           \/ /\ FromBytes(Encode(i, m)) = Readable(Given(i, m)) /\ ~Unfit(m)
              /\ Wrong(m) => Overlooked(m)
  <1> DEFINE sent == Encode(i, m)
             h == m.lines + 1
             body == BodyUnits(i, m)
             meant == DataLen(m, Len(m.parts))
  <1>1. /\ h \in Nat \ {0} /\ Len(body) \in Nat /\ Len(sent) = h + Len(body)
        /\ sent \in Seq(Units) /\ sent[1].head = m
        /\ SubSeq(sent, h + 1, Len(sent)) = body
        /\ ~Chunked(m) => body = Meant(i, m)
    <2>1. h \in Nat \ {0} /\ Len(body) \in Nat /\ Len(sent) = h + Len(body)
      <3>1. h \in Nat \ {0} /\ Len(body) \in Nat
        BY EncodeFacts
      <3>2. Len(sent) = h + Len(body)
        BY EncodeFacts
      <3>3. QED
        BY <3>1, <3>2
    <2>2. sent \in Seq(Units) /\ sent[1].head = m /\ SubSeq(sent, h + 1, Len(sent)) = body
      BY EncodeFacts
    <2>3. ~Chunked(m) => body = Meant(i, m)
      BY EncodeFacts
    <2>4. QED
      BY <2>1, <2>2, <2>3
  <1>2. HeadEnd(sent) = h
    <2>1. Agree(sent, sent)
      BY DEF Agree
    <2>2. HeadEnd(sent) = IF Len(sent) < h THEN 0 ELSE h
      BY <1>1, <2>1, HeadEndFinds
    <2> HIDE DEF sent, h, body
    <2>3. QED
      BY <1>1, <2>2
  <1>3. Len(Meant(1, m)) = meant /\ Len(Meant(i, m)) = meant /\ meant \in Nat
    <2>1. 1 \in Nat /\ Len(Meant(i, m)) \in Nat
      BY MeantFacts
    <2>2. QED
      BY <2>1, MeantFacts
  <1>4. FromBytes(sent) =
           IF m.fault \in {"line", "colon", "length"} THEN Unreadable("400")
           ELSE IF m.framing = "both" THEN Unreadable("400")
           ELSE IF m.framing = "chunked" /\ m.fault # "twice" THEN DecodeChunked(body)
           ELSE IF m.framing = "length" /\ (m.fault = "twice" \/ Len(body) # Announced(m))
                THEN Unreadable("400")
           ELSE IF Len(body) > MaxBody THEN Unreadable("413")
           ELSE Readable(body)
    <2>1. sent[1].head = m /\ SubSeq(sent, HeadEnd(sent) + 1, Len(sent)) = body
      <3> HIDE DEF sent, h, body
      <3>1. QED
        BY <1>1, <1>2, Zenon
    <2> HIDE DEF sent, h, body
    <2>2. QED
      BY <2>1, Zenon DEF FromBytes
  <1> HIDE DEF sent, body, meant
  <1>5. CASE m.fault = "line"
    <2>1. FromBytes(sent) = Unreadable("400")
      BY <1>4, <1>5
    <2>2. Wrong(m)
      BY <1>5 DEF Wrong
    <2>3. QED
      BY <2>1, <2>2 DEF sent
  <1>6. ~Unfit(m) /\ m.framing # "both" /\ ~(meant > MaxBody)
    BY <1>3 DEF Framed, Unfit
  <1>7. CASE m.fault = "twice"
    <2>1. Wrong(m)
      BY <1>7 DEF Wrong
    <2>2. CASE m.framing = "chunked"
      <3>1. FromBytes(sent) = IF Len(body) > MaxBody THEN Unreadable("413") ELSE Readable(body)
        BY <1>4, <1>7, <2>2
      <3>2. Given(i, m) = body /\ Overlooked(m)
        BY <1>7, <2>2 DEF Given, Overlooked, body
      <3>3. QED
        BY <1>6, <2>1, <3>1, <3>2 DEF sent
    <2>3. CASE m.framing # "chunked"
      <3>1. m.framing = "length"
        BY <1>6, <1>7, <2>3, MessageAssumption
      <3>2. FromBytes(sent) = Unreadable("400")
        BY <1>4, <1>7, <3>1
      <3>3. QED
        BY <2>1, <3>2 DEF sent
    <2>4. QED
      BY <2>2, <2>3
  <1>8. CASE m.fault \in {"none", "over"}
    <2>1. Given(i, m) = Meant(i, m) /\ (Wrong(m) => Overlooked(m))
      <3>1. m.fault = "over" => m.framing = "chunked"
        BY <1>6, MessageAssumption
      <3>2. QED
        BY <1>6, <1>8, <3>1 DEF Given, Wrong, Overlooked
    <2>2. CASE m.framing = "chunked"
      <3>1. FromBytes(sent) = DecodeChunked(body)
        BY <1>4, <1>6, <1>8, <2>2
      <3>2. meant <= MaxBody
        BY <1>3, <1>6, FramingAssumption
      <3>3. Chunked(m) /\ m.fault \notin ChunkFaults
        BY <1>8, <2>2 DEF Chunked, ChunkFaults
      <3>4. DecodeChunked(body) = Readable(Meant(i, m))
        BY <3>2, <3>3, DecodeFinds DEF body, meant
      <3>5. QED
        BY <1>6, <2>1, <3>1, <3>4 DEF sent
    <2>3. CASE m.framing # "chunked"
      <3>1. body = Meant(i, m) /\ Len(body) = meant
        <4>1. ~Chunked(m)
          BY <1>6, <2>3 DEF Chunked
        <4>2. body = Meant(i, m)
          BY <1>1, <4>1
        <4>3. QED
          BY <1>3, <4>2, Zenon
      <3>2. m.framing = "length" => Len(body) = Announced(m)
        BY <1>3, <3>1 DEF Announced
      <3>3. FromBytes(sent) = Readable(body)
        BY <1>4, <1>6, <1>8, <2>3, <3>1, <3>2
      <3>4. QED
        BY <1>6, <2>1, <3>1, <3>3 DEF sent
    <2>4. QED
      BY <2>2, <2>3
  <1>9. QED
    BY <1>5, <1>7, <1>8 DEF Framed

-----------------------------------------------------------------------------
(***************************************************************************)
(* The invariant.                                                          *)
(***************************************************************************)

\* A sequence, whatever it holds.
Sequence(s) == s \in Seq({s[i] : i \in DOMAIN s})

FinalsOf(w) == {i \in DOMAIN w : w[i].final}

\* What WireInOrder says of the wire.
Ordered(w) ==
    /\ \A n \in DOMAIN Subsequence(w, FinalsOf(w)) : Subsequence(w, FinalsOf(w))[n].re = n
    /\ \A i \in DOMAIN w : w[i].last => i = Len(w)
    /\ \A i, j \in DOMAIN w : i < j => w[i].re <= w[j].re
    /\ \A i, j \in DOMAIN w : ~w[i].final /\ ~w[j].final /\ w[i].re = w[j].re => i = j
    /\ \A i, j \in DOMAIN w : w[i].final /\ i < j => w[i].re < w[j].re

\* The wire goes on with request turn: all requests before it have their final answers, and
\* none of them was the last.
GoesOn(w, turn) ==
    /\ \A i \in DOMAIN w : w[i].re \in 1 .. turn /\ ~w[i].last /\ (w[i].final => w[i].re < turn)
    /\ Cardinality(FinalsOf(w)) + 1 = turn

\* Nothing of request turn is on the wire yet.
NotBegun(w, turn) == \A i \in DOMAIN w : w[i].re < turn

\* The request that is answered next.
Turn == IF pc = "write" THEN count ELSE count + 1

WireInv ==
    /\ Sequence(wire) /\ Ordered(wire)
    /\ \A i \in DOMAIN wire : wire[i].re \in 1 .. count + 1
    /\ pc # "closed" => GoesOn(wire, Turn)
    /\ pc \in {"extract", "recv"} /\ ~contSent => NotBegun(wire, Turn)

LoopInv ==
    /\ pc \in {"extract", "recv", "parse", "write", "closed", "looping"}
    /\ contSent \in BOOLEAN /\ closing \in BOOLEAN /\ draining \in BOOLEAN
    /\ count \in 0 .. MaxKeepAlive
    /\ pc \in {"extract", "recv", "parse", "looping"} => count < MaxKeepAlive /\ inflight = 0
    /\ pc = "write" => count > 0 /\ inflight = 1 /\ (closing \/ count < MaxKeepAlive)
    /\ inflight \in {0, 1}
    /\ Sequence(served) /\ Len(served) = count

IInv == LoopInv /\ WireInv

-----------------------------------------------------------------------------
(***************************************************************************)
(* The wire.                                                               *)
(***************************************************************************)

\* One more element, of any kind.
LEMMA SequenceGrows ==
    ASSUME NEW s, Sequence(s), NEW e
    PROVE  /\ Sequence(Append(s, e)) /\ Len(Append(s, e)) = Len(s) + 1 /\ Len(s) \in Nat
           /\ DOMAIN s = 1 .. Len(s) /\ DOMAIN Append(s, e) = DOMAIN s \cup {Len(s) + 1}
           /\ \A i \in DOMAIN s : Append(s, e)[i] = s[i] /\ i \in Nat /\ i < Len(s) + 1
           /\ Append(s, e)[Len(s) + 1] = e
  <1> DEFINE R == {s[i] : i \in DOMAIN s}
             T == R \cup {e}
             t == Append(s, e)
  <1>1. s \in Seq(R)
    BY DEF Sequence
  <1>2. R \subseteq T /\ e \in T
    OBVIOUS
  <1> HIDE DEF R, T
  <1>3. s \in Seq(T)
    BY <1>1, <1>2
  <1>4. /\ t \in Seq(T) /\ Len(t) = Len(s) + 1 /\ Len(s) \in Nat
        /\ DOMAIN t = DOMAIN s \cup {Len(s) + 1} /\ DOMAIN s = 1 .. Len(s)
        /\ \A i \in DOMAIN s : t[i] = s[i] /\ i \in Nat /\ i < Len(s) + 1
        /\ t[Len(s) + 1] = e
    BY <1>2, <1>3, AppendFacts, EmptyFacts
  <1>5. Sequence(t)
    <2> DEFINE U == {t[i] : i \in DOMAIN t}
    <2>1. DOMAIN t = 1 .. Len(t) /\ Len(t) \in Nat /\ \A i \in 1 .. Len(t) : t[i] \in U
      BY <1>4, EmptyFacts
    <2> HIDE DEF U, t
    <2>2. t \in Seq(U)
      BY <1>4, <2>1
    <2>3. QED
      BY <2>2 DEF Sequence, U
  <1>6. QED
    BY <1>4, <1>5

\* The final answers are numbered, and a final answer adds one to them.
LEMMA FinalsGrow ==
    ASSUME NEW w, Sequence(w), NEW e
    PROVE  /\ Subsequence(w, FinalsOf(w)) \in Seq({w[i] : i \in DOMAIN w})
           /\ Len(Subsequence(w, FinalsOf(w))) = Cardinality(FinalsOf(w))
           /\ Cardinality(FinalsOf(w)) \in Nat
           /\ Subsequence(Append(w, e), FinalsOf(Append(w, e))) =
                 IF e.final THEN Append(Subsequence(w, FinalsOf(w)), e)
                 ELSE Subsequence(w, FinalsOf(w))
           /\ Cardinality(FinalsOf(Append(w, e))) =
                 IF e.final THEN Cardinality(FinalsOf(w)) + 1 ELSE Cardinality(FinalsOf(w))
  <1> DEFINE R == {w[i] : i \in DOMAIN w}
             T == R \cup {e}
             P == FinalsOf(w)
             v == Append(w, e)
             n == Len(w) + 1
  <1>1. w \in Seq(R) /\ \A i \in DOMAIN w : w[i] \in R
    BY DEF Sequence
  <1>2. R \subseteq T /\ e \in T
    OBVIOUS
  <1>3. /\ n \in Nat /\ DOMAIN v = DOMAIN w \cup {n} /\ n \notin DOMAIN w
        /\ \A i \in DOMAIN w : v[i] = w[i] /\ i \in Nat
        /\ v[n] = e
    BY SequenceGrows
  <1>4. P \subseteq DOMAIN w /\ FinalsOf(v) = IF e.final THEN P \cup {n} ELSE P
    BY <1>3 DEF FinalsOf
  <1> HIDE DEF R, T, P, v
  <1>5. w \in Seq(T)
    BY <1>1, <1>2
  <1>6. IsFiniteSet(P) /\ P \subseteq Nat /\ Cardinality(P) \in Nat
    BY <1>1, <1>3, <1>4, PositionsFinite
  <1>7. Subsequence(w, P) \in Seq(R) /\ Len(Subsequence(w, P)) = Cardinality(P)
    BY <1>1, <1>4, <1>6, SubsequenceFacts
  <1>8. /\ Subsequence(v, P) = Subsequence(w, P)
        /\ Subsequence(v, P \cup {n}) = Append(Subsequence(w, P), e)
    BY <1>2, <1>4, <1>5, SubsequenceAppend DEF v
  <1>9. n \notin P => Cardinality(P \cup {n}) = Cardinality(P) + 1
    BY <1>6, FS_AddElement
  <1>10. QED
    BY <1>3, <1>4, <1>6, <1>7, <1>8, <1>9 DEF R, P, v

\* An interim answer to the request whose turn it is, and that has none yet.
LEMMA InterimWritten ==
    ASSUME NEW w, Sequence(w), Ordered(w), NEW turn \in Nat, GoesOn(w, turn), NotBegun(w, turn),
           turn > 0, NEW e, e.re = turn, ~e.final, ~e.last
    PROVE  Sequence(Append(w, e)) /\ Ordered(Append(w, e)) /\ GoesOn(Append(w, e), turn)
  <1> DEFINE v == Append(w, e)
             n == Len(w) + 1
             old == Subsequence(w, FinalsOf(w))
  <1>1. /\ Sequence(v) /\ Len(v) = n /\ n \in Nat
        /\ DOMAIN v = DOMAIN w \cup {n} /\ DOMAIN w = 1 .. Len(w) /\ n \notin DOMAIN w
        /\ \A i \in DOMAIN w : v[i] = w[i] /\ i \in Nat /\ i < n
        /\ v[n] = e
    BY SequenceGrows
  <1>2. /\ Subsequence(v, FinalsOf(v)) = old
        /\ Cardinality(FinalsOf(v)) = Cardinality(FinalsOf(w))
    BY FinalsGrow
  <1>3. /\ \A i \in DOMAIN w : w[i].re \in 1 .. turn /\ ~w[i].last /\ w[i].re < turn
        /\ Cardinality(FinalsOf(w)) + 1 = turn
    BY DEF GoesOn, NotBegun
  <1>o. /\ \A k \in DOMAIN old : old[k].re = k
        /\ \A i, j \in DOMAIN w : i < j => w[i].re <= w[j].re
        /\ \A i, j \in DOMAIN w : ~w[i].final /\ ~w[j].final /\ w[i].re = w[j].re => i = j
        /\ \A i, j \in DOMAIN w : w[i].final /\ i < j => w[i].re < w[j].re
    BY DEF Ordered
  <1> HIDE DEF v, n, old
  <1>4. \A i \in DOMAIN v : ~v[i].last
    BY <1>1, <1>3
  <1>5. \A i, j \in DOMAIN v : i < j => v[i].re <= v[j].re
    BY <1>1, <1>3, <1>o
  <1>6. \A i, j \in DOMAIN v : ~v[i].final /\ ~v[j].final /\ v[i].re = v[j].re => i = j
    BY <1>1, <1>3, <1>o
  <1>7. \A i, j \in DOMAIN v : v[i].final /\ i < j => v[i].re < v[j].re
    BY <1>1, <1>3, <1>o
  <1>8. Ordered(v)
    BY <1>2, <1>4, <1>5, <1>6, <1>7, <1>o DEF Ordered
  <1>9. GoesOn(v, turn)
    BY <1>1, <1>2, <1>3, <1>4 DEF GoesOn
  <1>10. QED
    BY <1>1, <1>8, <1>9 DEF v

\* A final answer to the request whose turn it is: nothing of the next one is there yet.
LEMMA FinalWritten ==
    ASSUME NEW w, Sequence(w), Ordered(w), NEW turn \in Nat, GoesOn(w, turn), turn > 0,
           NEW e, e.re = turn, e.final
    PROVE  /\ Sequence(Append(w, e)) /\ Ordered(Append(w, e))
           /\ \A i \in DOMAIN Append(w, e) : Append(w, e)[i].re \in 1 .. turn
           /\ ~e.last => GoesOn(Append(w, e), turn + 1) /\ NotBegun(Append(w, e), turn + 1)
  <1> DEFINE v == Append(w, e)
             n == Len(w) + 1
             old == Subsequence(w, FinalsOf(w))
             new == Subsequence(v, FinalsOf(v))
  <1>1. /\ Sequence(v) /\ Len(v) = n /\ n \in Nat
        /\ DOMAIN v = DOMAIN w \cup {n} /\ DOMAIN w = 1 .. Len(w) /\ n \notin DOMAIN w
        /\ \A i \in DOMAIN w : v[i] = w[i] /\ i \in Nat /\ i < n
        /\ v[n] = e
    BY SequenceGrows
  <1>2. /\ new = Append(old, e) /\ old \in Seq({w[i] : i \in DOMAIN w})
        /\ Len(old) = Cardinality(FinalsOf(w)) /\ Len(old) \in Nat
        /\ Cardinality(FinalsOf(v)) = Cardinality(FinalsOf(w)) + 1
    BY FinalsGrow
  <1>3. /\ \A i \in DOMAIN w : w[i].re \in 1 .. turn /\ ~w[i].last /\ (w[i].final => w[i].re < turn)
        /\ Cardinality(FinalsOf(w)) + 1 = turn
    BY DEF GoesOn
  <1>o. /\ \A k \in DOMAIN old : old[k].re = k
        /\ \A i, j \in DOMAIN w : i < j => w[i].re <= w[j].re
        /\ \A i, j \in DOMAIN w : ~w[i].final /\ ~w[j].final /\ w[i].re = w[j].re => i = j
        /\ \A i, j \in DOMAIN w : w[i].final /\ i < j => w[i].re < w[j].re
    BY DEF Ordered
  <1>4. \A k \in DOMAIN new : new[k].re = k
    <2>1. Sequence(old)
      <3>1. /\ DOMAIN old = 1 .. Len(old)
            /\ \A k \in DOMAIN old : old[k] \in {old[i] : i \in DOMAIN old}
        BY <1>2, EmptyFacts
      <3> HIDE DEF old
      <3>2. old \in Seq({old[i] : i \in DOMAIN old})
        BY <1>2, <3>1
      <3>3. QED
        BY <3>2 DEF Sequence
    <2>2. /\ DOMAIN new = DOMAIN old \cup {Len(old) + 1}
          /\ \A k \in DOMAIN old : new[k] = old[k]
          /\ new[Len(old) + 1] = e
      BY <1>2, <2>1, SequenceGrows
    <2>3. QED
      BY <1>2, <1>3, <1>o, <2>2
  <1> HIDE DEF v, n, old, new
  <1>5. \A i \in DOMAIN v : v[i].last => i = n
    BY <1>1, <1>3
  <1>6. \A i, j \in DOMAIN v : i < j => v[i].re <= v[j].re
    BY <1>1, <1>3, <1>o
  <1>7. \A i, j \in DOMAIN v : ~v[i].final /\ ~v[j].final /\ v[i].re = v[j].re => i = j
    BY <1>1, <1>3, <1>o
  <1>8. \A i, j \in DOMAIN v : v[i].final /\ i < j => v[i].re < v[j].re
    BY <1>1, <1>3, <1>o
  <1>9. Ordered(v)
    BY <1>1, <1>4, <1>5, <1>6, <1>7, <1>8 DEF Ordered, new
  <1>10. \A i \in DOMAIN v : v[i].re \in 1 .. turn
    BY <1>1, <1>3
  <1>11. ASSUME ~e.last PROVE GoesOn(v, turn + 1) /\ NotBegun(v, turn + 1)
    <2>1. \A i \in DOMAIN v : ~v[i].last
      BY <1>1, <1>3, <1>11
    <2>2. \A i \in DOMAIN v : v[i].re \in 1 .. (turn + 1) /\ v[i].re < turn + 1
      BY <1>10
    <2>3. Cardinality(FinalsOf(v)) + 1 = turn + 1
      BY <1>2, <1>3
    <2>4. QED
      BY <2>1, <2>2, <2>3 DEF GoesOn, NotBegun
  <1>12. QED
    BY <1>1, <1>9, <1>10, <1>11 DEF v

-----------------------------------------------------------------------------
(***************************************************************************)
(* The loop.                                                               *)
(***************************************************************************)

\* A connection begins with nothing read and nothing written.
LEMMA InitIInv == Init => IInv
  <1> SUFFICES ASSUME Init PROVE IInv
    OBVIOUS
  <1>1. /\ contSent = FALSE /\ pc = "extract" /\ count = 0 /\ closing = FALSE
        /\ draining = FALSE /\ inflight = 0 /\ served = << >> /\ wire = << >>
    BY DEF Init
  <1>2. Sequence(<< >>) /\ DOMAIN << >> = {} /\ Len(<< >>) = 0
    <2>1. << >> \in Seq({<< >>[i] : i \in DOMAIN << >>})
      OBVIOUS
    <2>2. QED
      BY <2>1 DEF Sequence
  <1>3. LoopInv
    <2>1. 0 \in 0 .. MaxKeepAlive /\ 0 < MaxKeepAlive
      BY HandlerAssumption
    <2>2. Sequence(served) /\ Len(served) = count
      BY <1>1, <1>2
    <2> HIDE DEF Sequence
    <2>3. QED
      BY <1>1, <2>1, <2>2 DEF LoopInv
  <1>4. FinalsOf(<< >>) = {} /\ Cardinality({}) = 0
    BY <1>2, FS_EmptySet DEF FinalsOf
  <1>5. DOMAIN Subsequence(<< >>, {}) = {}
    BY <1>4 DEF Subsequence
  <1>6. Ordered(<< >>)
    BY <1>2, <1>4, <1>5 DEF Ordered
  <1>7. Turn = 1
    BY <1>1 DEF Turn
  <1>8. GoesOn(<< >>, 1) /\ NotBegun(<< >>, 1)
    <2>1. Cardinality(FinalsOf(<< >>)) + 1 = 1
      <3>1. Cardinality(FinalsOf(<< >>)) = 0
        BY <1>4, Zenon
      <3>2. QED
        BY <3>1
    <2>2. QED
      BY <1>2, <2>1 DEF GoesOn, NotBegun
  <1>9. WireInv
    BY <1>1, <1>2, <1>6, <1>7, <1>8 DEF WireInv
  <1>10. QED
    BY <1>3, <1>9 DEF IInv

\* The loop is left without a word.
LEMMA SilentKeeps == IInv /\ LeaveSilently => IInv'
  <1> SUFFICES ASSUME IInv, LeaveSilently PROVE IInv'
    OBVIOUS
  <1>1. /\ pc' = "closed"
        /\ UNCHANGED <<contSent, count, closing, draining, inflight, served, wire>>
    BY DEF LeaveSilently, Leave, inVars
  <1>2. LoopInv'
    BY <1>1 DEF IInv, LoopInv, Sequence
  <1>3. WireInv'
    BY <1>1 DEF IInv, WireInv, Sequence, Ordered, FinalsOf
  <1>4. QED
    BY <1>2, <1>3 DEF IInv

\* The loop is left with an answer of its own.
LEMMA LeaveKeeps ==
    ASSUME IInv, pc \in {"extract", "recv", "parse"}, NEW status, LeaveWith(status)
    PROVE  IInv'
  <1> DEFINE e == Answer(count + 1, status, TRUE)
  <1>1. /\ pc' = "closed" /\ wire' = Append(wire, e)
        /\ UNCHANGED <<contSent, count, closing, draining, inflight, served>>
    BY DEF LeaveWith, Leave, inVars
  <1>2. LoopInv'
    BY <1>1 DEF IInv, LoopInv, Sequence
  <1>3. e.re = count + 1 /\ e.final
    BY DEF Answer
  <1>4. /\ Sequence(wire) /\ Ordered(wire) /\ GoesOn(wire, count + 1)
        /\ count + 1 \in Nat /\ count + 1 > 0
    BY HandlerAssumption DEF IInv, LoopInv, WireInv, Turn
  <1> HIDE DEF e
  <1>5. /\ Sequence(wire') /\ Ordered(wire')
        /\ \A i \in DOMAIN wire' : wire'[i].re \in 1 .. count + 1
    BY <1>1, <1>3, <1>4, FinalWritten
  <1>6. WireInv'
    BY <1>1, <1>5 DEF WireInv, Sequence, Ordered, FinalsOf
  <1>7. QED
    BY <1>2, <1>6 DEF IInv

\* The request is taken out of the buffer; its turn has come, and a 100 Continue may be there.
LEMMA TakeKeeps == IInv /\ TakeRequest => IInv'
  <1> SUFFICES ASSUME IInv, TakeRequest PROVE IInv'
    OBVIOUS
  <1>1. /\ pc = "extract" /\ pc' = "parse" /\ contSent' = FALSE
        /\ UNCHANGED <<count, closing, draining, inflight, served, wire>>
    BY DEF TakeRequest
  <1>2. LoopInv'
    BY <1>1 DEF IInv, LoopInv, Sequence
  <1>3. WireInv'
    BY <1>1 DEF IInv, WireInv, Sequence, Ordered, FinalsOf, GoesOn, NotBegun, Turn
  <1>4. QED
    BY <1>2, <1>3 DEF IInv

\* More is awaited, after a 100 Continue that is the first for this request.
LEMMA AwaitKeeps == IInv /\ AwaitMore => IInv'
  <1> SUFFICES ASSUME IInv, AwaitMore PROVE IInv'
    OBVIOUS
  <1>1. /\ pc = "extract" /\ pc' = "recv"
        /\ UNCHANGED <<count, closing, draining, inflight, served>>
    BY DEF AwaitMore
  <1>2. contSent' \in BOOLEAN
    BY DEF AwaitMore, IInv, LoopInv
  <1>3. LoopInv'
    BY <1>1, <1>2 DEF IInv, LoopInv, Sequence
  <1>4. CASE UNCHANGED <<wire, contSent>>
    <2>1. WireInv'
      BY <1>1, <1>4 DEF IInv, WireInv, Sequence, Ordered, FinalsOf, GoesOn, NotBegun, Turn
    <2>2. QED
      BY <1>3, <2>1 DEF IInv
  <1>5. CASE /\ ~contSent /\ contSent' = TRUE /\ wire' = Append(wire, Continue(count + 1))
    <2> DEFINE e == Continue(count + 1)
    <2>1. e.re = count + 1 /\ ~e.final /\ ~e.last /\ wire' = Append(wire, e)
      BY <1>5 DEF Continue
    <2>2. /\ Sequence(wire) /\ Ordered(wire) /\ GoesOn(wire, count + 1)
          /\ NotBegun(wire, count + 1) /\ count + 1 \in Nat /\ count + 1 > 0
      BY <1>1, <1>5, HandlerAssumption DEF IInv, LoopInv, WireInv, Turn
    <2> HIDE DEF e
    <2>3. Sequence(wire') /\ Ordered(wire') /\ GoesOn(wire', count + 1)
      BY <2>1, <2>2, InterimWritten
    <2>4. \A i \in DOMAIN wire' : wire'[i].re \in 1 .. count + 1
      BY <2>3 DEF GoesOn
    <2>5. WireInv'
      BY <1>1, <1>5, <2>3, <2>4 DEF WireInv, Sequence, Ordered, FinalsOf, GoesOn, Turn
    <2>6. QED
      BY <1>3, <2>5 DEF IInv
  <1>6. QED
    BY <1>4, <1>5 DEF AwaitMore

\* Bytes are received.
LEMMA ReceiveKeeps == IInv /\ Receive => IInv'
  <1> SUFFICES ASSUME IInv, Receive PROVE IInv'
    OBVIOUS
  <1>1. /\ pc = "recv" /\ pc' = "extract"
        /\ UNCHANGED <<contSent, count, closing, draining, inflight, served, wire>>
    BY DEF Receive
  <1>2. LoopInv'
    BY <1>1 DEF IInv, LoopInv, Sequence
  <1>3. WireInv'
    BY <1>1 DEF IInv, WireInv, Sequence, Ordered, FinalsOf, GoesOn, NotBegun, Turn
  <1>4. QED
    BY <1>2, <1>3 DEF IInv

\* The request is dispatched: its turn goes on until it is answered.
LEMMA DispatchKeeps == IInv /\ Dispatch => IInv'
  <1> SUFFICES ASSUME IInv, Dispatch PROVE IInv'
    OBVIOUS
  <1>1. /\ pc = "parse" /\ pc' = "write" /\ count' = count + 1 /\ inflight' = inflight + 1
        /\ served' = Append(served, FromBytes(raw).body)
        /\ closing' = (raw[1].head.close \/ count' >= MaxKeepAlive)
        /\ UNCHANGED <<contSent, draining, wire>>
    BY DEF Dispatch, inVars
  <1>2. /\ count \in Nat /\ count < MaxKeepAlive /\ inflight = 0 /\ MaxKeepAlive \in Nat
        /\ contSent \in BOOLEAN /\ draining \in BOOLEAN
    BY <1>1, HandlerAssumption DEF IInv, LoopInv
  <1>3. Sequence(served') /\ Len(served') = count'
    <2>1. Sequence(served) /\ Len(served) = count
      BY DEF IInv, LoopInv
    <2>2. QED
      BY <1>1, <2>1, SequenceGrows
  <1>4. closing' \in BOOLEAN
    BY <1>1
  <1>5. closing' \/ count' < MaxKeepAlive
    <2>1. count' >= MaxKeepAlive \/ count' < MaxKeepAlive
      BY <1>1, <1>2
    <2>2. QED
      BY <1>1, <2>1
  <1>6. count' \in 0 .. MaxKeepAlive /\ count' > 0 /\ inflight' = 1 /\ inflight' \in {0, 1}
    BY <1>1, <1>2
  <1>7. LoopInv'
    BY <1>1, <1>2, <1>3, <1>4, <1>5, <1>6 DEF LoopInv, Sequence
  <1>8. \A i \in DOMAIN wire : wire[i].re \in 1 .. count + 2
    BY <1>2 DEF IInv, WireInv
  <1>9. Turn' = Turn /\ Turn = count + 1
    BY <1>1 DEF Turn
  <1>10. Sequence(wire) /\ Ordered(wire) /\ GoesOn(wire, Turn)
    BY <1>1 DEF IInv, WireInv
  <1>11. WireInv'
    BY <1>1, <1>2, <1>8, <1>9, <1>10 DEF WireInv, Sequence, Ordered, FinalsOf, GoesOn
  <1>12. QED
    BY <1>7, <1>11 DEF IInv

\* The answer is written, and another request has its turn if the loop goes on.
LEMMA WriteKeeps == IInv /\ WriteAnswer => IInv'
  <1> SUFFICES ASSUME IInv, WriteAnswer PROVE IInv'
    OBVIOUS
  <1> DEFINE e == Answer(count, "200", closing)
  <1>1. /\ pc = "write" /\ wire' = Append(wire, e) /\ inflight' = inflight - 1
        /\ pc' = "closed" \/ (~closing /\ pc' = "extract")
        /\ UNCHANGED <<contSent, count, closing, draining, served>>
    BY DEF WriteAnswer, Leave, inVars
  <1>2. count \in Nat /\ count > 0 /\ inflight = 1
    BY <1>1, HandlerAssumption DEF IInv, LoopInv
  <1>3. LoopInv'
    <2>1. inflight' = 0
      BY <1>1, <1>2
    <2>2. pc' = "extract" => count < MaxKeepAlive
      BY <1>1 DEF IInv, LoopInv
    <2>3. pc' \in {"closed", "extract"}
      BY <1>1
    <2>4. QED
      BY <1>1, <2>1, <2>2, <2>3 DEF IInv, LoopInv, Sequence
  <1>4. e.re = count /\ e.final /\ (e.last <=> closing)
    BY DEF Answer
  <1>5. Sequence(wire) /\ Ordered(wire) /\ GoesOn(wire, count)
    BY <1>1 DEF IInv, WireInv, Turn
  <1> HIDE DEF e
  <1>6. /\ Sequence(wire') /\ Ordered(wire')
        /\ \A i \in DOMAIN wire' : wire'[i].re \in 1 .. count
        /\ ~closing => GoesOn(wire', count + 1) /\ NotBegun(wire', count + 1)
    BY <1>1, <1>2, <1>4, <1>5, FinalWritten
  <1>7. \A i \in DOMAIN wire' : wire'[i].re \in 1 .. count + 1
    BY <1>2, <1>6
  <1>8. WireInv'
    BY <1>1, <1>6, <1>7 DEF WireInv, Sequence, Ordered, FinalsOf, GoesOn, NotBegun, Turn
  <1>9. QED
    BY <1>3, <1>8 DEF IInv

\* The answer is not written, and nothing else will be.
LEMMA FailKeeps == IInv /\ WriteFails => IInv'
  <1> SUFFICES ASSUME IInv, WriteFails PROVE IInv'
    OBVIOUS
  <1>1. /\ pc = "write" /\ pc' = "closed" /\ inflight' = inflight - 1
        /\ UNCHANGED <<contSent, count, closing, draining, served, wire>>
    BY DEF WriteFails, Leave, inVars
  <1>2. inflight' = 0
    BY <1>1 DEF IInv, LoopInv
  <1>3. LoopInv'
    BY <1>1, <1>2 DEF IInv, LoopInv, Sequence
  <1>4. WireInv'
    BY <1>1 DEF IInv, WireInv, Sequence, Ordered, FinalsOf
  <1>5. QED
    BY <1>3, <1>4 DEF IInv

\* The invariant is kept by a drain that begins, by steps of nobody and by the loop.
LEMMA StepIInv == IInv /\ [Next]_vars => IInv'
  <1> SUFFICES ASSUME IInv, [Next]_vars PROVE IInv'
    OBVIOUS
  <1>1. ASSUME UNCHANGED <<pc, contSent, count, closing, inflight, served, wire>>,
               draining' \in BOOLEAN
        PROVE  IInv'
    <2>1. LoopInv'
      BY <1>1 DEF IInv, LoopInv, Sequence
    <2>2. WireInv'
      BY <1>1 DEF IInv, WireInv, Sequence, Ordered, FinalsOf, GoesOn, NotBegun, Turn
    <2>3. QED
      BY <2>1, <2>2 DEF IInv
  <1>2. CASE UNCHANGED vars
    BY <1>1, <1>2 DEF vars, inVars, IInv, LoopInv
  <1>3. CASE StartDrain
    BY <1>1, <1>3 DEF StartDrain, inVars
  <1>4. CASE RefuseRead
    BY <1>4, SilentKeeps, LeaveKeeps DEF RefuseRead
  <1>5. CASE ReceiveTimesOut \/ ReceiveEof
    BY <1>5, SilentKeeps, LeaveKeeps DEF ReceiveTimesOut, ReceiveEof
  <1>6. CASE ParseRefuses \/ RefuseDraining
    BY <1>6, SilentKeeps, LeaveKeeps DEF ParseRefuses, RefuseDraining
  <1>7. CASE DispatchRaises \/ ContinueFails
    BY <1>7, SilentKeeps DEF DispatchRaises, ContinueFails
  <1>8. CASE ExtractForEver
    <2>1. /\ pc = "extract" /\ pc' = "looping"
          /\ UNCHANGED <<contSent, count, closing, draining, inflight, served, wire>>
      BY <1>8 DEF ExtractForEver, inVars
    <2>2. LoopInv'
      BY <2>1 DEF IInv, LoopInv, Sequence
    <2>3. WireInv'
      BY <2>1 DEF IInv, WireInv, Sequence, Ordered, FinalsOf, GoesOn, NotBegun, Turn
    <2>4. QED
      BY <2>2, <2>3 DEF IInv
  <1>9. QED
    BY <1>2, <1>3, <1>4, <1>5, <1>6, <1>7, <1>8, TakeKeeps, AwaitKeeps, ReceiveKeeps, DispatchKeeps,
       WriteKeeps, FailKeeps DEF Next, Handler

-----------------------------------------------------------------------------
(***************************************************************************)
(* The stream.                                                             *)
(***************************************************************************)

\* What the client sends after its first k messages.
Pending(k) == FlattenSeq([i \in 1 .. Len(script) - k |-> Encode(k + i, script[k + i])])

\* The message whose turn it is, or that is being served.
Now == script[count + 1]

\* Nothing is lost, added or read twice: what has been received and not taken, and what is on
\* its way, are the messages that are still to come.
BufferInv ==
    /\ script \in Seq(Messages) /\ count \in 0 .. Len(script)
    /\ buffer \in Seq(Units) /\ rest \in Seq(Units)
    /\ pc \in {"extract", "recv", "write", "looping"} => buffer \o rest = Pending(count)
    /\ pc = "looping" => count < Len(script) /\ Endless(Now)
    /\ pc = "parse" => /\ count < Len(script) /\ Framed(Now) /\ raw = Encode(count + 1, Now)
                       /\ buffer \o rest = Pending(count + 1)

\* The buffer passes MAX_REQUEST_BYTES only when there is a reason to refuse the message.
LimitInv ==
    /\ pc \in {"parse", "write", "recv"} => Len(buffer) <= MaxRequest
    /\ pc = "recv" /\ count < Len(script) => Len(buffer) < Len(Encode(count + 1, Now))
    /\ pc = "extract" /\ count < Len(script) /\ Len(buffer) > MaxRequest =>
          Wrong(Now) \/ NearLimit(Now)

StreamInv == BufferInv /\ LimitInv /\ ServedAsSent /\ AnsweredForCause

\* What is to come is the next message and what comes after it.
LEMMA PendingFacts ==
    ASSUME script \in Seq(Messages), NEW k \in 0 .. Len(script)
    PROVE  /\ Pending(k) \in Seq(Units)
           /\ k = Len(script) => Pending(k) = << >>
           /\ k < Len(script) =>
                 /\ Pending(k + 1) \in Seq(Units) /\ script[k + 1] \in Messages
                 /\ Encode(k + 1, script[k + 1]) \in Seq(Units)
                 /\ Pending(k) = Encode(k + 1, script[k + 1]) \o Pending(k + 1)
  <1> DEFINE todo(j) == [i \in 1 .. Len(script) - j |-> Encode(j + i, script[j + i])]
  <1>1. Len(script) \in Nat /\ \A i \in 1 .. Len(script) : script[i] \in Messages
    OBVIOUS
  <1>2. ASSUME NEW i \in 1 .. Len(script) PROVE Encode(i, script[i]) \in Seq(Units)
    <2>1. i \in Nat /\ script[i] \in Messages
      BY <1>1
    <2>2. QED
      BY <2>1, EncodeFacts
  <1>3. ASSUME NEW j \in 0 .. Len(script)
        PROVE  /\ Len(script) - j \in Nat
               /\ todo(j) \in [1 .. Len(script) - j -> Seq(Units)]
               /\ Pending(j) \in Seq(Units)
               /\ j = Len(script) => Pending(j) = << >>
    <2>1. Len(script) - j \in Nat /\ \A i \in 1 .. Len(script) - j : j + i \in 1 .. Len(script)
      BY <1>1
    <2>2. todo(j) \in [1 .. Len(script) - j -> Seq(Units)]
      BY <1>2, <2>1
    <2>3. Pending(j) = FlattenSeq(todo(j))
      BY DEF Pending
    <2> HIDE DEF todo
    <2>4. j = Len(script) => Len(script) - j = 0
      BY <1>1
    <2>5. QED
      BY <2>1, <2>2, <2>3, <2>4, FlattenLast
  <1>4. ASSUME k < Len(script)
        PROVE  /\ Pending(k + 1) \in Seq(Units) /\ script[k + 1] \in Messages
               /\ Encode(k + 1, script[k + 1]) \in Seq(Units)
               /\ Pending(k) = Encode(k + 1, script[k + 1]) \o Pending(k + 1)
    <2> DEFINE n == Len(script) - k
    <2>1. /\ k + 1 \in 0 .. Len(script) /\ k + 1 \in 1 .. Len(script)
          /\ n \in Nat /\ n > 0 /\ Len(script) - (k + 1) = n - 1
          /\ 1 \in 1 .. n
      BY <1>1, <1>4
    <2>2. todo(k) \in [1 .. n -> Seq(Units)]
      BY <1>3
    <2>3. FlattenSeq(todo(k)) = todo(k)[1] \o FlattenSeq([i \in 1 .. n - 1 |-> todo(k)[i + 1]])
      <3> HIDE DEF todo, n
      <3>1. QED
        BY <2>1, <2>2, FlattenFirst
    <2>4. todo(k)[1] = Encode(k + 1, script[k + 1])
      BY <2>1
    <2>5. [i \in 1 .. n - 1 |-> todo(k)[i + 1]] = todo(k + 1)
      <3>1. ASSUME NEW i \in 1 .. n - 1
            PROVE  todo(k)[i + 1] = Encode((k + 1) + i, script[(k + 1) + i])
        <4>1. i + 1 \in 1 .. n /\ k + (i + 1) = (k + 1) + i
          BY <2>1
        <4>2. todo(k)[i + 1] = Encode(k + (i + 1), script[k + (i + 1)])
          BY <4>1
        <4>3. QED
          BY <4>1, <4>2
      <3>2. todo(k + 1) = [i \in 1 .. n - 1 |-> Encode((k + 1) + i, script[(k + 1) + i])]
        BY <2>1
      <3> HIDE DEF todo
      <3>3. QED
        BY <3>1, <3>2
    <2>6. Pending(k) = FlattenSeq(todo(k)) /\ Pending(k + 1) = FlattenSeq(todo(k + 1))
      BY DEF Pending
    <2>7. Pending(k) = Encode(k + 1, script[k + 1]) \o Pending(k + 1)
      <3> HIDE DEF todo
      <3>1. QED
        BY <2>3, <2>4, <2>5, <2>6, Zenon
    <2>8. QED
      BY <1>1, <1>2, <1>3, <2>1, <2>7
  <1>5. QED
    BY <1>3, <1>4

\* One stream, split in two ways.
OneStream(a, b, c, d) == a \o b = c \o d

\* What a has after c comes before b in d.
Leftover(a, b, c, d) ==
    SubSeq(a, 1, Len(c)) = c /\ SubSeq(a, Len(c) + 1, Len(a)) \o b = d

\* The shorter beginning of a stream is the beginning of the longer.
LEMMA StreamSplits ==
    ASSUME NEW T, NEW a \in Seq(T), NEW b \in Seq(T), NEW c \in Seq(T), NEW d \in Seq(T),
           OneStream(a, b, c, d)
    PROVE  Agree(a, c) /\ (Len(c) <= Len(a) => Leftover(a, b, c, d))
  <1>0. a \o b = c \o d
    BY DEF OneStream
  <1>1. \A q \in 1 .. Len(a) : q <= Len(c) => a[q] = c[q]
    <2> SUFFICES ASSUME NEW q \in 1 .. Len(a), q <= Len(c) PROVE a[q] = c[q]
      OBVIOUS
    <2>1. (a \o b)[q] = a[q] /\ (c \o d)[q] = c[q]
      OBVIOUS
    <2>2. QED
      BY <1>0, <2>1
  <1>2. ASSUME Len(c) <= Len(a)
        PROVE  SubSeq(a, 1, Len(c)) = c /\ SubSeq(a, Len(c) + 1, Len(a)) \o b = d
    <2> DEFINE f == SubSeq(a, 1, Len(c))
               t == SubSeq(a, Len(c) + 1, Len(a))
    <2>1. Len(a) \in Nat /\ Len(b) \in Nat /\ Len(c) \in Nat /\ Len(d) \in Nat
          /\ Len(a) + Len(b) = Len(c) + Len(d)
      <3>1. Len(a \o b) = Len(a) + Len(b) /\ Len(c \o d) = Len(c) + Len(d)
        OBVIOUS
      <3>2. Len(a) \in Nat /\ Len(b) \in Nat /\ Len(c) \in Nat /\ Len(d) \in Nat
        OBVIOUS
      <3>3. QED
        BY <1>0, <3>1, <3>2
    <2>2. /\ f \in Seq(T) /\ Len(f) = Len(c) /\ \A q \in 1 .. Len(c) : f[q] = a[q]
      BY <1>2, <2>1
    <2>3. /\ t \in Seq(T) /\ Len(t) = Len(a) - Len(c)
          /\ \A q \in DOMAIN t : t[q] = a[q + Len(c)]
      BY <1>2, <2>1, SuffixFacts
    <2> HIDE DEF f, t
    <2>4. f = c
      <3>1. \A q \in 1 .. Len(c) : q \in 1 .. Len(a) /\ q <= Len(c)
        BY <1>2, <2>1
      <3>2. \A q \in 1 .. Len(f) : f[q] = c[q]
        BY <1>1, <2>2, <3>1
      <3>3. QED
        BY <2>2, <3>2, SeqEqual
    <2>5. t \in Seq(T)
      BY <2>3
    <2>6. t \o b = d
      <3>1. t \o b \in Seq(T) /\ Len(t \o b) = Len(t) + Len(b)
        BY ONLY b \in Seq(T), <2>5
      <3>2. Len(t \o b) = Len(d)
        BY <2>1, <2>3, <3>1
      <3>3. ASSUME NEW q \in 1 .. Len(d) PROVE (t \o b)[q] = d[q]
        <4>1. (c \o d)[Len(c) + q] = d[q]
          BY ONLY c \in Seq(T), d \in Seq(T), q \in 1 .. Len(d)
        <4>2. CASE q <= Len(t)
          <5>1. q \in 1 .. Len(t) /\ q \in DOMAIN t /\ q + Len(c) = Len(c) + q
                /\ Len(c) + q \in 1 .. Len(a)
            BY <2>1, <2>3, <4>2
          <5>2. (t \o b)[q] = t[q]
            BY ONLY b \in Seq(T), <2>5, <5>1
          <5>3. (a \o b)[Len(c) + q] = a[Len(c) + q]
            BY ONLY a \in Seq(T), b \in Seq(T), <5>1
          <5>4. t[q] = a[Len(c) + q]
            BY <2>3, <5>1
          <5>5. QED
            BY <1>0, <4>1, <5>2, <5>3, <5>4
        <4>3. CASE ~(q <= Len(t))
          <5> DEFINE r == q - Len(t)
          <5>1. r \in 1 .. Len(b) /\ q = Len(t) + r /\ Len(c) + q = Len(a) + r
            BY <2>1, <2>3, <4>3
          <5> HIDE DEF r
          <5>2. (t \o b)[Len(t) + r] = b[r]
            BY ONLY b \in Seq(T), <2>5, <5>1
          <5>3. (a \o b)[Len(a) + r] = b[r]
            BY ONLY a \in Seq(T), b \in Seq(T), <5>1
          <5>4. QED
            BY <1>0, <4>1, <5>1, <5>2, <5>3
        <4>4. QED
          BY <4>2, <4>3
      <3>4. QED
        BY <3>1, <3>2, <3>3, SeqEqual
    <2>7. QED
      BY <2>4, <2>6 DEF f, t
  <1>3. QED
    BY <1>1, <1>2 DEF Agree, Leftover

\* What the decoder says of the buffer, when the loop looks at it.
LEMMA ExtractOfBuffer ==
    ASSUME BufferInv, pc = "extract"
    PROVE  \/ count = Len(script) /\ Extract(buffer) = More /\ InspectHead(buffer) = More
           \/ /\ count < Len(script) /\ Now \in Messages /\ Agree(buffer, Encode(count + 1, Now))
              /\ \/ Extract(buffer) = More /\ Len(buffer) < Len(Encode(count + 1, Now))
                 \/ /\ Extract(buffer) \in {Refused("400"), Refused("413"), Refused("431")}
                    /\ Wrong(Now) \/ Len(buffer) > MaxRequest
                 \/ Extract(buffer) = Loops /\ Endless(Now)
                 \/ /\ Extract(buffer) = Whole(Len(Encode(count + 1, Now))) /\ Framed(Now)
                    /\ Len(Encode(count + 1, Now)) <= Len(buffer) /\ Len(buffer) <= MaxRequest
  <1>1. /\ script \in Seq(Messages) /\ count \in 0 .. Len(script)
        /\ buffer \in Seq(Units) /\ rest \in Seq(Units) /\ buffer \o rest = Pending(count)
    BY DEF BufferInv
  <1>2. Len(script) \in Nat /\ count \in Nat /\ count + 1 \in Nat
    BY <1>1
  <1>3. CASE count = Len(script)
    <2>1. buffer \o rest = << >>
      BY <1>1, <1>3, PendingFacts
    <2>2. Len(buffer) = 0
      <3>1. Len(buffer) + Len(rest) = 0 /\ Len(buffer) \in Nat /\ Len(rest) \in Nat
        BY <1>1, <2>1
      <3>2. QED
        BY <3>1
    <2>3. HeadEnd(buffer) = 0
      <3>1. 1 .. Len(buffer) = {}
        BY <2>2
      <3>2. QED
        BY <1>1, <3>1, HeadEndFacts
    <2>4. ~(Len(buffer) > MaxRequest) /\ ~(Len(buffer) > MaxHeader)
      BY <2>2, FramingAssumption
    <2>5. InspectHead(buffer) = More
      BY <2>3, <2>4 DEF InspectHead
    <2>6. Extract(buffer) = More
      <3>1. InspectHead(buffer).out # "whole"
        BY <2>5 DEF More
      <3>2. QED
        BY <2>5, <3>1 DEF Extract
    <2>7. QED
      BY <1>3, <2>5, <2>6
  <1>4. CASE count < Len(script)
    <2>1. /\ Pending(count + 1) \in Seq(Units) /\ Now \in Messages
          /\ Encode(count + 1, Now) \in Seq(Units)
          /\ buffer \o rest = Encode(count + 1, Now) \o Pending(count + 1)
      BY <1>1, <1>4, PendingFacts DEF Now
    <2>2. Agree(buffer, Encode(count + 1, Now))
      <3> DEFINE all == Encode(count + 1, Now)
      <3> HIDE DEF all
      <3>1. OneStream(buffer, rest, all, Pending(count + 1))
        BY <2>1 DEF OneStream, all
      <3>2. Agree(buffer, all)
        BY <1>1, <2>1, <3>1, StreamSplits DEF all
      <3>3. QED
        BY <3>2 DEF all
    <2>3. \/ Extract(buffer) = More /\ Len(buffer) < Len(Encode(count + 1, Now))
          \/ /\ Extract(buffer) \in {Refused("400"), Refused("413"), Refused("431")}
             /\ Wrong(Now) \/ Len(buffer) > MaxRequest
          \/ Extract(buffer) = Loops /\ Endless(Now)
          \/ /\ Extract(buffer) = Whole(Len(Encode(count + 1, Now))) /\ Framed(Now)
             /\ Len(Encode(count + 1, Now)) <= Len(buffer) /\ Len(buffer) <= MaxRequest
      BY <1>1, <1>2, <2>1, <2>2, ExtractFinds
    <2>4. QED
      BY <1>4, <2>1, <2>2, <2>3
  <1>5. QED
    BY <1>1, <1>2, <1>3, <1>4

\* There is a cause for an element of the wire.
Caused(e) ==
    /\ e.status \in {"400", "413", "431"} => Wrong(script[e.re]) \/ NearLimit(script[e.re])
    /\ ~e.final => script[e.re].expect

\* One more element of the wire, with its cause.
LEMMA CauseGrows ==
    ASSUME AnsweredForCause, Sequence(wire), NEW e, Caused(e),
           wire' = Append(wire, e), script' = script
    PROVE  AnsweredForCause'
  <1>1. \A i \in DOMAIN wire : Caused(wire[i])
    BY DEF AnsweredForCause, Caused
  <1>2. /\ DOMAIN wire' = DOMAIN wire \cup {Len(wire) + 1}
        /\ \A i \in DOMAIN wire : wire'[i] = wire[i]
        /\ wire'[Len(wire) + 1] = e
    BY SequenceGrows
  <1>3. \A i \in DOMAIN wire' : Caused(wire'[i])
    BY <1>1, <1>2
  <1>4. QED
    BY <1>3 DEF AnsweredForCause, Caused, NearLimit, Wrong

\* Nothing is served and nothing is written.
LEMMA CauseStays ==
    ASSUME ServedAsSent, AnsweredForCause, UNCHANGED <<script, served, wire>>
    PROVE  ServedAsSent' /\ AnsweredForCause'
  BY DEF ServedAsSent, AnsweredForCause, NearLimit, Wrong

\* The loop is left without a word, or with an answer for which there is a cause.
LEMMA LeavingKeeps ==
    ASSUME IInv, StreamInv, NEW status,
           LeaveSilently \/ LeaveWith(status),
           status \in {"400", "413", "431"} => Wrong(Now) \/ NearLimit(Now)
    PROVE  StreamInv'
  <1>1. pc' = "closed" /\ UNCHANGED <<script, buffer, rest, raw, count, served>>
    BY DEF LeaveSilently, LeaveWith, Leave, inVars
  <1>2. BufferInv' /\ LimitInv'
    BY <1>1 DEF StreamInv, BufferInv, LimitInv
  <1>3. CASE LeaveSilently
    <2>1. wire' = wire
      BY <1>3 DEF LeaveSilently
    <2>2. QED
      BY <1>1, <1>2, <2>1, CauseStays DEF StreamInv
  <1>4. CASE LeaveWith(status)
    <2> DEFINE e == Answer(count + 1, status, TRUE)
    <2>1. wire' = Append(wire, e)
      BY <1>4 DEF LeaveWith
    <2>2. Caused(e)
      BY DEF Caused, Answer, Now
    <2>3. Sequence(wire)
      BY DEF IInv, WireInv
    <2> HIDE DEF e
    <2>4. AnsweredForCause'
      BY <1>1, <2>1, <2>2, <2>3, CauseGrows DEF StreamInv
    <2>5. ServedAsSent'
      BY <1>1 DEF StreamInv, ServedAsSent, Wrong
    <2>6. QED
      BY <1>2, <2>4, <2>5 DEF StreamInv
  <1>5. QED
    BY <1>3, <1>4

\* The request that is taken out is the next one, and what stays are those after it.
LEMMA TakingKeeps ==
    ASSUME StreamInv, TakeRequest
    PROVE  StreamInv'
  <1> DEFINE all == Encode(count + 1, Now)
  <1>1. /\ pc = "extract" /\ pc' = "parse" /\ Extract(buffer).out = "whole"
        /\ raw' = SubSeq(buffer, 1, Extract(buffer).len)
        /\ buffer' = SubSeq(buffer, Extract(buffer).len + 1, Len(buffer))
        /\ UNCHANGED <<script, rest, count, served, wire>>
    BY DEF TakeRequest
  <1>2. /\ count < Len(script) /\ Now \in Messages /\ Framed(Now)
        /\ Extract(buffer) = Whole(Len(all)) /\ Len(all) <= Len(buffer)
        /\ Len(buffer) <= MaxRequest
    BY <1>1, ExtractOfBuffer DEF StreamInv, More, Refused, Loops
  <1>3. Extract(buffer).len = Len(all)
    BY <1>2 DEF Whole
  <1>4. /\ script \in Seq(Messages) /\ count \in 0 .. Len(script)
        /\ buffer \in Seq(Units) /\ rest \in Seq(Units) /\ buffer \o rest = Pending(count)
    BY <1>1 DEF StreamInv, BufferInv
  <1>5. /\ Pending(count + 1) \in Seq(Units) /\ all \in Seq(Units)
        /\ buffer \o rest = all \o Pending(count + 1)
    BY <1>2, <1>4, PendingFacts DEF Now
  <1> HIDE DEF all
  <1>6. raw' = all /\ buffer' \in Seq(Units) /\ buffer' \o rest = Pending(count + 1)
    <2> DEFINE later == Pending(count + 1)
    <2> HIDE DEF later
    <2>1. later \in Seq(Units) /\ OneStream(buffer, rest, all, later)
      BY <1>5 DEF OneStream, later
    <2>2. Leftover(buffer, rest, all, later)
      BY <1>2, <1>4, <1>5, <2>1, StreamSplits
    <2>3. SubSeq(buffer, Len(all) + 1, Len(buffer)) \in Seq(Units)
      <3>1. Len(all) \in Nat
        BY <1>5
      <3>2. QED
        BY <1>2, <1>4, <3>1, SuffixFacts
    <2>4. QED
      BY <1>1, <1>3, <2>2, <2>3 DEF Leftover, later
  <1>7. BufferInv'
    <2>1. Pending(count + 1)' = Pending(count + 1) /\ Now' = Now
      BY <1>1 DEF Pending, Now
    <2>2. (buffer \o rest)' = Pending(count + 1)' /\ raw' = Encode(count + 1, Now)'
      BY <1>1, <1>6, <2>1 DEF all
    <2>3. Framed(Now)'
      BY <1>2, <2>1
    <2>4. QED
      BY <1>1, <1>2, <1>4, <1>6, <2>2, <2>3 DEF BufferInv
  <1>8. LimitInv'
    <2>1. Len(buffer') <= MaxRequest
      <3>1. Len(buffer') = Len(buffer) - Len(all) /\ Len(all) \in Nat /\ Len(buffer) \in Nat
        <4>1. Len(all) \in Nat /\ Len(buffer) \in Nat
          BY <1>4, <1>5
        <4>2. QED
          BY <1>1, <1>2, <1>3, <1>4, <4>1, SuffixFacts
      <3>2. QED
        BY <1>2, <3>1, FramingAssumption
    <2>2. QED
      BY <1>1, <2>1 DEF LimitInv
  <1>9. QED
    BY <1>1, <1>7, <1>8, CauseStays DEF StreamInv

\* While more is awaited, the buffer is within its limit, and a 100 Continue is for a client
\* that waits for it.
LEMMA AwaitingKeeps ==
    ASSUME IInv, StreamInv, AwaitMore
    PROVE  StreamInv'
  <1>1. /\ pc = "extract" /\ pc' = "recv" /\ Extract(buffer).out = "more"
        /\ UNCHANGED <<script, rest, buffer, raw, count, served>>
    BY DEF AwaitMore
  <1>2. BufferInv'
    <2>1. Pending(count)' = Pending(count)
      BY <1>1 DEF Pending
    <2>2. QED
      BY <1>1, <2>1 DEF StreamInv, BufferInv
  <1>3. Len(buffer) <= MaxRequest
    <2>1. Len(buffer) \in Nat /\ MaxRequest \in Nat
      BY FramingAssumption DEF StreamInv, BufferInv
    <2>2. CASE Len(buffer) > MaxRequest
      <3>1. InspectHead(buffer) = Refused("413")
        BY <2>2 DEF InspectHead
      <3>2. Extract(buffer) = Refused("413")
        BY <3>1 DEF Extract, Refused
      <3>3. QED
        BY <1>1, <3>2 DEF Refused
    <2>3. QED
      BY <2>1, <2>2
  <1>4. /\ count < Len(script) => /\ Len(buffer) < Len(Encode(count + 1, Now))
                                  /\ Now \in Messages /\ Agree(buffer, Encode(count + 1, Now))
        /\ count = Len(script) => InspectHead(buffer) = More
        /\ count < Len(script) \/ count = Len(script)
    <2>1. count < Len(script) \/ count = Len(script)
      BY DEF StreamInv, BufferInv
    <2>2. count < Len(script) => ~(count = Len(script))
      BY DEF StreamInv, BufferInv
    <2>3. QED
      BY <1>1, <2>1, <2>2, ExtractOfBuffer DEF StreamInv, Refused, Whole, Loops
  <1>5. LimitInv'
    <2>1. Encode(count + 1, Now)' = Encode(count + 1, Now)
      BY <1>1 DEF Now
    <2>2. Len(buffer') <= MaxRequest
      BY <1>1, <1>3
    <2>3. count < Len(script) => Len(buffer') < Len(Encode(count + 1, Now)')
      BY <1>1, <1>4, <2>1
    <2>4. QED
      BY <1>1, <2>2, <2>3 DEF LimitInv
  <1>6. CASE wire' = wire
    BY <1>1, <1>2, <1>5, <1>6, CauseStays DEF StreamInv
  <1>7. CASE WantsContinue /\ wire' = Append(wire, Continue(count + 1))
    <2>1. InspectHead(buffer).out = "whole" /\ buffer[1].head.expect
      BY <1>7 DEF WantsContinue
    <2>2. count < Len(script)
      BY <1>4, <2>1 DEF More
    <2>3. buffer \in Seq(Units) /\ count + 1 \in Nat
      BY DEF StreamInv, BufferInv
    <2>4. buffer[1].head = Now
      BY <1>4, <2>1, <2>2, <2>3, InspectFinds DEF More, Refused
    <2>5. Caused(Continue(count + 1))
      BY <2>1, <2>4 DEF Caused, Continue, Now
    <2>6. Sequence(wire)
      BY DEF IInv, WireInv
    <2>7. AnsweredForCause'
      BY <1>1, <1>7, <2>5, <2>6, CauseGrows DEF StreamInv
    <2>8. ServedAsSent'
      BY <1>1 DEF StreamInv, ServedAsSent, Wrong
    <2>9. QED
      BY <1>2, <1>5, <2>7, <2>8 DEF StreamInv
  <1>8. QED
    BY <1>6, <1>7 DEF AwaitMore

\* What is received goes from the one to the other.
LEMMA StreamMoves ==
    ASSUME NEW T, NEW a \in Seq(T), NEW b \in Seq(T), NEW n \in 1 .. Len(b),
           NEW c, c = a \o SubSeq(b, 1, n), NEW d, d = SubSeq(b, n + 1, Len(b))
    PROVE  c \in Seq(T) /\ d \in Seq(T) /\ Len(c) = Len(a) + n /\ OneStream(c, d, a, b)
  <1> DEFINE f == SubSeq(b, 1, n)
  <1>1. Len(a) \in Nat /\ Len(b) \in Nat /\ n \in Nat /\ n <= Len(b)
    OBVIOUS
  <1>2. f \in Seq(T) /\ Len(f) = n /\ \A q \in 1 .. n : f[q] = b[q]
    BY <1>1
  <1>3. d \in Seq(T) /\ Len(d) = Len(b) - n /\ \A q \in DOMAIN d : d[q] = b[q + n]
    BY <1>1, SuffixFacts
  <1>4. c = a \o f
    OBVIOUS
  <1> HIDE DEF f
  <1>5. f \in Seq(T)
    BY <1>2
  <1>6. c \in Seq(T) /\ Len(c) = Len(a) + Len(f)
    BY ONLY a \in Seq(T), <1>4, <1>5
  <1>7. c \in Seq(T) /\ d \in Seq(T)
    BY <1>3, <1>6
  <1>8. c \o d \in Seq(T) /\ Len(c \o d) = Len(c) + Len(d)
    BY ONLY <1>7
  <1>9. a \o b \in Seq(T) /\ Len(a \o b) = Len(a) + Len(b)
    OBVIOUS
  <1>10. Len(c) = Len(a) + n /\ Len(c \o d) = Len(a \o b)
    <2>1. Len(c) = Len(a) + n
      BY <1>2, <1>6, Zenon
    <2>2. Len(c) + Len(d) = Len(a) + Len(b)
      <3>1. Len(d) = Len(b) - n
        BY <1>3
      <3>2. (Len(a) + n) + (Len(b) - n) = Len(a) + Len(b)
        BY ONLY <1>1
      <3>3. QED
        BY <2>1, <3>1, <3>2, Zenon
    <2>3. QED
      BY <1>8, <1>9, <2>1, <2>2, Zenon
  <1>11. ASSUME NEW q \in 1 .. Len(a \o b) PROVE (c \o d)[q] = (a \o b)[q]
    <2>1. q \in Nat /\ 1 <= q /\ q <= Len(a) + Len(b)
      BY <1>1, <1>9
    <2>2. CASE q <= Len(a)
      <3>1. q \in 1 .. Len(a) /\ q \in 1 .. Len(c)
        BY <1>1, <1>10, <2>1, <2>2
      <3>2. (c \o d)[q] = c[q]
        BY ONLY <1>7, <3>1
      <3>3. c[q] = a[q]
        BY ONLY a \in Seq(T), <1>4, <1>5, <3>1
      <3>4. (a \o b)[q] = a[q]
        BY ONLY a \in Seq(T), b \in Seq(T), <3>1
      <3>5. QED
        BY <3>2, <3>3, <3>4
    <2>3. CASE Len(a) < q /\ q <= Len(a) + n
      <3> DEFINE r == q - Len(a)
      <3>1. r \in 1 .. n /\ r \in 1 .. Len(b) /\ r \in 1 .. Len(f) /\ q \in 1 .. Len(c)
            /\ q = Len(a) + r
        BY <1>1, <1>2, <1>10, <2>1, <2>3
      <3> HIDE DEF r
      <3>2. (c \o d)[q] = c[q]
        BY ONLY <1>7, <3>1
      <3>3. (a \o f)[Len(a) + r] = f[r]
        BY ONLY a \in Seq(T), <1>5, <3>1
      <3>4. (a \o b)[Len(a) + r] = b[r]
        BY ONLY a \in Seq(T), b \in Seq(T), <3>1
      <3>5. f[r] = b[r]
        BY <1>2, <3>1
      <3>6. QED
        BY <1>4, <3>1, <3>2, <3>3, <3>4, <3>5
    <2>4. CASE Len(a) + n < q
      <3> DEFINE r == q - (Len(a) + n)
      <3>a. r \in 1 .. Len(d) /\ q = Len(c) + r
        BY <1>1, <1>3, <1>10, <2>1, <2>4
      <3>b. r + n \in 1 .. Len(b) /\ q = Len(a) + (r + n)
        BY <1>1, <1>3, <1>10, <2>1, <2>4
      <3> HIDE DEF r
      <3>1. r \in 1 .. Len(d)
        BY <3>a
      <3>2. r + n \in 1 .. Len(b)
        BY <3>b
      <3>3. (c \o d)[Len(c) + r] = d[r]
        BY ONLY <1>7, <3>1
      <3>4. d[r] = b[r + n]
        BY <1>3, <3>1
      <3>5. (a \o b)[Len(a) + (r + n)] = b[r + n]
        BY ONLY a \in Seq(T), b \in Seq(T), <3>2
      <3>6. QED
        BY <3>a, <3>b, <3>3, <3>4, <3>5
    <2>5. q <= Len(a) \/ (Len(a) < q /\ q <= Len(a) + n) \/ Len(a) + n < q
      BY <1>1, <2>1
    <2>6. QED
      BY <2>2, <2>3, <2>4, <2>5
  <1>12. c \o d = a \o b
    BY <1>8, <1>9, <1>10, <1>11, SeqEqual
  <1>13. QED
    BY <1>7, <1>10, <1>12 DEF OneStream

\* A message that is right and not chunked never fills the buffer, however much of the next one
\* comes with its last unit.
LEMMA RoomFor ==
    ASSUME NEW i \in Nat, NEW m \in Messages, ~Wrong(m), ~NearLimit(m)
    PROVE  Len(Encode(i, m)) + RecvSize <= MaxRequest
  <1> DEFINE all == Len(Encode(i, m))
             h == m.lines + 1
             meant == DataLen(m, Len(m.parts))
  <1>1. h \in Nat /\ meant \in Nat /\ all \in Nat /\ MaxHeader \in Nat /\ MaxBody \in Nat
        /\ RecvSize \in Nat /\ MaxRequest \in Nat
    <2>1. h \in Nat \ {0} /\ all \in Nat
      BY EncodeFacts
    <2>2. Len(Meant(i, m)) = meant /\ Len(Meant(i, m)) \in Nat
      BY MeantFacts
    <2> HIDE DEF h, all, meant
    <2>3. meant \in Nat
      BY <2>2
    <2>4. QED
      BY <2>1, <2>3, FramingAssumption, HandlerAssumption
  <1>2. Len(Encode(1, m)) = all
    BY EncodeFacts
  <1>3. m.framing # "both" /\ ~(h > MaxHeader) /\ ~(meant > MaxBody)
    BY UnfitFacts DEF Wrong
  <1>4. CASE m.framing = "chunked"
    <2>1. ~(all + RecvSize > MaxRequest)
      <3>1. ~(Len(Encode(1, m)) + RecvSize > MaxRequest)
        BY <1>4 DEF NearLimit
      <3> HIDE DEF all
      <3>2. QED
        BY <1>2, <3>1
    <2> HIDE DEF all, h, meant
    <2>2. all + RecvSize <= MaxRequest
      BY <1>1, <2>1
    <2>3. QED
      BY <2>2 DEF all
  <1>5. CASE m.framing # "chunked"
    <2>1. ~Chunked(m)
      BY <1>3, <1>5 DEF Chunked
    <2>2. all = h + meant
      <3>1. BodyUnits(i, m) = Meant(i, m)
        BY <2>1, EncodeFacts
      <3>2. all = h + Len(BodyUnits(i, m))
        BY EncodeFacts
      <3>3. Len(Meant(i, m)) = meant
        BY MeantFacts
      <3> HIDE DEF all, h, meant
      <3>4. QED
        BY <3>1, <3>2, <3>3, Zenon
    <2> HIDE DEF all, h, meant
    <2>3. all + RecvSize <= MaxRequest
      BY <1>1, <1>3, <2>2, HandlerAssumption
    <2>4. QED
      BY <2>3 DEF all
  <1>6. QED
    BY <1>4, <1>5

\* A recv moves the beginning of what is on its way to the end of the buffer.
LEMMA ReceivingKeeps ==
    ASSUME StreamInv, Receive
    PROVE  StreamInv'
  <1>1. /\ pc = "recv" /\ pc' = "extract" /\ UNCHANGED <<script, raw, count, served, wire>>
    BY DEF Receive
  <1>2. PICK n \in 1 .. RecvSize :
          /\ n <= Len(rest) /\ buffer' = buffer \o SubSeq(rest, 1, n)
          /\ rest' = SubSeq(rest, n + 1, Len(rest))
    BY DEF Receive
  <1>3. /\ script \in Seq(Messages) /\ count \in 0 .. Len(script)
        /\ buffer \in Seq(Units) /\ rest \in Seq(Units) /\ buffer \o rest = Pending(count)
    BY <1>1 DEF StreamInv, BufferInv
  <1>4. n \in 1 .. Len(rest) /\ Len(rest) \in Nat /\ Len(buffer) \in Nat /\ RecvSize \in Nat
    BY <1>2, <1>3, HandlerAssumption
  <1>5. /\ buffer' \in Seq(Units) /\ rest' \in Seq(Units) /\ Len(buffer') = Len(buffer) + n
        /\ OneStream(buffer', rest', buffer, rest)
    <2> DEFINE c == buffer'
               d == rest'
    <2>1. c = buffer \o SubSeq(rest, 1, n) /\ d = SubSeq(rest, n + 1, Len(rest))
      BY <1>2
    <2> HIDE DEF c, d
    <2>2. c \in Seq(Units) /\ d \in Seq(Units) /\ Len(c) = Len(buffer) + n
      BY <1>3, <1>4, <2>1, StreamMoves
    <2>3. OneStream(c, d, buffer, rest)
      BY <1>3, <1>4, <2>1, StreamMoves
    <2>4. QED
      BY <2>2, <2>3 DEF c, d
  <1>6. BufferInv'
    <2>1. Pending(count)' = Pending(count)
      BY <1>1 DEF Pending
    <2>2. (buffer \o rest)' = Pending(count)'
      BY <1>3, <1>5, <2>1 DEF OneStream
    <2>3. QED
      BY <1>1, <1>3, <1>5, <2>2 DEF BufferInv
  <1>7. LimitInv'
    <2>1. ASSUME count < Len(script), Len(buffer') > MaxRequest, ~Wrong(Now), ~NearLimit(Now)
          PROVE  FALSE
      <3>1. Now \in Messages /\ count + 1 \in Nat
        BY <1>3, <2>1, PendingFacts DEF Now
      <3>2. Len(Encode(count + 1, Now)) + RecvSize <= MaxRequest
        BY <2>1, <3>1, RoomFor
      <3>3. Len(buffer) < Len(Encode(count + 1, Now))
        BY <1>1, <2>1 DEF StreamInv, LimitInv
      <3>4. Len(Encode(count + 1, Now)) \in Nat
        BY <3>1, EncodeFacts
      <3>5. QED
        BY <1>2, <1>4, <1>5, <2>1, <3>2, <3>3, <3>4, FramingAssumption
    <2>2. count < Len(script) /\ Len(buffer') > MaxRequest => Wrong(Now) \/ NearLimit(Now)
      BY <2>1
    <2>3. Now' = Now
      BY <1>1 DEF Now
    <2>4. QED
      BY <1>1, <2>2, <2>3 DEF LimitInv, Wrong, NearLimit
  <1>8. QED
    BY <1>1, <1>6, <1>7, CauseStays DEF StreamInv

\* What the dispatcher is given is what the client meant, and right, or overlooked.
LEMMA ServingKeeps ==
    ASSUME IInv, StreamInv, Dispatch
    PROVE  StreamInv'
  <1>1. /\ pc = "parse" /\ pc' = "write" /\ count' = count + 1 /\ FromBytes(raw).ok
        /\ served' = Append(served, FromBytes(raw).body)
        /\ UNCHANGED <<script, rest, buffer, raw, wire>>
    BY DEF Dispatch, inVars
  <1>2. /\ script \in Seq(Messages) /\ count \in 0 .. Len(script) /\ count < Len(script)
        /\ buffer \in Seq(Units) /\ rest \in Seq(Units) /\ Framed(Now)
        /\ raw = Encode(count + 1, Now) /\ buffer \o rest = Pending(count + 1)
    BY <1>1 DEF StreamInv, BufferInv
  <1>3. Now \in Messages /\ count + 1 \in Nat /\ count' \in 0 .. Len(script)
    <2>1. Now \in Messages
      BY <1>2, PendingFacts DEF Now
    <2>2. QED
      BY <1>1, <1>2, <2>1
  <1>4. /\ FromBytes(raw) = Readable(Given(count + 1, Now))
        /\ ~Unfit(Now) /\ (Wrong(Now) => Overlooked(Now))
    BY <1>1, <1>2, <1>3, FromBytesFinds DEF Unreadable
  <1>5. BufferInv'
    <2>1. Pending(count)' = Pending(count + 1)
      BY <1>1 DEF Pending
    <2>2. (buffer \o rest)' = Pending(count)'
      BY <1>1, <1>2, <2>1
    <2>3. QED
      BY <1>1, <1>2, <1>3, <2>2 DEF BufferInv
  <1>6. LimitInv'
    BY <1>1 DEF StreamInv, LimitInv
  <1>7. ServedAsSent'
    <2>1. Sequence(served) /\ Len(served) = count
      BY DEF IInv, LoopInv
    <2>2. /\ DOMAIN served' = DOMAIN served \cup {count + 1}
          /\ \A k \in DOMAIN served : served'[k] = served[k]
          /\ served'[count + 1] = FromBytes(raw).body
      BY <1>1, <2>1, SequenceGrows
    <2> DEFINE Fits(m) == ~Unfit(m) /\ (Wrong(m) => Overlooked(m))
    <2>3. served'[count + 1] = Given(count + 1, script[count + 1]) /\ Fits(script[count + 1])
      BY <1>4, <2>2 DEF Readable, Now
    <2>4. \A k \in DOMAIN served : served[k] = Given(k, script[k]) /\ Fits(script[k])
      BY DEF StreamInv, ServedAsSent
    <2> HIDE DEF Fits
    <2>5. \A k \in DOMAIN served' : served'[k] = Given(k, script[k]) /\ Fits(script[k])
      BY <2>2, <2>3, <2>4
    <2>6. QED
      BY <1>1, <2>5 DEF ServedAsSent, Fits
  <1>8. AnsweredForCause'
    BY <1>1 DEF StreamInv, AnsweredForCause, NearLimit, Wrong
  <1>9. QED
    BY <1>5, <1>6, <1>7, <1>8 DEF StreamInv

\* An answer that is no refusal needs no cause, and what is in the buffer was there before.
LEMMA WritingKeeps ==
    ASSUME IInv, StreamInv, WriteAnswer
    PROVE  StreamInv'
  <1> DEFINE e == Answer(count, "200", closing)
  <1>1. /\ pc = "write" /\ wire' = Append(wire, e) /\ pc' \in {"closed", "extract"}
        /\ UNCHANGED <<script, rest, buffer, raw, count, served>>
    BY DEF WriteAnswer, Leave, inVars
  <1>2. BufferInv'
    <2>1. Pending(count)' = Pending(count)
      BY <1>1 DEF Pending
    <2>2. QED
      BY <1>1, <2>1 DEF StreamInv, BufferInv
  <1>3. LimitInv'
    <2>1. Len(buffer) <= MaxRequest /\ Len(buffer) \in Nat
      BY <1>1 DEF StreamInv, LimitInv, BufferInv
    <2>2. ~(Len(buffer') > MaxRequest)
      BY <1>1, <2>1, FramingAssumption
    <2>3. QED
      BY <1>1, <2>2 DEF LimitInv
  <1>4. Caused(e) /\ Sequence(wire)
    BY DEF Caused, Answer, IInv, WireInv
  <1> HIDE DEF e
  <1>5. AnsweredForCause'
    BY <1>1, <1>4, CauseGrows DEF StreamInv
  <1>6. ServedAsSent'
    BY <1>1 DEF StreamInv, ServedAsSent, Wrong
  <1>7. QED
    BY <1>2, <1>3, <1>5, <1>6 DEF StreamInv

\* At first everything is still to come.
LEMMA InitStream == Init => StreamInv
  <1> SUFFICES ASSUME Init PROVE StreamInv
    OBVIOUS
  <1>1. /\ pc = "extract" /\ count = 0 /\ buffer = << >> /\ served = << >> /\ wire = << >>
        /\ rest = FlattenSeq([i \in DOMAIN script |-> Encode(i, script[i])])
    BY DEF Init
  <1>2. script \in Seq(Messages) /\ Len(script) \in Nat /\ 0 \in 0 .. Len(script)
    <2>1. PICK n \in 1 .. MaxMessages : script \in [1 .. n -> Messages]
      BY DEF Init
    <2>2. n \in Nat
      BY <2>1, HandlerAssumption
    <2>3. script \in Seq(Messages)
      BY <2>1, <2>2, FunctionIsSequence
    <2>4. QED
      BY <2>3
  <1>3. rest = Pending(0) /\ rest \in Seq(Units)
    <2>1. DOMAIN script = 1 .. Len(script) - 0 /\ \A i \in DOMAIN script : 0 + i = i
      BY <1>2
    <2>2. [i \in DOMAIN script |-> Encode(i, script[i])]
            = [i \in 1 .. Len(script) - 0 |-> Encode(0 + i, script[0 + i])]
      BY <2>1
    <2>3. rest = Pending(0)
      BY <1>1, <2>2 DEF Pending
    <2>4. Pending(0) \in Seq(Units)
      BY <1>2, PendingFacts
    <2>5. QED
      BY <2>3, <2>4
  <1>4. BufferInv
    <2>1. buffer \in Seq(Units) /\ buffer \o rest = rest
      BY <1>1, <1>3
    <2>2. QED
      BY <1>1, <1>2, <1>3, <2>1 DEF BufferInv
  <1>5. LimitInv
    <2>1. ~(Len(buffer) > MaxRequest)
      <3>1. Len(<< >>) = 0
        OBVIOUS
      <3>2. QED
        BY <1>1, <3>1, FramingAssumption
    <2>2. QED
      BY <1>1, <2>1 DEF LimitInv
  <1>6. ServedAsSent /\ AnsweredForCause
    BY <1>1 DEF ServedAsSent, AnsweredForCause
  <1>7. QED
    BY <1>4, <1>5, <1>6 DEF StreamInv

\* Every step keeps the stream whole and gives no refusal without a cause.
LEMMA StepStream == IInv /\ StreamInv /\ [Next]_vars => StreamInv'
  <1> SUFFICES ASSUME IInv, StreamInv, [Next]_vars PROVE StreamInv'
    OBVIOUS
  <1>1. ASSUME UNCHANGED <<inVars, pc, count, served, wire>> PROVE StreamInv'
    <2>1. UNCHANGED <<script, rest, buffer, raw, pc, count, served, wire>>
      BY <1>1 DEF inVars
    <2>2. BufferInv'
      <3>1. Pending(count)' = Pending(count) /\ Pending(count + 1)' = Pending(count + 1)
        BY <2>1 DEF Pending
      <3>2. QED
        BY <2>1, <3>1 DEF StreamInv, BufferInv, Framed, Now, Unfit
    <2>3. LimitInv'
      BY <2>1 DEF StreamInv, LimitInv, Now, Wrong, NearLimit
    <2>4. QED
      BY <2>1, <2>2, <2>3, CauseStays DEF StreamInv
  <1>2. CASE UNCHANGED vars
    BY <1>1, <1>2 DEF vars
  <1>3. CASE StartDrain
    BY <1>1, <1>3 DEF StartDrain
  <1>4. CASE RefuseRead
    <2>1. pc = "extract" /\ Extract(buffer).out \in {"400", "413", "431"}
      BY <1>4 DEF RefuseRead
    <2>2. Wrong(Now) \/ NearLimit(Now)
      <3>1. /\ count < Len(script)
            /\ Wrong(Now) \/ Len(buffer) > MaxRequest
        BY <2>1, ExtractOfBuffer DEF StreamInv, More, Whole, Loops
      <3>2. QED
        BY <2>1, <3>1 DEF StreamInv, LimitInv
    <2>3. QED
      BY <1>4, <2>2, LeavingKeeps DEF RefuseRead
  <1>5. CASE ReceiveTimesOut \/ ReceiveEof
    <2>1. LeaveSilently \/ LeaveWith("408") \/ LeaveWith("cut")
      BY <1>5 DEF ReceiveTimesOut, ReceiveEof
    <2>2. QED
      BY <2>1, LeavingKeeps
  <1>6. CASE ParseRefuses
    <2>1. pc = "parse" /\ ~FromBytes(raw).ok
      BY <1>6 DEF ParseRefuses
    <2>2. Wrong(Now)
      <3>1. /\ script \in Seq(Messages) /\ count \in 0 .. Len(script) /\ count < Len(script)
            /\ Framed(Now) /\ raw = Encode(count + 1, Now)
        BY <2>1 DEF StreamInv, BufferInv
      <3>2. Now \in Messages /\ count + 1 \in Nat
        <4>1. Now \in Messages
          BY <3>1, PendingFacts DEF Now
        <4>2. QED
          BY <3>1, <4>1
      <3>3. QED
        BY <2>1, <3>1, <3>2, FromBytesFinds DEF Readable
    <2>3. QED
      BY <1>6, <2>2, LeavingKeeps DEF ParseRefuses
  <1>7. CASE RefuseDraining
    <2>1. LeaveSilently \/ LeaveWith("503")
      BY <1>7 DEF RefuseDraining
    <2>2. QED
      BY <2>1, LeavingKeeps
  <1>8. CASE DispatchRaises \/ ContinueFails
    <2>1. LeaveSilently \/ LeaveWith("503")
      BY <1>8 DEF DispatchRaises, ContinueFails
    <2>2. QED
      BY <2>1, LeavingKeeps
  <1>9. CASE WriteFails
    <2>1. pc' = "closed" /\ UNCHANGED <<script, rest, buffer, raw, count, served, wire>>
      BY <1>9 DEF WriteFails, Leave, inVars
    <2>2. BufferInv' /\ LimitInv'
      BY <2>1 DEF StreamInv, BufferInv, LimitInv
    <2>3. QED
      BY <2>1, <2>2, CauseStays DEF StreamInv
  <1>10. CASE ExtractForEver
    <2>1. /\ pc = "extract" /\ pc' = "looping" /\ Extract(buffer).out = "loops"
          /\ UNCHANGED <<script, rest, buffer, raw, count, served, wire>>
      BY <1>10 DEF ExtractForEver, inVars
    <2>2. count < Len(script) /\ Endless(Now)
      BY <2>1, ExtractOfBuffer DEF StreamInv, More, Whole, Refused
    <2>3. BufferInv'
      <3>1. Pending(count)' = Pending(count) /\ Now' = Now
        BY <2>1 DEF Pending, Now
      <3>2. QED
        BY <2>1, <2>2, <3>1 DEF StreamInv, BufferInv
    <2>4. LimitInv'
      BY <2>1 DEF LimitInv
    <2>5. QED
      BY <2>1, <2>3, <2>4, CauseStays DEF StreamInv
  <1>11. QED
    BY <1>2, <1>3, <1>4, <1>5, <1>6, <1>7, <1>8, <1>9, <1>10, TakingKeeps, AwaitingKeeps,
       ReceivingKeeps, ServingKeeps, WritingKeeps DEF Next, Handler

-----------------------------------------------------------------------------
(***************************************************************************)
(* The end of the loop.                                                    *)
(***************************************************************************)

\* A write may lead to one more round, and a round that waits to one more receive.
Ahead == IF pc = "write" THEN 2 ELSE IF pc = "extract" THEN 1 ELSE 0

\* How many steps of the handler are left at most, until it ends or is stuck: every receive takes
\* one of the units that are still to come, and every request one of those that the keep-alive
\* limit allows.
StepsLeft ==
    IF pc \in {"closed", "looping"} THEN 0
    ELSE 1 + Ahead + 2 * Len(rest) + 3 * (MaxKeepAlive - count)

\* No path around the loop of _handle_client can be taken for ever; what is read is decided on in
\* one of the ways that the loop knows; and the read is stuck over nothing but a chunk of
\* negative size, after another chunk, in the request whose turn it is.
EndsInSteps ==
    /\ StepsLeft \in Nat
    /\ pc = "extract" => Extract(buffer).out \in {"whole", "more", "400", "413", "431", "loops"}
    /\ pc = "extract" /\ Extract(buffer).out = "loops" => count < Len(script) /\ Endless(Now)
    /\ pc = "looping" => count < Len(script) /\ Endless(Now)

StepsShorten == [][(Handler => StepsLeft' < StepsLeft) /\ StepsLeft' <= StepsLeft]_vars

LEMMA LeftFacts ==
    ASSUME IInv, StreamInv
    PROVE  EndsInSteps /\ Len(rest) \in Nat /\ count \in 0 .. MaxKeepAlive
  <1>1. /\ Len(rest) \in Nat /\ count \in 0 .. MaxKeepAlive /\ MaxKeepAlive \in Nat
        /\ pc \in {"extract", "recv", "parse", "write", "closed", "looping"}
    BY HandlerAssumption DEF IInv, LoopInv, StreamInv, BufferInv
  <1>2. StepsLeft \in Nat
    BY <1>1 DEF StepsLeft, Ahead
  <1>3. ASSUME pc = "extract"
        PROVE  /\ Extract(buffer).out \in {"whole", "more", "400", "413", "431", "loops"}
               /\ Extract(buffer).out = "loops" => count < Len(script) /\ Endless(Now)
    BY <1>3, ExtractOfBuffer DEF StreamInv, More, Whole, Refused, Loops
  <1>4. pc = "looping" => count < Len(script) /\ Endless(Now)
    BY DEF StreamInv, BufferInv
  <1>5. QED
    BY <1>1, <1>2, <1>3, <1>4 DEF EndsInSteps

\* A step that goes to a later place of the loop, or around it with less to come.
LEMMA StepNearsEnd == IInv /\ StreamInv /\ Handler => StepsLeft' < StepsLeft
  <1> SUFFICES ASSUME IInv, StreamInv, Handler PROVE StepsLeft' < StepsLeft
    OBVIOUS
  <1>1. /\ Len(rest) \in Nat /\ count \in 0 .. MaxKeepAlive /\ MaxKeepAlive \in Nat
        /\ pc \in {"extract", "recv", "parse", "write", "closed", "looping"} /\ rest \in Seq(Units)
    BY LeftFacts, HandlerAssumption DEF IInv, LoopInv, StreamInv, BufferInv
  <1>2. ASSUME pc \notin {"closed", "looping"}, pc' \in {"closed", "looping"}
        PROVE  StepsLeft' < StepsLeft
    BY <1>1, <1>2 DEF StepsLeft, Ahead
  <1>3. CASE RefuseRead \/ ContinueFails \/ ReceiveTimesOut \/ ReceiveEof \/ ParseRefuses
             \/ RefuseDraining \/ DispatchRaises \/ WriteFails \/ ExtractForEver
    BY <1>2, <1>3 DEF ExtractForEver, RefuseRead, ContinueFails, ReceiveTimesOut, ReceiveEof,
       ParseRefuses,
       RefuseDraining, DispatchRaises, WriteFails, LeaveSilently, LeaveWith, Leave
  <1>4. CASE TakeRequest \/ AwaitMore
    <2>1. pc = "extract" /\ pc' \in {"parse", "recv"} /\ UNCHANGED <<rest, count>>
      BY <1>4 DEF TakeRequest, AwaitMore
    <2>2. QED
      BY <1>1, <2>1 DEF StepsLeft, Ahead
  <1>5. CASE Receive
    <2>1. PICK n \in 1 .. RecvSize : n <= Len(rest) /\ rest' = SubSeq(rest, n + 1, Len(rest))
      BY <1>5 DEF Receive
    <2>2. n \in Nat /\ 1 <= n
      BY <2>1, HandlerAssumption
    <2>3. Len(rest') = Len(rest) - n
      BY <1>1, <2>1, <2>2, SuffixFacts
    <2>4. pc = "recv" /\ pc' = "extract" /\ count' = count
      BY <1>5 DEF Receive
    <2>5. QED
      <3>1. Len(rest') \in Nat /\ 2 * Len(rest') + 1 < 2 * Len(rest)
        BY <1>1, <2>1, <2>2, <2>3
      <3>2. /\ StepsLeft = 1 + 0 + 2 * Len(rest) + 3 * (MaxKeepAlive - count)
            /\ StepsLeft' = 1 + 1 + 2 * Len(rest') + 3 * (MaxKeepAlive - count)
        BY <2>4 DEF StepsLeft, Ahead
      <3>3. QED
        BY <1>1, <3>1, <3>2
  <1>6. CASE Dispatch
    <2>1. pc = "parse" /\ pc' = "write" /\ count' = count + 1 /\ rest' = rest
      BY <1>6 DEF Dispatch, inVars
    <2>2. count < MaxKeepAlive
      BY <2>1 DEF IInv, LoopInv
    <2>3. QED
      BY <1>1, <2>1, <2>2 DEF StepsLeft, Ahead
  <1>7. CASE WriteAnswer
    <2>1. pc = "write" /\ pc' \in {"closed", "extract"} /\ UNCHANGED <<rest, count>>
      BY <1>7 DEF WriteAnswer, Leave, inVars
    <2>2. QED
      BY <1>1, <2>1 DEF StepsLeft, Ahead
  <1>8. QED
    BY <1>3, <1>4, <1>5, <1>6, <1>7 DEF Handler

-----------------------------------------------------------------------------
(***************************************************************************)
(* The theorems.                                                           *)
(***************************************************************************)

\* The invariant is inductive: the wire has the final answers of all requests before the one
\* whose turn it is, and of that one at most a 100 Continue, once it was sent.
THEOREM Invariance == Spec => []IInv
  BY InitIInv, StepIInv, PTL DEF Spec

\* The position, flags and counters of _handle_client keep their kinds of values; a connection
\* serves at most MAX_KEEPALIVE_REQUESTS requests and has at most one of them in flight.
THEOREM TypeCorrect == Spec => []TypeOK
  <1>1. IInv => TypeOK
    BY DEF IInv, LoopInv, WireInv, TypeOK
  <1>2. QED
    BY Invariance, <1>1, PTL

\* The answers of _handle_client are one final per request, in order, with at most one
\* 100 Continue before each, and nothing after the one with should_close or an error, whatever
\* the decoders find, however the bytes arrive and whatever fails on the way.
THEOREM AnswersInOrder == Spec => []WireInOrder
  <1>1. IInv => WireInOrder
    BY DEF IInv, WireInv, Ordered, FinalsOf, WireInOrder, Finals, Interims
  <1>2. QED
    BY Invariance, <1>1, PTL

\* Beside the invariant of the wire, that of the stream is inductive: the buffer of
\* _handle_client and what is on its way are the messages still to come, whole and in order.
THEOREM StreamInvariance == Spec => []StreamInv
  BY InitIInv, StepIInv, InitStream, StepStream, PTL DEF Spec

\* However the bytes are split, _handle_client gives the dispatcher the messages of the client in
\* order, each with the body that was meant, none that is over a limit, and of those that are
\* wrong in another way only the two kinds that both decoders overlook.
THEOREM ServedInOrder == Spec => []ServedAsSent
  <1>1. StreamInv => ServedAsSent
    BY DEF StreamInv
  <1>2. QED
    BY StreamInvariance, <1>1, PTL

\* A message that is right is not refused because of how it was split or of what follows it, and
\* send_continue is for clients that wait for it.
THEOREM RefusedForCause == Spec => []AnsweredForCause
  <1>1. StreamInv => AnsweredForCause
    BY DEF StreamInv
  <1>2. QED
    BY StreamInvariance, <1>1, PTL

\* The part of HandlerEnds that does not need fairness: the number of steps the handler may still
\* take is finite and goes down with each, whatever the client sends and the other thread does,
\* so that a worker is kept no longer than its connection's bytes and keep-alive limit allow,
\* unless a chunk of negative size gets the read stuck: nothing else does.
THEOREM LoopEnds == Spec => []EndsInSteps /\ StepsShorten
  <1>1. IInv /\ StreamInv => EndsInSteps
    BY LeftFacts
  <1>2. IInv /\ StreamInv /\ [Next]_vars =>
            [(Handler => StepsLeft' < StepsLeft) /\ StepsLeft' <= StepsLeft]_vars
    <2> SUFFICES ASSUME IInv, StreamInv, Next
                 PROVE  (Handler => StepsLeft' < StepsLeft) /\ StepsLeft' <= StepsLeft
      OBVIOUS
    <2>1. /\ StepsLeft \in Nat /\ Len(rest) \in Nat /\ count \in 0 .. MaxKeepAlive
          /\ StepsLeft' \in Nat
      <3>1. IInv' /\ StreamInv'
        BY StepIInv, StepStream
      <3>2. EndsInSteps'
        BY <3>1, LeftFacts, PTL
      <3>3. QED
        BY <3>2, LeftFacts DEF EndsInSteps
    <2>2. CASE Handler
      BY <2>1, <2>2, StepNearsEnd
    <2>3. CASE StartDrain
      <3>1. StepsLeft' = StepsLeft
        BY <2>3 DEF StartDrain, inVars, StepsLeft, Ahead
      <3>2. ASSUME Handler PROVE StepsLeft' < StepsLeft
        BY <3>2, StepNearsEnd
      <3>3. QED
        BY <2>1, <3>1, <3>2
    <2>4. QED
      BY <2>2, <2>3 DEF Next
  <1>3. QED
    BY Invariance, StreamInvariance, <1>1, <1>2, PTL DEF Spec, StepsShorten
==============================================================================
