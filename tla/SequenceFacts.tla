--------------------------- MODULE SequenceFacts ----------------------------
(***************************************************************************)
(* What the queues, buffers and lists of the models need to know of Append *)
(* and Tail, of counting the positions of a sequence, and of filters.      *)
(***************************************************************************)
EXTENDS Subsequences, FiniteSetTheorems, SequenceTheorems, TLAPS

\* Tail shifts every position down by one: what a consumer leaves in the queue.
LEMMA TailFacts ==
    ASSUME NEW S, NEW q \in Seq(S), q # << >>
    PROVE  /\ Tail(q) \in Seq(S)
           /\ Len(q) \in Nat /\ Len(Tail(q)) = Len(q) - 1
           /\ Head(q) = q[1] /\ Head(q) \in S
           /\ 1 \in DOMAIN q
           /\ \A i \in DOMAIN Tail(q) : i + 1 \in DOMAIN q /\ Tail(q)[i] = q[i + 1]
           /\ \A i \in DOMAIN q : i # 1 => i - 1 \in DOMAIN Tail(q) /\ Tail(q)[i - 1] = q[i]
           /\ \A i \in DOMAIN q : i >= 1
  OBVIOUS

\* Append adds one position and keeps the others: what a producer does to the queue.
LEMMA AppendFacts ==
    ASSUME NEW S, NEW q \in Seq(S), NEW e \in S
    PROVE  /\ Append(q, e) \in Seq(S)
           /\ Len(Append(q, e)) = Len(q) + 1
           /\ DOMAIN Append(q, e) = DOMAIN q \cup {Len(q) + 1}
           /\ \A i \in DOMAIN q : Append(q, e)[i] = q[i] /\ i < Len(q) + 1
           /\ Append(q, e)[Len(q) + 1] = e
           /\ DOMAIN q \subseteq Nat /\ Len(q) \in Nat /\ Len(q) + 1 \notin DOMAIN q
  OBVIOUS

\* A sequence without positions is the empty one.
LEMMA EmptyFacts ==
    ASSUME NEW S, NEW q \in Seq(S)
    PROVE  /\ Len(q) \in Nat /\ DOMAIN q = 1 .. Len(q)
           /\ \A i \in DOMAIN q : q[i] \in S
           /\ Len(q) = 0 <=> q = << >>
  OBVIOUS

\* Dropping the first d elements shifts the others down by d: what a limit keeps.
LEMMA SuffixFacts ==
    ASSUME NEW S, NEW s \in Seq(S), NEW d \in Nat, d <= Len(s)
    PROVE  LET t == SubSeq(s, d + 1, Len(s))
           IN  /\ t \in Seq(S) /\ Len(t) = Len(s) - d /\ Len(t) \in Nat /\ Len(s) \in Nat
               /\ \A k \in DOMAIN t : k + d \in DOMAIN s /\ t[k] = s[k + d]
               /\ \A k \in DOMAIN s : d < k => k - d \in DOMAIN t /\ t[k - d] = s[k]
  <1> DEFINE t == SubSeq(s, d + 1, Len(s))
             n == Len(s) - d
  <1>1. Len(s) \in Nat /\ DOMAIN s = 1 .. Len(s) /\ \A i \in 1 .. Len(s) : s[i] \in S
    OBVIOUS
  <1>2. n \in Nat /\ n + d = Len(s)
    BY <1>1
  <1>3. /\ d + 1 \in Int /\ Len(s) \in Int /\ Len(s) - (d + 1) + 1 = n
        /\ (IF d + 1 <= Len(s) THEN Len(s) - (d + 1) + 1 ELSE 0) = n
    <2>1. d + 1 \in Int /\ Len(s) \in Int /\ Len(s) - (d + 1) + 1 = n
      BY <1>1
    <2>2. ~(d + 1 <= Len(s)) => n = 0
      <3>1. ASSUME NEW l \in Nat, d <= l, ~(d + 1 <= l) PROVE l - d = 0
        BY <3>1
      <3>2. d <= Len(s)
        OBVIOUS
      <3>3. Len(s) \in Nat
        BY <1>1
      <3>4. QED
        BY <3>1, <3>2, <3>3
    <2> HIDE DEF n
    <2>3. QED
      BY <2>1, <2>2
  <1>4. \A i \in (d + 1) .. Len(s) : s[i] \in S
    BY <1>1
  <1>5. \A k \in 1 .. n : (d + 1) + k - 1 = k + d
    BY <1>1
  <1> HIDE DEF n
  <1>6. t \in Seq(S) /\ Len(t) = n /\ \A k \in 1 .. n : t[k] = s[k + d]
    BY <1>3, <1>4, <1>5, SubSeqProperties
  <1> HIDE DEF t
  <1>7. DOMAIN t = 1 .. n
    BY <1>2, <1>6
  <1>8. \A k \in DOMAIN t : k + d \in DOMAIN s /\ t[k] = s[k + d]
    BY <1>1, <1>2, <1>6, <1>7
  <1>9. \A k \in DOMAIN s : d < k => k - d \in DOMAIN t /\ t[k - d] = s[k]
    <2> SUFFICES ASSUME NEW k \in DOMAIN s, d < k
                 PROVE  k - d \in DOMAIN t /\ t[k - d] = s[k]
      OBVIOUS
    <2>1. k - d \in 1 .. n /\ (k - d) + d = k
      BY <1>1, <1>2
    <2>2. QED
      BY <1>6, <1>7, <2>1
  <1>10. Len(t) = Len(s) - d /\ Len(t) \in Nat
    BY <1>1, <1>2, <1>6 DEF n
  <1>11. QED
    BY <1>1, <1>6, <1>8, <1>9, <1>10 DEF t

\* Dropping the last element keeps the others where they are: what a stack pops.
LEMMA FrontFacts ==
    ASSUME NEW S, NEW s \in Seq(S), s # << >>
    PROVE  LET t == SubSeq(s, 1, Len(s) - 1)
           IN  /\ t \in Seq(S) /\ Len(t) = Len(s) - 1 /\ Len(t) \in Nat /\ Len(s) \in Nat \ {0}
               /\ DOMAIN t = 1 .. (Len(s) - 1) /\ \A k \in DOMAIN t : t[k] = s[k]
  <1> DEFINE n == Len(s) - 1
             t == SubSeq(s, 1, n)
  <1>1. Len(s) \in Nat \ {0} /\ \A i \in 1 .. Len(s) : s[i] \in S
    OBVIOUS
  <1>2. n \in Nat /\ n < Len(s)
    BY <1>1
  <1> HIDE DEF n
  <1>3. 1 \in Int /\ n \in Int /\ (IF 1 <= n THEN n - 1 + 1 ELSE 0) = n
    BY <1>2
  <1>4. \A i \in 1 .. n : s[i] \in S
    BY <1>1, <1>2
  <1>5. \A k \in 1 .. n : 1 + k - 1 = k
    BY <1>2
  <1>6. t \in Seq(S) /\ Len(t) = n /\ \A k \in 1 .. n : t[k] = s[k]
    BY <1>3, <1>4, <1>5, SubSeqProperties
  <1> HIDE DEF t
  <1>7. DOMAIN t = 1 .. n
    BY <1>2, <1>6
  <1>8. QED
    BY <1>1, <1>2, <1>6, <1>7 DEF n, t

\* Any set of positions of a sequence is finite, so that it can be counted; the most
\* there are of them is the length.
LEMMA PositionsFinite ==
    ASSUME NEW S, NEW q \in Seq(S), NEW P, P \subseteq DOMAIN q
    PROVE  /\ IsFiniteSet(P) /\ Cardinality(P) \in Nat
           /\ Cardinality(P) <= Len(q) /\ Len(q) \in Nat
           /\ P = DOMAIN q => Cardinality(P) = Len(q)
  <1>1. Len(q) \in Nat /\ DOMAIN q = 1 .. Len(q)
    OBVIOUS
  <1>2. IsFiniteSet(1 .. Len(q)) /\ Cardinality(1 .. Len(q)) = Len(q)
    <2>1. ASSUME NEW n \in Nat PROVE IsFiniteSet(1 .. n) /\ Cardinality(1 .. n) = n
      <3>1. 1 \in Int /\ n \in Int /\ (IF 1 > n THEN 0 ELSE n - 1 + 1) = n
        OBVIOUS
      <3>2. QED
        BY <3>1, FS_Interval
    <2>2. QED
      BY <1>1, <2>1
  <1>3. IsFiniteSet(P) /\ Cardinality(P) <= Len(q)
    BY <1>1, <1>2, FS_Subset
  <1>4. QED
    BY <1>1, <1>2, <1>3, FS_CardinalityType

\* Moving positions down by one does not change how many they are.
LEMMA ShiftKeepsCount ==
    ASSUME NEW P, NEW Q, P \subseteq Int, IsFiniteSet(P), Q = {i - 1 : i \in P}
    PROVE  IsFiniteSet(Q) /\ Cardinality(Q) = Cardinality(P)
  <1> DEFINE f == [i \in P |-> i - 1]
  <1>1. f \in [P -> Q]
    OBVIOUS
  <1>2. \A i, k \in P : f[i] = f[k] => i = k
    OBVIOUS
  <1>3. \A x \in Q : \E i \in P : f[i] = x
    OBVIOUS
  <1>4. f \in Bijection(P, Q)
    <2> HIDE DEF f
    <2>1. QED
      BY <1>1, <1>2, <1>3 DEF Bijection, Injection, IsInjective, Surjection
  <1>5. ExistsBijection(P, Q)
    BY <1>4 DEF ExistsBijection
  <1>6. QED
    BY <1>5, FS_Bijection

-----------------------------------------------------------------------------
\* Counting from the left gives the members of a finite set of places the ranks
\* 1, 2, ..., each once and in their order.
LEMMA RankFacts ==
    ASSUME NEW P, P \subseteq Nat, IsFiniteSet(P)
    PROVE  /\ Cardinality(P) \in Nat
           /\ \A i \in P : Rank(P, i) \in 1 .. Cardinality(P)
           /\ \A i, k \in P : i < k => Rank(P, i) < Rank(P, k)
           /\ \A i, k \in P : Rank(P, i) = Rank(P, k) => i = k
           /\ \A n \in 1 .. Cardinality(P) : \E i \in P : Rank(P, i) = n
  <1> DEFINE Upto(i) == {j \in P : j <= i}
  <1>2. Cardinality(P) \in Nat
    BY FS_CardinalityType
  <1>3. ASSUME NEW i \in P
        PROVE  /\ IsFiniteSet(Upto(i)) /\ Cardinality(Upto(i)) \in Nat
               /\ Cardinality(Upto(i)) <= Cardinality(P) /\ Cardinality(Upto(i)) # 0
               /\ Rank(P, i) = Cardinality(Upto(i))
               /\ Rank(P, i) \in 1 .. Cardinality(P)
    <2>1. Upto(i) \subseteq P
      OBVIOUS
    <2>2. IsFiniteSet(Upto(i)) /\ Cardinality(Upto(i)) <= Cardinality(P)
      BY <1>2, <2>1, FS_Subset
    <2>3. i \in Upto(i)
      OBVIOUS
    <2>4. Cardinality(Upto(i)) \in Nat /\ Cardinality(Upto(i)) # 0
      BY <2>2, <2>3, FS_CardinalityType, FS_EmptySet
    <2>5. Rank(P, i) = Cardinality(Upto(i))
      BY DEF Rank
    <2> HIDE DEF Upto
    <2>6. Rank(P, i) \in 1 .. Cardinality(P)
      BY <1>2, <2>2, <2>4, <2>5
    <2>7. QED
      BY <2>2, <2>4, <2>5, <2>6
  <1>4. \A i \in P : Rank(P, i) \in 1 .. Cardinality(P)
    BY <1>3
  <1>5. ASSUME NEW i \in P, NEW k \in P, i < k PROVE Rank(P, i) < Rank(P, k)
    <2>1. Upto(i) \subseteq Upto(k) /\ k \in Upto(k) /\ k \notin Upto(i)
      <3>1. i \in Nat /\ k \in Nat /\ \A j \in P : j \in Nat
        OBVIOUS
      <3>2. \A j \in P : j <= i => j <= k
        BY <1>5, <3>1
      <3>3. k <= k /\ ~(k <= i)
        BY <1>5, <3>1
      <3>4. QED
        BY <3>2, <3>3
    <2>2. Upto(i) # Upto(k)
      BY <2>1
    <2>3. Cardinality(Upto(i)) <= Cardinality(Upto(k))
          /\ Cardinality(Upto(i)) # Cardinality(Upto(k))
      BY <1>3, <2>1, <2>2, FS_Subset
    <2>4. QED
      BY <1>3, <2>3
  <1>6. \A i, k \in P : Rank(P, i) = Rank(P, k) => i = k
    <2> SUFFICES ASSUME NEW i \in P, NEW k \in P, i # k PROVE Rank(P, i) # Rank(P, k)
      OBVIOUS
    <2>1. i \in Nat /\ k \in Nat /\ Rank(P, i) \in Nat /\ Rank(P, k) \in Nat
      BY <1>3
    <2>2. i < k \/ k < i
      BY <2>1
    <2>3. QED
      BY <1>5, <2>1, <2>2
  <1> DEFINE N == 1 .. Cardinality(P)
             f == [i \in P |-> Rank(P, i)]
  <1>7. f \in [P -> N] /\ \A i, k \in P : f[i] = f[k] => i = k
    BY <1>4, <1>6
  <1>8. IsFiniteSet(N) /\ Cardinality(N) = Cardinality(P)
    BY <1>2, FS_Interval
  <1>9. \A i \in P : f[i] = Rank(P, i)
    OBVIOUS
  <1>10. \A n \in N : \E i \in P : f[i] = n
    <2> HIDE DEF f, N
    <2>1. f \in Injection(P, N)
      BY <1>7 DEF Injection, IsInjective
    <2>2. f \in Surjection(P, N)
      BY <1>8, <2>1, FS_Injection
    <2>3. QED
      BY <2>2 DEF Surjection
  <1>11. \A i, k \in P : i < k => Rank(P, i) < Rank(P, k)
    BY <1>5
  <1>12. QED
    BY <1>2, <1>4, <1>6, <1>9, <1>10, <1>11

\* A finite set of numbers has a largest one: the one whose rank is their count.
LEMMA LargestExists ==
    ASSUME NEW P, P \subseteq Nat, IsFiniteSet(P), P # {}
    PROVE  \E m \in P : \A i \in P : i <= m
  <1>1. Cardinality(P) \in 1 .. Cardinality(P)
    BY FS_CardinalityType, FS_EmptySet
  <1>2. PICK m \in P : Rank(P, m) = Cardinality(P)
    BY <1>1, RankFacts
  <1>3. ASSUME NEW i \in P PROVE i <= m
    <2>1. i \in Nat /\ m \in Nat /\ ~(Rank(P, m) < Rank(P, i))
      <3>1. Rank(P, i) \in 1 .. Cardinality(P)
        BY RankFacts
      <3>2. QED
        BY <1>1, <1>2, <3>1
    <2>2. m < i => Rank(P, m) < Rank(P, i)
      BY RankFacts
    <2>3. QED
      BY <2>1, <2>2
  <1>4. QED
    BY <1>3

\* What the elements of a sequence are mapped to is a finite set.
LEMMA ImageFinite ==
    ASSUME NEW S, NEW q \in Seq(S), NEW f, DOMAIN f = DOMAIN q
    PROVE  IsFiniteSet({f[i] : i \in DOMAIN q})
  <1> DEFINE R == {f[i] : i \in DOMAIN q}
             g == [i \in DOMAIN q |-> f[i]]
  <1>1. IsFiniteSet(DOMAIN q)
    BY PositionsFinite
  <1>2. g \in [DOMAIN q -> R] /\ \A x \in R : \E i \in DOMAIN q : g[i] = x
    OBVIOUS
  <1>3. g \in Surjection(DOMAIN q, R)
    <2> HIDE DEF g, R
    <2>1. QED
      BY <1>2 DEF Surjection
  <1>4. QED
    BY <1>1, <1>3, FS_Surjection

\* A subsequence holds the elements of the kept places at their ranks ...
LEMMA SubsequenceAt ==
    ASSUME NEW s, NEW P, P \subseteq Nat, IsFiniteSet(P), NEW i \in P
    PROVE  Subsequence(s, P)[Rank(P, i)] = s[i]
  <1> DEFINE At(n) == CHOOSE j \in P : Rank(P, j) = n
  <1>1. Rank(P, i) \in 1 .. Cardinality(P) /\ At(Rank(P, i)) = i
    BY RankFacts
  <1>2. Subsequence(s, P) = [n \in 1 .. Cardinality(P) |-> s[At(n)]]
    BY DEF Subsequence
  <1> HIDE DEF At
  <1>3. QED
    BY <1>1, <1>2

\* ... and is a sequence as long as they are many, which holds nothing else.
LEMMA SubsequenceFacts ==
    ASSUME NEW s, NEW P, P \subseteq Nat, IsFiniteSet(P), NEW T, \A i \in P : s[i] \in T
    PROVE  /\ Subsequence(s, P) \in Seq(T)
           /\ Len(Subsequence(s, P)) = Cardinality(P) /\ Len(Subsequence(s, P)) \in Nat
           /\ \A i \in P : /\ Rank(P, i) \in DOMAIN Subsequence(s, P)
                           /\ Subsequence(s, P)[Rank(P, i)] = s[i]
           /\ \A n \in DOMAIN Subsequence(s, P) :
                 \E i \in P : Rank(P, i) = n /\ Subsequence(s, P)[n] = s[i]
  <1> DEFINE N == 1 .. Cardinality(P)
             At(n) == CHOOSE i \in P : Rank(P, i) = n
  <1>1. Cardinality(P) \in Nat
    BY RankFacts
  <1>2. \A n \in N : At(n) \in P /\ Rank(P, At(n)) = n
    BY RankFacts
  <1>3. \A i \in P : Rank(P, i) \in N /\ At(Rank(P, i)) = i
    BY <1>2, RankFacts
  <1>4. Subsequence(s, P) = [n \in N |-> s[At(n)]]
    BY DEF Subsequence
  <1> HIDE DEF At
  <1>5. Subsequence(s, P) \in [N -> T]
    BY <1>2, <1>4
  <1>6. /\ Subsequence(s, P) \in Seq(T) /\ Len(Subsequence(s, P)) = Cardinality(P)
        /\ DOMAIN Subsequence(s, P) = N
    BY <1>1, <1>5
  <1>7. \A i \in P : Subsequence(s, P)[Rank(P, i)] = s[i]
    BY <1>3, <1>4
  <1>8. \A n \in N : \E i \in P : Rank(P, i) = n /\ Subsequence(s, P)[n] = s[i]
    BY <1>2, <1>4
  <1>9. QED
    BY <1>1, <1>3, <1>6, <1>7, <1>8

\* Nothing else holds them so.
LEMMA SubsequenceUnique ==
    ASSUME NEW s, NEW P, P \subseteq Nat, IsFiniteSet(P), NEW T, \A i \in P : s[i] \in T,
           NEW t \in Seq(T), Len(t) = Cardinality(P), \A i \in P : t[Rank(P, i)] = s[i]
    PROVE  t = Subsequence(s, P)
  <1>1. /\ Subsequence(s, P) \in Seq(T) /\ Len(Subsequence(s, P)) = Len(t) /\ Len(t) \in Nat
    BY SubsequenceFacts
  <1>a. \A n \in 1 .. Cardinality(P) : \E i \in P : Rank(P, i) = n
    BY RankFacts
  <1>2. ASSUME NEW n \in 1 .. Len(t) PROVE t[n] = Subsequence(s, P)[n]
    <2>1. PICK i \in P : Rank(P, i) = n
      BY <1>a
    <2>2. Subsequence(s, P)[Rank(P, i)] = s[i]
      BY SubsequenceAt
    <2>3. QED
      BY <2>1, <2>2
  <1>3. QED
    BY <1>1, <1>2

\* Appending to the sequence appends to the subsequence, if the new place is kept.
LEMMA SubsequenceAppend ==
    ASSUME NEW S, NEW q \in Seq(S), NEW e \in S, NEW P, P \subseteq DOMAIN q
    PROVE  /\ Subsequence(Append(q, e), P) = Subsequence(q, P)
           /\ Subsequence(Append(q, e), P \cup {Len(q) + 1}) = Append(Subsequence(q, P), e)
  <1> DEFINE m == Len(q) + 1
             r == Append(q, e)
             R == P \cup {m}
             s == Subsequence(q, P)
  <1>1. /\ r \in Seq(S) /\ m \notin DOMAIN q /\ m \in Nat /\ DOMAIN q \subseteq Nat
        /\ \A i \in DOMAIN q : r[i] = q[i] /\ i < m
        /\ r[m] = e
    BY AppendFacts
  <1>2. IsFiniteSet(P) /\ P \subseteq Nat
    BY <1>1, PositionsFinite
  <1>p. \A i \in P : q[i] \in S
    OBVIOUS
  <1>3. /\ s \in Seq(S) /\ Len(s) = Cardinality(P) /\ Len(s) \in Nat
        /\ \A i \in P : s[Rank(P, i)] = q[i] /\ Rank(P, i) \in 1 .. Len(s)
    BY <1>p, <1>2, SubsequenceFacts, RankFacts
  <1> HIDE DEF m, r, s, R
  <1>4. s = Subsequence(r, P)
    <2>1. \A i \in P : r[i] \in S /\ s[Rank(P, i)] = r[i]
      BY <1>1, <1>3
    <2>2. QED
      BY <1>2, <1>3, <2>1, SubsequenceUnique
  <1>5. Append(s, e) = Subsequence(r, R)
    <2>1. m \notin P /\ \A i \in P : r[i] = q[i] /\ i < m
      BY <1>1
    <2>2. IsFiniteSet(R) /\ Cardinality(R) = Len(s) + 1
      <3>1. IsFiniteSet(P \cup {m}) /\ Cardinality(P \cup {m}) = Cardinality(P) + 1
        BY <1>2, <2>1, FS_AddElement
      <3>2. QED
        BY <1>3, <3>1 DEF R
    <2>3. R \subseteq Nat /\ \A i \in R : r[i] \in S
      BY <1>1, <1>2, <2>1 DEF R
    <2>4. Rank(R, m) = Len(s) + 1
      <3>1. {j \in R : j <= m} = R
        BY <1>1, <1>2, <2>1 DEF R
      <3>2. QED
        BY <2>2, <3>1 DEF Rank
    <2>5. \A i \in P : Rank(R, i) = Rank(P, i)
      <3> SUFFICES ASSUME NEW i \in P PROVE Rank(R, i) = Rank(P, i)
        OBVIOUS
      <3>1. {j \in R : j <= i} = {j \in P : j <= i}
        BY <1>1, <1>2, <2>1 DEF R
      <3>2. QED
        BY <3>1 DEF Rank
    <2>6. /\ Append(s, e) \in Seq(S) /\ Len(Append(s, e)) = Len(s) + 1
          /\ \A n \in 1 .. Len(s) : Append(s, e)[n] = s[n]
          /\ Append(s, e)[Len(s) + 1] = e
      BY <1>3
    <2>7. \A i \in R : Append(s, e)[Rank(R, i)] = r[i]
      BY <1>1, <1>3, <2>1, <2>4, <2>5, <2>6 DEF R
    <2>8. Len(Append(s, e)) = Cardinality(R)
      BY <2>2, <2>6
    <2>9. QED
      BY <2>2, <2>3, <2>6, <2>7, <2>8, SubsequenceUnique
  <1>6. QED
    BY <1>4, <1>5 DEF m, r, s, R

\* Dropping the head drops the head of the subsequence, if the first place is kept.
LEMMA SubsequenceTail ==
    ASSUME NEW S, NEW q \in Seq(S), q # << >>, NEW P, P \subseteq DOMAIN q,
           NEW R, R = {i - 1 : i \in P \ {1}}
    PROVE  IF 1 \in P
           THEN /\ Subsequence(q, P) # << >> /\ Head(Subsequence(q, P)) = q[1]
                /\ Subsequence(Tail(q), R) = Tail(Subsequence(q, P))
           ELSE Subsequence(Tail(q), R) = Subsequence(q, P)
  <1> DEFINE r == Tail(q)
             s == Subsequence(q, P)
             Rest == P \ {1}
  <1>1. /\ r \in Seq(S) /\ 1 \in DOMAIN q
        /\ \A i \in DOMAIN q : i # 1 => i - 1 \in DOMAIN r /\ r[i - 1] = q[i]
    BY TailFacts
  <1>2. DOMAIN r \subseteq Nat \ {0} /\ DOMAIN q \subseteq Nat \ {0}
    BY <1>1
  <1>3. IsFiniteSet(P) /\ P \subseteq Nat \ {0}
    BY <1>2, PositionsFinite
  <1>p. \A i \in P : q[i] \in S
    OBVIOUS
  <1>4. /\ s \in Seq(S) /\ Len(s) = Cardinality(P) /\ Len(s) \in Nat
        /\ \A i \in P : s[Rank(P, i)] = q[i] /\ Rank(P, i) \in 1 .. Len(s)
    BY <1>p, <1>3, SubsequenceFacts, RankFacts
  <1> HIDE DEF r, s
  <1>5. R = {i - 1 : i \in Rest} /\ R \subseteq Nat
    BY <1>3
  <1>6. IsFiniteSet(Rest) /\ Rest \subseteq Int
        /\ Cardinality(Rest) = IF 1 \in P THEN Len(s) - 1 ELSE Len(s)
    BY <1>3, <1>4, FS_RemoveElement
  <1>7. IsFiniteSet(R) /\ Cardinality(R) = IF 1 \in P THEN Len(s) - 1 ELSE Len(s)
    BY <1>5, <1>6, ShiftKeepsCount
  <1>8. ASSUME NEW i \in Rest
        PROVE  Rank(R, i - 1) = IF 1 \in P THEN Rank(P, i) - 1 ELSE Rank(P, i)
    <2> DEFINE U == {j \in P : j <= i}
               V == U \ {1}
    <2>1. U \subseteq P
      OBVIOUS
    <2>2. IsFiniteSet(U) /\ Rank(P, i) = Cardinality(U)
      BY <1>3, <2>1, FS_Subset DEF Rank
    <2>3. 1 \in U <=> 1 \in P
      BY <1>3
    <2>4. IsFiniteSet(V)
          /\ Cardinality(V) = IF 1 \in P THEN Rank(P, i) - 1 ELSE Rank(P, i)
      BY <2>2, <2>3, FS_RemoveElement
    <2>5. V \subseteq Int
      BY <1>3
    <2>6. {j \in R : j <= i - 1} = {j - 1 : j \in V}
      <3>1. \A k \in R : k <= i - 1 => k + 1 \in V /\ k = (k + 1) - 1
        <4> SUFFICES ASSUME NEW k \in R, k <= i - 1
                     PROVE  k + 1 \in V /\ k = (k + 1) - 1
          OBVIOUS
        <4>1. PICK j \in Rest : k = j - 1
          BY <1>5
        <4>2. j \in Nat /\ i \in Nat /\ k + 1 = j
          BY <1>3, <4>1
        <4>3. QED
          BY <4>1, <4>2
      <3>2. \A j \in V : j - 1 \in R /\ j - 1 <= i - 1
        BY <1>3
      <3>3. QED
        BY <3>1, <3>2
    <2> HIDE DEF V
    <2>7. Rank(R, i - 1) = Cardinality(V)
      BY <2>4, <2>5, <2>6, ShiftKeepsCount DEF Rank
    <2>8. QED
      BY <2>4, <2>7
  <1>9. \A k \in R : \E i \in Rest : k = i - 1 /\ r[k] = q[i] /\ q[i] \in S
    BY <1>1, <1>5
  <1>10. CASE 1 \notin P
    <2>1. \A k \in R : s[Rank(R, k)] = r[k]
      <3> SUFFICES ASSUME NEW k \in R PROVE s[Rank(R, k)] = r[k]
        OBVIOUS
      <3>1. PICK i \in Rest : k = i - 1 /\ r[k] = q[i] /\ q[i] \in S
        BY <1>9
      <3>2. QED
        BY <1>4, <1>8, <1>10, <3>1
    <2>2. \A k \in R : r[k] \in S
      BY <1>9
    <2>3. Len(s) = Cardinality(R)
      BY <1>7, <1>10
    <2>4. s \in Seq(S) /\ R \subseteq Nat /\ IsFiniteSet(R)
      BY <1>4, <1>5, <1>7
    <2>5. s = Subsequence(r, R)
      BY <2>1, <2>2, <2>3, <2>4, SubsequenceUnique
    <2>6. QED
      BY <1>10, <2>5 DEF r, s
  <1>11. CASE 1 \in P
    <2>1. Rank(P, 1) = 1
      <3>1. {j \in P : j <= 1} = {1}
        BY <1>3, <1>11
      <3>2. QED
        BY <3>1, FS_Singleton DEF Rank
    <2>2. s # << >> /\ s[1] = q[1]
      BY <1>4, <1>11, <2>1
    <2>3. /\ Tail(s) \in Seq(S) /\ Len(Tail(s)) = Len(s) - 1 /\ Head(s) = q[1]
          /\ \A n \in 1 .. Len(s) : n # 1 => Tail(s)[n - 1] = s[n]
      BY <1>4, <2>2
    <2>4. \A k \in R : Tail(s)[Rank(R, k)] = r[k]
      <3> SUFFICES ASSUME NEW k \in R PROVE Tail(s)[Rank(R, k)] = r[k]
        OBVIOUS
      <3>1. PICK i \in Rest : k = i - 1 /\ r[k] = q[i] /\ q[i] \in S
        BY <1>9
      <3>2. Rank(R, k) = Rank(P, i) - 1 /\ s[Rank(P, i)] = q[i] /\ Rank(P, i) \in 1 .. Len(s)
        BY <1>4, <1>8, <1>11, <3>1
      <3>3. Rank(P, i) # 1
        BY <1>3, <1>11, <2>1, <3>1, RankFacts
      <3>4. QED
        BY <2>3, <3>1, <3>2, <3>3
    <2>5. Len(Tail(s)) = Cardinality(R)
      BY <1>7, <1>11, <2>3
    <2>6. \A k \in R : r[k] \in S
      BY <1>9
    <2>7. Tail(s) \in Seq(S) /\ R \subseteq Nat /\ IsFiniteSet(R)
      BY <1>5, <1>7, <2>3
    <2>8. Tail(s) = Subsequence(r, R)
      BY <2>4, <2>5, <2>6, <2>7, SubsequenceUnique
    <2>9. QED
      BY <1>11, <2>2, <2>3, <2>8 DEF r, s
  <1>12. QED
    BY <1>10, <1>11
\* Filtering twice keeps what both filters keep: the second one sees the ranks of the first.
LEMMA SubsequenceTwice ==
    ASSUME NEW s, NEW P, P \subseteq Nat, IsFiniteSet(P), NEW Q, Q \subseteq P,
           NEW R, \A i \in Q : Rank(P, i) \in R, \A k \in R : \E i \in Q : k = Rank(P, i)
    PROVE  Subsequence(Subsequence(s, P), R) = Subsequence(s, Q)
  <1> DEFINE r == Subsequence(s, P)
             T == {s[i] : i \in P}
  <1>t. \A i \in P : s[i] \in T
    OBVIOUS
  <1> HIDE DEF T
  <1>1. /\ r \in Seq(T) /\ Len(r) = Cardinality(P) /\ Len(r) \in Nat
        /\ \A i \in P : Rank(P, i) \in 1 .. Len(r) /\ r[Rank(P, i)] = s[i]
    BY <1>t, SubsequenceFacts, RankFacts
  <1>2. IsFiniteSet(Q) /\ Q \subseteq Nat /\ \A i \in Q : s[i] \in T
    BY <1>t, FS_Subset
  <1>3. \A i, j \in P : /\ i < j => Rank(P, i) < Rank(P, j)
                        /\ Rank(P, i) = Rank(P, j) => i = j
    BY RankFacts
  <1>4. R \subseteq Nat /\ \A k \in R : r[k] \in T
    BY <1>1
  <1>5. ASSUME NEW Z, Z \subseteq Q
        PROVE  LET Y == {Rank(P, i) : i \in Z}
               IN  IsFiniteSet(Y) /\ Cardinality(Y) = Cardinality(Z)
    <2> DEFINE Y == {Rank(P, i) : i \in Z}
               f == [i \in Z |-> Rank(P, i)]
    <2>1. /\ f \in [Z -> Y] /\ \A i, j \in Z : f[i] = f[j] => i = j
          /\ \A y \in Y : \E i \in Z : f[i] = y
      <3>1. \A i, j \in Z : Rank(P, i) = Rank(P, j) => i = j
        BY <1>3, <1>5
      <3>2. \A i \in Z : f[i] = Rank(P, i) /\ f[i] \in Y
        OBVIOUS
      <3>3. \A y \in Y : \E i \in Z : y = Rank(P, i)
        OBVIOUS
      <3>4. f = [i \in Z |-> f[i]]
        OBVIOUS
      <3> HIDE DEF f, Y
      <3>5. QED
        BY <3>1, <3>2, <3>3, <3>4
    <2>2. f \in Bijection(Z, Y)
      <3> HIDE DEF f, Y
      <3>1. QED
        BY <2>1 DEF Bijection, Injection, IsInjective, Surjection
    <2>3. IsFiniteSet(Z) /\ ExistsBijection(Z, Y)
      <3>1. IsFiniteSet(Z)
        BY <1>2, <1>5, FS_Subset
      <3> HIDE DEF Y, f
      <3>2. ExistsBijection(Z, Y)
        BY <2>2 DEF ExistsBijection
      <3>3. QED
        BY <3>1, <3>2
    <2> HIDE DEF Y
    <2>4. IsFiniteSet(Y) /\ Cardinality(Y) = Cardinality(Z)
      BY <2>3, FS_Bijection
    <2>5. QED
      BY <2>4 DEF Y
  <1>6. IsFiniteSet(R) /\ Cardinality(R) = Cardinality(Q)
    <2>1. R = {Rank(P, i) : i \in Q}
      OBVIOUS
    <2>2. QED
      BY <1>5, <2>1
  <1>7. ASSUME NEW i \in Q PROVE Rank(R, Rank(P, i)) = Rank(Q, i)
    <2> DEFINE Z == {j \in Q : j <= i}
    <2>1. \A j \in Q : Rank(P, j) <= Rank(P, i) <=> j <= i
      <3> SUFFICES ASSUME NEW j \in Q PROVE Rank(P, j) <= Rank(P, i) <=> j <= i
        OBVIOUS
      <3>1. /\ i \in Nat /\ j \in Nat /\ Rank(P, i) \in Nat /\ Rank(P, j) \in Nat
            /\ i < j => Rank(P, i) < Rank(P, j)
            /\ j < i => Rank(P, j) < Rank(P, i)
        BY <1>1, <1>2, <1>3
      <3>2. QED
        BY <3>1
    <2>2. {k \in R : k <= Rank(P, i)} = {Rank(P, j) : j \in Z}
      BY <2>1
    <2>3. Cardinality({Rank(P, j) : j \in Z}) = Cardinality(Z)
      BY <1>5
    <2>4. QED
      BY <2>2, <2>3 DEF Rank
  <1> DEFINE t == Subsequence(r, R)
  <1> HIDE DEF r
  <1>8. /\ t \in Seq(T) /\ Len(t) = Cardinality(R)
        /\ \A k \in R : t[Rank(R, k)] = r[k]
    <2>1. R \subseteq Nat /\ IsFiniteSet(R) /\ \A k \in R : r[k] \in T
      BY <1>4, <1>6
    <2>2. QED
      BY ONLY <2>1, SubsequenceFacts
  <1>9. \A i \in Q : t[Rank(Q, i)] = s[i]
    <2> SUFFICES ASSUME NEW i \in Q PROVE t[Rank(Q, i)] = s[i]
      OBVIOUS
    <2>1. Rank(P, i) \in R
      OBVIOUS
    <2>2. t[Rank(R, Rank(P, i))] = r[Rank(P, i)]
      BY <1>8, <2>1
    <2>3. QED
      BY <1>1, <1>7, <2>2
  <1> HIDE DEF t
  <1>10. t = Subsequence(s, Q)
    <2>1. Len(t) = Cardinality(Q)
      BY <1>6, <1>8
    <2>2. t \in Seq(T)
      BY <1>8
    <2>3. QED
      BY <1>2, <1>9, <2>1, <2>2, SubsequenceUnique
  <1>11. QED
    BY <1>10 DEF t, r

-----------------------------------------------------------------------------
(***************************************************************************)
(* Induction and recursion.                                                *)
(***************************************************************************)

\* Induction up to n, as a fact about sets: a set that has 0, and with each number below n the
\* next one, has n.
LEMMA SetInduction ==
    ASSUME NEW n \in Nat, NEW S, 0 \in S, \A k \in 0 .. n - 1 : k \in S => k + 1 \in S
    PROVE  n \in S
  <1> DEFINE P == {k \in 0 .. n : k \in S}
  <1>1. P \subseteq Nat /\ 0 \in P
    OBVIOUS
  <1>2. IsFiniteSet(P)
    <2>1. IsFiniteSet(0 .. n)
      BY FS_Interval
    <2>2. QED
      BY <2>1, FS_Subset
  <1>3. PICK m \in P : \A i \in P : i <= m
    BY <1>1, <1>2, LargestExists
  <1>4. ASSUME m < n PROVE FALSE
    <2>1. m + 1 \in P /\ m \in Nat
      BY <1>3, <1>4
    <2>2. QED
      BY <1>3, <2>1
  <1>5. m = n
    BY <1>3, <1>4
  <1>6. QED
    BY <1>3, <1>5

\* A recursion goes from each x of X to next[x], which is of higher rank, unless it stops at x.
Recursion(n, X, V, rank, stop, val, next, use) ==
    /\ n \in Nat /\ rank \in [X -> 0 .. n] /\ val \in [X -> V] /\ use \in [X -> [V -> V]]
    /\ \A x \in X : ~stop[x] => next[x] \in X /\ rank[x] < rank[next[x]]

\* f is what the recursion defines.
Recurs(f, X, V, stop, val, next, use) ==
    /\ f \in [X -> V]
    /\ \A x \in X : f[x] = IF stop[x] THEN val[x] ELSE use[x][f[next[x]]]

\* A recursion of bounded rank defines a function.
LEMMA RecursionExists ==
    ASSUME NEW n, NEW X, NEW V, NEW rank, NEW stop, NEW val, NEW next, NEW use,
           Recursion(n, X, V, rank, stop, val, next, use)
    PROVE  \E f : Recurs(f, X, V, stop, val, next, use)
  <1> DEFINE Value(f, x) == IF stop[x] THEN val[x] ELSE use[x][f[next[x]]]
             Holds(f, d) == \A x \in X : rank[x] + d > n => f[x] = Value(f, x)
             S == {d \in 0 .. n + 1 : \E f \in [X -> V] : Holds(f, d)}
  <1>a. /\ n \in Nat /\ rank \in [X -> 0 .. n] /\ val \in [X -> V] /\ use \in [X -> [V -> V]]
        /\ \A x \in X : ~stop[x] => next[x] \in X /\ rank[x] < rank[next[x]]
    BY DEF Recursion
  <1>1. 0 \in S
    <2>1. Holds(val, 0)
      BY <1>a
    <2> HIDE DEF Holds
    <2>2. QED
      BY <1>a, <2>1
  <1>2. ASSUME NEW d \in 0 .. (n + 1) - 1, d \in S PROVE d + 1 \in S
    <2>1. PICK f \in [X -> V] : Holds(f, d)
      BY <1>2
    <2> DEFINE g == [x \in X |-> IF rank[x] + d > n THEN f[x] ELSE Value(f, x)]
    <2> HIDE DEF Value
    <2>2. \A x \in X : Value(f, x) \in V
      BY <1>a DEF Value
    <2>3. g \in [X -> V]
      BY <2>2
    <2>4. ASSUME NEW x \in X, rank[x] + (d + 1) > n PROVE g[x] = Value(g, x)
      <3>1. g[x] = Value(f, x)
        BY <2>1
      <3>2. ~stop[x] => next[x] \in X /\ rank[next[x]] + d > n
        <4>1. rank[x] \in Nat
          BY <1>a
        <4>2. ~stop[x] => next[x] \in X /\ rank[next[x]] \in Nat /\ rank[x] < rank[next[x]]
          BY <1>a
        <4>3. QED
          BY <1>a, <2>4, <4>1, <4>2
      <3>3. ~stop[x] => g[next[x]] = f[next[x]]
        BY <3>2
      <3> HIDE DEF g
      <3>4. Value(g, x) = Value(f, x)
        BY <3>3 DEF Value
      <3>5. QED
        BY <3>1, <3>4
    <2> HIDE DEF g
    <2>5. Holds(g, d + 1)
      BY <2>4
    <2> HIDE DEF Holds
    <2>6. QED
      BY <1>a, <2>3, <2>5
  <1> HIDE DEF S
  <1>3. n + 1 \in S
    BY <1>a, <1>1, <1>2, SetInduction
  <1>4. PICK f \in [X -> V] : Holds(f, n + 1)
    BY <1>3 DEF S
  <1>5. \A x \in X : f[x] = Value(f, x)
    BY <1>a, <1>4
  <1>6. QED
    BY <1>4, <1>5 DEF Recurs
=============================================================================
