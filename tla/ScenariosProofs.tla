--------------------------- MODULE ScenariosProofs ---------------------------
(***************************************************************************)
(* Proofs that the scenario stores stay in order, that stored runs fit     *)
(* their scenario and that an incident profile counts no more than it and  *)
(* its strays disturb, and that every request goes towards its end, for    *)
(* every set of threads, files and requests and for every limit.           *)
(***************************************************************************)
EXTENDS Scenarios, SequenceFacts

(***************************************************************************)
(* The invariant.                                                          *)
(***************************************************************************)

\* What a thread may have in hand: a client's request, or a step's for a target.
Sent == Requests \union [kind : {"target"}, target : Targets, req : Requests]

\* A run under way, with the scenario it was made of.
Frames == [id : Ids, scenario : ScenarioData, seed : Nat, results : Seq(Results)]

\* Its results are those of the first steps, and if it stops on a failure only the last failed.
Begun(run) ==
    /\ Len(run.results) <= Len(run.scenario.steps)
    /\ \A k \in DOMAIN run.results : run.results[k].step = run.scenario.steps[k]
    /\ run.scenario.stop => FailedSteps(run.results) \subseteq {Len(run.results)}

Unfinished(run) == ~Ends(run.scenario, run.results)

Fields == {"at", "now", "stack", "answer", "copy", "ticket", "client"}

\* Only the innermost run can be at its end, between two steps.
ThreadOK(th) ==
    /\ DOMAIN th = Fields
    /\ th.stack \in Seq(Frames) /\ Len(th.stack) <= MaxDepth
    /\ \A d \in DOMAIN th.stack : Begun(th.stack[d])
    /\ \A d \in DOMAIN th.stack : d < Len(th.stack) \/ th.at # "step" => Unfinished(th.stack[d])
    /\ th.at = "step" => th.stack # <<>>
    /\ th.at \in {"dispatch", "change"} => th.now \in Sent

ThreadInv ==
    /\ DOMAIN thread = Threads
    /\ \A t \in Threads : ThreadOK(thread[t])
    /\ \A w \in wire : w.req \in Requests

ScenariosOK(ss) == ss \in [Ids -> ScenarioData \union {None}] /\ InOrder(ss, MaxScenarios)
TargetsOK(ts) == DOMAIN ts = Targets /\ InOrder(ts, MaxTargets)

\* Stored runs fit, and have numbers of their own, up to the last one given.
RunsOK(rs, last) ==
    /\ rs \in Seq(Reports)
    /\ \A k \in DOMAIN rs : rs[k].number <= last /\ Fits(rs[k])
    /\ \A j, k \in DOMAIN rs : rs[j].number = rs[k].number => j = k

\* What is in memory and what is in the files is in order alike, as each may become the other.
StoreInv ==
    /\ made \in Nat
    /\ ScenariosOK(scenarios) /\ TargetsOK(targets) /\ RunsOK(runs, made)
    /\ index = Lists(runs)
    /\ DOMAIN files = {"scenarios", "runs", "targets"}
    /\ ScenariosOK(files.scenarios) /\ TargetsOK(files.targets) /\ RunsOK(files.runs, made)

\* The threads that decide on a profile that is not the current one.
Strays == {t \in Threads : thread[t].at = "decide" /\ thread[t].copy.epoch # epoch.number}

\* Each of them may still count once on the profile that the strays were counted for.
CountInv ==
    /\ incident \in [mode : Modes, affected : Nat]
    /\ epoch \in [number : Nat, own : Nat, strays : Nat]
    /\ \A t \in Threads : thread[t].at = "decide" => thread[t].copy.epoch \in 0..epoch.number
    /\ incident.affected + Cardinality(Strays) <= epoch.own + epoch.strays

IInv == StoreInv /\ ThreadInv /\ CountInv

-----------------------------------------------------------------------------
(***************************************************************************)
(* Reports.                                                                *)
(***************************************************************************)

\* The failures of a run can be counted; there are failed assertions where a step failed.
LEMMA FailureFacts ==
    ASSUME NEW results \in Seq(Results)
    PROVE  /\ FailedSteps(results) \subseteq 1 .. Len(results) /\ Len(results) \in Nat
           /\ IsFiniteSet(FailedSteps(results))
           /\ Cardinality(FailedSteps(results)) \in Nat
           /\ Cardinality(FailedSteps(results)) <= Len(results)
           /\ Cardinality(FailedAssertions(results)) \in Nat
           /\ IF FailedSteps(results) = {}
              THEN Cardinality(FailedSteps(results)) = 0
                   /\ Cardinality(FailedAssertions(results)) = 0
              ELSE Cardinality(FailedSteps(results)) > 0
                   /\ Cardinality(FailedAssertions(results)) > 0
  <1> DEFINE D == DOMAIN results
             F == FailedSteps(results)
             A == FailedAssertions(results)
  <1>1. Len(results) \in Nat /\ D = 1 .. Len(results)
    BY EmptyFacts
  <1>2. F \subseteq D
    BY DEF FailedSteps
  <1>3. IsFiniteSet(F) /\ Cardinality(F) \in Nat /\ Cardinality(F) <= Len(results)
    BY <1>2, PositionsFinite
  <1>4. IsFiniteSet(Assertions)
    <2>1. IsFiniteSet({"status"})
      BY FS_Singleton
    <2>2. IsFiniteSet({"status"} \union {"body"})
      BY <2>1, FS_AddElement
    <2>3. QED
      BY <2>2 DEF Assertions
  <1>5. IsFiniteSet(D)
    BY PositionsFinite
  <1>6. IsFiniteSet(D \X Assertions)
    BY <1>4, <1>5, FS_Product
  <1>7. A \subseteq D \X Assertions
    BY DEF FailedAssertions
  <1>8. IsFiniteSet(A) /\ Cardinality(A) \in Nat
    BY <1>6, <1>7, FS_Subset, FS_CardinalityType
  <1>9. F = {} <=> A = {}
    <2>1. ASSUME NEW k \in F PROVE A # {}
      <3>1. k \in D /\ results[k] \in Results /\ results[k].broken # {}
        BY <1>1, EmptyFacts DEF FailedSteps
      <3>2. PICK a \in Assertions : a \in results[k].broken
        BY <3>1 DEF Results
      <3>3. <<k, a>> \in A
        BY <3>1, <3>2 DEF FailedAssertions
      <3>4. QED
        BY <3>3
    <2>2. ASSUME NEW p \in A PROVE F # {}
      BY <2>2 DEF FailedAssertions, FailedSteps
    <2>3. QED
      BY <2>1, <2>2
  <1> HIDE DEF F, A, D
  <1>10. (F = {} <=> Cardinality(F) = 0) /\ (A = {} <=> Cardinality(A) = 0)
    BY <1>3, <1>8, FS_EmptySet
  <1>11. QED
    BY <1>1, <1>2, <1>3, <1>8, <1>9, <1>10 DEF F, A

\* The score starts at 100, and a failed step takes its own 25 and 5 for an assertion of it.
LEMMA ScoreFacts ==
    ASSUME NEW results \in Seq(Results)
    PROVE  Score(results) \in 0..(IF FailedSteps(results) = {} THEN 100 ELSE 70)
  <1> DEFINE f == Cardinality(FailedSteps(results))
             a == Cardinality(FailedAssertions(results))
  <1>1. /\ f \in Nat /\ a \in Nat
        /\ IF FailedSteps(results) = {} THEN f = 0 /\ a = 0 ELSE f > 0 /\ a > 0
    BY FailureFacts
  <1>2. Score(results) = IF 25 * f + 5 * a > 100 THEN 0 ELSE 100 - (25 * f + 5 * a)
    BY DEF Score
  <1> HIDE DEF f, a
  <1>3. QED
    BY <1>1, <1>2

\* A run that has come to its end is reported as it was.
LEMMA ReportFacts ==
    ASSUME NEW run \in Frames, Begun(run), ~Unfinished(run), NEW number \in Int
    PROVE  LET report == Report(number, run.id, run.scenario, run.results)
           IN  /\ report \in Reports /\ Fits(report)
               /\ report.number = number /\ report.id = run.id
  <1> DEFINE results == run.results
             steps == run.scenario.steps
             bad == FailedSteps(results)
             report == Report(number, run.id, run.scenario, results)
  <1>1. run.id \in Ids /\ run.scenario \in ScenarioData /\ results \in Seq(Results)
    BY DEF Frames
  <1>2. /\ report.number = number /\ report.id = run.id /\ report.status = Verdict(results)
        /\ report.score = Score(results) /\ report.passed = Len(results) - Cardinality(bad)
        /\ report.failed = Cardinality(bad) /\ report.results = results
        /\ report.of = run.scenario
    BY DEF Report
  <1>3. steps \in Seq(Steps) /\ Len(steps) \in Nat
    BY <1>1 DEF ScenarioData
  <1>4. /\ Len(results) \in Nat /\ Cardinality(bad) \in Nat /\ Cardinality(bad) <= Len(results)
        /\ Len(results) - Cardinality(bad) \in Nat
        /\ DOMAIN results = 1 .. Len(results)
    BY <1>1, FailureFacts, EmptyFacts
  <1>5. report.score \in 0..(IF bad = {} THEN 100 ELSE 70)
    BY <1>1, <1>2, ScoreFacts
  <1>6. report \in Reports
    <2>1. Verdict(results) \in {"pass", "fail"}
      BY DEF Verdict
    <2>2. Score(results) \in Nat
      BY <1>2, <1>5
    <2>3. QED
      BY <1>1, <1>4, <2>1, <2>2 DEF Report, Reports
  <1>7. \A k \in 1 .. Len(results) : results[k].step = steps[k]
    BY <1>4 DEF Begun
  <1>8. report.status = "pass" <=> bad = {}
    BY <1>2 DEF Verdict
  <1>9. Len(results) = Len(steps) \/ (run.scenario.stop /\ bad # {})
    BY DEF Unfinished, Ends
  <1>10. run.scenario.stop => bad \subseteq {Len(results)}
    BY DEF Begun
  <1>11. IF report.of.stop
         THEN bad \subseteq {Len(results)} /\ (Len(results) = Len(steps) \/ Len(results) \in bad)
         ELSE Len(results) = Len(steps)
    BY <1>2, <1>9, <1>10
  <1> HIDE DEF report, bad, results, steps
  <1>12. Fits(report)
    BY <1>2, <1>5, <1>7, <1>8, <1>11 DEF Fits, bad, steps
  <1>13. QED
    BY <1>2, <1>6, <1>12 DEF report, results

-----------------------------------------------------------------------------
(***************************************************************************)
(* Lists of runs.                                                          *)
(***************************************************************************)

\* The places of the runs of a scenario.
PlacesOf(rs, s) == {k \in DOMAIN rs : rs[k].id = s}

\* The list of a scenario has the numbers of its runs, each at the rank of its place.
LEMMA ListFacts ==
    ASSUME NEW rs \in Seq(Reports), NEW s
    PROVE  /\ PlacesOf(rs, s) \subseteq Nat /\ IsFiniteSet(PlacesOf(rs, s))
           /\ \A k \in PlacesOf(rs, s) : rs[k] \in Reports
           /\ RunsOf(rs, s) = Subsequence(rs, PlacesOf(rs, s))
           /\ RunsOf(rs, s) \in Seq(Reports)
           /\ \A k \in PlacesOf(rs, s) :
                 \E n \in DOMAIN Numbers(RunsOf(rs, s)) : Numbers(RunsOf(rs, s))[n] = rs[k].number
           /\ \A n \in DOMAIN Numbers(RunsOf(rs, s)) :
                 \E k \in PlacesOf(rs, s) : Numbers(RunsOf(rs, s))[n] = rs[k].number
  <1> DEFINE P == PlacesOf(rs, s)
             own == Subsequence(rs, P)
  <1>1. P \subseteq DOMAIN rs
    BY DEF PlacesOf
  <1>2. P \subseteq Nat /\ IsFiniteSet(P) /\ \A k \in P : rs[k] \in Reports
    BY <1>1, PositionsFinite, EmptyFacts
  <1>3. RunsOf(rs, s) = own
    BY DEF RunsOf, PlacesOf
  <1>4. /\ own \in Seq(Reports)
        /\ \A k \in P : Rank(P, k) \in DOMAIN own /\ own[Rank(P, k)] = rs[k]
        /\ \A n \in DOMAIN own : \E k \in P : own[n] = rs[k]
    <2> HIDE DEF P
    <2>1. Subsequence(rs, P) \in Seq(Reports)
      BY ONLY <1>2, SubsequenceFacts
    <2>2. \A k \in P : /\ Rank(P, k) \in DOMAIN Subsequence(rs, P)
                       /\ Subsequence(rs, P)[Rank(P, k)] = rs[k]
      BY ONLY <1>2, SubsequenceFacts
    <2>3. \A n \in DOMAIN Subsequence(rs, P) : \E k \in P : Subsequence(rs, P)[n] = rs[k]
      BY ONLY <1>2, SubsequenceFacts
    <2>4. QED
      BY <2>1, <2>2, <2>3
  <1> HIDE DEF P, own
  <1>5. DOMAIN Numbers(own) = DOMAIN own /\ \A n \in DOMAIN own : Numbers(own)[n] = own[n].number
    BY DEF Numbers
  <1>6. \A k \in P : \E n \in DOMAIN Numbers(own) : Numbers(own)[n] = rs[k].number
    BY <1>4, <1>5
  <1>7. \A n \in DOMAIN Numbers(own) : \E k \in P : Numbers(own)[n] = rs[k].number
    BY <1>4, <1>5
  <1>8. own \in Seq(Reports) /\ own = Subsequence(rs, P)
    BY <1>4 DEF own
  <1>9. QED
    BY <1>2, <1>3, <1>6, <1>7, <1>8 DEF P

\* A run that is added comes last in the list of its scenario, and into no other.
LEMMA ListsAppend ==
    ASSUME NEW rs \in Seq(Reports), NEW run \in Reports
    PROVE  Lists(Append(rs, run)) =
              [Lists(rs) EXCEPT ![run.id] = Append(@, run.number)]
  <1> DEFINE now == Append(rs, run)
  <1>1. /\ now \in Seq(Reports) /\ DOMAIN now = DOMAIN rs \union {Len(rs) + 1}
        /\ \A k \in DOMAIN rs : now[k] = rs[k]
        /\ now[Len(rs) + 1] = run /\ Len(rs) + 1 \notin DOMAIN rs
    BY AppendFacts
  <1>2. ASSUME NEW s \in Ids
        PROVE  Numbers(RunsOf(now, s)) =
                  IF s = run.id THEN Append(Numbers(RunsOf(rs, s)), run.number)
                  ELSE Numbers(RunsOf(rs, s))
    <2> DEFINE P == PlacesOf(rs, s)
    <2>1. PlacesOf(now, s) = IF s = run.id THEN P \union {Len(rs) + 1} ELSE P
      BY <1>1 DEF PlacesOf
    <2>2. P \subseteq DOMAIN rs
      BY DEF PlacesOf
    <2>3. /\ Subsequence(now, P) = Subsequence(rs, P)
          /\ Subsequence(now, P \union {Len(rs) + 1}) = Append(Subsequence(rs, P), run)
      <3> HIDE DEF P
      <3>1. QED
        BY <2>2, SubsequenceAppend
    <2>4. /\ RunsOf(rs, s) = Subsequence(rs, P) /\ RunsOf(rs, s) \in Seq(Reports)
          /\ RunsOf(now, s) = Subsequence(now, PlacesOf(now, s))
      BY <1>1, ListFacts
    <2>5. RunsOf(now, s) = IF s = run.id THEN Append(RunsOf(rs, s), run) ELSE RunsOf(rs, s)
      BY <2>1, <2>3, <2>4
    <2>6. \A own \in Seq(Reports) : Numbers(Append(own, run)) = Append(Numbers(own), run.number)
      <3> SUFFICES ASSUME NEW own \in Seq(Reports)
                   PROVE  Numbers(Append(own, run)) = Append(Numbers(own), run.number)
        OBVIOUS
      <3>1. /\ Append(own, run) \in Seq(Reports) /\ Len(Append(own, run)) = Len(own) + 1
            /\ \A k \in 1 .. Len(own) : Append(own, run)[k] = own[k]
            /\ Append(own, run)[Len(own) + 1] = run
            /\ Len(own) \in Nat
        OBVIOUS
      <3>2. \A k \in 1 .. Len(own) : own[k].number \in Int
        <4>1. \A k \in 1 .. Len(own) : own[k] \in Reports
          OBVIOUS
        <4>2. QED
          BY <4>1 DEF Reports
      <3>3. /\ Numbers(own) \in Seq(Int) /\ Len(Numbers(own)) = Len(own)
            /\ \A k \in 1 .. Len(own) : Numbers(own)[k] = own[k].number
        BY <3>1, <3>2 DEF Numbers
      <3>4. run.number \in Int
        BY DEF Reports
      <3>5. /\ Append(Numbers(own), run.number) \in Seq(Int)
            /\ Len(Append(Numbers(own), run.number)) = Len(own) + 1
            /\ \A k \in 1 .. Len(own) : Append(Numbers(own), run.number)[k] = own[k].number
            /\ Append(Numbers(own), run.number)[Len(own) + 1] = run.number
        BY <3>3, <3>4
      <3>6. DOMAIN Numbers(Append(own, run)) = 1 .. (Len(own) + 1)
        BY <3>1 DEF Numbers
      <3>7. \A k \in 1 .. (Len(own) + 1) : Numbers(Append(own, run))[k] = Append(own, run)[k].number
        BY <3>1 DEF Numbers
      <3>8. Numbers(Append(own, run)) = [k \in 1 .. (Len(own) + 1) |-> Append(own, run)[k].number]
        BY <3>1 DEF Numbers
      <3>9. Append(Numbers(own), run.number)
              = [k \in 1 .. (Len(own) + 1) |-> Append(Numbers(own), run.number)[k]]
        BY <3>5
      <3>10. \A k \in 1 .. (Len(own) + 1) :
                Append(own, run)[k].number = Append(Numbers(own), run.number)[k]
        BY <3>1, <3>5
      <3>11. QED
        BY <3>8, <3>9, <3>10
    <2>7. QED
      BY <2>4, <2>5, <2>6
  <1>3. run.id \in Ids
    BY DEF Reports
  <1> HIDE DEF now
  <1>4. QED
    BY <1>2, <1>3 DEF Lists, now

\* The runs at some of the places keep their order, and those at some of these are found
\* again by their ranks.
LEMMA KeptFacts ==
    ASSUME NEW rs \in Seq(Reports), NEW P, P \subseteq DOMAIN rs
    PROVE  /\ Subsequence(rs, P) \in Seq(Reports)
           /\ \A k \in P : /\ Rank(P, k) \in DOMAIN Subsequence(rs, P)
                           /\ Subsequence(rs, P)[Rank(P, k)] = rs[k]
           /\ \A n \in DOMAIN Subsequence(rs, P) :
                 \E k \in P : Rank(P, k) = n /\ Subsequence(rs, P)[n] = rs[k]
           /\ \A Q, R : /\ Q \subseteq P
                        /\ \A k \in Q : Rank(P, k) \in R
                        /\ \A n \in R : \E k \in Q : n = Rank(P, k)
                       => Subsequence(Subsequence(rs, P), R) = Subsequence(rs, Q)
  <1>1. DOMAIN rs \subseteq Nat /\ \A k \in DOMAIN rs : rs[k] \in Reports
    BY EmptyFacts
  <1>2. IsFiniteSet(P) /\ P \subseteq Nat /\ \A k \in P : rs[k] \in Reports
    BY <1>1, PositionsFinite
  <1>3. ASSUME NEW Q, Q \subseteq P,
               NEW R, \A k \in Q : Rank(P, k) \in R, \A n \in R : \E k \in Q : n = Rank(P, k)
        PROVE  Subsequence(Subsequence(rs, P), R) = Subsequence(rs, Q)
    BY <1>2, <1>3, SubsequenceTwice
  <1>4. QED
    BY <1>2, <1>3, SubsequenceFacts

\* What a deletion leaves of the runs.
Left(rs, list) == Subsequence(rs, {k \in DOMAIN rs : \A n \in DOMAIN list : list[n] # rs[k].number})

\* A deletion that goes by the list of a scenario removes the runs of that scenario, and the
\* other lists keep theirs.
LEMMA ListsWithout ==
    ASSUME NEW rs \in Seq(Reports), NEW s \in Ids,
           \A j, k \in DOMAIN rs : rs[j].number = rs[k].number => j = k
    PROVE  /\ Left(rs, Lists(rs)[s]) \in Seq(Reports)
           /\ \A n \in DOMAIN Left(rs, Lists(rs)[s]) :
                 \E k \in DOMAIN rs : Left(rs, Lists(rs)[s])[n] = rs[k]
           /\ \A j, n \in DOMAIN Left(rs, Lists(rs)[s]) :
                 Left(rs, Lists(rs)[s])[j].number = Left(rs, Lists(rs)[s])[n].number => j = n
           /\ Lists(Left(rs, Lists(rs)[s])) = [Lists(rs) EXCEPT ![s] = <<>>]
  <1> DEFINE P == {k \in DOMAIN rs : rs[k].id # s}
             kept == Subsequence(rs, P)
             list == Lists(rs)[s]
  <1>2. P \subseteq DOMAIN rs
    OBVIOUS
  <1>4. Left(rs, list) = kept
    <2>1. list = Numbers(RunsOf(rs, s))
      BY DEF Lists
    <2>2. ASSUME NEW k \in DOMAIN rs
          PROVE  (\A n \in DOMAIN list : list[n] # rs[k].number) <=> rs[k].id # s
      <3>1. rs[k].id = s => \E n \in DOMAIN list : list[n] = rs[k].number
        <4>1. rs[k].id = s => k \in PlacesOf(rs, s)
          BY DEF PlacesOf
        <4> HIDE DEF list
        <4>2. QED
          BY <2>1, <4>1, ListFacts
      <3>2. ASSUME NEW n \in DOMAIN list, list[n] = rs[k].number PROVE rs[k].id = s
        <4>1. PICK j \in PlacesOf(rs, s) : list[n] = rs[j].number
          BY <2>1, ListFacts
        <4>2. j = k
          BY <3>2, <4>1 DEF PlacesOf
        <4>3. QED
          BY <4>1, <4>2 DEF PlacesOf
      <3>3. QED
        BY <3>1, <3>2
    <2> HIDE DEF list
    <2>3. {k \in DOMAIN rs : \A n \in DOMAIN list : list[n] # rs[k].number} = P
      BY <2>2
    <2>4. QED
      BY <2>3 DEF Left
  <1>5. /\ kept \in Seq(Reports)
        /\ \A k \in P : Rank(P, k) \in DOMAIN kept /\ kept[Rank(P, k)] = rs[k]
        /\ \A n \in DOMAIN kept : \E k \in P : Rank(P, k) = n /\ kept[n] = rs[k]
    <2> HIDE DEF P
    <2>1. QED
      BY <1>2, KeptFacts
  <1>6. \A k \in P : k \in DOMAIN rs /\ rs[k].id # s
    OBVIOUS
  <1>7. \A k \in DOMAIN rs : rs[k].id # s => k \in P
    OBVIOUS
  <1> HIDE DEF P, kept, list
  <1>8. \A j, n \in DOMAIN kept : kept[j].number = kept[n].number => j = n
    BY <1>5, <1>6
  <1>9. ASSUME NEW u \in Ids
        PROVE  Numbers(RunsOf(kept, u)) = IF u = s THEN <<>> ELSE Numbers(RunsOf(rs, u))
    <2> DEFINE Q == PlacesOf(rs, u)
               R == PlacesOf(kept, u)
    <2>1. RunsOf(kept, u) = Subsequence(kept, R) /\ RunsOf(rs, u) = Subsequence(rs, Q)
      BY DEF PlacesOf, RunsOf
    <2>2. CASE u = s
      <3>1. R = {}
        BY <1>5, <1>6, <2>2 DEF PlacesOf
      <3>2. Cardinality(R) = 0
        BY <3>1, FS_EmptySet
      <3>3. Subsequence(kept, R) = <<>>
        BY <3>2 DEF Subsequence
      <3>4. QED
        BY <2>1, <2>2, <3>3 DEF Numbers
    <2>3. CASE u # s
      <3>1. Q \subseteq P
        BY <1>7, <2>3 DEF PlacesOf
      <3>2. /\ \A k \in Q : Rank(P, k) \in R
            /\ \A n \in R : \E k \in Q : n = Rank(P, k)
        <4>1. \A k \in Q : Rank(P, k) \in DOMAIN kept /\ kept[Rank(P, k)].id = u
          BY <1>5, <3>1 DEF PlacesOf
        <4>2. \A n \in DOMAIN kept : kept[n].id = u => \E k \in Q : n = Rank(P, k)
          BY <1>5, <1>6 DEF PlacesOf
        <4>3. \A n \in R : n \in DOMAIN kept /\ kept[n].id = u
          BY DEF PlacesOf
        <4>4. \A n \in DOMAIN kept : kept[n].id = u => n \in R
          BY DEF PlacesOf
        <4> HIDE DEF Q, R
        <4>5. QED
          BY <4>1, <4>2, <4>3, <4>4
      <3> HIDE DEF Q, R
      <3>3. Subsequence(kept, R) = Subsequence(rs, Q)
        BY <1>2, <3>1, <3>2, KeptFacts DEF kept
      <3>4. QED
        BY <2>1, <2>3, <3>3
    <2>4. QED
      BY <2>2, <2>3
  <1>10. Lists(kept) = [Lists(rs) EXCEPT ![s] = <<>>]
    BY <1>9 DEF Lists
  <1>11. \A n \in DOMAIN kept : \E k \in DOMAIN rs : kept[n] = rs[k]
    BY <1>5, <1>6
  <1>12. QED
    BY <1>4, <1>5, <1>8, <1>10, <1>11 DEF list

-----------------------------------------------------------------------------
(***************************************************************************)
(* Threads.                                                                *)
(***************************************************************************)

Others(t) == DOMAIN thread' = Threads /\ \A u \in Threads \ {t} : thread'[u] = thread[u]

\* A step of a thread whose runs stay as they are, waiting for an answer.
Light(t) ==
    /\ Others(t) /\ DOMAIN thread'[t] = Fields
    /\ thread[t].at # "step" /\ thread'[t].at # "step"
    /\ thread'[t].stack = thread[t].stack
    /\ thread'[t].at \in {"dispatch", "change"} => thread'[t].now \in Sent
    /\ thread'[t].at = "decide" => thread'[t].copy.epoch = epoch.number

\* How far a thread has come since the step of a run, or the client, has asked for something,
\* and that it has come farther.
Passed(at) ==
    IF at = "step" THEN 0 ELSE IF at = "dispatch" THEN 1 ELSE IF at = "proxy" THEN 2
    ELSE IF at = "proxied" THEN 3 ELSE IF at \in {"decide", "change"} THEN 4 ELSE 5

Farther(t) == Passed(thread[t].at) < Passed(thread'[t].at)

\* The steps of threads are made of these: an answer that is ready ...
LEMMA Replied ==
    ASSUME ThreadInv, NEW t \in Threads, thread[t].at # "step", NEW answer, Replies(t, answer)
    PROVE  Light(t) /\ thread'[t].at = "answer"
  <1>1. DOMAIN thread = Threads /\ DOMAIN thread[t] = Fields
    BY DEF ThreadInv, ThreadOK
  <1>2. /\ DOMAIN thread' = Threads /\ \A u \in Threads \ {t} : thread'[u] = thread[u]
        /\ thread'[t] = [thread[t] EXCEPT !.at = "answer", !.answer = answer]
    BY <1>1 DEF Replies
  <1>3. DOMAIN thread'[t] = Fields /\ thread'[t].at = "answer" /\ thread'[t].stack = thread[t].stack
    BY <1>1, <1>2 DEF Fields
  <1>4. QED
    BY <1>2, <1>3 DEF Light, Others

\* ... an exception that leaves the runs as they are ...
LEMMA Raised ==
    ASSUME ThreadInv, NEW t \in Threads, thread[t].at # "step", Raises(t, thread[t].stack)
    PROVE  Light(t) /\ thread'[t].at \in {"gone", "answer"}
  <1>1. DOMAIN thread = Threads /\ DOMAIN thread[t] = Fields
    BY DEF ThreadInv, ThreadOK
  <1>2. /\ DOMAIN thread' = Threads /\ \A u \in Threads \ {t} : thread'[u] = thread[u]
        /\ thread'[t] = IF thread[t].stack = <<>> THEN [Idle EXCEPT !.at = "gone"]
                        ELSE [thread[t] EXCEPT !.at = "answer", !.answer = Refusal(502),
                                               !.stack = thread[t].stack]
    BY <1>1 DEF Raises
  <1>3. CASE thread[t].stack = <<>>
    <2>1. /\ DOMAIN thread'[t] = Fields /\ thread'[t].at = "gone"
          /\ thread'[t].stack = thread[t].stack
      BY <1>2, <1>3 DEF Idle, Fields
    <2>2. QED
      BY <1>2, <2>1 DEF Light, Others
  <1>4. CASE thread[t].stack # <<>>
    <2>1. /\ DOMAIN thread'[t] = Fields /\ thread'[t].at = "answer"
          /\ thread'[t].stack = thread[t].stack
      BY <1>1, <1>2, <1>4 DEF Fields
    <2>2. QED
      BY <1>2, <2>1 DEF Light, Others
  <1>5. QED
    BY <1>3, <1>4

\* ... an answer that the incident profile may have to be applied to ...
LEMMA Applied ==
    ASSUME ThreadInv, NEW t \in Threads, thread[t].at # "step", NEW answer, Applies(t, answer)
    PROVE  Light(t) /\ thread'[t].at \in {"answer", "decide"}
  <1>1. DOMAIN thread = Threads /\ DOMAIN thread[t] = Fields
    BY DEF ThreadInv, ThreadOK
  <1>2. CASE incident.mode = "none"
    BY <1>2, Replied DEF Applies
  <1>3. CASE incident.mode # "none"
    <2> DEFINE copy == [mode |-> incident.mode, epoch |-> epoch.number]
    <2>1. /\ DOMAIN thread' = Threads /\ \A u \in Threads \ {t} : thread'[u] = thread[u]
          /\ thread'[t] = [thread[t] EXCEPT !.at = "decide", !.answer = answer, !.copy = copy]
      BY <1>1, <1>3 DEF Applies
    <2>2. copy.epoch = epoch.number
      OBVIOUS
    <2> HIDE DEF copy
    <2>3. /\ DOMAIN thread'[t] = Fields /\ thread'[t].at = "decide" /\ thread'[t].copy = copy
          /\ thread'[t].stack = thread[t].stack
      BY <1>1, <2>1 DEF Fields
    <2>4. QED
      BY <2>1, <2>2, <2>3 DEF Light, Others
  <1>4. QED
    BY <1>2, <1>3

\* ... and that of a target.
LEMMA Delivered ==
    ASSUME ThreadInv, NEW t \in Threads, thread[t].at # "step", NEW answer, Deliver(t, answer)
    PROVE  Light(t) /\ thread'[t].at \in {"answer", "decide"}
  BY Replied, Applied DEF Deliver

\* Every request that a thread has in hand has one of these kinds.
LEMMA SentFacts ==
    ASSUME NEW r \in Sent
    PROVE  /\ r.kind \in {"create", "update"} => r.id \in Ids /\ r.new \in ScenarioData
           /\ r.kind \in {"delete", "run"} => r.id \in Ids
           /\ r.kind = "run" => r.seed \in Nat
           /\ r.kind \in {"create_target", "update_target", "delete_target"} => r.id \in Targets
           /\ r.kind \in {"proxy", "target"} => r.req \in Requests
           /\ r.kind = "incident" => r.mode \in Modes
  <1>1. CASE r \in Requests
    BY <1>1, RequestAssumption
  <1>2. CASE r \in [kind : {"target"}, target : Targets, req : Requests]
    BY <1>2
  <1>3. QED
    BY <1>1, <1>2 DEF Sent

\* The requests that the stores answer.
LEMMA StoresLight ==
    ASSUME ThreadInv, NEW t \in Threads, Stores(t)
    PROVE  Light(t) /\ UNCHANGED wire /\ Farther(t)
  <1>1. DOMAIN thread = Threads /\ ThreadOK(thread[t]) /\ DOMAIN thread[t] = Fields
    BY DEF ThreadInv, ThreadOK
  <1>w. UNCHANGED wire
    BY DEF Stores
  <1>2. thread[t].at \in {"dispatch", "change"}
    BY DEF Stores, Create, Look, Update, Delete, ChangeTargets, CopyTarget, UpdateTarget, At
  <1>3. ASSUME NEW answer, Replies(t, answer) PROVE Light(t) /\ Farther(t)
    BY <1>2, <1>3, Replied DEF Farther, Passed
  <1>4. thread[t].now \in Sent
    BY <1>1, <1>2 DEF ThreadOK
  <1>5. ASSUME Goes(t, "change"), thread[t].at = "dispatch" PROVE Light(t) /\ Farther(t)
    <2>1. /\ DOMAIN thread' = Threads /\ \A u \in Threads \ {t} : thread'[u] = thread[u]
          /\ thread'[t] = [thread[t] EXCEPT !.at = "change"]
      BY <1>1, <1>5 DEF Goes
    <2>2. /\ DOMAIN thread'[t] = Fields /\ thread'[t].at = "change"
          /\ thread'[t].stack = thread[t].stack /\ thread'[t].now = thread[t].now
      BY <1>1, <2>1 DEF Fields
    <2>3. QED
      BY <1>4, <1>5, <2>1, <2>2 DEF Light, Others, Farther, Passed
  <1>6. ASSUME NEW copy, thread' = [thread EXCEPT ![t].at = "change", ![t].copy = copy],
               thread[t].at = "dispatch"
        PROVE  Light(t) /\ Farther(t)
    <2>1. /\ DOMAIN thread' = Threads /\ \A u \in Threads \ {t} : thread'[u] = thread[u]
          /\ thread'[t] = [thread[t] EXCEPT !.at = "change", !.copy = copy]
      BY <1>1, <1>6
    <2>2. /\ DOMAIN thread'[t] = Fields /\ thread'[t].at = "change"
          /\ thread'[t].stack = thread[t].stack /\ thread'[t].now = thread[t].now
      BY <1>1, <2>1 DEF Fields
    <2>3. QED
      BY <1>4, <1>6, <2>1, <2>2 DEF Light, Others, Farther, Passed
  <1>7. CASE Create(t)
    BY <1>3, <1>7, <1>w DEF Create, Refuse, SetScenario
  <1>8. CASE Look(t)
    BY <1>3, <1>5, <1>8, <1>w DEF Look, Refuse, At
  <1>9. CASE Update(t)
    BY <1>3, <1>9, <1>w DEF Update, Refuse, SetScenario
  <1>10. CASE Delete(t)
    BY <1>3, <1>10, <1>w DEF Delete, Refuse
  <1>11. CASE ChangeTargets(t)
    BY <1>3, <1>11, <1>w DEF ChangeTargets, Refuse, SetTarget
  <1>12. CASE CopyTarget(t)
    BY <1>3, <1>6, <1>12, <1>w DEF CopyTarget, Refuse, At
  <1>13. CASE UpdateTarget(t)
    BY <1>3, <1>13, <1>w DEF UpdateTarget, Refuse, SetTarget
  <1>14. QED
    BY <1>7, <1>8, <1>9, <1>10, <1>11, <1>12, <1>13 DEF Stores

\* The requests that set a profile or that one is applied to.
LEMMA IncidentsLight ==
    ASSUME ThreadInv, NEW t \in Threads
    PROVE  /\ SetIncident(t) => /\ Light(t) /\ UNCHANGED wire /\ thread'[t].at = "answer"
                                 /\ Farther(t)
           /\ Call(t) => Light(t) /\ UNCHANGED wire /\ Farther(t)
           /\ Decide(t) => /\ Light(t) /\ UNCHANGED wire /\ thread'[t].at = "answer"
                            /\ Farther(t)
  <1>1. DOMAIN thread = Threads /\ DOMAIN thread[t] = Fields
    BY DEF ThreadInv, ThreadOK
  <1>2. ASSUME SetIncident(t)
        PROVE  Light(t) /\ UNCHANGED wire /\ thread'[t].at = "answer" /\ Farther(t)
    BY <1>2, Replied DEF SetIncident, At, Farther, Passed
  <1>3. ASSUME Call(t) PROVE Light(t) /\ UNCHANGED wire /\ Farther(t)
    BY <1>3, Applied DEF Call, At, Farther, Passed
  <1>4. ASSUME Decide(t)
        PROVE  Light(t) /\ UNCHANGED wire /\ thread'[t].at = "answer" /\ Farther(t)
    <2>1. \E answer : thread' = [thread EXCEPT ![t] = [thread[t] EXCEPT !.at = "answer",
                                                    !.copy = None, !.answer = answer]]
      <3>1. CASE thread' = [thread EXCEPT ![t].at = "answer", ![t].copy = None]
        <4>1. thread[t].answer = thread[t].answer
          OBVIOUS
        <4>2. [thread[t] EXCEPT !.at = "answer", !.copy = None]
                = [thread[t] EXCEPT !.at = "answer", !.copy = None, !.answer = thread[t].answer]
          BY <1>1 DEF Fields
        <4>3. thread' = [thread EXCEPT ![t] = [thread[t] EXCEPT !.at = "answer", !.copy = None]]
          BY <3>1
        <4>4. QED
          BY <4>2, <4>3
      <3>2. CASE thread' = [thread EXCEPT ![t].at = "answer", ![t].copy = None,
                              ![t].answer = Disturbed(@, thread[t].copy.mode)]
        <4>1. thread' = [thread EXCEPT ![t] = [thread[t] EXCEPT !.at = "answer", !.copy = None,
                            !.answer = Disturbed(thread[t].answer, thread[t].copy.mode)]]
          BY <3>2
        <4>2. QED
          BY <4>1
      <3>3. QED
        BY <1>4, <3>1, <3>2 DEF Decide
    <2>2. PICK answer : thread' = [thread EXCEPT ![t] = [thread[t] EXCEPT !.at = "answer",
                                                    !.copy = None, !.answer = answer]]
      BY <2>1
    <2>3. /\ DOMAIN thread' = Threads /\ \A u \in Threads \ {t} : thread'[u] = thread[u]
          /\ thread'[t] = [thread[t] EXCEPT !.at = "answer", !.copy = None, !.answer = answer]
      BY <1>1, <2>2
    <2>4. /\ DOMAIN thread'[t] = Fields /\ thread'[t].at = "answer"
          /\ thread'[t].stack = thread[t].stack
      BY <1>1, <2>3 DEF Fields
    <2>5. QED
      BY <1>4, <2>3, <2>4 DEF Light, Others, Decide, Farther, Passed
  <1>5. QED
    BY <1>2, <1>3, <1>4

\* The requests that go through the proxy.
LEMMA ProxyLight ==
    ASSUME ThreadInv, NEW t \in Threads, Proxy(t)
    PROVE  Light(t) /\ Farther(t) /\ \A w \in wire' : w.req \in Requests
  <1>1. /\ DOMAIN thread = Threads /\ ThreadOK(thread[t]) /\ DOMAIN thread[t] = Fields
        /\ \A w \in wire : w.req \in Requests
    BY DEF ThreadInv, ThreadOK
  <1>2. CASE ToTarget(t)
    <2>1. thread[t].at = "dispatch" /\ thread[t].now.kind \in {"proxy", "target"}
      BY <1>2 DEF ToTarget, At
    <2>2. thread[t].now \in Sent
      BY <1>1, <2>1 DEF ThreadOK
    <2>3. thread[t].now.req \in Requests
      BY <2>1, <2>2, SentFacts
    <2>4. CASE targets[thread[t].now.target] # None /\ targets[thread[t].now.target].url = "self"
      <3>1. /\ wire' = wire \union {[req |-> thread[t].now.req, ticket |-> tickets + 1]}
            /\ thread' = [thread EXCEPT ![t].at = "proxy", ![t].ticket = tickets + 1]
        BY <1>2, <2>4 DEF ToTarget
      <3>2. /\ DOMAIN thread' = Threads /\ \A u \in Threads \ {t} : thread'[u] = thread[u]
            /\ thread'[t] = [thread[t] EXCEPT !.at = "proxy", !.ticket = tickets + 1]
        BY <1>1, <3>1
      <3>3. /\ DOMAIN thread'[t] = Fields /\ thread'[t].at = "proxy"
            /\ thread'[t].stack = thread[t].stack
        BY <1>1, <3>2 DEF Fields
      <3>4. Light(t) /\ Farther(t)
        BY <2>1, <3>2, <3>3 DEF Light, Others, Farther, Passed
      <3>5. QED
        BY <1>1, <2>3, <3>1, <3>4
    <2>5. CASE ~(targets[thread[t].now.target] # None
                 /\ targets[thread[t].now.target].url = "self")
      <3>1. /\ UNCHANGED wire
            /\ \E answer : Replies(t, answer) \/ Deliver(t, answer)
        BY <1>2, <2>5 DEF ToTarget
      <3>2. QED
        BY <1>1, <2>1, <3>1, Replied, Delivered DEF Farther, Passed
    <2>6. QED
      BY <2>4, <2>5
  <1>3. CASE Proxied(t)
    BY <1>1, <1>3, Delivered DEF Proxied, Farther, Passed
  <1>4. CASE ProxyTimesOut(t)
    BY <1>1, <1>4, Raised DEF ProxyTimesOut, Farther, Passed
  <1>5. QED
    BY <1>2, <1>3, <1>4 DEF Proxy

\* A request arrives from a client or off the wire.
LEMMA ArrivalLight ==
    ASSUME ThreadInv, NEW t \in Threads,
           TakeFromWire(t) \/ \E r \in Requests : Send(t, r)
    PROVE  Light(t) /\ \A w \in wire' : w.req \in Requests
  <1>1. /\ DOMAIN thread = Threads /\ DOMAIN thread[t] = Fields
        /\ \A w \in wire : w.req \in Requests
    BY DEF ThreadInv, ThreadOK
  <1>2. CASE TakeFromWire(t)
    <2>1. PICK w \in wire :
             /\ wire' = wire \ {w}
             /\ thread' = [thread EXCEPT ![t].at = "dispatch", ![t].now = w.req,
                                         ![t].client = w.ticket]
      BY <1>2 DEF TakeFromWire
    <2>2. /\ DOMAIN thread' = Threads /\ \A u \in Threads \ {t} : thread'[u] = thread[u]
          /\ thread'[t] = [thread[t] EXCEPT !.at = "dispatch", !.now = w.req,
                                            !.client = w.ticket]
      BY <1>1, <2>1
    <2>3. /\ DOMAIN thread'[t] = Fields /\ thread'[t].at = "dispatch"
          /\ thread'[t].stack = thread[t].stack /\ thread'[t].now = w.req
      BY <1>1, <2>2 DEF Fields
    <2>4. w.req \in Sent /\ thread[t].at = "idle"
      BY <1>1, <1>2 DEF Sent, TakeFromWire
    <2>5. Light(t)
      BY <2>2, <2>3, <2>4 DEF Light, Others
    <2>6. QED
      BY <1>1, <2>1, <2>5
  <1>3. ASSUME NEW r \in Requests, Send(t, r) PROVE Light(t) /\ UNCHANGED wire
    <2>1. /\ DOMAIN thread' = Threads /\ \A u \in Threads \ {t} : thread'[u] = thread[u]
          /\ thread'[t] = [thread[t] EXCEPT !.at = "dispatch", !.now = r]
      BY <1>1, <1>3 DEF Send
    <2>2. /\ DOMAIN thread'[t] = Fields /\ thread'[t].at = "dispatch"
          /\ thread'[t].stack = thread[t].stack /\ thread'[t].now = r
      BY <1>1, <2>1 DEF Fields
    <2>3. r \in Sent /\ thread[t].at = "idle" /\ UNCHANGED wire
      BY <1>3 DEF Sent, Send
    <2>4. QED
      BY <2>1, <2>2, <2>3 DEF Light, Others
  <1>4. QED
    BY <1>1, <1>2, <1>3

-----------------------------------------------------------------------------
(***************************************************************************)
(* Runs.                                                                   *)
(***************************************************************************)

\* A scenario that has been asked for begins with no results.
LEMMA BeginFacts ==
    ASSUME NEW id \in Ids, NEW scenario \in ScenarioData, NEW seed \in Nat
    PROVE  LET run == [id |-> id, scenario |-> scenario, seed |-> seed, results |-> <<>>]
           IN  run \in Frames /\ Begun(run)
  <1> DEFINE run == [id |-> id, scenario |-> scenario, seed |-> seed, results |-> <<>>]
  <1>1. run.results = <<>> /\ run.scenario = scenario
    OBVIOUS
  <1>2. run \in Frames
    BY DEF Frames
  <1>3. Len(scenario.steps) \in Nat
    BY DEF ScenarioData
  <1>4. Len(<<>>) = 0 /\ DOMAIN <<>> = {} /\ FailedSteps(<<>>) = {}
    BY DEF FailedSteps
  <1> HIDE DEF run
  <1>5. Begun(run)
    BY <1>1, <1>3, <1>4 DEF Begun
  <1>6. QED
    BY <1>2, <1>5 DEF run

\* A run that is not at its end has a next step.
LEMMA NextFacts ==
    ASSUME NEW run \in Frames, Begun(run), Unfinished(run)
    PROVE  /\ Len(run.results) < Len(run.scenario.steps)
           /\ run.scenario.stop => FailedSteps(run.results) = {}
           /\ StepOf(run) = run.scenario.steps[Len(run.results) + 1] /\ StepOf(run) \in Steps
  <1> DEFINE results == run.results
             steps == run.scenario.steps
  <1>1. /\ run.scenario \in ScenarioData /\ results \in Seq(Results) /\ steps \in Seq(Steps)
        /\ Len(results) \in Nat /\ Len(steps) \in Nat
    BY DEF Frames, ScenarioData
  <1>2. Len(results) < Len(steps) /\ (run.scenario.stop => FailedSteps(results) = {})
    BY <1>1 DEF Begun, Unfinished, Ends
  <1>3. StepOf(run) = steps[Len(results) + 1] /\ steps[Len(results) + 1] \in Steps
    BY <1>1, <1>2 DEF StepOf
  <1>4. QED
    BY <1>2, <1>3

\* The next result of a run that is not at its end is that of its next step.
LEMMA JudgeFacts ==
    ASSUME NEW run \in Frames, Begun(run), Unfinished(run), NEW answer, NEW n
    PROVE  LET result == Judged(StepOf(run), answer, run.seed, n)
               next == [run EXCEPT !.results = Append(@, result)]
           IN  next \in Frames /\ Begun(next)
  <1> DEFINE result == Judged(StepOf(run), answer, run.seed, n)
             results == run.results
             steps == run.scenario.steps
             after == Append(results, result)
             next == [run EXCEPT !.results = Append(@, result)]
  <1>1. /\ run.scenario \in ScenarioData /\ results \in Seq(Results) /\ steps \in Seq(Steps)
        /\ Len(results) \in Nat /\ Len(steps) \in Nat /\ DOMAIN results = 1 .. Len(results)
    BY DEF Frames, ScenarioData
  <1>2. Len(results) < Len(steps) /\ (run.scenario.stop => FailedSteps(results) = {})
    BY NextFacts
  <1>3. StepOf(run) = steps[Len(results) + 1] /\ steps[Len(results) + 1] \in Steps
    BY NextFacts
  <1>4. result.step = StepOf(run) /\ result \in Results
    BY <1>3 DEF Judged, Results, Broken
  <1> HIDE DEF result
  <1>5. /\ after \in Seq(Results) /\ Len(after) = Len(results) + 1
        /\ DOMAIN after = DOMAIN results \union {Len(results) + 1}
        /\ \A k \in DOMAIN results : after[k] = results[k]
        /\ after[Len(results) + 1] = result
    BY <1>1, <1>4, AppendFacts
  <1>6. next.results = after /\ next.scenario = run.scenario /\ next \in Frames
    BY <1>5 DEF Frames
  <1>7. \A k \in DOMAIN after : after[k].step = steps[k]
    BY <1>3, <1>4, <1>5 DEF Begun
  <1>8. run.scenario.stop => FailedSteps(after) \subseteq {Len(after)}
    BY <1>2, <1>5 DEF FailedSteps
  <1>9. Len(after) <= Len(steps)
    BY <1>1, <1>2, <1>5
  <1> HIDE DEF next, after, results, steps
  <1>10. Begun(next)
    BY <1>6, <1>7, <1>8, <1>9 DEF Begun, steps
  <1>11. QED
    BY <1>6, <1>10 DEF next, result

-----------------------------------------------------------------------------
(***************************************************************************)
(* Every step brings a request nearer to its end.                          *)
(***************************************************************************)

\* The steps of a run that are still to come.
Remaining(run) == Len(run.scenario.steps) - Len(run.results)

\* How far the end of a request is on each level of the stack: on level 0 for the request
\* itself, on the others for a run.  A level below the innermost waits for what it dispatched.
Level(th, d) ==
    (IF d = 0 THEN 6 ELSE 6 * Remaining(th.stack[d]))
      - Passed(IF d = Len(th.stack) THEN th.at ELSE "dispatch")

\* The lexicographic order of the levels, the outermost first: levels of a run that has not
\* begun count as farther away than any other.
Nearer(new, old) ==
    \E d \in 0 .. Len(new.stack) :
        /\ \A e \in 0 .. (d - 1) : e <= Len(old.stack) /\ Level(new, e) = Level(old, e)
        /\ d <= Len(old.stack) => Level(new, d) < Level(old, d)

\* A thread without a request.
Over == {"idle", "gone"}

Nears(t) == thread'[t].at \in Over \/ Nearer(thread'[t], thread[t])

\* The outer levels are as they were, and the innermost has come nearer or is new.
LEMMA NearerAt ==
    ASSUME NEW new, NEW old, Len(new.stack) \in Nat, Len(old.stack) \in Nat,
           NEW d \in 0 .. Len(new.stack),
           \A e \in 1 .. (d - 1) : new.stack[e] = old.stack[e],
           \/ d <= Len(old.stack) /\ Level(new, d) < Level(old, d)
           \/ d = Len(old.stack) + 1 /\ old.at = "dispatch"
    PROVE  Nearer(new, old)
  <1>1. ASSUME NEW e \in 0 .. (d - 1)
        PROVE  e <= Len(old.stack) /\ Level(new, e) = Level(old, e)
    <2>1. e <= Len(old.stack) /\ e # Len(new.stack) /\ (e = 0 \/ e \in 1 .. (d - 1))
      OBVIOUS
    <2>2. e # Len(old.stack) \/ old.at = "dispatch"
      OBVIOUS
    <2>3. e # 0 => new.stack[e] = old.stack[e]
      BY <2>1
    <2>4. QED
      BY <2>1, <2>2, <2>3 DEF Level
  <1>2. d <= Len(old.stack) => Level(new, d) < Level(old, d)
    OBVIOUS
  <1>3. QED
    BY <1>1, <1>2 DEF Nearer

\* A thread goes on with what it does on its innermost level.
LEMMA LightNears ==
    ASSUME ThreadInv, NEW t \in Threads, Light(t), Farther(t)
    PROVE  Nears(t)
  <1> DEFINE stack == thread[t].stack
             n == Len(stack)
             high == IF n = 0 THEN 6 ELSE 6 * Remaining(stack[n])
  <1>1. stack \in Seq(Frames) /\ n \in Nat /\ thread'[t].stack = stack
    BY DEF ThreadInv, ThreadOK, Light
  <1>2. high \in Int
    <2>1. n # 0 => stack[n] \in Frames
      BY <1>1
    <2>2. n # 0 => Remaining(stack[n]) \in Int
      BY <2>1 DEF Frames, ScenarioData, Remaining
    <2>3. QED
      BY <2>2
  <1>3. /\ Level(thread[t], n) = high - Passed(thread[t].at)
        /\ Level(thread'[t], n) = high - Passed(thread'[t].at)
    BY <1>1 DEF Level
  <1>4. Passed(thread[t].at) \in Nat /\ Passed(thread'[t].at) \in Nat
    BY DEF Passed
  <1> HIDE DEF stack, n, high
  <1>5. Level(thread'[t], n) < Level(thread[t], n)
    BY <1>2, <1>3, <1>4 DEF Farther
  <1>6. n \in 0 .. n /\ n = Len(thread[t].stack) /\ n = Len(thread'[t].stack)
    BY <1>1 DEF n, stack
  <1>7. Nearer(thread'[t], thread[t])
    BY <1>1, <1>5, <1>6, NearerAt DEF stack
  <1>8. QED
    BY <1>7 DEF Nears

\* A run that a request has begun is nearer than one that has not begun.
LEMMA PushNears ==
    ASSUME NEW new, NEW old, NEW run \in Frames, old.stack \in Seq(Frames),
           new.stack = Append(old.stack, run), old.at = "dispatch"
    PROVE  Nearer(new, old)
  <1> DEFINE stack == old.stack
             n == Len(stack)
  <1>1. stack \in Seq(Frames) /\ new.stack = Append(stack, run)
    OBVIOUS
  <1> HIDE DEF stack
  <1>2. /\ n \in Nat /\ Len(new.stack) = n + 1
        /\ \A e \in 1 .. n : new.stack[e] = stack[e]
    BY <1>1
  <1> HIDE DEF n
  <1>3. n + 1 \in 0 .. Len(new.stack) /\ Len(new.stack) \in Nat
    BY <1>2
  <1>4. \A e \in 1 .. ((n + 1) - 1) : new.stack[e] = old.stack[e]
    BY <1>2 DEF stack
  <1>5. Len(old.stack) = n
    BY DEF n, stack
  <1>6. QED
    BY <1>2, <1>3, <1>4, <1>5, NearerAt

\* One step less remains of a run.
LEMMA JudgeNears ==
    ASSUME NEW new, NEW old, NEW n \in Nat \ {0},
           Len(old.stack) = n, Len(new.stack) = n,
           \A e \in 1 .. (n - 1) : new.stack[e] = old.stack[e],
           NEW run \in Frames, NEW next, run = old.stack[n], next = new.stack[n],
           next.scenario = run.scenario, Len(next.results) = Len(run.results) + 1,
           old.at = "answer", new.at = "step"
    PROVE  Nearer(new, old)
  <1>1. Len(run.scenario.steps) \in Nat /\ Len(run.results) \in Nat
    BY DEF Frames, ScenarioData
  <1>2. Remaining(run) \in Int /\ Remaining(next) = Remaining(run) - 1
    BY <1>1 DEF Remaining
  <1>3. Level(old, n) = 6 * Remaining(run) - 5 /\ Level(new, n) = 6 * Remaining(next) - 0
    BY DEF Level, Passed
  <1>4. Level(new, n) < Level(old, n)
    BY <1>2, <1>3
  <1>5. n \in 0 .. Len(new.stack) /\ n <= Len(old.stack)
    OBVIOUS
  <1>6. QED
    BY <1>4, <1>5, NearerAt

\* The level around a run has its answer.
LEMMA PopNears ==
    ASSUME NEW new, NEW old, old.stack \in Seq(Frames), new.stack \in Seq(Frames),
           Len(old.stack) = Len(new.stack) + 1,
           \A e \in 1 .. Len(new.stack) : new.stack[e] = old.stack[e],
           new.at = "answer"
    PROVE  Nearer(new, old)
  <1> DEFINE n == Len(new.stack)
             high == IF n = 0 THEN 6 ELSE 6 * Remaining(new.stack[n])
  <1>1. n \in Nat /\ Len(old.stack) = n + 1
    OBVIOUS
  <1>2. high \in Int
    <2>1. n # 0 => new.stack[n] \in Frames
      OBVIOUS
    <2>2. n # 0 => Remaining(new.stack[n]) \in Int
      BY <2>1 DEF Frames, ScenarioData, Remaining
    <2>3. QED
      BY <2>2
  <1>3. n # 0 => new.stack[n] = old.stack[n]
    BY <1>1
  <1>4. Level(new, n) = high - 5 /\ Level(old, n) = high - 1
    BY <1>1, <1>3 DEF Level, Passed
  <1> HIDE DEF high
  <1>5. Level(new, n) < Level(old, n)
    BY <1>2, <1>4
  <1>6. QED
    BY <1>1, <1>5, NearerAt

-----------------------------------------------------------------------------
(***************************************************************************)
(* Every step keeps the runs of every thread begun and unfinished.         *)
(***************************************************************************)

\* An idle thread has no runs.
LEMMA IdleOK == ThreadOK(Idle)
  <1>1. /\ DOMAIN Idle = Fields /\ Idle.at = "idle" /\ Idle.stack = <<>>
    BY DEF Idle, Fields
  <1>2. /\ <<>> \in Seq(Frames) /\ Len(<<>>) = 0 /\ DOMAIN <<>> = {}
    OBVIOUS
  <1>3. QED
    BY <1>1, <1>2, ScenarioAssumption DEF ThreadOK

\* It is enough to look at the thread that steps.
LEMMA OneThread ==
    ASSUME ThreadInv, NEW t \in Threads, Others(t), ThreadOK(thread'[t]),
           \A w \in wire' : w.req \in Requests
    PROVE  ThreadInv'
  <1>1. \A u \in Threads : ThreadOK(thread[u])'
    <2> SUFFICES ASSUME NEW u \in Threads PROVE ThreadOK(thread[u])'
      OBVIOUS
    <2>1. CASE u = t
      BY <2>1 DEF ThreadOK
    <2>2. CASE u # t
      <3>1. thread'[u] = thread[u] /\ ThreadOK(thread[u])
        BY <2>2 DEF Others, ThreadInv
      <3>2. QED
        BY <3>1 DEF ThreadOK
    <2>3. QED
      BY <2>1, <2>2
  <1>2. QED
    BY <1>1 DEF ThreadInv, Others

\* A thread whose runs stay as they are.
LEMMA LightKeeps ==
    ASSUME ThreadInv, NEW t \in Threads, Light(t), \A w \in wire' : w.req \in Requests
    PROVE  ThreadInv'
  <1>1. ThreadOK(thread[t])
    BY DEF ThreadInv
  <1>2. ThreadOK(thread'[t])
    BY <1>1 DEF ThreadOK, Light
  <1>3. QED
    BY <1>2, OneThread DEF Light

\* An answer leaves the handler.
LEMMA LeaveKeeps ==
    ASSUME ThreadInv, NEW t \in Threads, Leave(t)
    PROVE  ThreadInv'
  <1>1. /\ DOMAIN thread' = Threads /\ UNCHANGED wire
        /\ \A u \in Threads : thread'[u] = IF u = t THEN Idle
                    ELSE IF thread[u].at = "proxy" /\ thread[u].ticket = thread[t].client
                    THEN [thread[u] EXCEPT !.at = "proxied", !.answer = thread[t].answer]
                    ELSE thread[u]
    BY DEF Leave
  <1>2. ASSUME NEW u \in Threads PROVE ThreadOK(thread[u])'
    <2>1. ThreadOK(thread[u]) /\ DOMAIN thread[u] = Fields
      BY DEF ThreadInv, ThreadOK
    <2>2. CASE thread'[u] = Idle
      BY <2>2, IdleOK DEF ThreadOK
    <2>3. CASE thread'[u] = thread[u]
      BY <2>1, <2>3 DEF ThreadOK
    <2>4. CASE /\ thread[u].at = "proxy"
               /\ thread'[u] = [thread[u] EXCEPT !.at = "proxied", !.answer = thread[t].answer]
      <3>1. /\ DOMAIN thread'[u] = Fields /\ thread'[u].at = "proxied"
            /\ thread'[u].stack = thread[u].stack
        BY <2>1, <2>4 DEF Fields
      <3>2. QED
        BY <2>1, <2>4, <3>1 DEF ThreadOK
    <2>5. QED
      BY <1>1, <2>2, <2>3, <2>4
  <1>3. QED
    BY <1>1, <1>2 DEF ThreadInv

\* A run begins, unless there is no such scenario or no room for one more run.
LEMMA StartKeeps ==
    ASSUME StoreInv, ThreadInv, NEW t \in Threads, Start(t)
    PROVE  ThreadInv' /\ (Others(t) /\ thread'[t].at # "decide") /\ Nears(t)
  <1>1. /\ DOMAIN thread = Threads /\ ThreadOK(thread[t]) /\ DOMAIN thread[t] = Fields
        /\ UNCHANGED wire /\ \A w \in wire : w.req \in Requests
    BY DEF ThreadInv, ThreadOK, Start
  <1>2. thread[t].at = "dispatch" /\ thread[t].now.kind = "run"
    BY DEF Start, At
  <1>3. thread[t].now.id \in Ids /\ thread[t].now.seed \in Nat
    <2>1. thread[t].now \in Sent
      BY <1>1, <1>2 DEF ThreadOK
    <2>2. QED
      BY <1>2, <2>1, SentFacts
  <1> DEFINE stack == thread[t].stack
             scenario == scenarios[thread[t].now.id]
             run == [id |-> thread[t].now.id, scenario |-> scenario,
                     seed |-> thread[t].now.seed, results |-> <<>>]
  <1>4. CASE Light(t) /\ Farther(t) /\ thread'[t].at # "decide"
    BY <1>1, <1>4, LightKeeps, LightNears DEF Light
  <1>5. CASE /\ scenario # None /\ Len(stack) # MaxDepth
             /\ thread' = [thread EXCEPT ![t].at = "step", ![t].stack = Append(@, run)]
    <2>1. scenario \in ScenarioData
      BY <1>3, <1>5 DEF StoreInv, ScenariosOK
    <2>2. run \in Frames /\ Begun(run)
      BY <1>3, <2>1, BeginFacts
    <2> HIDE DEF run
    <2>3. /\ stack \in Seq(Frames) /\ Len(stack) <= MaxDepth /\ Len(stack) \in Nat
          /\ \A d \in DOMAIN stack : Begun(stack[d]) /\ Unfinished(stack[d])
      BY <1>1, <1>2, EmptyFacts DEF ThreadOK
    <2>4. /\ DOMAIN thread' = Threads /\ \A u \in Threads \ {t} : thread'[u] = thread[u]
          /\ thread'[t] = [thread[t] EXCEPT !.at = "step", !.stack = Append(@, run)]
      BY <1>1, <1>5
    <2>5. /\ DOMAIN thread'[t] = Fields /\ thread'[t].at = "step"
          /\ thread'[t].stack = Append(stack, run)
      BY <1>1, <2>4 DEF Fields
    <2> HIDE DEF stack
    <2>6. /\ Append(stack, run) \in Seq(Frames) /\ Len(Append(stack, run)) = Len(stack) + 1
          /\ DOMAIN Append(stack, run) = DOMAIN stack \union {Len(stack) + 1}
          /\ \A d \in DOMAIN stack : Append(stack, run)[d] = stack[d]
          /\ Append(stack, run)[Len(stack) + 1] = run /\ Append(stack, run) # <<>>
      BY <2>2, <2>3, AppendFacts
    <2>7. Len(stack) + 1 <= MaxDepth
      BY <1>5, <2>3, ScenarioAssumption DEF stack
    <2>8. ThreadOK(thread'[t])
      BY <2>2, <2>3, <2>5, <2>6, <2>7 DEF ThreadOK
    <2>9. Nears(t)
      <3>1. thread[t].stack \in Seq(Frames) /\ thread[t].at = "dispatch"
        BY <1>2, <2>3 DEF stack
      <3>2. thread'[t].stack = Append(thread[t].stack, run)
        BY <2>5 DEF stack
      <3>3. QED
        BY <2>2, <3>1, <3>2, PushNears DEF Nears
    <2>10. QED
      BY <1>1, <2>4, <2>5, <2>8, <2>9, OneThread DEF Others
  <1>6. CASE scenario = None \/ Len(stack) = MaxDepth
    <2>1. (\E answer : Replies(t, answer)) \/ Raises(t, stack)
      BY <1>6 DEF Start
    <2>2. thread[t].at # "step"
      BY <1>2
    <2>3. Light(t) /\ Farther(t) /\ thread'[t].at # "decide"
      BY <1>2, <2>1, <2>2, Replied, Raised DEF Farther, Passed
    <2>4. QED
      BY <1>4, <2>3
  <1>7. QED
    BY <1>5, <1>6 DEF Start

\* The request of the next step is dispatched.
LEMMA StepKeeps ==
    ASSUME ThreadInv, NEW t \in Threads, Step(t)
    PROVE  ThreadInv' /\ (Others(t) /\ thread'[t].at # "decide") /\ Nears(t)
  <1> DEFINE stack == thread[t].stack
             step == StepOf(Top(t))
             now == IF step.target = "local" THEN step.req
                    ELSE [kind |-> "target", target |-> step.target, req |-> step.req]
  <1>1. /\ DOMAIN thread = Threads /\ ThreadOK(thread[t]) /\ DOMAIN thread[t] = Fields
        /\ UNCHANGED wire /\ \A w \in wire : w.req \in Requests
    BY DEF ThreadInv, ThreadOK, Step
  <1>2. /\ thread[t].at = "step" /\ Unfinished(Top(t))
        /\ thread' = [thread EXCEPT ![t].at = "dispatch", ![t].now = now]
    BY DEF Step, Unfinished
  <1>3. /\ stack \in Seq(Frames) /\ stack # <<>> /\ Len(stack) \in Nat
        /\ Len(stack) \in DOMAIN stack /\ DOMAIN stack = 1 .. Len(stack)
    BY <1>1, <1>2 DEF ThreadOK
  <1>4. Top(t) = stack[Len(stack)] /\ Top(t) \in Frames /\ Begun(Top(t))
    BY <1>1, <1>3 DEF Top, ThreadOK
  <1>5. step \in Steps
    BY <1>2, <1>4, NextFacts
  <1>6. now \in Sent
    BY <1>5 DEF Steps, Sent
  <1> HIDE DEF now, step
  <1>7. /\ DOMAIN thread' = Threads /\ \A u \in Threads \ {t} : thread'[u] = thread[u]
        /\ thread'[t] = [thread[t] EXCEPT !.at = "dispatch", !.now = now]
    BY <1>1, <1>2
  <1>8. /\ DOMAIN thread'[t] = Fields /\ thread'[t].at = "dispatch"
        /\ thread'[t].stack = stack /\ thread'[t].now = now
    BY <1>1, <1>7 DEF Fields
  <1>9. \A d \in DOMAIN stack : Unfinished(stack[d])
    <2> SUFFICES ASSUME NEW d \in DOMAIN stack PROVE Unfinished(stack[d])
      OBVIOUS
    <2>1. CASE d < Len(stack)
      BY <1>1, <2>1 DEF ThreadOK
    <2>2. CASE d = Len(stack)
      BY <1>2, <1>4, <2>2
    <2>3. QED
      BY <1>3, <2>1, <2>2
  <1>10. ThreadOK(thread'[t])
    BY <1>1, <1>6, <1>8, <1>9 DEF ThreadOK
  <1>11. Nears(t)
    <2>1. Level(thread'[t], Len(stack)) < Level(thread[t], Len(stack))
      <3>1. Remaining(stack[Len(stack)]) \in Int
        BY <1>4 DEF Frames, ScenarioData, Remaining
      <3>2. Len(stack) # 0
        BY <1>3
      <3>3. /\ Level(thread[t], Len(stack)) = 6 * Remaining(stack[Len(stack)]) - 0
            /\ Level(thread'[t], Len(stack)) = 6 * Remaining(stack[Len(stack)]) - 1
        BY <1>2, <1>8, <3>2 DEF Level, Passed
      <3>4. QED
        BY <3>1, <3>3
    <2>2. QED
      BY <1>3, <1>8, <2>1, NearerAt DEF Nears
  <1>12. QED
    BY <1>1, <1>7, <1>8, <1>10, <1>11, OneThread DEF Others

\* The answer to it becomes the next result.
LEMMA JudgeKeeps ==
    ASSUME ThreadInv, NEW t \in Threads, Judge(t)
    PROVE  ThreadInv' /\ (Others(t) /\ thread'[t].at # "decide") /\ Nears(t)
  <1> DEFINE stack == thread[t].stack
             n == Len(stack)
             run == Top(t)
             result == Judged(StepOf(run), thread[t].answer, run.seed, Len(run.results))
             next == [run EXCEPT !.results = Append(@, result)]
             after == [stack EXCEPT ![n] = next]
  <1>1. /\ DOMAIN thread = Threads /\ ThreadOK(thread[t]) /\ DOMAIN thread[t] = Fields
        /\ UNCHANGED wire /\ \A w \in wire : w.req \in Requests
    BY DEF ThreadInv, ThreadOK, Judge
  <1>2. /\ thread[t].at = "answer" /\ stack # <<>>
        /\ thread' = [thread EXCEPT ![t].at = "step", ![t].answer = None, ![t].now = None,
                          ![t].stack[Len(thread[t].stack)].results = Append(@, result)]
    BY DEF Judge
  <1>3. /\ stack \in Seq(Frames) /\ n \in Nat /\ n \in DOMAIN stack /\ DOMAIN stack = 1 .. n
        /\ n <= MaxDepth
    BY <1>1, <1>2 DEF ThreadOK
  <1>4. run = stack[n] /\ run \in Frames /\ Begun(run) /\ Unfinished(run)
    BY <1>1, <1>2, <1>3 DEF Top, ThreadOK
  <1>5. next \in Frames /\ Begun(next)
    BY <1>4, JudgeFacts
  <1>r. next.scenario = run.scenario /\ Len(next.results) = Len(run.results) + 1
    <2>1. run.results \in Seq(Results) /\ next.results = Append(run.results, result)
      BY <1>4 DEF Frames
    <2>2. Len(next.results) = Len(run.results) + 1
      <3> HIDE DEF result, next
      <3>1. QED
        BY <2>1
    <2>3. QED
      BY <1>4, <2>2 DEF Frames
  <1> HIDE DEF result
  <1>6. thread' = [thread EXCEPT ![t] = [thread[t] EXCEPT !.at = "step", !.answer = None,
                      !.now = None, !.stack[n].results = Append(@, result)]]
    BY <1>2
  <1>7. /\ DOMAIN thread' = Threads /\ \A u \in Threads \ {t} : thread'[u] = thread[u]
        /\ thread'[t] = [thread[t] EXCEPT !.at = "step", !.answer = None,
                            !.now = None, !.stack[n].results = Append(@, result)]
    BY <1>1, <1>6
  <1>8. /\ DOMAIN thread'[t] = Fields /\ thread'[t].at = "step"
        /\ thread'[t].stack = [stack EXCEPT ![n].results = Append(@, result)]
    BY <1>1, <1>7 DEF Fields
  <1>9. [stack EXCEPT ![n].results = Append(@, result)] = after
    BY <1>4
  <1> HIDE DEF next
  <1>10. /\ after \in Seq(Frames) /\ Len(after) = n /\ DOMAIN after = DOMAIN stack
         /\ after[n] = next /\ \A d \in DOMAIN stack : d # n => after[d] = stack[d]
    BY <1>3, <1>5
  <1> HIDE DEF after, run
  <1>11. \A d \in DOMAIN stack : Begun(stack[d]) /\ Unfinished(stack[d])
    BY <1>1, <1>2 DEF ThreadOK
  <1> HIDE DEF stack, n
  <1>12. \A d \in DOMAIN after : Begun(after[d]) /\ (d < Len(after) => Unfinished(after[d]))
    BY <1>3, <1>5, <1>10, <1>11
  <1>13. after # <<>>
    BY <1>3, <1>10
  <1>14. thread'[t].stack = after
    BY <1>8, <1>9
  <1>15. ThreadOK(thread'[t])
    BY <1>3, <1>8, <1>10, <1>12, <1>13, <1>14 DEF ThreadOK
  <1>16. Nears(t)
    <2>1. Len(thread[t].stack) = n /\ Len(thread'[t].stack) = n
      BY <1>10, <1>14 DEF n, stack
    <2>2. \A e \in 1 .. (n - 1) : thread'[t].stack[e] = thread[t].stack[e]
      <3>1. \A e \in 1 .. (n - 1) : e \in DOMAIN stack /\ e # n
        BY <1>3
      <3>2. \A e \in 1 .. (n - 1) : after[e] = stack[e]
        BY <1>10, <3>1
      <3>3. QED
        BY <1>14, <3>2 DEF stack
    <2>3. run = thread[t].stack[n] /\ next = thread'[t].stack[n]
      BY <1>4, <1>10, <1>14 DEF stack
    <2>4. n \in Nat \ {0} /\ run \in Frames
      BY <1>3, <1>4
    <2>5. thread[t].at = "answer" /\ thread'[t].at = "step"
      BY <1>2, <1>8
    <2> DEFINE old == thread[t]
               new == thread'[t]
    <2>6. /\ Len(old.stack) = n /\ Len(new.stack) = n /\ old.at = "answer" /\ new.at = "step"
          /\ \A e \in 1 .. (n - 1) : new.stack[e] = old.stack[e]
          /\ run = old.stack[n] /\ next = new.stack[n]
      BY <2>1, <2>2, <2>3, <2>5
    <2> HIDE DEF old, new
    <2>7. Nearer(new, old)
      BY <1>r, <2>4, <2>6, JudgeNears
    <2>8. QED
      BY <2>7 DEF Nears, old, new
  <1>17. QED
    BY <1>1, <1>7, <1>8, <1>15, <1>16, OneThread DEF Others

\* The innermost run is at its end, and the one around it goes on.
LEMMA FinishKeeps ==
    ASSUME ThreadInv, NEW t \in Threads, Finish(t)
    PROVE  ThreadInv' /\ (Others(t) /\ thread'[t].at # "decide") /\ Nears(t)
  <1> DEFINE stack == thread[t].stack
             below == SubSeq(stack, 1, Len(stack) - 1)
  <1>1. /\ DOMAIN thread = Threads /\ ThreadOK(thread[t]) /\ DOMAIN thread[t] = Fields
        /\ UNCHANGED wire /\ \A w \in wire : w.req \in Requests
    BY DEF ThreadInv, ThreadOK, Finish
  <1>2. thread[t].at = "step"
    BY DEF Finish
  <1>3. /\ stack \in Seq(Frames) /\ stack # <<>> /\ Len(stack) <= MaxDepth
        /\ DOMAIN stack = 1 .. Len(stack)
    BY <1>1, <1>2 DEF ThreadOK
  <1>b. \A d \in DOMAIN stack : Begun(stack[d])
    BY <1>1, <1>2 DEF ThreadOK
  <1>u. \A d \in DOMAIN stack : d < Len(stack) => Unfinished(stack[d])
    BY <1>1, <1>2 DEF ThreadOK
  <1>4. \/ thread' = [thread EXCEPT ![t].at = "answer", ![t].answer = Done, ![t].stack = below]
        \/ Raises(t, below)
    BY DEF Finish
  <1> HIDE DEF stack
  <1>5. /\ below \in Seq(Frames) /\ Len(below) = Len(stack) - 1 /\ Len(below) \in Nat
        /\ Len(stack) \in Nat \ {0} /\ DOMAIN below = 1 .. (Len(stack) - 1)
        /\ \A d \in DOMAIN below : below[d] = stack[d]
    BY <1>3, FrontFacts
  <1> HIDE DEF below
  <1>6. \A d \in DOMAIN below : Begun(below[d]) /\ Unfinished(below[d])
    <2> SUFFICES ASSUME NEW d \in DOMAIN below PROVE Begun(below[d]) /\ Unfinished(below[d])
      OBVIOUS
    <2>1. d \in DOMAIN stack /\ d < Len(stack) /\ below[d] = stack[d]
      BY <1>3, <1>5
    <2>2. Begun(stack[d])
      BY <1>b, <2>1
    <2>3. Unfinished(stack[d])
      BY <1>u, <2>1
    <2>4. QED
      BY <2>1, <2>2, <2>3
  <1>7. Len(below) <= MaxDepth
    BY <1>3, <1>5, ScenarioAssumption
  <1>8. /\ Others(t) /\ DOMAIN thread'[t] = Fields
        /\ thread'[t].at \in {"answer", "gone"} /\ thread'[t].stack = below
    <2>1. CASE thread' = [thread EXCEPT ![t].at = "answer", ![t].answer = Done,
                             ![t].stack = below]
      <3>1. /\ DOMAIN thread' = Threads /\ \A u \in Threads \ {t} : thread'[u] = thread[u]
            /\ thread'[t] = [thread[t] EXCEPT !.at = "answer", !.answer = Done, !.stack = below]
        BY <1>1, <2>1
      <3>2. /\ DOMAIN thread'[t] = Fields /\ thread'[t].at = "answer"
            /\ thread'[t].stack = below
        BY <1>1, <3>1 DEF Fields
      <3>3. QED
        BY <3>1, <3>2 DEF Others
    <2>2. CASE Raises(t, below) /\ below = <<>>
      <3>1. /\ DOMAIN thread' = Threads /\ \A u \in Threads \ {t} : thread'[u] = thread[u]
            /\ thread'[t] = [Idle EXCEPT !.at = "gone"]
        BY <1>1, <2>2 DEF Raises
      <3>2. /\ DOMAIN thread'[t] = Fields /\ thread'[t].at = "gone"
            /\ thread'[t].stack = <<>>
        BY <3>1 DEF Idle, Fields
      <3>3. QED
        BY <2>2, <3>1, <3>2 DEF Others
    <2>3. CASE Raises(t, below) /\ below # <<>>
      <3>1. /\ DOMAIN thread' = Threads /\ \A u \in Threads \ {t} : thread'[u] = thread[u]
            /\ thread'[t] = [thread[t] EXCEPT !.at = "answer", !.answer = Refusal(502),
                                              !.stack = below]
        BY <1>1, <2>3 DEF Raises
      <3>2. /\ DOMAIN thread'[t] = Fields /\ thread'[t].at = "answer"
            /\ thread'[t].stack = below
        BY <1>1, <3>1 DEF Fields
      <3>3. QED
        BY <3>1, <3>2 DEF Others
    <2>4. QED
      BY <1>4, <2>1, <2>2, <2>3
  <1>9. ThreadOK(thread'[t])
    BY <1>5, <1>6, <1>7, <1>8 DEF ThreadOK
  <1>10. Nears(t)
    <2>1. /\ thread[t].stack \in Seq(Frames) /\ thread'[t].stack \in Seq(Frames)
          /\ Len(thread[t].stack) = Len(thread'[t].stack) + 1
      BY <1>3, <1>5, <1>8 DEF stack
    <2>2. \A e \in 1 .. Len(thread'[t].stack) : thread'[t].stack[e] = thread[t].stack[e]
      BY <1>5, <1>8 DEF stack
    <2>3. QED
      BY <1>8, <2>1, <2>2, PopNears DEF Nears, Over
  <1>11. QED
    BY <1>1, <1>8, <1>9, <1>10, OneThread

\* Every step of a thread, and a restart, which leaves all of them idle.
LEMMA ThreadStep == StoreInv /\ ThreadInv /\ [Next]_vars => ThreadInv'
  <1> SUFFICES ASSUME StoreInv, ThreadInv, [Next]_vars PROVE ThreadInv'
    OBVIOUS
  <1>1. CASE UNCHANGED vars
    BY <1>1 DEF vars, ThreadInv, ThreadOK
  <1>2. CASE Restart
    <2>1. DOMAIN thread' = Threads /\ wire' = {} /\ \A t \in Threads : thread'[t] = Idle
      BY <1>2 DEF Restart
    <2>2. \A t \in Threads : ThreadOK(thread[t])'
      BY <2>1, IdleOK DEF ThreadOK
    <2>3. QED
      BY <2>1, <2>2 DEF ThreadInv
  <1>3. \A w \in wire : w.req \in Requests
    BY DEF ThreadInv
  <1>4. ASSUME NEW t \in Threads, Stores(t) PROVE ThreadInv'
    BY <1>3, <1>4, StoresLight, LightKeeps
  <1>5. ASSUME NEW t \in Threads, Incidents(t) PROVE ThreadInv'
    BY <1>3, <1>5, IncidentsLight, LightKeeps DEF Incidents
  <1>6. ASSUME NEW t \in Threads, Proxy(t) PROVE ThreadInv'
    BY <1>6, ProxyLight, LightKeeps
  <1>7. ASSUME NEW t \in Threads, Running(t) PROVE ThreadInv'
    BY <1>7, StartKeeps, StepKeeps, JudgeKeeps, FinishKeeps DEF Running
  <1>8. ASSUME NEW t \in Threads, TakeFromWire(t) \/ \E r \in Requests : Send(t, r)
        PROVE  ThreadInv'
    BY <1>8, ArrivalLight, LightKeeps
  <1>9. QED
    BY <1>1, <1>2, <1>4, <1>5, <1>6, <1>7, <1>8, LeaveKeeps DEF Next, Handle

-----------------------------------------------------------------------------
(***************************************************************************)
(* Every step keeps the stores and the files in order.                     *)
(***************************************************************************)

\* A new name, or the old one, and room for it keep a store in order; so does a removal.
LEMMA PutInOrder ==
    ASSUME NEW f, NEW max \in Nat, InOrder(f, max), NEW id \in DOMAIN f, NEW item,
           item # None => ~Named(f, item.name, id),
           item # None => f[id] # None \/ Cardinality(Defined(f)) < max
    PROVE  InOrder([f EXCEPT ![id] = item], max)
  <1> DEFINE g == [f EXCEPT ![id] = item]
  <1>1. DOMAIN g = DOMAIN f /\ g[id] = item /\ \A i \in DOMAIN f : i # id => g[i] = f[i]
    OBVIOUS
  <1> HIDE DEF g
  <1>2. IsFiniteSet(Defined(f)) /\ Cardinality(Defined(f)) \in Nat
        /\ Cardinality(Defined(f)) <= max
    BY FS_CardinalityType DEF InOrder
  <1>3. CASE item = None \/ f[id] # None
    <2>1. Defined(g) \subseteq Defined(f)
      BY <1>1, <1>3 DEF Defined
    <2>2. IsFiniteSet(Defined(g)) /\ Cardinality(Defined(g)) <= Cardinality(Defined(f))
      BY <1>2, <2>1, FS_Subset
    <2>3. IsFiniteSet(Defined(g)) /\ Cardinality(Defined(g)) <= max
      BY <1>2, <2>2, FS_CardinalityType
    <2>4. \A i, j \in Defined(g) : g[i].name = g[j].name => i = j
      BY <1>1 DEF InOrder, Defined, Named
    <2>5. QED
      BY <2>3, <2>4 DEF InOrder, g
  <1>4. CASE item # None /\ f[id] = None
    <2>1. Defined(g) = Defined(f) \union {id} /\ id \notin Defined(f)
      BY <1>1, <1>4 DEF Defined
    <2>2. /\ IsFiniteSet(Defined(f) \union {id})
          /\ Cardinality(Defined(f) \union {id}) = Cardinality(Defined(f)) + 1
      BY <1>2, <2>1, FS_AddElement
    <2>3. Cardinality(Defined(f)) < max
      BY <1>4
    <2>4. IsFiniteSet(Defined(g)) /\ Cardinality(Defined(g)) <= max
      BY <1>2, <2>1, <2>2, <2>3
    <2>5. \A i, j \in Defined(g) : g[i].name = g[j].name => i = j
      BY <1>1, <1>4 DEF InOrder, Defined, Named
    <2>6. QED
      BY <2>4, <2>5 DEF InOrder, g
  <1>5. QED
    BY <1>3, <1>4

\* Numbers that are given later are above those that have been given.
LEMMA RunsLater ==
    ASSUME NEW rs, NEW last \in Nat, NEW later \in Nat, last <= later, RunsOK(rs, last)
    PROVE  RunsOK(rs, later)
  <1>1. \A k \in DOMAIN rs : rs[k].number \in Int
    <2>1. \A k \in DOMAIN rs : rs[k] \in Reports
      BY EmptyFacts DEF RunsOK
    <2>2. QED
      BY <2>1 DEF Reports
  <1>2. \A k \in DOMAIN rs : rs[k].number <= later
    BY <1>1 DEF RunsOK
  <1>3. QED
    BY <1>2 DEF RunsOK

\* A step may change memory, and bring the file in line with it.
LEMMA StoreKept ==
    ASSUME StoreInv, made' \in Nat, made <= made',
           ScenariosOK(scenarios'), TargetsOK(targets'), RunsOK(runs', made'),
           index' = Lists(runs'), DOMAIN files' = {"scenarios", "runs", "targets"},
           files'.scenarios \in {files.scenarios, scenarios, scenarios'},
           files'.targets \in {files.targets, targets, targets'},
           files'.runs \in {files.runs, runs, runs'}
    PROVE  StoreInv'
  <1>1. ScenariosOK(files'.scenarios)
    BY DEF StoreInv
  <1>2. TargetsOK(files'.targets)
    BY DEF StoreInv
  <1>3. RunsOK(files'.runs, made')
    BY RunsLater DEF StoreInv
  <1>4. QED
    BY <1>1, <1>2, <1>3 DEF StoreInv, ScenariosOK, TargetsOK, RunsOK

\* A scenario is set or removed.
LEMMA ScenarioChange ==
    ASSUME StoreInv, NEW id \in Ids, NEW item \in ScenarioData \union {None},
           item # None => ~Named(scenarios, item.name, id),
           item # None => scenarios[id] # None \/ Cardinality(Defined(scenarios)) < MaxScenarios,
           scenarios' = [scenarios EXCEPT ![id] = item]
    PROVE  ScenariosOK(scenarios')
  <1>1. /\ scenarios \in [Ids -> ScenarioData \union {None}]
        /\ InOrder(scenarios, MaxScenarios) /\ MaxScenarios \in Nat
    BY ScenarioAssumption DEF StoreInv, ScenariosOK
  <1>2. InOrder([scenarios EXCEPT ![id] = item], MaxScenarios)
    BY <1>1, PutInOrder
  <1>3. QED
    BY <1>1, <1>2 DEF ScenariosOK

\* A target is set or removed.
LEMMA TargetChange ==
    ASSUME StoreInv, NEW id \in Targets, NEW item,
           item # None => ~Named(targets, item.name, id),
           item # None => targets[id] # None \/ Cardinality(Defined(targets)) < MaxTargets,
           targets' = [targets EXCEPT ![id] = item]
    PROVE  TargetsOK(targets')
  <1>1. DOMAIN targets = Targets /\ InOrder(targets, MaxTargets) /\ MaxTargets \in Nat
    BY ScenarioAssumption DEF StoreInv, TargetsOK
  <1>2. InOrder([targets EXCEPT ![id] = item], MaxTargets)
    BY <1>1, PutInOrder
  <1>3. QED
    BY <1>1, <1>2 DEF TargetsOK

\* A step that leaves the stores alone.
LEMMA StoresSame == StoreInv /\ UNCHANGED <<stores, made>> => StoreInv'
  BY DEF stores, StoreInv, ScenariosOK, TargetsOK, RunsOK

\* The scenarios change, the runs do not: both are saved.
LEMMA ScenarioSet ==
    ASSUME StoreInv, NEW t \in Threads, NEW s \in Ids, NEW new \in ScenarioData,
           ~Named(scenarios, new.name, s),
           scenarios[s] # None \/ Cardinality(Defined(scenarios)) < MaxScenarios,
           SetScenario(t, s, new), UNCHANGED made
    PROVE  StoreInv'
  <1>1. /\ scenarios' = [scenarios EXCEPT ![s] = new]
        /\ files' = [files EXCEPT !.scenarios = scenarios', !.runs = runs]
        /\ UNCHANGED <<runs, index, targets>>
    BY DEF SetScenario, SaveScenarios
  <1>2. ScenariosOK(scenarios')
    BY <1>1, ScenarioChange
  <1>3. /\ DOMAIN files = {"scenarios", "runs", "targets"}
        /\ made \in Nat /\ TargetsOK(targets) /\ RunsOK(runs, made) /\ index = Lists(runs)
    BY DEF StoreInv
  <1>4. /\ DOMAIN files' = {"scenarios", "runs", "targets"}
        /\ files'.scenarios = scenarios' /\ files'.runs = runs /\ files'.targets = files.targets
    BY <1>1, <1>3
  <1>5. TargetsOK(targets') /\ RunsOK(runs', made') /\ index' = Lists(runs')
    BY <1>1, <1>3
  <1>6. QED
    BY <1>2, <1>3, <1>4, <1>5, StoreKept

\* A target is set or removed, and the targets are saved.
LEMMA TargetSet ==
    ASSUME StoreInv, NEW t \in Threads, NEW id \in Targets, NEW item,
           item # None => ~Named(targets, item.name, id),
           item # None => targets[id] # None \/ Cardinality(Defined(targets)) < MaxTargets,
           SetTarget(t, id, item), UNCHANGED made
    PROVE  StoreInv'
  <1>1. /\ targets' = [targets EXCEPT ![id] = item]
        /\ files' = [files EXCEPT !.targets = targets']
        /\ UNCHANGED <<scenarios, runs, index>>
    BY DEF SetTarget, SaveTargets
  <1>2. TargetsOK(targets')
    BY <1>1, TargetChange
  <1>3. /\ DOMAIN files = {"scenarios", "runs", "targets"}
        /\ made \in Nat /\ ScenariosOK(scenarios) /\ RunsOK(runs, made) /\ index = Lists(runs)
    BY DEF StoreInv
  <1>4. /\ DOMAIN files' = {"scenarios", "runs", "targets"}
        /\ files'.scenarios = files.scenarios /\ files'.runs = files.runs
        /\ files'.targets = targets'
    BY <1>1, <1>3
  <1>5. ScenariosOK(scenarios') /\ RunsOK(runs', made') /\ index' = Lists(runs')
    BY <1>1, <1>3
  <1>6. QED
    BY <1>2, <1>3, <1>4, <1>5, StoreKept

\* A scenario goes, with its runs.
LEMMA DeleteKeeps ==
    ASSUME StoreInv, ThreadInv, NEW t \in Threads, Delete(t), UNCHANGED made
    PROVE  StoreInv'
  <1> DEFINE s == thread[t].now.id
  <1>1. s \in Ids
    <2>1. thread[t].now \in Sent /\ thread[t].now.kind = "delete"
      BY DEF Delete, At, ThreadInv, ThreadOK
    <2>2. QED
      BY <2>1, SentFacts
  <1>2. CASE scenarios[s] = None
    <2>1. UNCHANGED <<stores, made>>
      BY <1>2 DEF Delete, Refuse
    <2>2. QED
      BY <2>1, StoresSame
  <1>3. CASE scenarios[s] # None
    <2> DEFINE left == Left(runs, index[s])
    <2>1. /\ scenarios' = [scenarios EXCEPT ![s] = None]
          /\ runs' = left /\ index' = [index EXCEPT ![s] = <<>>]
          /\ files' = [files EXCEPT !.scenarios = scenarios', !.runs = runs']
          /\ UNCHANGED targets
      BY <1>3 DEF Delete, Left, SaveScenarios
    <2>2. /\ DOMAIN files = {"scenarios", "runs", "targets"}
          /\ made \in Nat /\ TargetsOK(targets) /\ RunsOK(runs, made) /\ index = Lists(runs)
      BY DEF StoreInv
    <2>3. /\ runs \in Seq(Reports)
          /\ \A k \in DOMAIN runs : runs[k].number <= made /\ Fits(runs[k])
          /\ \A j, k \in DOMAIN runs : runs[j].number = runs[k].number => j = k
      BY <2>2 DEF RunsOK
    <2> HIDE DEF s, left
    <2>4. /\ left \in Seq(Reports)
          /\ \A n \in DOMAIN left : \E k \in DOMAIN runs : left[n] = runs[k]
          /\ \A j, n \in DOMAIN left : left[j].number = left[n].number => j = n
          /\ Lists(left) = [Lists(runs) EXCEPT ![s] = <<>>]
      <3>1. left = Left(runs, Lists(runs)[s])
        BY <2>2 DEF left
      <3>2. /\ Left(runs, Lists(runs)[s]) \in Seq(Reports)
            /\ \A n \in DOMAIN Left(runs, Lists(runs)[s]) :
                  \E k \in DOMAIN runs : Left(runs, Lists(runs)[s])[n] = runs[k]
            /\ \A j, n \in DOMAIN Left(runs, Lists(runs)[s]) :
                  Left(runs, Lists(runs)[s])[j].number = Left(runs, Lists(runs)[s])[n].number
                    => j = n
            /\ Lists(Left(runs, Lists(runs)[s])) = [Lists(runs) EXCEPT ![s] = <<>>]
        <4>1. /\ runs \in Seq(Reports)
              /\ \A j, k \in DOMAIN runs : runs[j].number = runs[k].number => j = k
          BY <2>3
        <4>2. QED
          BY ONLY <1>1, <4>1, ListsWithout
      <3>3. QED
        BY <3>1, <3>2
    <2>5. \A n \in DOMAIN left : left[n].number <= made /\ Fits(left[n])
      BY <2>3, <2>4
    <2>6. RunsOK(left, made)
      BY <2>4, <2>5 DEF RunsOK
    <2>7. RunsOK(runs', made') /\ index' = Lists(runs') /\ TargetsOK(targets')
      BY <2>1, <2>2, <2>4, <2>6
    <2>8. ScenariosOK(scenarios')
      BY <1>1, <2>1, ScenarioChange
    <2>9. /\ DOMAIN files' = {"scenarios", "runs", "targets"}
          /\ files'.scenarios = scenarios' /\ files'.runs = runs'
          /\ files'.targets = files.targets
      BY <2>1, <2>2
    <2>10. QED
      BY <2>2, <2>7, <2>8, <2>9, StoreKept
  <1>4. QED
    BY <1>2, <1>3

\* Whatever the handlers of the stores do.
LEMMA HandlersKeep ==
    ASSUME StoreInv, ThreadInv, NEW t \in Threads, Stores(t)
    PROVE  StoreInv'
  <1> DEFINE r == thread[t].now
  <1>1. UNCHANGED made
    BY DEF Stores
  <1>2. ASSUME NEW status, Refuse(t, status) PROVE StoreInv'
    BY <1>1, <1>2, StoresSame DEF Refuse
  <1>3. r \in Sent
    BY DEF Stores, Create, Look, Update, Delete, ChangeTargets, CopyTarget, UpdateTarget, At,
           ThreadInv, ThreadOK
  <1>4. Cardinality(Defined(scenarios)) \in Nat /\ Cardinality(Defined(targets)) \in Nat
        /\ DOMAIN scenarios = Ids /\ DOMAIN targets = Targets
        /\ MaxScenarios \in Nat /\ MaxTargets \in Nat /\ None \notin Ids /\ None \notin Targets
    BY ScenarioAssumption, FS_CardinalityType DEF StoreInv, ScenariosOK, TargetsOK, InOrder
  <1>5. CASE Create(t)
    <2>1. r.kind = "create"
      BY <1>5 DEF Create, At
    <2>2. r.id \in Ids /\ r.new \in ScenarioData
      BY <1>3, <2>1, SentFacts
    <2>3. (\E status : Refuse(t, status))
          \/ /\ ~(Cardinality(Defined(scenarios)) >= MaxScenarios)
             /\ scenarios[r.id] = None /\ ~Named(scenarios, r.new.name, None)
             /\ SetScenario(t, r.id, r.new)
      BY <1>5 DEF Create
    <2>4. ~Named(scenarios, r.new.name, None) => ~Named(scenarios, r.new.name, r.id)
      BY <1>4 DEF Named, Defined
    <2> HIDE DEF r
    <2>5. QED
      BY <1>1, <1>2, <1>4, <2>2, <2>3, <2>4, ScenarioSet
  <1>6. CASE Look(t)
    BY <1>1, <1>2, <1>6, StoresSame DEF Look
  <1>7. CASE Update(t)
    <2>1. r.kind = "update"
      BY <1>7 DEF Update, At
    <2>2. r.id \in Ids /\ r.new \in ScenarioData
      BY <1>3, <2>1, SentFacts
    <2>3. (\E status : Refuse(t, status))
          \/ /\ scenarios[r.id] # None /\ ~Named(scenarios, r.new.name, r.id)
             /\ SetScenario(t, r.id, r.new)
      BY <1>7 DEF Update
    <2> HIDE DEF r
    <2>4. QED
      BY <1>1, <1>2, <2>2, <2>3, ScenarioSet
  <1>8. CASE Delete(t)
    BY <1>1, <1>8, DeleteKeeps
  <1>9. CASE ChangeTargets(t)
    <2>1. r.kind \in {"create_target", "delete_target"}
      BY <1>9 DEF ChangeTargets, At
    <2>2. r.id \in Targets
      BY <1>3, <2>1, SentFacts
    <2>3. \/ \E status : Refuse(t, status)
          \/ /\ ~(Cardinality(Defined(targets)) >= MaxTargets)
             /\ targets[r.id] = None /\ ~Named(targets, r.new.name, None)
             /\ SetTarget(t, r.id, r.new)
          \/ SetTarget(t, r.id, None)
      BY <1>9 DEF ChangeTargets
    <2>4. ~Named(targets, r.new.name, None) => ~Named(targets, r.new.name, r.id)
      BY <1>4 DEF Named, Defined
    <2> HIDE DEF r
    <2>5. QED
      BY <1>1, <1>2, <1>4, <2>2, <2>3, <2>4, TargetSet
  <1>10. CASE CopyTarget(t)
    BY <1>1, <1>2, <1>10, StoresSame DEF CopyTarget
  <1>11. CASE UpdateTarget(t)
    <2>1. r.kind = "update_target"
      BY <1>11 DEF UpdateTarget, At
    <2>2. r.id \in Targets
      BY <1>3, <2>1, SentFacts
    <2>3. \/ \E status : Refuse(t, status)
          \/ /\ targets[r.id] # None /\ ~Named(targets, thread[t].copy.name, r.id)
             /\ SetTarget(t, r.id, thread[t].copy)
      BY <1>11 DEF UpdateTarget
    <2> HIDE DEF r
    <2>4. QED
      BY <1>1, <1>2, <2>2, <2>3, TargetSet
  <1>12. QED
    BY <1>5, <1>6, <1>7, <1>8, <1>9, <1>10, <1>11 DEF Stores

\* A run that ends is added to the runs and to the list of its scenario, if it is still
\* there or not, and is saved or not.
LEMMA FinishStores ==
    ASSUME StoreInv, ThreadInv, NEW t \in Threads, Finish(t)
    PROVE  StoreInv'
  <1> DEFINE run == Top(t)
             stack == thread[t].stack
             report == Report(made + 1, run.id, run.scenario, run.results)
  <1>1. /\ thread[t].at = "step" /\ ~Unfinished(run)
        /\ runs' = Append(runs, report)
        /\ index' = [index EXCEPT ![run.id] = Append(@, report.number)]
        /\ files' \in {files, [files EXCEPT !.scenarios = scenarios, !.runs = runs']}
        /\ made' = made + 1 /\ UNCHANGED <<scenarios, targets>>
    BY DEF Finish, Unfinished, SaveScenarios
  <1>2. ThreadOK(thread[t])
    BY DEF ThreadInv
  <1>3. run \in Frames /\ Begun(run)
    <2>1. stack \in Seq(Frames) /\ stack # <<>> /\ \A d \in DOMAIN stack : Begun(stack[d])
      BY <1>1, <1>2 DEF ThreadOK
    <2>2. Len(stack) \in DOMAIN stack /\ stack[Len(stack)] \in Frames
      BY <2>1
    <2>3. QED
      BY <2>1, <2>2 DEF Top
  <1>4. /\ DOMAIN files = {"scenarios", "runs", "targets"} /\ made \in Nat
        /\ ScenariosOK(scenarios) /\ TargetsOK(targets) /\ RunsOK(runs, made)
        /\ index = Lists(runs)
    BY DEF StoreInv
  <1>5. made + 1 \in Int /\ made + 1 \in Nat /\ made <= made + 1
    BY <1>4
  <1>6. /\ report \in Reports /\ Fits(report)
        /\ report.number = made + 1 /\ report.id = run.id
    <2> HIDE DEF run
    <2>1. QED
      BY <1>1, <1>3, <1>5, ReportFacts
  <1> HIDE DEF report, run
  <1>7. Lists(runs') = index'
    <2>1. runs \in Seq(Reports)
      BY <1>4 DEF RunsOK
    <2>2. Lists(Append(runs, report)) = [Lists(runs) EXCEPT ![report.id] =
                                            Append(@, report.number)]
      BY <1>6, <2>1, ListsAppend
    <2>3. QED
      BY <1>1, <1>4, <1>6, <2>2
  <1>8. RunsOK(runs', made')
    <2>1. /\ runs \in Seq(Reports)
          /\ \A k \in DOMAIN runs : runs[k].number <= made /\ Fits(runs[k])
          /\ \A j, k \in DOMAIN runs : runs[j].number = runs[k].number => j = k
      BY <1>4 DEF RunsOK
    <2>2. /\ runs' \in Seq(Reports) /\ DOMAIN runs' = DOMAIN runs \union {Len(runs) + 1}
          /\ \A k \in DOMAIN runs : runs'[k] = runs[k]
          /\ runs'[Len(runs) + 1] = report
      BY <1>1, <1>6, <2>1, AppendFacts
    <2>3. \A k \in DOMAIN runs : runs[k].number \in Int
      <3>1. \A k \in DOMAIN runs : runs[k] \in Reports
        BY <2>1, EmptyFacts
      <3>2. QED
        BY <3>1 DEF Reports
    <2>4. \A k \in DOMAIN runs : runs[k].number # made + 1 /\ runs[k].number <= made + 1
      BY <1>4, <2>1, <2>3
    <2>5. \A k \in DOMAIN runs' : runs'[k].number <= made + 1 /\ Fits(runs'[k])
      BY <1>5, <1>6, <2>1, <2>2, <2>4
    <2>6. \A j, k \in DOMAIN runs' : runs'[j].number = runs'[k].number => j = k
      BY <1>6, <2>1, <2>2, <2>4
    <2>7. QED
      BY <1>1, <2>2, <2>5, <2>6 DEF RunsOK
  <1>9. /\ DOMAIN files' = {"scenarios", "runs", "targets"}
        /\ files'.scenarios \in {files.scenarios, scenarios}
        /\ files'.runs \in {files.runs, runs'} /\ files'.targets = files.targets
    <2>1. CASE files' = files
      BY <1>4, <2>1
    <2>2. CASE files' = [files EXCEPT !.scenarios = scenarios, !.runs = runs']
      BY <1>4, <2>2
    <2>3. QED
      BY <1>1, <2>1, <2>2
  <1>10. ScenariosOK(scenarios') /\ TargetsOK(targets')
    BY <1>1, <1>4
  <1>11. QED
    BY <1>1, <1>5, <1>7, <1>8, <1>9, <1>10, StoreKept

\* The files are loaded again.
LEMMA RestartStores ==
    ASSUME StoreInv, Restart
    PROVE  StoreInv'
  <1>1. /\ scenarios' = files.scenarios /\ runs' = files.runs /\ index' = Lists(runs')
        /\ targets' = files.targets /\ files' = files /\ made' = made
    BY DEF Restart
  <1>2. /\ made \in Nat /\ DOMAIN files = {"scenarios", "runs", "targets"}
        /\ ScenariosOK(files.scenarios) /\ TargetsOK(files.targets) /\ RunsOK(files.runs, made)
    BY DEF StoreInv
  <1>3. ScenariosOK(scenarios') /\ TargetsOK(targets') /\ RunsOK(runs', made')
    BY <1>1, <1>2
  <1>4. QED
    BY <1>1, <1>2, <1>3, StoreKept

\* Every step keeps the stores in order.
LEMMA StoreStep == StoreInv /\ ThreadInv /\ [Next]_vars => StoreInv'
  <1> SUFFICES ASSUME StoreInv, ThreadInv, [Next]_vars PROVE StoreInv'
    OBVIOUS
  <1>1. CASE UNCHANGED vars
    BY <1>1, StoresSame DEF vars, stores, counts
  <1>2. CASE Restart
    BY <1>2, RestartStores
  <1>3. ASSUME NEW t \in Threads, Incidents(t) PROVE StoreInv'
    BY <1>3, StoresSame DEF Incidents, SetIncident, Call, Decide, counts
  <1>4. ASSUME NEW t \in Threads, Proxy(t) PROVE StoreInv'
    BY <1>4, StoresSame DEF Proxy, ToTarget, Proxied, ProxyTimesOut, counts
  <1>5. ASSUME NEW t \in Threads, Running(t) PROVE StoreInv'
    BY <1>5, StoresSame, FinishStores DEF Running, Start, Step, Judge, counts
  <1>6. ASSUME NEW t \in Threads, Leave(t) \/ TakeFromWire(t) \/ \E r \in Requests : Send(t, r)
        PROVE  StoreInv'
    BY <1>6, StoresSame DEF Leave, TakeFromWire, Send, counts
  <1>7. QED
    BY <1>1, <1>2, <1>3, <1>4, <1>5, <1>6, HandlersKeep DEF Next, Handle

-----------------------------------------------------------------------------
(***************************************************************************)
(* Every step keeps the count of disturbed requests bounded.               *)
(***************************************************************************)

\* There are no more strays than threads, and fewer in a part of them.
LEMMA StraysFinite ==
    ASSUME NEW S, S \subseteq Threads, NEW R, R \subseteq S
    PROVE  /\ IsFiniteSet(S) /\ Cardinality(S) \in Nat /\ Cardinality(R) \in Nat
           /\ Cardinality(R) <= Cardinality(S)
  <1>1. IsFiniteSet(S)
    BY ScenarioAssumption, FS_Subset
  <1>2. IsFiniteSet(R) /\ Cardinality(R) <= Cardinality(S)
    BY <1>1, FS_Subset
  <1>3. QED
    BY <1>1, <1>2, FS_CardinalityType

\* The thread that steps decides, if it does, on the current profile.
Current(u) ==
    thread'[u].at = "decide" => \/ thread'[u].copy.epoch = epoch.number
                                \/ thread[u].at = "decide" /\ thread'[u].copy = thread[u].copy

\* Steps that neither count nor install a profile make no strays.
LEMMA CountQuiet ==
    ASSUME CountInv, UNCHANGED <<incident, epoch>>, \A u \in Threads : Current(u)
    PROVE  CountInv'
  <1>1. /\ incident \in [mode : Modes, affected : Nat]
        /\ epoch \in [number : Nat, own : Nat, strays : Nat]
        /\ \A t \in Threads : thread[t].at = "decide" => thread[t].copy.epoch \in 0..epoch.number
        /\ incident.affected + Cardinality(Strays) <= epoch.own + epoch.strays
    BY DEF CountInv
  <1>2. Strays' \subseteq Strays /\ Strays \subseteq Threads
    BY DEF Strays, Current
  <1>3. Cardinality(Strays') <= Cardinality(Strays)
        /\ Cardinality(Strays) \in Nat /\ Cardinality(Strays') \in Nat
    BY <1>2, StraysFinite
  <1>4. ASSUME NEW u \in Threads, thread'[u].at = "decide"
        PROVE  thread'[u].copy.epoch \in 0..epoch.number
    <2>1. CASE thread'[u].copy.epoch = epoch.number
      BY <1>1, <2>1
    <2>2. CASE thread[u].at = "decide" /\ thread'[u].copy = thread[u].copy
      BY <1>1, <2>2
    <2>3. QED
      BY <1>4, <2>1, <2>2 DEF Current
  <1>5. incident.affected + Cardinality(Strays') <= epoch.own + epoch.strays
    BY <1>1, <1>3
  <1>6. QED
    BY <1>1, <1>4, <1>5 DEF CountInv

\* So do those of one thread that leave the others as they are.
LEMMA OneCurrent ==
    ASSUME NEW t \in Threads, Light(t) \/ (Others(t) /\ thread'[t].at # "decide")
    PROVE  \A u \in Threads : Current(u)
  <1> SUFFICES ASSUME NEW u \in Threads PROVE Current(u)
    OBVIOUS
  <1>1. CASE u = t
    BY <1>1 DEF Current, Light
  <1>2. CASE u # t
    BY <1>2 DEF Current, Light, Others
  <1>3. QED
    BY <1>1, <1>2

\* A new profile: the requests under way with the one before are counted as its strays.
LEMMA InstallCounts ==
    ASSUME ThreadInv, CountInv, NEW t \in Threads, SetIncident(t)
    PROVE  CountInv'
  <1> DEFINE Under == {u \in Threads : thread[u].at = "decide"}
             mode == thread[t].now.mode
  <1>1. /\ incident' = [mode |-> mode, affected |-> 0]
        /\ epoch' = [number |-> epoch.number + 1, own |-> 0, strays |-> Cardinality(Under)]
    BY DEF SetIncident, Install
  <1>2. mode \in Modes
    <2>1. thread[t].now \in Sent /\ thread[t].now.kind = "incident"
      BY DEF SetIncident, At, ThreadInv, ThreadOK
    <2>2. QED
      BY <2>1, SentFacts
  <1>3. Others(t) /\ thread'[t].at # "decide"
    BY IncidentsLight DEF Light
  <1>4. /\ epoch.number \in Nat
        /\ \A u \in Threads : thread[u].at = "decide" => thread[u].copy.epoch \in 0..epoch.number
    BY DEF CountInv
  <1>5. \A u \in Threads : thread'[u].at = "decide"
            => thread[u].at = "decide" /\ thread'[u].copy = thread[u].copy
    BY <1>3 DEF Others
  <1>6. Strays' \subseteq Under /\ Under \subseteq Threads
    BY <1>5 DEF Strays
  <1>7. /\ Cardinality(Strays') <= Cardinality(Under)
        /\ Cardinality(Strays') \in Nat /\ Cardinality(Under) \in Nat
    BY <1>6, StraysFinite
  <1> HIDE DEF Under, mode
  <1>8. /\ incident'.affected = 0 /\ incident' \in [mode : Modes, affected : Nat]
        /\ epoch'.number = epoch.number + 1 /\ epoch'.own = 0
        /\ epoch'.strays = Cardinality(Under)
        /\ epoch' \in [number : Nat, own : Nat, strays : Nat]
    BY <1>1, <1>2, <1>4, <1>7
  <1>9. ASSUME NEW u \in Threads, thread'[u].at = "decide"
        PROVE  thread'[u].copy.epoch \in 0..epoch'.number
    <2>1. thread'[u].copy.epoch \in 0..epoch.number
      BY <1>4, <1>5, <1>9
    <2>2. QED
      BY <1>4, <1>8, <2>1
  <1>10. incident'.affected + Cardinality(Strays') <= epoch'.own + epoch'.strays
    BY <1>7, <1>8
  <1>11. QED
    BY <1>8, <1>9, <1>10 DEF CountInv

\* A request that has been decided on: it may count, as one of the current profile's own or
\* as one of the strays, of which there is then one less.
LEMMA DecideCounts ==
    ASSUME ThreadInv, CountInv, NEW t \in Threads, Decide(t)
    PROVE  CountInv'
  <1>1. Others(t) /\ thread'[t].at = "answer"
    BY IncidentsLight DEF Light
  <1>2. /\ incident \in [mode : Modes, affected : Nat]
        /\ epoch \in [number : Nat, own : Nat, strays : Nat]
        /\ \A u \in Threads : thread[u].at = "decide" => thread[u].copy.epoch \in 0..epoch.number
        /\ incident.affected + Cardinality(Strays) <= epoch.own + epoch.strays
    BY DEF CountInv
  <1>3. CASE UNCHANGED <<incident, epoch>>
    BY <1>1, <1>3, OneCurrent, CountQuiet
  <1>4. CASE /\ incident' = [incident EXCEPT !.affected = @ + 1]
             /\ epoch' = [epoch EXCEPT !.own = IF thread[t].copy.epoch = epoch.number
                                               THEN @ + 1 ELSE @]
    <2>1. thread[t].at = "decide"
      BY DEF Decide
    <2>2. Strays \subseteq Threads /\ IsFiniteSet(Strays) /\ Cardinality(Strays) \in Nat
      <3>1. Strays \subseteq Threads
        BY DEF Strays
      <3>2. QED
        BY <3>1, StraysFinite
    <2>3. /\ incident' \in [mode : Modes, affected : Nat]
          /\ incident'.affected = incident.affected + 1
          /\ epoch' \in [number : Nat, own : Nat, strays : Nat]
          /\ epoch'.number = epoch.number /\ epoch'.strays = epoch.strays
          /\ epoch'.own = IF thread[t].copy.epoch = epoch.number THEN epoch.own + 1
                          ELSE epoch.own
      BY <1>2, <1>4
    <2>4. \A u \in Threads : thread'[u].at = "decide"
              => thread[u].at = "decide" /\ thread'[u].copy = thread[u].copy
      BY <1>1 DEF Others
    <2>5. Strays' = Strays \ {t}
      <3>1. t \notin Strays'
        BY <1>1 DEF Strays
      <3>2. \A u \in Threads \ {t} : u \in Strays' <=> u \in Strays
        BY <1>1, <2>3 DEF Strays, Others
      <3>3. Strays' \subseteq Threads /\ Strays \subseteq Threads
        BY DEF Strays
      <3>4. QED
        BY <3>1, <3>2, <3>3
    <2>6. /\ Cardinality(Strays') \in Nat
          /\ Cardinality(Strays') = IF t \in Strays THEN Cardinality(Strays) - 1
                                    ELSE Cardinality(Strays)
      <3>1. IsFiniteSet(Strays') /\ Cardinality(Strays') = IF t \in Strays
                THEN Cardinality(Strays) - 1 ELSE Cardinality(Strays)
        BY <2>2, <2>5, FS_RemoveElement
      <3>2. QED
        BY <3>1, FS_CardinalityType
    <2>7. t \in Strays <=> thread[t].copy.epoch # epoch.number
      BY <2>1 DEF Strays
    <2>8. incident'.affected + Cardinality(Strays') <= epoch'.own + epoch'.strays
      <3>1. /\ incident.affected \in Nat /\ epoch.own \in Nat /\ epoch.strays \in Nat
            /\ incident.affected + Cardinality(Strays) <= epoch.own + epoch.strays
        BY <1>2
      <3>2. CASE t \in Strays
        <4>1. Cardinality(Strays') = Cardinality(Strays) - 1 /\ epoch'.own = epoch.own
          BY <2>3, <2>6, <2>7, <3>2
        <4>2. QED
          BY <2>2, <2>3, <3>1, <4>1
      <3>3. CASE t \notin Strays
        <4>1. Cardinality(Strays') = Cardinality(Strays) /\ epoch'.own = epoch.own + 1
          BY <2>3, <2>6, <2>7, <3>3
        <4>2. QED
          BY <2>2, <2>3, <3>1, <4>1
      <3>4. QED
        BY <3>2, <3>3
    <2>9. \A u \in Threads : thread'[u].at = "decide" => thread'[u].copy.epoch \in 0..epoch'.number
      BY <1>2, <2>3, <2>4
    <2>10. QED
      BY <2>3, <2>8, <2>9 DEF CountInv
  <1>5. QED
    BY <1>3, <1>4 DEF Decide

\* Nothing is under way after a restart.
LEMMA RestartCounts ==
    ASSUME CountInv, Restart
    PROVE  CountInv'
  <1>1. /\ incident' = [mode |-> "none", affected |-> 0]
        /\ thread' = [t \in Threads |-> Idle]
        /\ epoch' = [number |-> epoch.number + 1, own |-> 0, strays |-> 0]
    BY DEF Restart
  <1>2. \A t \in Threads : thread'[t].at # "decide"
    BY <1>1 DEF Idle
  <1>3. epoch.number \in Nat
    BY DEF CountInv
  <1>4. Strays' = {}
    BY <1>2 DEF Strays
  <1>5. Cardinality(Strays') = 0
    BY <1>4, FS_EmptySet
  <1>6. "none" \in Modes
    BY DEF Modes
  <1>7. QED
    BY <1>1, <1>2, <1>3, <1>5, <1>6 DEF CountInv

\* Every step keeps the count bounded.
LEMMA CountStep == StoreInv /\ ThreadInv /\ CountInv /\ [Next]_vars => CountInv'
  <1> SUFFICES ASSUME StoreInv, ThreadInv, CountInv, [Next]_vars PROVE CountInv'
    OBVIOUS
  <1>1. CASE UNCHANGED vars
    <2>1. UNCHANGED <<incident, epoch>> /\ \A u \in Threads : Current(u)
      BY <1>1 DEF vars, Current
    <2>2. QED
      BY <2>1, CountQuiet
  <1>2. CASE Restart
    BY <1>2, RestartCounts
  <1>3. ASSUME NEW t \in Threads, Stores(t) PROVE CountInv'
    <2>1. UNCHANGED <<incident, epoch>>
      BY <1>3 DEF Stores
    <2>2. QED
      BY <1>3, <2>1, StoresLight, OneCurrent, CountQuiet
  <1>4. ASSUME NEW t \in Threads, Call(t) PROVE CountInv'
    <2>1. UNCHANGED <<incident, epoch>>
      BY <1>4 DEF Call
    <2>2. QED
      BY <1>4, <2>1, IncidentsLight, OneCurrent, CountQuiet
  <1>5. ASSUME NEW t \in Threads, Proxy(t) PROVE CountInv'
    <2>1. UNCHANGED <<incident, epoch>>
      BY <1>5 DEF Proxy, ToTarget, Proxied, ProxyTimesOut
    <2>2. QED
      BY <1>5, <2>1, ProxyLight, OneCurrent, CountQuiet
  <1>6. ASSUME NEW t \in Threads, Running(t) PROVE CountInv'
    <2>1. UNCHANGED <<incident, epoch>>
      BY <1>6 DEF Running, Start, Step, Judge, Finish
    <2>2. Others(t) /\ thread'[t].at # "decide"
      BY <1>6, StartKeeps, StepKeeps, JudgeKeeps, FinishKeeps DEF Running
    <2>3. QED
      BY <2>1, <2>2, OneCurrent, CountQuiet
  <1>7. ASSUME NEW t \in Threads, TakeFromWire(t) \/ \E r \in Requests : Send(t, r)
        PROVE  CountInv'
    <2>1. UNCHANGED <<incident, epoch>>
      BY <1>7 DEF TakeFromWire, Send
    <2>2. QED
      BY <1>7, <2>1, ArrivalLight, OneCurrent, CountQuiet
  <1>8. ASSUME NEW t \in Threads, Leave(t) PROVE CountInv'
    <2>1. UNCHANGED <<incident, epoch>>
      BY <1>8 DEF Leave
    <2>2. ASSUME NEW u \in Threads PROVE Current(u)
      <3>1. DOMAIN thread[u] = Fields
        BY DEF ThreadInv, ThreadOK
      <3>2. \/ thread'[u] = Idle
            \/ thread'[u] = [thread[u] EXCEPT !.at = "proxied", !.answer = thread[t].answer]
            \/ thread'[u] = thread[u]
        BY <1>8 DEF Leave
      <3>3. CASE thread'[u] = Idle
        BY <3>3 DEF Current, Idle
      <3>4. CASE thread'[u] = [thread[u] EXCEPT !.at = "proxied", !.answer = thread[t].answer]
        <4>1. thread'[u].at = "proxied"
          BY <3>1, <3>4 DEF Fields
        <4>2. QED
          BY <4>1 DEF Current
      <3>5. CASE thread'[u] = thread[u]
        BY <3>5 DEF Current
      <3>6. QED
        BY <3>2, <3>3, <3>4, <3>5
    <2>3. QED
      BY <2>1, <2>2, CountQuiet
  <1>9. QED
    BY <1>1, <1>2, <1>3, <1>4, <1>5, <1>6, <1>7, <1>8, InstallCounts, DecideCounts
       DEF Next, Handle, Incidents

-----------------------------------------------------------------------------
(***************************************************************************)
(* Every request goes towards its end.                                     *)
(***************************************************************************)

\* The answer has left: the thread is idle, and the one that waited for it goes on.
LEMMA LeaveNears ==
    ASSUME ThreadInv, NEW t \in Threads, Leave(t), NEW u \in Threads
    PROVE  thread'[u] = thread[u] \/ Nears(u)
  <1>1. DOMAIN thread[u] = Fields /\ thread[u].stack \in Seq(Frames)
    BY DEF ThreadInv, ThreadOK
  <1>2. thread'[u] = IF u = t THEN Idle
                     ELSE IF thread[u].at = "proxy" /\ thread[u].ticket = thread[t].client
                     THEN [thread[u] EXCEPT !.at = "proxied", !.answer = thread[t].answer]
                     ELSE thread[u]
    BY DEF Leave
  <1>3. CASE u = t
    BY <1>2, <1>3 DEF Idle, Nears, Over
  <1>4. CASE /\ thread[u].at = "proxy"
             /\ thread'[u] = [thread[u] EXCEPT !.at = "proxied", !.answer = thread[t].answer]
    <2> DEFINE n == Len(thread[u].stack)
    <2>1. thread'[u].at = "proxied" /\ thread'[u].stack = thread[u].stack
      BY <1>1, <1>4 DEF Fields
    <2>2. n \in Nat /\ n = Len(thread'[u].stack)
      BY <1>1, <2>1
    <2>3. n # 0 => thread[u].stack[n] \in Frames
      BY <1>1
    <2>4. n # 0 => Remaining(thread[u].stack[n]) \in Int
      BY <2>3 DEF Frames, ScenarioData, Remaining
    <2>5. Level(thread'[u], n) < Level(thread[u], n)
      <3>1. CASE n = 0
        BY <1>4, <2>1, <3>1 DEF Level, Passed
      <3>2. CASE n # 0
        BY <1>4, <2>1, <2>4, <3>2 DEF Level, Passed
      <3>3. QED
        BY <3>1, <3>2
    <2> HIDE DEF n
    <2>6. Nearer(thread'[u], thread[u])
      BY <2>1, <2>2, <2>5, NearerAt DEF n
    <2>7. QED
      BY <2>6 DEF Nears
  <1>5. QED
    BY <1>2, <1>3, <1>4

\* A thread that handles a request does not lose ground.
LEMMA HandleNears ==
    ASSUME StoreInv, ThreadInv, NEW t \in Threads, Handle(t)
    PROVE  Nears(t)
  <1>1. CASE Stores(t) \/ Incidents(t) \/ Proxy(t)
    BY <1>1, StoresLight, IncidentsLight, ProxyLight, LightNears DEF Incidents
  <1>2. CASE Running(t)
    BY <1>2, StartKeeps, StepKeeps, JudgeKeeps, FinishKeeps DEF Running
  <1>3. CASE Leave(t)
    <2>1. thread'[t] = Idle
      BY <1>3 DEF Leave
    <2>2. QED
      BY <2>1 DEF Idle, Nears, Over
  <1>4. QED
    BY <1>1, <1>2, <1>3 DEF Handle

\* No thread takes a request away from another one, or gives it a longer one.
LEMMA ChangeNears ==
    ASSUME StoreInv, ThreadInv, Next, NEW t \in Threads, thread[t].at \notin Over
    PROVE  thread'[t] = thread[t] \/ Nears(t)
  <1>1. CASE Restart
    BY <1>1 DEF Restart, Idle, Nears, Over
  <1>2. ASSUME NEW u \in Threads, Handle(u) PROVE thread'[t] = thread[t] \/ Nears(t)
    <2>1. CASE u = t
      BY <1>2, <2>1, HandleNears
    <2>2. CASE Leave(u)
      BY <2>2, LeaveNears
    <2>3. CASE u # t /\ ~Leave(u)
      <3>1. Others(u)
        BY <1>2, <2>3, StoresLight, IncidentsLight, ProxyLight, StartKeeps, StepKeeps,
           JudgeKeeps, FinishKeeps DEF Handle, Incidents, Running, Light
      <3>2. QED
        BY <2>3, <3>1 DEF Others
    <2>4. QED
      BY <2>1, <2>2, <2>3
  <1>3. ASSUME NEW u \in Threads, TakeFromWire(u) \/ \E r \in Requests : Send(u, r)
        PROVE  thread'[t] = thread[t]
    <2>1. thread[u].at = "idle" /\ Others(u)
      BY <1>3, ArrivalLight DEF TakeFromWire, Send, Light
    <2>2. QED
      BY <2>1 DEF Others, Over
  <1>4. QED
    BY <1>1, <1>2, <1>3 DEF Next

\* No level is below its end, and there are no more levels than runs that may be in one another.
LevelsInv ==
    \A t \in Threads :
        /\ Len(thread[t].stack) \in 0 .. MaxDepth
        /\ thread[t].at \notin Over =>
              \A d \in 0 .. Len(thread[t].stack) : Level(thread[t], d) \in Nat

\* A step of a thread that has a request, and one of another thread that changes it.
AllNear ==
    \A t \in Threads : /\ Handle(t) => Nears(t)
                       /\ thread[t].at \in Over \/ thread'[t] = thread[t] \/ Nears(t)
RequestsNear == [][AllNear]_vars

\* A run that waits for an answer has a step left, so that the levels do not go below 0.
LEMMA LevelsNatural == ThreadInv => LevelsInv
  <1> SUFFICES ASSUME ThreadInv, NEW t \in Threads
               PROVE  /\ Len(thread[t].stack) \in 0 .. MaxDepth
                      /\ \A d \in 0 .. Len(thread[t].stack) : Level(thread[t], d) \in Nat
    BY DEF LevelsInv
  <1> DEFINE stack == thread[t].stack
             n == Len(stack)
  <1>1. /\ stack \in Seq(Frames) /\ n \in Nat /\ n <= MaxDepth /\ DOMAIN stack = 1 .. n
        /\ \A d \in DOMAIN stack : Begun(stack[d])
        /\ \A d \in DOMAIN stack : d < n \/ thread[t].at # "step" => Unfinished(stack[d])
        /\ thread[t].at = "step" => stack # <<>>
    BY DEF ThreadInv, ThreadOK
  <1>2. n \in 0 .. MaxDepth
    BY <1>1, ScenarioAssumption
  <1>3. ASSUME NEW d \in 0 .. n PROVE Level(thread[t], d) \in Nat
    <2> DEFINE passed == Passed(IF d = n THEN thread[t].at ELSE "dispatch")
    <2>1. passed \in 0 .. 5 /\ (d # n \/ thread[t].at # "step" => passed # 0)
      BY DEF Passed
    <2>2. CASE d = 0
      BY <2>1, <2>2 DEF Level
    <2>3. CASE d # 0
      <3>1. d \in DOMAIN stack /\ stack[d] \in Frames
        BY <1>1, <2>3
      <3>2. Begun(stack[d]) /\ (d < n \/ thread[t].at # "step" => Unfinished(stack[d]))
        BY <1>1, <3>1
      <3>3. Len(stack[d].scenario.steps) \in Nat /\ Len(stack[d].results) \in Nat
        <4>1. \A run \in Frames : Len(run.scenario.steps) \in Nat /\ Len(run.results) \in Nat
          BY DEF Frames, ScenarioData
        <4>2. QED
          BY <3>1, <4>1
      <3>4. Remaining(stack[d]) \in Nat
        BY <3>2, <3>3 DEF Begun, Remaining
      <3>5. Level(thread[t], d) = 6 * Remaining(stack[d]) - passed
        BY <2>3 DEF Level
      <3>6. CASE Unfinished(stack[d])
        <4>1. Len(stack[d].results) < Len(stack[d].scenario.steps)
          BY <3>1, <3>2, <3>6, NextFacts
        <4>2. Remaining(stack[d]) \in Nat \ {0}
          BY <3>3, <3>4, <4>1 DEF Remaining
        <4> HIDE DEF passed, stack
        <4>3. QED
          BY <2>1, <3>5, <4>2
      <3>7. CASE ~Unfinished(stack[d])
        <4>1. d = n /\ thread[t].at = "step"
          BY <1>1, <3>2, <3>7
        <4>2. passed = 0
          BY <4>1 DEF Passed
        <4> HIDE DEF passed, stack
        <4>3. QED
          BY <3>4, <3>5, <4>2
      <3>8. QED
        BY <3>6, <3>7
    <2>4. QED
      BY <2>2, <2>3
  <1>4. QED
    BY <1>2, <1>3

-----------------------------------------------------------------------------
(***************************************************************************)
(* The theorems.                                                           *)
(***************************************************************************)

\* The server starts with the files of an earlier process, and idle threads.
LEMMA InitIInv == Init => IInv
  <1> SUFFICES ASSUME Init PROVE IInv
    OBVIOUS
  <1>1. /\ files \in Files /\ scenarios = files.scenarios /\ runs = files.runs
        /\ index = Lists(runs) /\ targets = files.targets
        /\ incident = [mode |-> "none", affected |-> 0]
        /\ thread = [t \in Threads |-> Idle] /\ wire = {} /\ made = 0
        /\ epoch = [number |-> 0, own |-> 0, strays |-> 0]
    BY DEF Init
  <1>2. StoreInv
    <2>1. /\ DOMAIN files = {"scenarios", "runs", "targets"}
          /\ files.scenarios \in [Ids -> ScenarioData \union {None}]
          /\ InOrder(files.scenarios, MaxScenarios)
          /\ DOMAIN files.targets = Targets /\ InOrder(files.targets, MaxTargets)
          /\ files.runs \in Seq(Reports)
          /\ \A k \in DOMAIN files.runs : files.runs[k].number <= 0 /\ Fits(files.runs[k])
          /\ \A j, k \in DOMAIN files.runs :
                files.runs[j].number = files.runs[k].number => j = k
      BY <1>1, FilesAssumption
    <2>2. /\ ScenariosOK(files.scenarios) /\ TargetsOK(files.targets)
          /\ RunsOK(files.runs, made)
      BY <1>1, <2>1 DEF ScenariosOK, TargetsOK, RunsOK
    <2>3. QED
      BY <1>1, <2>1, <2>2 DEF StoreInv
  <1>3. ThreadInv
    BY <1>1, IdleOK DEF ThreadInv
  <1>4. CountInv
    <2>1. \A t \in Threads : thread[t].at # "decide"
      BY <1>1 DEF Idle
    <2>2. Strays = {}
      BY <2>1 DEF Strays
    <2>3. Cardinality(Strays) = 0
      BY <2>2, FS_EmptySet
    <2>4. "none" \in Modes
      BY DEF Modes
    <2>5. QED
      BY <1>1, <2>1, <2>3, <2>4 DEF CountInv
  <1>5. QED
    BY <1>2, <1>3, <1>4 DEF IInv

\* The invariant is inductive: memory and files in order alike, runs under way begun and
\* unfinished, and no more left to count than was foreseen.
THEOREM Invariance == Spec => []IInv
  <1>1. IInv /\ [Next]_vars => IInv'
    BY ThreadStep, StoreStep, CountStep DEF IInv
  <1>2. QED
    BY InitIInv, <1>1, PTL DEF Spec

\* The stores stay in order: the list of every scenario is that of its runs, though runs end
\* after the deletion of what they ran and saves fail (scenario_store.py's _runs_by_scenario
\* beside _runs); names stay unique though a target is looked up in one critical section and
\* replaced in another, limits hold, and runs nest no deeper than the stack allows.
THEOREM TypeCorrect == Spec => []TypeOK
  <1>1. IInv => TypeOK
    BY DEF IInv, StoreInv, ScenariosOK, TargetsOK, ThreadInv, ThreadOK, TypeOK
  <1>2. QED
    BY Invariance, <1>1, PTL

\* Every stored run, of this process or of an earlier one, reports the steps of one version of
\* its scenario in their order, up to the first failure where it stops on it, though the
\* scenario is updated or deleted while run_scenario goes through its steps.
THEOREM ReportsFit == Spec => []ReportFits
  <1>1. IInv => ReportFits
    BY DEF IInv, StoreInv, RunsOK, ReportFits
  <1>2. QED
    BY Invariance, <1>1, PTL

\* An incident profile counts no more requests than it has disturbed and an older one had
\* under way when it was installed: _apply_incident_profile reads the profile in one critical
\* section and counts on the current one in another.
THEOREM AffectedCounted == Spec => []AffectedBounded
  <1>1. IInv => AffectedBounded
    <2> SUFFICES ASSUME CountInv PROVE AffectedBounded
      BY DEF IInv
    <2>1. Strays \subseteq Threads
      BY DEF Strays
    <2>2. Cardinality(Strays) \in Nat
      BY <2>1, StraysFinite
    <2>3. /\ incident.affected \in Nat /\ epoch.own \in Nat /\ epoch.strays \in Nat
          /\ incident.affected + Cardinality(Strays) <= epoch.own + epoch.strays
      BY DEF CountInv
    <2>4. QED
      BY <2>2, <2>3 DEF AffectedBounded
  <1>2. QED
    BY Invariance, <1>1, PTL

\* Every step of run_scenario and of the dispatcher, and every step of another thread that
\* changes a thread with a request, brings that request nearer to its end, however scenarios,
\* targets and profiles change meanwhile.  The stacks are no deeper than the recursion limit
\* allows and the levels are natural numbers, on which the order is well-founded: a scenario
\* that runs itself, directly or through this server as a target, takes finitely many steps.
THEOREM RequestsShorten == Spec => []LevelsInv /\ RequestsNear
  <1>1. IInv => LevelsInv
    BY LevelsNatural DEF IInv
  <1>2. IInv /\ [Next]_vars => [AllNear]_vars
    BY HandleNears, ChangeNears DEF IInv, AllNear
  <1>3. QED
    BY Invariance, <1>1, <1>2, PTL DEF Spec, RequestsNear
=============================================================================
