--------------------------- MODULE ScenarioEngine ---------------------------
(***************************************************************************)
(* What a scenario is, how a step is judged and what a run reports         *)
(* (src/scenario_engine.py).  A response is its status and whether its     *)
(* body has the token that a step may ask for; assertions on headers and   *)
(* on latency are further ways to fail and are left out, and so is the     *)
(* part of the score that latency takes.                                   *)
(***************************************************************************)
EXTENDS Integers, Subsequences

CONSTANTS
    MaxSteps,       \* max_steps_per_scenario
    MaxAssertions,  \* max_assertions_per_step
    Draws           \* the first draw of random.Random(n), of 1..4, for the numbers n of its domain

ASSUME EngineAssumption ==
    MaxSteps \in Nat \ {0} /\ MaxAssertions \in Nat /\ \A n \in DOMAIN Draws : Draws[n] \in 1..4

Answer(status, body) == [status |-> status, body |-> body]
Done == Answer(200, "full")
Refusal(status) == Answer(status, "other")

\* _normalize_expect and _normalize_chaos: "off" is a chaos that is absent or not enabled.
Expectable(step) == step.expect # {}
ChaosModes == {"off", "status_flip", "drop_body", "fixed_error"}
Disturbing(chaos) == chaos.mode \in ChaosModes /\ chaos.probability \in 0..4

\* _normalize_step: the status is one assertion, a token another.
AcceptableStep(step) ==
    /\ Expectable(step) /\ Disturbing(step.chaos)
    /\ 1 + (IF step.token THEN 1 ELSE 0) <= MaxAssertions

\* normalize_scenario
Acceptable(scenario) ==
    /\ scenario.name # ""
    /\ Len(scenario.steps) \in 1..MaxSteps
    /\ \A k \in DOMAIN scenario.steps : AcceptableStep(scenario.steps[k])

\* _apply_chaos: a step draws with the seed of the run, its offset and its place.
Hit(step, seed, place) ==
    step.chaos.mode # "off" /\ Draws[seed + step.chaos.offset + place] <= step.chaos.probability

ApplyChaos(response, step, seed, place) ==
    LET mode == step.chaos.mode IN
    IF ~Hit(step, seed, place) THEN response
    ELSE CASE mode = "status_flip" ->
                [response EXCEPT !.status = IF @ < 500 THEN 503 ELSE 200]
           [] mode = "drop_body" -> [response EXCEPT !.body = "empty"]
           [] mode = "fixed_error" -> Answer(500, "other")

Assertions == {"status", "body"}

\* _evaluate_expectations: the assertions that fail.
Broken(step, view) ==
    {a \in Assertions : \/ a = "status" /\ view.status \notin step.expect
                        \/ a = "body" /\ step.token /\ view.body # "full"}

\* The result of a step.
Judged(step, response, seed, place) ==
    [step |-> step, broken |-> Broken(step, ApplyChaos(response, step, seed, place))]

\* The places of the steps that failed, and the assertions that failed at them.
FailedSteps(results) == {k \in DOMAIN results : results[k].broken # {}}
FailedAssertions(results) ==
    {p \in (DOMAIN results) \X Assertions : p[2] \in results[p[1]].broken}

\* The status of a run.
Verdict(results) == IF FailedSteps(results) = {} THEN "pass" ELSE "fail"

\* The loop over the steps ends.
Ends(scenario, results) ==
    \/ Len(results) = Len(scenario.steps)
    \/ scenario.stop /\ FailedSteps(results) # {}

\* _build_analysis: 25 off for a step, 5 for an assertion.
Score(results) ==
    LET off == 25 * Cardinality(FailedSteps(results)) + 5 * Cardinality(FailedAssertions(results))
    IN  IF off > 100 THEN 0 ELSE 100 - off

\* The run that is reported; "of" is the scenario it was made of, kept for the properties.
Report(number, id, scenario, results) ==
    [number |-> number, id |-> id, status |-> Verdict(results), score |-> Score(results),
     passed |-> Len(results) - Cardinality(FailedSteps(results)),
     failed |-> Cardinality(FailedSteps(results)),
     results |-> results, of |-> scenario]

-----------------------------------------------------------------------------
\* A report is of the steps of one version of a scenario, in their order, up to the first
\* failure or to the end; it passes if no step failed, and a failed one loses points.
Fits(run) ==
    LET n == Len(run.results)
        bad == FailedSteps(run.results)
    IN  /\ \A k \in 1..n : run.results[k].step = run.of.steps[k]
        /\ run.passed = n - Cardinality(bad) /\ run.failed = Cardinality(bad)
        /\ run.status = "pass" <=> bad = {}
        /\ IF run.of.stop THEN bad \subseteq {n} /\ (n = Len(run.of.steps) \/ n \in bad)
           ELSE n = Len(run.of.steps)
        /\ run.score \in 0..(IF bad = {} THEN 100 ELSE 70)
=============================================================================
