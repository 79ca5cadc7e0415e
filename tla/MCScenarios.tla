---------------------------- MODULE MCScenarios ----------------------------
(* A scenario that runs itself, one that calls this server as a target,    *)
(* and the requests that change what a run uses.                           *)
EXTENDS Scenarios, TLC

CONSTANTS s1, s2, s3, g1, g2

MCDraws == [n \in 0..4 |-> IF n % 2 = 0 THEN 1 ELSE 4]

NoChaos == [mode |-> "off", offset |-> 0, probability |-> 0]
Chaos(mode, offset) == [mode |-> mode, offset |-> offset, probability |-> 2]

StepTo(target, req, expect, token, chaos) ==
    [target |-> target, req |-> req, expect |-> expect, token |-> token, chaos |-> chaos]

CallReq == [kind |-> "call"]
Via(target) == [kind |-> "proxy", target |-> target, req |-> CallReq]
RunReq(s) == [kind |-> "run", id |-> s, seed |-> 0]

Nested == [name |-> "nested", stop |-> TRUE, steps |->
    <<StepTo("local", CallReq, {200}, TRUE, NoChaos),
      StepTo("local", RunReq(s1), {200}, FALSE, NoChaos)>>]
Remote == [name |-> "remote", stop |-> FALSE, steps |->
    <<StepTo(g1, CallReq, {200}, TRUE, Chaos("drop_body", 1)),
      StepTo("local", CallReq, {503}, FALSE, Chaos("status_flip", 1))>>]
Shaken == [name |-> "shaken", stop |-> FALSE, steps |->
    <<StepTo("local", CallReq, {200, 500}, FALSE, Chaos("fixed_error", 0))>>]
Unfit == [name |-> "unfit", stop |-> FALSE, steps |->
    <<StepTo("local", CallReq, {}, FALSE, NoChaos)>>]
Empty == [name |-> "nested", stop |-> TRUE, steps |-> <<>>]

Self == [name |-> "self", url |-> "self"]

MCFiles ==
    {[scenarios |-> (s1 :> s @@ s2 :> None @@ s3 :> None), runs |-> <<>>,
      targets |-> (g1 :> Self @@ g2 :> None)] : s \in {Nested, Remote}}

MCRequests ==
    {RunReq(s1), CallReq, Via(g1),
     [kind |-> "create", id |-> s1, new |-> Nested],
     [kind |-> "create", id |-> s2, new |-> Shaken],
     [kind |-> "create", id |-> s3, new |-> Remote],
     [kind |-> "create", id |-> s3, new |-> Unfit],
     [kind |-> "update", id |-> s1, new |-> Shaken],
     [kind |-> "update", id |-> s2, new |-> Empty],
     [kind |-> "delete", id |-> s1],
     [kind |-> "create_target", id |-> g2, new |-> [name |-> "self", url |-> "down"]],
     [kind |-> "update_target", id |-> g1, new |-> [url |-> "down"]],
     [kind |-> "update_target", id |-> g1, new |-> [name |-> "other"]],
     [kind |-> "update_target", id |-> g1, new |-> [name |-> ""]],
     [kind |-> "delete_target", id |-> g1],
     [kind |-> "incident", mode |-> "status_spike_503"],
     [kind |-> "incident", mode |-> "fixed_latency"],
     [kind |-> "incident", mode |-> "none"]}
=============================================================================
