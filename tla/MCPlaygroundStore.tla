-------------------------- MODULE MCPlaygroundStore --------------------------
(* The requests for model checking: a few of each kind, with the payloads  *)
(* that take the branches of the handlers.                                 *)
EXTENDS PlaygroundStore, TLC

CONSTANTS m1, m2, m3, r1, r2, r3, secret

MCReserved == {secret}

Payload(r, s, h, b) == [route |-> r, status |-> s, headers |-> h, body |-> b]

MCRequests ==
    {[kind |-> "create", id |-> m1, new |-> Payload(r1, Keep, "object", Keep)],
     [kind |-> "create", id |-> m2, new |-> Payload(r2, 599, Keep, "short")],
     [kind |-> "create", id |-> m2, new |-> Payload(r1, Keep, "null", Keep)],
     [kind |-> "update", id |-> m1, new |-> Payload(r2, 599, "object", Keep)],
     [kind |-> "update", id |-> m1, new |-> Payload(r2, Keep, "null", "short")],
     [kind |-> "update", id |-> m1, new |-> Payload(Keep, Keep, "text", Keep)],
     [kind |-> "update", id |-> m1, new |-> Payload(Keep, Keep, Keep, "long")],
     [kind |-> "update", id |-> m2, new |-> Payload(secret, Keep, Keep, Keep)],
     [kind |-> "delete", id |-> m1],
     [kind |-> "read"],
     [kind |-> "replay", of |-> 1],
     [kind |-> "execute", inner |->
        [kind |-> "create", id |-> m3, new |-> Payload(r3, Keep, Keep, Keep)]]}

\* The threads are alike.
ThreadSymmetry == Permutations(Threads)
=============================================================================
