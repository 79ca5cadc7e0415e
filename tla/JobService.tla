----------------------------- MODULE JobService -----------------------------
(***************************************************************************)
(* What the connection pool promises its callers, with threads, poison     *)
(* pills and locks left out: accepted jobs wait in one bounded first-come  *)
(* first-served line, each is started once, by one of a fixed number of    *)
(* servers, and a job is turned away only when the line is full or the     *)
(* service has been closed.                                                *)
(***************************************************************************)
EXTENDS Naturals, Sequences, FiniteSets

CONSTANTS Jobs,      \* every job a caller may offer
          Servers,   \* how many jobs may be in service at once
          Capacity   \* how many accepted jobs may wait

VARIABLES waiting,   \* accepted jobs not yet started, oldest first
          serving,   \* jobs in service
          served,    \* jobs whose service ended
          refused,   \* jobs turned away
          open       \* FALSE once the service is closed

vars == <<waiting, serving, served, refused, open>>

Known == { waiting[i] : i \in DOMAIN waiting } \cup serving \cup served \cup refused

Init ==
    /\ waiting = << >>
    /\ serving = {}
    /\ served = {}
    /\ refused = {}
    /\ open = TRUE

Accept(j) ==
    /\ j \notin Known
    /\ Len(waiting) < Capacity
    /\ waiting' = Append(waiting, j)
    /\ UNCHANGED <<serving, served, refused, open>>

\* A closed service has reserved part of its line for its own use, so it may
\* refuse at any length; an open one refuses only at its capacity.
Refuse(j) ==
    /\ j \notin Known
    /\ open => Len(waiting) = Capacity
    /\ refused' = refused \cup {j}
    /\ UNCHANGED <<waiting, serving, served, open>>

Start ==
    /\ waiting # << >>
    /\ Cardinality(serving) < Servers
    /\ serving' = serving \cup {Head(waiting)}
    /\ waiting' = Tail(waiting)
    /\ UNCHANGED <<served, refused, open>>

Finish(j) ==
    /\ j \in serving
    /\ serving' = serving \ {j}
    /\ served' = served \cup {j}
    /\ UNCHANGED <<waiting, refused, open>>

Close ==
    /\ open
    /\ open' = FALSE
    /\ UNCHANGED <<waiting, serving, served, refused>>

Next ==
    \/ \E j \in Jobs : Accept(j) \/ Refuse(j) \/ Finish(j)
    \/ Start
    \/ Close

Spec == Init /\ [][Next]_vars
=============================================================================
