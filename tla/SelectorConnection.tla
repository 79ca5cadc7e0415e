------------------------- MODULE SelectorConnection -------------------------
(***************************************************************************)
(* One connection of the selectors engine (src/server.py): the event loop  *)
(* reads it, parses whatever complete requests its buffer holds, queues    *)
(* the responses, and writes them as the socket takes them.                *)
(*                                                                         *)
(* The loop is one thread, so its steps do not interleave with each other; *)
(* they interleave with the client (what has arrived, whether the socket   *)
(* takes more) and with the thread that starts a drain.  pc says where the *)
(* loop is in its handlers.                                                *)
(*                                                                         *)
(* The client sends the requests 1, 2, ... in order.  The head of a request *)
(* of kind "body" or "expect" may arrive before its body, which comes in   *)
(* any number of pieces.  "close" asks for the connection to be closed,    *)
(* "bad" is refused by the framing or by the parser, and "endless" is a    *)
(* body whose negative chunk size leads the framing back for ever (see     *)
(* RequestFraming).  Every response is written as Chunks pieces, a piece   *)
(* being what one send takes.                                              *)
(***************************************************************************)
EXTENDS Naturals, Sequences, FiniteSets

CONSTANTS
    MaxRequests,   \* bound: how many requests the client sends
    MaxKeepAlive,  \* MAX_KEEPALIVE_REQUESTS
    Chunks,        \* pieces of one response
    MayStall,      \* may the client stop reading for ever?
    None           \* no response is being written

ASSUME ConnectionAssumption ==
    /\ MaxRequests \in Nat
    /\ MaxKeepAlive \in Nat \ {0}
    /\ Chunks \in Nat \ {0}
    /\ MayStall \in BOOLEAN

\* The Python None is no response object.
ASSUME NoneAssumption == None \notin [req : Nat, last : BOOLEAN, counted : BOOLEAN]

Requests == 1 .. MaxRequests
Kinds == {"plain", "close", "body", "expect", "bad", "endless"}
Unfit == {"bad", "endless"}
WithBody == {"body", "expect"}

VARIABLES
    kind,       \* what each request is
    got,        \* recv_buffer: requests up to this one have arrived whole
    half,       \* recv_buffer: the head of request got + 1 has arrived too
    served,     \* requests_served, which request_seq equals
    contSent,   \* continue_sent_headers holds the head now in the buffer
    raw,        \* raw_writes: the requests whose 100 Continue waits
    queued,     \* queued_responses
    current,    \* current_response, or None
    sent,       \* pieces of current already written
    closing,    \* closing
    open,       \* the connection is in _selector_connections
    interest,   \* the events the socket is registered for
    writeDue,   \* this round's mask also holds EVENT_WRITE
    pc,         \* where the loop is
    inflight,   \* metrics: inflight_requests
    draining,   \* _is_draining() or not _accepting
    stalled,    \* the client reads no more and the send buffer is full
    wire        \* every piece written, in order

inVars == <<kind, got, half, served, contSent>>
outVars == <<raw, queued, current, sent>>
loopVars == <<closing, open, interest, writeDue, pc>>
envVars == <<draining, stalled>>
vars == <<inVars, outVars, loopVars, envVars, inflight, wire>>

Init ==
    /\ kind \in [Requests -> Kinds]
    /\ got = 0 /\ half = FALSE /\ served = 0 /\ contSent = FALSE
    /\ raw = << >> /\ queued = << >> /\ current = None /\ sent = 0
    /\ closing = FALSE /\ open = TRUE
    /\ interest = {"read"} /\ writeDue = FALSE /\ pc = "select"
    /\ inflight = 0
    /\ draining = FALSE /\ stalled = FALSE
    /\ wire = << >>

\* Seeded bug: every response is counted, the 408s and 503s with the others.
ResponseCounted(r, status, last) ==
    [req |-> r, last |-> last, counted |-> TRUE]

\* A queued response.  last is close_after, after which the loop closes the connection
\* (a mock's own Connection header does not count); counted is metrics_started.
Response(r, status, last) ==
    [req |-> r, last |-> last, counted |-> status = "ok"]

\* _close_selector_connection: what is queued is dropped, and nothing else.
Close ==
    /\ open' = FALSE
    /\ pc' = "closed"
    /\ interest' = {}
    /\ current' = None
    /\ queued' = << >>
    /\ sent' = 0

-----------------------------------------------------------------------------
(* The client and the thread that calls stop()                             *)

StartDrain ==
    /\ ~draining
    /\ draining' = TRUE
    /\ UNCHANGED <<inVars, outVars, loopVars, stalled, inflight, wire>>

\* The client stops reading.  The loop's own 400, 408 and 503 still fit the send buffer of
\* the socket, so this shows only when a served response has filled it, half written.
ClientStalls ==
    /\ MayStall /\ ~stalled
    /\ current # None /\ current.counted
    /\ 0 < sent /\ sent < Chunks
    /\ stalled' = TRUE
    /\ UNCHANGED <<inVars, outVars, loopVars, draining, inflight, wire>>

-----------------------------------------------------------------------------
(* One round of the loop: select, then the read and the write handler      *)

SelectRead ==
    /\ pc = "select"
    /\ "read" \in interest
    /\ pc' = "read"
    /\ writeDue' \in {FALSE, "write" \in interest /\ ~stalled}
    /\ UNCHANGED <<inVars, outVars, envVars, closing, open, interest, inflight, wire>>

SelectWrite ==
    /\ pc = "select"
    /\ "write" \in interest
    /\ ~stalled
    /\ pc' = "write"
    /\ UNCHANGED <<inVars, outVars, envVars, closing, open, interest, writeDue,
                   inflight, wire>>

\* recv returns some of what the client has sent: further requests or heads, or only
\* more of the body whose head is already there.
Receive ==
    /\ pc = "read"
    /\ \E g \in got .. MaxRequests, h \in BOOLEAN :
          /\ g = got => h
          /\ h => g < MaxRequests /\ kind[g + 1] \in WithBody
          /\ got' = g
          /\ half' = h
    /\ pc' = "parse"
    /\ UNCHANGED <<kind, served, contSent, outVars, envVars, closing, open, interest,
                   writeDue, inflight, wire>>

\* recv raises BlockingIOError: the read handler returns at once.
ReceiveBlocks ==
    /\ pc = "read"
    /\ pc' = IF writeDue THEN "write" ELSE "select"
    /\ writeDue' = FALSE
    /\ UNCHANGED <<inVars, outVars, envVars, closing, open, interest, inflight, wire>>

ReceiveEof ==
    /\ pc = "read"
    /\ closing' = TRUE
    /\ pc' = "interest"
    /\ UNCHANGED <<inVars, outVars, envVars, open, interest, writeDue, inflight, wire>>

ReceiveFails ==
    /\ pc = "read"
    /\ Close
    /\ UNCHANGED <<inVars, raw, envVars, closing, writeDue, inflight, wire>>

\* Seeded bug: the drain answer does not stop the parsing.
DrainKeepsParsing ==
    /\ pc = "parse"
    /\ served < got
    /\ draining /\ served > 0
    /\ kind[served + 1] \notin Unfit
    /\ served' = served + 1
    /\ contSent' = FALSE
    /\ queued' = Append(queued, Response(served + 1, "drain", TRUE))
    /\ UNCHANGED <<kind, got, half, raw, current, sent, loopVars, envVars, inflight, wire>>

\* The next request is complete and the framing or the parser refuses it.
ParseBad ==
    /\ pc = "parse"
    /\ served < got
    /\ kind[served + 1] = "bad"
    /\ contSent' \in {contSent, FALSE}
    /\ queued' = Append(queued, Response(served + 1, "error", TRUE))
    /\ closing' = TRUE
    /\ pc' = "interest"
    /\ UNCHANGED <<kind, got, half, served, raw, current, sent, open, interest,
                   writeDue, envVars, inflight, wire>>

\* extract_http_request_message comes back to the same chunk size again and again: the event
\* loop is left in the read handler for ever.
ParseEndless ==
    /\ pc = "parse"
    /\ served < got
    /\ kind[served + 1] = "endless"
    /\ pc' = "looping"
    /\ UNCHANGED <<inVars, outVars, closing, open, interest, writeDue, envVars, inflight, wire>>

\* A reused connection is answered 503 with Retry-After once the drain began.
ParseDraining ==
    /\ pc = "parse"
    /\ served < got
    /\ kind[served + 1] \notin Unfit
    /\ draining /\ served > 0
    /\ served' = served + 1
    /\ contSent' = FALSE
    /\ queued' = Append(queued, Response(served + 1, "drain", TRUE))
    /\ closing' = TRUE
    /\ pc' = "interest"
    /\ UNCHANGED <<kind, got, half, raw, current, sent, open, interest, writeDue,
                   envVars, inflight, wire>>

ShouldClose(r) == kind[r] = "close" \/ r >= MaxKeepAlive

ParseRequest ==
    /\ pc = "parse"
    /\ served < got
    /\ kind[served + 1] \notin Unfit
    /\ ~(draining /\ served > 0)
    /\ served' = served + 1
    /\ contSent' = FALSE
    /\ inflight' = inflight + 1
    /\ queued' = Append(queued, Response(served + 1, "ok", ShouldClose(served + 1)))
    /\ closing' = (closing \/ ShouldClose(served + 1))
    /\ pc' = IF ShouldClose(served + 1) THEN "interest" ELSE "parse"
    /\ UNCHANGED <<kind, got, half, raw, current, sent, open, interest, writeDue,
                   envVars, wire>>

\* Seeded bug: the head in the buffer is not remembered.
ParseIncompleteForgets ==
    /\ pc = "parse"
    /\ served = got
    /\ raw' = IF half /\ kind[got + 1] = "expect" THEN Append(raw, got + 1) ELSE raw
    /\ pc' = "interest"
    /\ UNCHANGED <<inVars, queued, current, sent, closing, open,
                   interest, writeDue, envVars, inflight, wire>>

\* No complete request is left: _maybe_queue_continue looks at the head, if any.
ParseIncomplete ==
    /\ pc = "parse"
    /\ served = got
    /\ LET wanted == half /\ kind[got + 1] = "expect" /\ ~contSent IN
          /\ raw' = IF wanted THEN Append(raw, got + 1) ELSE raw
          /\ contSent' = (contSent \/ wanted)
    /\ pc' = "interest"
    /\ UNCHANGED <<kind, got, half, served, queued, current, sent, closing, open,
                   interest, writeDue, envVars, inflight, wire>>

Pending == raw # << >> \/ current # None \/ queued # << >>

\* Seeded bug: a closing connection is registered for nothing.
UpdateInterestDeaf ==
    /\ pc = "interest"
    /\ \/ /\ closing /\ ~Pending
          /\ Close
       \/ /\ ~closing \/ Pending
          /\ interest' = IF closing THEN {}
                         ELSE IF Pending THEN {"read", "write"} ELSE {"read"}
          /\ pc' = IF writeDue THEN "write" ELSE "select"
          /\ UNCHANGED <<open, queued, current, sent>>
    /\ writeDue' = FALSE
    /\ UNCHANGED <<inVars, raw, closing, envVars, inflight, wire>>

\* _update_selector_interest, which ends both handlers and the idle sweep.
UpdateInterest ==
    /\ pc = "interest"
    /\ \/ /\ closing /\ ~Pending
          /\ Close
       \/ /\ ~closing \/ Pending
          /\ interest' = IF closing THEN {"write"}
                         ELSE IF Pending THEN {"read", "write"} ELSE {"read"}
          /\ pc' = IF writeDue THEN "write" ELSE "select"
          /\ UNCHANGED <<open, queued, current, sent>>
    /\ writeDue' = FALSE
    /\ UNCHANGED <<inVars, raw, closing, envVars, inflight, wire>>

-----------------------------------------------------------------------------
(* _handle_selector_write                                                  *)

SendInterim ==
    /\ pc = "write"
    /\ raw # << >>
    /\ ~stalled
    /\ wire' = Append(wire, [req |-> Head(raw), part |-> 0])
    /\ raw' = Tail(raw)
    /\ UNCHANGED <<inVars, queued, current, sent, loopVars, envVars, inflight>>

PickResponse ==
    /\ pc = "write"
    /\ raw = << >>
    /\ current = None
    /\ queued # << >>
    /\ current' = Head(queued)
    /\ queued' = Tail(queued)
    /\ sent' = 0
    /\ UNCHANGED <<inVars, raw, loopVars, envVars, inflight, wire>>

SendChunk ==
    /\ pc = "write"
    /\ raw = << >>
    /\ current # None
    /\ sent < Chunks
    /\ ~stalled
    /\ wire' = Append(wire, [req |-> current.req, part |-> sent + 1])
    /\ sent' = sent + 1
    /\ UNCHANGED <<inVars, raw, queued, current, loopVars, envVars, inflight>>

Sending == raw # << >> \/ (current # None /\ sent < Chunks)

\* send raises BlockingIOError: the handler returns and leaves the interest alone.
SendBlocks ==
    /\ pc = "write"
    /\ Sending
    /\ pc' = "select"
    /\ UNCHANGED <<inVars, outVars, closing, open, interest, writeDue, envVars,
                   inflight, wire>>

SendFails ==
    /\ pc = "write"
    /\ Sending
    /\ Close
    /\ UNCHANGED <<inVars, raw, closing, writeDue, envVars, inflight, wire>>

\* Seeded bug: request_finished() for responses that never started a request.
FinalizeUncounted ==
    /\ pc = "write"
    /\ raw = << >>
    /\ current # None
    /\ sent = Chunks
    /\ inflight' = inflight - 1
    /\ IF current.last
       THEN Close
       ELSE /\ current' = None
            /\ sent' = 0
            /\ pc' = IF closing THEN "interest" ELSE "write"
            /\ UNCHANGED <<open, interest, queued>>
    /\ UNCHANGED <<inVars, raw, closing, writeDue, envVars, wire>>

Finalize ==
    /\ pc = "write"
    /\ raw = << >>
    /\ current # None
    /\ sent = Chunks
    /\ inflight' = IF current.counted /\ inflight > 0 THEN inflight - 1 ELSE inflight
    /\ IF current.last
       THEN Close
       ELSE /\ current' = None
            /\ sent' = 0
            /\ pc' = IF closing THEN "interest" ELSE "write"
            /\ UNCHANGED <<open, interest, queued>>
    /\ UNCHANGED <<inVars, raw, closing, writeDue, envVars, wire>>

WriteEnds ==
    /\ pc = "write"
    /\ ~Pending
    /\ pc' = "interest"
    /\ UNCHANGED <<inVars, outVars, closing, open, interest, writeDue, envVars,
                   inflight, wire>>

-----------------------------------------------------------------------------
(* Between rounds: the idle sweep, and the end of the loop                 *)

\* Seeded bug: the 408 overtakes the responses already queued.
SweepIdleInFront ==
    /\ pc = "select"
    /\ ~closing
    /\ queued' = <<Response(served + 1, "timeout", TRUE)>> \o queued
    /\ closing' = TRUE
    /\ pc' = "interest"
    /\ UNCHANGED <<inVars, raw, current, sent, open, interest, writeDue, envVars,
                   inflight, wire>>

\* Seeded bug: the sweep queues the 408 and does not update the interest.
SweepIdleSilent ==
    /\ pc = "select"
    /\ ~closing
    /\ queued' = Append(queued, Response(served + 1, "timeout", TRUE))
    /\ closing' = TRUE
    /\ UNCHANGED <<inVars, raw, current, sent, open, interest, writeDue, pc, envVars,
                   inflight, wire>>

SweepIdle ==
    /\ pc = "select"
    /\ ~closing
    /\ queued' = Append(queued, Response(served + 1, "timeout", TRUE))
    /\ closing' = TRUE
    /\ pc' = "interest"
    /\ UNCHANGED <<inVars, raw, current, sent, open, interest, writeDue, envVars,
                   inflight, wire>>

\* The drain deadline has passed: the loop's finally block closes what is open.
LoopExits ==
    /\ pc = "select"
    /\ draining
    /\ Close
    /\ UNCHANGED <<inVars, raw, closing, writeDue, envVars, inflight, wire>>

-----------------------------------------------------------------------------
Parse == ParseBad \/ ParseEndless \/ ParseDraining \/ ParseRequest \/ ParseIncomplete
Read == Receive \/ ReceiveBlocks \/ ReceiveEof \/ ReceiveFails
Write == SendInterim \/ PickResponse \/ SendChunk \/ SendBlocks \/ SendFails
             \/ Finalize \/ WriteEnds

Next ==
    \/ StartDrain \/ ClientStalls
    \/ SelectRead \/ SelectWrite \/ Read \/ Parse \/ UpdateInterest \/ Write
    \/ SweepIdle \/ LoopExits

Spec == Init /\ [][Next]_vars

(***************************************************************************)
(* The loop never stops in a handler; the sweep comes round again and      *)
(* again; a drain reaches its deadline; and while the client reads, the    *)
(* socket keeps taking more.                                               *)
(***************************************************************************)
Fairness ==
    /\ WF_vars(Read \/ Parse \/ UpdateInterest \/ Write)
    /\ SF_vars(SelectWrite)
    /\ SF_vars(SendInterim)
    /\ SF_vars(SendChunk)
    /\ SF_vars(SweepIdle)
    /\ SF_vars(LoopExits)

FairSpec == Spec /\ Fairness
-----------------------------------------------------------------------------
(* Properties                                                              *)

Responses == [req : 1 .. (MaxRequests + 1), last : BOOLEAN, counted : BOOLEAN]
Pieces == [req : 1 .. (MaxRequests + 1), part : 0 .. Chunks]

\* Every variable of the connection keeps the kind of value the code gives it.
TypeOK ==
    /\ kind \in [Requests -> Kinds]
    /\ got \in 0 .. MaxRequests /\ served \in 0 .. got
    /\ raw \in Seq(Requests) /\ queued \in Seq(Responses)
    /\ current \in Responses \cup {None}
    /\ sent \in 0 .. Chunks
    /\ interest \subseteq {"read", "write"}
    /\ pc \in {"select", "read", "parse", "interest", "write", "closed", "looping"}
    /\ inflight \in Nat
    /\ wire \in Seq(Pieces)
    /\ half \in BOOLEAN /\ contSent \in BOOLEAN
    /\ closing \in BOOLEAN /\ open \in BOOLEAN /\ writeDue \in BOOLEAN
    /\ draining \in BOOLEAN /\ stalled \in BOOLEAN

\* The places of the wire that hold a piece of a final response.
Finals == {i \in DOMAIN wire : wire[i].part > 0}

\* Dropping the interim responses, the wire carries the responses in the order of
\* their requests, each once and whole before the next begins: the n-th final piece
\* is the n-th piece of response 1, response 2, ... laid end to end.
FinalsInOrder ==
    \A i \in Finals :
        (wire[i].req - 1) * Chunks + wire[i].part = Cardinality({j \in Finals : j <= i})

\* A request gets at most one 100 Continue, and never after its response began.
InterimFirst ==
    \A i, j \in DOMAIN wire :
        i < j /\ wire[i].req = wire[j].req => wire[j].part > 0

\* A response after which the loop closes the connection (close_after) is the last one
\* queued, whichever of the parser, the drain and the idle sweep queued it.
NothingAfterLast ==
    /\ current # None /\ current.last => queued = << >>
    /\ \A i \in DOMAIN queued : queued[i].last => i = Len(queued)

CountedQueued == {i \in DOMAIN queued : queued[i].counted}

\* While the connection is open, inflight_requests counts exactly the dispatched
\* requests whose response is not completely written.
InflightExact ==
    open => inflight = Cardinality(CountedQueued)
                          + (IF current # None /\ current.counted THEN 1 ELSE 0)

\* A connection with something to write is registered for writing whenever the loop
\* sleeps in select: a response is never forgotten in a queue.
WriteRegistered ==
    pc = "select" => (Pending <=> "write" \in interest)

\* Every request the loop served is eventually answered in full, unless the client
\* stops reading, the connection is closed, or the loop is caught in a later request.
ServedEventuallyAnswered ==
    \A r \in Requests :
        (served >= r) ~> \/ Cardinality(Finals) >= r * Chunks
                         \/ ~open \/ stalled \/ pc = "looping"

-----------------------------------------------------------------------------
(* What the code's own words say of it, and does not hold                  *)

\* "Pipelined request handling in selectors engine with ordered responses"
\* (docs/reference.md): nothing is written between two pieces of one response.
ResponsesContiguous ==
    \A i \in DOMAIN wire :
        i > 1 /\ wire[i].part # 1 /\ wire[i].part # 0 => wire[i - 1].req = wire[i].req

\* "Blocking forever on broken clients" is to be prevented (plan.md): a client that
\* reads no more in the middle of a response does not keep its connection for ever.
StalledEventuallyClosed == stalled ~> ~open
=============================================================================
