---------------------------- MODULE ClientHandler ----------------------------
(***************************************************************************)
(* The request loop of the threadpool engine, HTTPServer._handle_client    *)
(* (src/server.py): one worker serves one connection until it is closed,   *)
(* with read_http_request_message and write_http_response_message of       *)
(* src/socket_handler.py.                                                  *)
(*                                                                         *)
(* The client sends the messages of script one after the other, as fast as *)
(* it likes, and may stop sending or go away at any point; a recv returns  *)
(* any number of the units that are on their way.  Another thread may      *)
(* start a drain.  A step of the loop goes from one socket or file system  *)
(* call to the next.                                                       *)
(***************************************************************************)
EXTENDS RequestFraming, Subsequences

CONSTANTS
    Messages,     \* bound: what a client may send
    MaxMessages,  \* bound: how many messages it sends
    MaxKeepAlive, \* MAX_KEEPALIVE_REQUESTS
    RecvSize      \* max(BUFFER_SIZE, READ_CHUNK_SIZE)

ASSUME HandlerAssumption ==
    /\ MaxMessages \in Nat
    /\ MaxKeepAlive \in Nat \ {0}
    /\ RecvSize \in Nat \ {0}
    /\ MaxHeader + MaxBody + RecvSize <= MaxRequest

\* A message is made of what can be on the wire: no part of a body is empty, only a body that is
\* announced is sent, chunks are the only place for the faults of chunks, and only a header
\* field that is there comes twice.
ASSUME MessageAssumption ==
    \A m \in Messages :
        /\ m \in [lines : Nat \ {0}, parts : Seq(Nat \ {0}), expect : BOOLEAN, close : BOOLEAN,
                  framing : {"none", "length", "chunked", "both"},
                  fault : {"none", "line", "colon", "length", "twice",
                           "size", "crlf", "trailer", "over", "back"}]
        /\ m.framing = "none" => m.parts = << >>
        /\ m.fault \in {"size", "crlf"} => m.framing \in {"chunked", "both"} /\ m.parts # << >>
        /\ m.fault \in {"trailer", "over", "back"} => m.framing \in {"chunked", "both"}
        /\ m.fault = "twice" => m.framing # "none"

VARIABLES
    script,    \* the messages of the client, in order
    rest,      \* what of them has not been received
    buffer,    \* carry, then the buffer of read_http_request_message
    pc,        \* where the loop is
    raw,       \* raw_request
    contSent,  \* continue_sent (and sent_continue, its shadow in the callback)
    count,     \* request_count
    closing,   \* should_close
    draining,  \* _is_draining() or not _accepting
    inflight,  \* metrics: inflight_requests
    served,    \* history: the bodies the dispatcher was given
    wire       \* history: what was written, in order

inVars == <<script, rest, buffer, raw, contSent>>
vars == <<inVars, pc, count, closing, draining, inflight, served, wire>>

Init ==
    /\ script \in UNION {[1 .. n -> Messages] : n \in 1 .. MaxMessages}
    /\ rest = FlattenSeq([i \in DOMAIN script |-> Encode(i, script[i])])
    /\ buffer = << >> /\ raw = << >> /\ contSent = FALSE
    /\ pc = "extract" /\ count = 0 /\ closing = FALSE
    /\ draining = FALSE
    /\ inflight = 0
    /\ served = << >> /\ wire = << >>

\* A response to request re; last says that the loop ends after it (should_close, or an error
\* response), whatever the Connection header of a mock announces.
Answer(re, status, last) == [re |-> re, final |-> TRUE, status |-> status, last |-> last]

\* HTTP/1.1 100 Continue, before the body of request re.
Continue(re) == [re |-> re, final |-> FALSE, status |-> "100", last |-> FALSE]

-----------------------------------------------------------------------------
(* The thread that calls stop()                                            *)

StartDrain ==
    /\ ~draining
    /\ draining' = TRUE
    /\ UNCHANGED <<inVars, pc, count, closing, inflight, served, wire>>

-----------------------------------------------------------------------------
(* Leaving the loop                                                        *)

\* The with statement closes the socket, the finally block counts the connection out.
Leave == pc' = "closed"

\* A return without an answer, or an OSError on the way of the answer: outside the try
\* around the read it ends the worker too, which ThreadPool models as Raise.
LeaveSilently ==
    /\ Leave
    /\ UNCHANGED <<inVars, count, closing, draining, inflight, served, wire>>

\* An error response, recorded and logged, is the last thing of the connection.
LeaveWith(status) ==
    /\ Leave
    /\ wire' = Append(wire, Answer(count + 1, status, TRUE))
    /\ UNCHANGED <<inVars, count, closing, draining, inflight, served>>

-----------------------------------------------------------------------------
(* read_http_request_message                                               *)

\* Seeded bug: what follows the request in the buffer is dropped with it.
TakeRequestAlone ==
    /\ pc = "extract"
    /\ Extract(buffer).out = "whole"
    /\ raw' = SubSeq(buffer, 1, Extract(buffer).len)
    /\ buffer' = << >>
    /\ contSent' = FALSE
    /\ pc' = "parse"
    /\ UNCHANGED <<script, rest, count, closing, draining, inflight, served, wire>>

\* The request and the leftover, which the next read starts from.
TakeRequest ==
    /\ pc = "extract"
    /\ Extract(buffer).out = "whole"
    /\ raw' = SubSeq(buffer, 1, Extract(buffer).len)
    /\ buffer' = SubSeq(buffer, Extract(buffer).len + 1, Len(buffer))
    /\ contSent' = FALSE
    /\ pc' = "parse"
    /\ UNCHANGED <<script, rest, count, closing, draining, inflight, served, wire>>

RefuseRead ==
    /\ pc = "extract"
    /\ Extract(buffer).out \in {"400", "413", "431"}
    /\ LeaveSilently \/ LeaveWith(Extract(buffer).out)

\* The loop over the chunks comes back to the same size line for ever, and the read with it.
ExtractForEver ==
    /\ pc = "extract"
    /\ Extract(buffer).out = "loops"
    /\ pc' = "looping"
    /\ UNCHANGED <<inVars, count, closing, draining, inflight, served, wire>>

WantsContinue ==
    InspectHead(buffer).out = "whole" /\ buffer[1].head.expect

\* Seeded bug: the 100 Continue is written each time more of the body is awaited.
AwaitMoreAgain ==
    /\ pc = "extract"
    /\ Extract(buffer).out = "more"
    /\ IF WantsContinue
       THEN /\ wire' = Append(wire, Continue(count + 1))
            /\ contSent' = TRUE
       ELSE UNCHANGED <<wire, contSent>>
    /\ pc' = "recv"
    /\ UNCHANGED <<script, rest, buffer, raw, count, closing, draining,
                   inflight, served>>

\* The request is not whole: a 100 Continue if the client waits for one, then recv.
AwaitMore ==
    /\ pc = "extract"
    /\ Extract(buffer).out = "more"
    /\ IF WantsContinue /\ ~contSent
       THEN /\ wire' = Append(wire, Continue(count + 1))
            /\ contSent' = TRUE
       ELSE UNCHANGED <<wire, contSent>>
    /\ pc' = "recv"
    /\ UNCHANGED <<script, rest, buffer, raw, count, closing, draining,
                   inflight, served>>

\* The 100 Continue cannot be written: an OSError inside the try around the read.
ContinueFails ==
    /\ pc = "extract"
    /\ Extract(buffer).out = "more"
    /\ WantsContinue /\ ~contSent
    /\ LeaveSilently

Receive ==
    /\ pc = "recv"
    /\ \E n \in 1 .. RecvSize :
          /\ n <= Len(rest)
          /\ buffer' = buffer \o SubSeq(rest, 1, n)
          /\ rest' = SubSeq(rest, n + 1, Len(rest))
    /\ pc' = "extract"
    /\ UNCHANGED <<script, raw, contSent, count, closing, draining, inflight,
                   served, wire>>

\* Seeded bug: a read that times out is tried again.
ReceiveTimesOutRetried ==
    /\ pc = "recv"
    /\ pc' = "extract"
    /\ UNCHANGED <<inVars, count, closing, draining, inflight, served, wire>>

\* A pause of min(SOCKET_TIMEOUT_SECS, keepalive_timeout_secs), whatever is in the buffer.
ReceiveTimesOut ==
    /\ pc = "recv"
    /\ LeaveSilently \/ LeaveWith("408")

\* The client has closed its side, between two requests or in the middle of one.
ReceiveEof ==
    /\ pc = "recv"
    /\ IF buffer = << >> THEN LeaveSilently
       ELSE LeaveSilently \/ LeaveWith("cut")

-----------------------------------------------------------------------------
(* From the request to the answer                                          *)

ParseRefuses ==
    /\ pc = "parse"
    /\ ~FromBytes(raw).ok
    /\ LeaveSilently \/ LeaveWith(FromBytes(raw).status)

\* A request that was read before the drain began is served only on a new connection.
RefuseDraining ==
    /\ pc = "parse"
    /\ FromBytes(raw).ok
    /\ draining /\ count >= 1
    /\ LeaveSilently \/ LeaveWith("503")

\* request_started() and the dispatcher.
Dispatch ==
    /\ pc = "parse"
    /\ FromBytes(raw).ok
    /\ ~(draining /\ count >= 1)
    /\ count' = count + 1
    /\ inflight' = inflight + 1
    /\ served' = Append(served, FromBytes(raw).body)
    /\ closing' = (raw[1].head.close \/ count' >= MaxKeepAlive)
    /\ pc' = "write"
    /\ UNCHANGED <<inVars, draining, wire>>

\* An exception of a handler that _dispatch does not catch: nothing counts the request out.
DispatchRaises ==
    /\ pc = "write"
    /\ LeaveSilently

\* Seeded bug: request_finished() is left out.
WriteAnswerUncounted ==
    /\ pc = "write"
    /\ wire' = Append(wire, Answer(count, "200", closing))
    /\ IF closing THEN Leave ELSE pc' = "extract"
    /\ UNCHANGED <<inVars, count, closing, draining, inflight, served>>

\* The whole answer, request_finished() and the record; the history may fail to be saved,
\* and that exception ends the loop too.
WriteAnswer ==
    /\ pc = "write"
    /\ wire' = Append(wire, Answer(count, "200", closing))
    /\ inflight' = inflight - 1
    /\ Leave \/ (~closing /\ pc' = "extract")
    /\ UNCHANGED <<inVars, count, closing, draining, served>>

\* An OSError while the answer is written is caught, and the request counted out.
WriteFails ==
    /\ pc = "write"
    /\ inflight' = inflight - 1
    /\ Leave
    /\ UNCHANGED <<inVars, count, closing, draining, served, wire>>

Handler ==
    \/ TakeRequest \/ RefuseRead \/ ExtractForEver \/ AwaitMore \/ ContinueFails
    \/ Receive \/ ReceiveTimesOut \/ ReceiveEof
    \/ ParseRefuses \/ RefuseDraining \/ Dispatch \/ DispatchRaises
    \/ WriteAnswer \/ WriteFails

Next == StartDrain \/ Handler

Spec == Init /\ [][Next]_vars

\* A worker runs, and a recv returns or times out: whatever the client does, the loop steps,
\* unless it is stuck over the chunks.
FairSpec == Spec /\ WF_vars(Handler)
-----------------------------------------------------------------------------
(* Properties                                                              *)

\* The handler's position, flags and counters keep the kinds of values the code gives them,
\* it has as many requests served as counted, within the limit, and never two in flight.
\* (What the bytes hold is the concern of ServedAsSent.)
TypeOK ==
    /\ pc \in {"extract", "recv", "parse", "write", "closed", "looping"}
    /\ contSent \in BOOLEAN /\ closing \in BOOLEAN /\ draining \in BOOLEAN
    /\ count \in 0 .. MaxKeepAlive
    /\ inflight \in {0, 1}
    /\ Len(served) = count
    /\ \A i \in DOMAIN wire : wire[i].re \in 1 .. count + 1

\* However the bytes are split, the dispatcher is given the messages of the client in
\* order, each with the body the client meant; a message over a limit is never among them, and
\* a wrong one only if it is one of two kinds that both decoders overlook: a chunk of size
\* -2, or chunks under two Transfer-Encodings, which are themselves taken for the body.
ServedAsSent ==
    \A k \in DOMAIN served :
        /\ served[k] = Given(k, script[k])
        /\ ~Unfit(script[k])
        /\ Wrong(script[k]) => Overlooked(script[k])

\* A chunked message so long that the units received after it may pass MAX_REQUEST_BYTES.
NearLimit(m) == m.framing = "chunked" /\ Len(Encode(1, m)) + RecvSize > MaxRequest

\* A message that is right is not refused because of how it was split or of what follows it,
\* and none that does not wait for it is told to continue.
AnsweredForCause ==
    \A i \in DOMAIN wire :
        LET m == script[wire[i].re] IN
        /\ wire[i].status \in {"400", "413", "431"} => Wrong(m) \/ NearLimit(m)
        /\ ~wire[i].final => m.expect

Finals == Subsequence(wire, {i \in DOMAIN wire : wire[i].final})
Interims == {i \in DOMAIN wire : ~wire[i].final}

\* The wire carries one final answer per request, in order; a 100 Continue comes once at
\* most, before the final answer of its request; and nothing follows the answer after which
\* the server means to close.
WireInOrder ==
    /\ \A n \in DOMAIN Finals : Finals[n].re = n
    /\ \A i \in DOMAIN wire : wire[i].last => i = Len(wire)
    /\ \A i, j \in DOMAIN wire : i < j => wire[i].re <= wire[j].re
    /\ \A i, j \in Interims : wire[i].re = wire[j].re => i = j
    /\ \A i, j \in DOMAIN wire : wire[i].final /\ i < j => wire[i].re < wire[j].re

\* Is the read stuck over this message, once it gets there?
Endless(m) == m.framing = "chunked" /\ m.fault = "back" /\ m.parts # << >>

\* Whatever else the client sends, stops sending or does not read, the handler ends and its
\* worker is free again, unless a chunk of a negative size leads the read back to itself.
HandlerEnds ==
    (\A i \in DOMAIN script : ~Endless(script[i])) => <>(pc = "closed")
=============================================================================
