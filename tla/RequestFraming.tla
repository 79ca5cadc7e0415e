--------------------------- MODULE RequestFraming ---------------------------
(***************************************************************************)
(* How the server finds where a request ends in the bytes it has received  *)
(* (src/socket_handler.py) and how it then reads the request                *)
(* (src/request.py): two decoders of the same bytes, written apart, which  *)
(* must agree.                                                             *)
(*                                                                         *)
(* A message is what a client means to send.  On the wire it is a sequence *)
(* of units: the lines of its head, the blank line that ends the head, and *)
(* its body, plain or in chunks.  A unit is what never arrives in part;    *)
(* lengths and limits are counted in units.                                *)
(***************************************************************************)
EXTENDS Naturals, Sequences, SequencesExt

CONSTANTS
    MaxHeader,   \* MAX_HEADER_BYTES
    MaxBody,     \* MAX_BODY_BYTES
    MaxRequest   \* MAX_REQUEST_BYTES

ASSUME FramingAssumption ==
    /\ MaxHeader \in Nat /\ MaxBody \in Nat /\ MaxRequest \in Nat
    /\ MaxHeader + MaxBody <= MaxRequest

(***************************************************************************)
(* A message: lines is the length of its head; framing says which header   *)
(* fields announce its body, whose parts are the chunks, or the one whole; *)
(* fault is what is wrong with it, if anything:                            *)
(*   "line", "colon", "length"  in the head, which no decoder reads then;  *)
(*   "twice"  the header field that announces the body comes twice, and    *)
(*     the second one, another coding or another length, contradicts it;   *)
(*   "size", "crlf", "trailer"  junk in place of a unit of the chunks;     *)
(*   "over"  one more chunk, of size -2: int(token, 16) takes a sign, and  *)
(*     the CRLF that ends such a chunk is the one of its own size line;    *)
(*   "back"  one more chunk, of a negative size that makes the CRLF before *)
(*     its size line the one that ends it.                                 *)
(***************************************************************************)
Unit(t, i, n) == [type |-> t, of |-> i, n |-> n]

Data(i, m, p) ==
    [j \in 1 .. m.parts[p] |-> [type |-> "data", of |-> i, part |-> p, at |-> j]]

HeadUnits(i, m) ==
    <<[type |-> "head", of |-> i, head |-> m]>>
    \o [j \in 1 .. m.lines - 1 |-> Unit("line", i, j)]
    \o <<Unit("end", i, 0)>>

\* A unit that carries a fault is junk.
Marked(t, m) == IF m.fault = t THEN "junk" ELSE t

\* The body that the client means, whatever carries it.
Meant(i, m) == FlattenSeq([p \in DOMAIN m.parts |-> Data(i, m, p)])

Chunk(i, m, p) ==
    <<Unit(Marked("size", m), i, m.parts[p])>>
    \o Data(i, m, p) \o <<Unit(Marked("crlf", m), i, 0)>>

\* The size line of a chunk of negative size, if there is one.
Negative(i, m) == IF m.fault \in {"over", "back"} THEN <<Unit(m.fault, i, 0)>> ELSE << >>

\* The last chunk, which is empty, a trailer and the blank line.
LastChunk(i, m) ==
    Negative(i, m)
    \o <<Unit("size", i, 0), Unit(Marked("trailer", m), i, 0), Unit("crlf", i, 0)>>

BodyUnits(i, m) ==
    IF m.framing \in {"chunked", "both"}
    THEN FlattenSeq([p \in DOMAIN m.parts |-> Chunk(i, m, p)]) \o LastChunk(i, m)
    ELSE Meant(i, m)

Encode(i, m) == HeadUnits(i, m) \o BodyUnits(i, m)

\* Is the message over a limit, or its length announced in two ways?
Unfit(m) ==
    \/ m.framing = "both"
    \/ m.lines + 1 > MaxHeader
    \/ Len(Meant(1, m)) > MaxBody
    \/ Len(Encode(1, m)) > MaxRequest

\* Is there a reason to refuse the message?
Wrong(m) == m.fault # "none" \/ Unfit(m)

\* The faults that neither decoder takes for one.
Overlooked(m) == m.framing = "chunked" /\ m.fault \in {"over", "twice"}

\* What the request's body is taken to be.  The last Transfer-Encoding is the one that
\* counts for HTTPRequest, the first for the loop that finds the message: the chunks are
\* found as chunks, and are the body as they are.
Given(i, m) ==
    IF m.framing = "chunked" /\ m.fault = "twice" THEN BodyUnits(i, m) ELSE Meant(i, m)

-----------------------------------------------------------------------------
(* Outcomes of looking at a buffer                                         *)

More == [out |-> "more", len |-> 0]
Refused(status) == [out |-> status, len |-> 0]
Loops == [out |-> "loops", len |-> 0]
Whole(n) == [out |-> "whole", len |-> n]

\* What the loops over the chunks keep: position, and decoded_size or len(decoded).
Places(e) == [position : 1 .. Len(e) + 1, decoded : 0 .. MaxBody]
Start == [position |-> 1, decoded |-> 0]
Past(at, n) == [position |-> at.position + n + 2, decoded |-> at.decoded + n]

\* Past a size line that is a chunk of its own.  (decoded_size is less by two bytes then,
\* which matters to no message here: no data comes after that line.)
PastLine(at) == [at EXCEPT !.position = at.position + 1]

\* The first unit from place p on that is no trailer, or 0.
TrailersEnd(e, p) == SelectInSubSeq(e, p, Len(e), LAMBDA u : u.type # "trailer")

\* The loop over the trailers, from place p on.
ChunkedEnd(e, p) ==
    LET q == TrailersEnd(e, p) IN
    IF q = 0 THEN More ELSE IF e[q].type = "crlf" THEN Whole(q) ELSE Refused("400")

\* Seeded bug: the CRLF after the data of a chunk is not waited for.
ScanChunksEarly(e) ==
    LET scan[at \in [position : 1 .. Len(e) + 2, decoded : 0 .. MaxBody]] ==
            LET p == at.position  n == e[p].n IN
            IF p > Len(e) THEN IF p = Len(e) + 2 THEN Whole(Len(e)) ELSE More
            ELSE IF e[p].type = "over" THEN scan[PastLine(at)]
            ELSE IF e[p].type = "back" THEN IF p = 1 THEN Refused("400") ELSE Loops
            ELSE IF e[p].type # "size" THEN Refused("400")
            ELSE IF n = 0 THEN ChunkedEnd(e, p + 1)
            ELSE IF Len(e) < p + n THEN More
            ELSE IF at.decoded + n > MaxBody THEN Refused("413")
            ELSE scan[Past(at, n)]
    IN  scan

\* The loop of _chunked_body_complete_length: the outcome from each place of it.  A size
\* line that leads back to the CRLF before it leads back to itself.
ScanChunks(e) ==
    LET scan[at \in Places(e)] ==
            LET p == at.position  n == e[p].n IN
            IF p > Len(e) THEN More
            ELSE IF e[p].type = "over" THEN scan[PastLine(at)]
            ELSE IF e[p].type = "back" THEN IF p = 1 THEN Refused("400") ELSE Loops
            ELSE IF e[p].type # "size" THEN Refused("400")
            ELSE IF n = 0 THEN ChunkedEnd(e, p + 1)
            ELSE IF Len(e) < p + n + 1 THEN More
            ELSE IF at.decoded + n > MaxBody THEN Refused("413")
            ELSE IF e[p + n + 1].type # "crlf" THEN Refused("400")
            ELSE scan[Past(at, n)]
    IN  scan

\* _chunked_body_complete_length: how long the encoded body is, once it is whole.
ChunkedLength(e) == ScanChunks(e)[Start]

\* Where the head ends: the first blank line, or 0.
HeadEnd(buffer) == SelectInSeq(buffer, LAMBDA u : u.type = "end")

\* _extract_transfer_encoding, _extract_content_length, _has_content_length_header and
\* _has_expect_continue all stumble over the same malformed line.
HeadReadable(buffer) == buffer[1].type = "head" /\ buffer[1].head.fault # "colon"

Announced(m) == IF m.framing = "length" THEN Len(Meant(1, m)) ELSE 0

\* inspect_http_request_head: "whole" once the head is, with its length.  The first reason
\* to refuse it is the one that counts.
InspectHead(buffer) ==
    LET end == HeadEnd(buffer)  m == buffer[1].head IN
    IF Len(buffer) > MaxRequest THEN Refused("413")
    ELSE IF end = 0 THEN IF Len(buffer) > MaxHeader THEN Refused("431") ELSE More
    ELSE IF end > MaxHeader THEN Refused("431")
    ELSE IF ~HeadReadable(buffer) THEN Refused("400")
    ELSE IF m.framing = "both" \/ m.fault = "length" THEN Refused("400")
    ELSE IF Announced(m) > MaxBody THEN Refused("413")
    ELSE Whole(end)

\* extract_http_request_message: how long the first request of the buffer is.
Extract(buffer) ==
    LET head == InspectHead(buffer)
        body == ChunkedLength(SubSeq(buffer, head.len + 1, Len(buffer)))
        length == head.len + Announced(buffer[1].head)
    IN  IF head.out # "whole" THEN head
        ELSE IF buffer[1].head.framing = "chunked"
             THEN IF body.out = "whole" THEN Whole(head.len + body.len) ELSE body
        ELSE IF Len(buffer) < length THEN More ELSE Whole(length)

-----------------------------------------------------------------------------
(* Reading a request that was found whole                                  *)

Unreadable(status) == [ok |-> FALSE, status |-> status, body |-> << >>]
Readable(body) == [ok |-> TRUE, status |-> "200", body |-> body]

\* Puts a chunk before what follows it, when that is readable.
Before(chunk, rest) == IF rest.ok THEN Readable(chunk \o rest.body) ELSE rest

\* What is left of the encoded body from place p on must be trailers and the blank line.
DecodedEnd(e, p) ==
    LET q == TrailersEnd(e, p) IN
    IF q = 0 THEN Unreadable("400")
    ELSE IF e[q].type = "crlf" /\ q = Len(e) THEN Readable(<< >>) ELSE Unreadable("400")

\* The loop of _decode_chunked_body: what is decoded from each place of it on.  It would not
\* return from a size line that leads back, but is never given one: ScanChunks does not.
DecodeChunks(e) ==
    LET scan[at \in Places(e)] ==
            LET p == at.position  n == e[p].n  end == p + n IN
            IF p > Len(e) THEN Unreadable("400")
            ELSE IF e[p].type = "over" THEN scan[PastLine(at)]
            ELSE IF e[p].type = "back"
                 THEN Unreadable(IF p = 1 THEN "400" ELSE "loops")
            ELSE IF e[p].type # "size" THEN Unreadable("400")
            ELSE IF n = 0 THEN DecodedEnd(e, p + 1)
            ELSE IF end + 1 > Len(e) THEN Unreadable("400")
            ELSE IF at.decoded + n > MaxBody THEN Unreadable("413")
            ELSE IF e[end + 1].type # "crlf" THEN Unreadable("400")
            ELSE Before(SubSeq(e, p + 1, end), scan[Past(at, n)])
    IN  scan

\* _decode_chunked_body
DecodeChunked(e) == DecodeChunks(e)[Start]

\* HTTPRequest.from_bytes.  Of a header field that comes twice the last one counts.  A fault
\* "line" stands for everything it refuses in the request line and in the header fields:
\* method, version, target, empty name, host.
FromBytes(raw) ==
    LET body == SubSeq(raw, HeadEnd(raw) + 1, Len(raw))
        m == raw[1].head
    IN  IF m.fault \in {"line", "colon", "length"} THEN Unreadable("400")
        ELSE IF m.framing = "both" THEN Unreadable("400")
        ELSE IF m.framing = "chunked" /\ m.fault # "twice" THEN DecodeChunked(body)
        ELSE IF m.framing = "length" /\ (m.fault = "twice" \/ Len(body) # Announced(m))
             THEN Unreadable("400")
        ELSE IF Len(body) > MaxBody THEN Unreadable("413")
        ELSE Readable(body)
=============================================================================
