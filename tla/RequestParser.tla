--------------------------- MODULE RequestParser ---------------------------
(***************************************************************************)
(* The incremental request parser (RequestParser of src/http.cpp) driven   *)
(* by the loop of ConnectionHandler::onReadable: a client's pipelined      *)
(* requests arrive in chunks cut anywhere, every chunk is appended to the  *)
(* buffer, and parse() is called as long as it completes requests.         *)
(*                                                                         *)
(* Of a line only its length, without CRLF, and what the parser makes of   *)
(* it are kept.  A request is a record                                     *)
(*   line     length of the request line                                   *)
(*   start    "1.1" or "1.0", or why the line is refused: "malformed",     *)
(*            "version"                                                    *)
(*   headers  sequence of [kind, len, value] with kind "plain", "nocolon", *)
(*            "te" (Transfer-Encoding), "length" and "badlength"           *)
(*            (Content-Length), "close" and "keep" (Connection)            *)
(* and is followed by as many body bytes as its Content-Length says.       *)
(***************************************************************************)
EXTENDS Integers, SequencesExt, PrefixSums

CONSTANTS
    Streams,           \* what a client may send: a set of sequences of requests
    MaxChunk,          \* bound on the bytes that arrive at once
    maxRequestLine, maxHeaderBlock, maxBody

ASSUME ParserLimits == {maxRequestLine, maxHeaderBlock, maxBody} \subseteq Nat
ASSUME ChunkAssumption == MaxChunk \in Nat \ {0}

HeaderKinds == {"plain", "nocolon", "te", "length", "badlength", "close", "keep"}
Headers == [kind : HeaderKinds, len : Nat \ {0}, value : Nat]
Starts == {"1.1", "1.0", "malformed", "version"}

ASSUME StreamsAssumption ==
    Streams \subseteq Seq([line : Nat, start : Starts, headers : Seq(Headers)])

VARIABLES
    stream, arrived,              \* the client's requests, the bytes received
    consumed,                     \* bytes erased from the front of the buffer
    state, taken,                 \* RequestParser::state; header lines taken
    headerBytes, contentLength,   \* the parser's counters
    keepAlive,                    \* req.keepAlive
    results,                      \* one [status, keepAlive] per request decided
    pc                            \* "recv", "parse" or "closing"

clientVars == <<stream, arrived>>
parserVars == <<state, taken, headerBytes, contentLength, keepAlive>>
vars == <<clientVars, consumed, parserVars, results, pc>>

OK == 200

Init ==
    /\ stream \in Streams
    /\ arrived = 0 /\ consumed = 0
    /\ state = "RequestLine" /\ taken = 0
    /\ headerBytes = 0 /\ contentLength = 0
    /\ keepAlive = TRUE
    /\ results = <<>>
    /\ pc = "recv"

-----------------------------------------------------------------------------
(* The layout of the stream *)

Crlf == 2

\* Bytes of the first k lines after the request line; the empty line is the last one.
HeaderBytes(request, k) ==
    PrefixSum([i \in Nat |-> Crlf + (IF i \in DOMAIN request.headers
                                     THEN request.headers[i].len ELSE 0)], k)

Has(request, kind) == \E i \in DOMAIN request.headers : request.headers[i].kind = kind

\* The Content-Length fields
LengthFields(request) ==
    {i \in DOMAIN request.headers : request.headers[i].kind \in {"length", "badlength"}}

\* Repeated fields are joined by ", ", which is no number.
Unnumeric(request) ==
    Has(request, "badlength") \/ \E i, j \in LengthFields(request) : i # j

BodyLength(request) ==
    IF LengthFields(request) = {} \/ Unnumeric(request) THEN 0
    ELSE request.headers[CHOOSE i \in LengthFields(request) : TRUE].value

Size(request) ==
    request.line + Crlf + HeaderBytes(request, Len(request.headers) + 1) + BodyLength(request)

\* Where the first n requests of a stream end
End(requests, n) ==
    PrefixSum([i \in Nat |-> IF i \in DOMAIN requests THEN Size(requests[i]) ELSE 0], n)

TotalBytes == End(stream, Len(stream))

\* The request being parsed; behind the last one the buffer stays empty.
Pending == Len(results) < Len(stream)
Current == stream[Len(results) + 1]

-----------------------------------------------------------------------------
(* parse() and its caller *)

Buffered == arrived - consumed

\* recv() appends a chunk to readBuffer.
Arrive ==
    /\ pc = "recv"
    /\ \E n \in 1..MaxChunk :
        /\ arrived + n <= TotalBytes
        /\ arrived' = arrived + n
    /\ pc' = "parse"
    /\ UNCHANGED <<stream, consumed, parserVars, results>>

\* Result::NeedMore, and the loop of onReadable() over an empty buffer
NeedMore ==
    /\ pc' = "recv"
    /\ UNCHANGED <<clientVars, consumed, parserVars, results>>

\* Result::Error: an error response, closeAfterWrite, and the rest of the buffer dropped
Error(status) ==
    /\ results' = Append(results, [status |-> status, keepAlive |-> FALSE])
    /\ consumed' = arrived
    /\ pc' = "closing"
    /\ UNCHANGED <<clientVars, parserVars>>

LineArrived(len) == Buffered >= len + Crlf

\* Seeded fault: an incomplete request line may grow without limit.
RequestLineIncompleteUnlimited ==
    /\ pc = "parse" /\ state = "RequestLine"
    /\ ~(Pending /\ LineArrived(Current.line))
    /\ NeedMore

\* No CRLF in the buffer yet
RequestLineIncomplete ==
    /\ pc = "parse" /\ state = "RequestLine"
    /\ ~(Pending /\ LineArrived(Current.line))
    /\ IF Buffered > maxRequestLine THEN Error(414) ELSE NeedMore

\* parseRequestLine()
RequestLineRefused ==
    /\ pc = "parse" /\ state = "RequestLine"
    /\ Pending /\ LineArrived(Current.line)
    /\ \/ Current.line > maxRequestLine /\ Error(414)
       \/ Current.line <= maxRequestLine /\ Current.start = "malformed" /\ Error(400)
       \/ Current.line <= maxRequestLine /\ Current.start = "version" /\ Error(505)

RequestLineTaken ==
    /\ pc = "parse" /\ state = "RequestLine"
    /\ Pending /\ LineArrived(Current.line)
    /\ Current.line <= maxRequestLine
    /\ Current.start \in {"1.1", "1.0"}
    /\ consumed' = consumed + Current.line + Crlf
    /\ keepAlive' = (Current.start = "1.1")
    /\ state' = "Headers"
    /\ UNCHANGED <<clientVars, taken, headerBytes, contentLength, results, pc>>

\* Length of the next header line; 0 is the empty line that ends the block.
HeaderLen == IF taken < Len(Current.headers) THEN Current.headers[taken + 1].len ELSE 0

HeaderIncomplete ==
    /\ pc = "parse" /\ state = "Headers"
    /\ ~LineArrived(HeaderLen)
    /\ IF Buffered + headerBytes > maxHeaderBlock THEN Error(431) ELSE NeedMore

HeaderRefused ==
    /\ pc = "parse" /\ state = "Headers"
    /\ LineArrived(HeaderLen)
    /\ IF headerBytes + HeaderLen + Crlf > maxHeaderBlock
       THEN Error(431)
       ELSE /\ taken < Len(Current.headers)
            /\ Current.headers[taken + 1].kind = "nocolon"
            /\ Error(400)

\* A field joins req.headers.
HeaderTaken ==
    /\ pc = "parse" /\ state = "Headers"
    /\ LineArrived(HeaderLen)
    /\ headerBytes + HeaderLen + Crlf <= maxHeaderBlock
    /\ taken < Len(Current.headers)
    /\ Current.headers[taken + 1].kind # "nocolon"
    /\ consumed' = consumed + HeaderLen + Crlf
    /\ headerBytes' = headerBytes + HeaderLen + Crlf
    /\ taken' = taken + 1
    /\ UNCHANGED <<clientVars, state, contentLength, keepAlive, results, pc>>

\* The empty line has arrived within the limit.
HeadersEnd ==
    /\ pc = "parse" /\ state = "Headers"
    /\ taken = Len(Current.headers)
    /\ LineArrived(0)
    /\ headerBytes + Crlf <= maxHeaderBlock

\* Seeded fault: the limit of the body is not enforced.
FinishStatusNoLimit(request) ==
    IF Has(request, "te") THEN 501
    ELSE IF Unnumeric(request) THEN 400
    ELSE OK

\* finishHeaders(): the status it refuses the request with, or OK
FinishStatus(request) ==
    IF Has(request, "te") THEN 501
    ELSE IF Unnumeric(request) THEN 400
    ELSE IF BodyLength(request) > maxBody THEN 413
    ELSE OK

\* finishHeaders(): Connection overrides the default of the version, "close" first.
FinishKeepAlive(request, default) ==
    IF Has(request, "close") THEN FALSE ELSE IF Has(request, "keep") THEN TRUE ELSE default

HeadersRefused ==
    /\ HeadersEnd
    /\ FinishStatus(Current) # OK
    /\ Error(FinishStatus(Current))

HeadersFinished ==
    /\ HeadersEnd
    /\ FinishStatus(Current) = OK
    /\ consumed' = consumed + Crlf
    /\ headerBytes' = headerBytes + Crlf
    /\ contentLength' = IF LengthFields(Current) = {} THEN contentLength ELSE BodyLength(Current)
    /\ keepAlive' = FinishKeepAlive(Current, keepAlive)
    /\ state' = IF contentLength' > 0 THEN "Body" ELSE "Done"
    /\ UNCHANGED <<clientVars, taken, results, pc>>

BodyIncomplete ==
    /\ pc = "parse" /\ state = "Body"
    /\ Buffered < contentLength
    /\ NeedMore

\* Seeded fault: the body is everything in the buffer.
BodyTakenWhole ==
    /\ pc = "parse" /\ state = "Body"
    /\ Buffered >= contentLength
    /\ consumed' = arrived
    /\ state' = "Done"
    /\ UNCHANGED <<clientVars, taken, headerBytes, contentLength, keepAlive, results, pc>>

BodyTaken ==
    /\ pc = "parse" /\ state = "Body"
    /\ Buffered >= contentLength
    /\ consumed' = consumed + contentLength
    /\ state' = "Done"
    /\ UNCHANGED <<clientVars, taken, headerBytes, contentLength, keepAlive, results, pc>>

\* Seeded fault: reset() leaves contentLength alone.
ResetKeepsLength ==
    /\ state' = "RequestLine" /\ taken' = 0
    /\ headerBytes' = 0
    /\ keepAlive' = TRUE
    /\ UNCHANGED contentLength

\* Seeded fault: reset() leaves headerBytes alone.
ResetKeepsHeaderBytes ==
    /\ state' = "RequestLine" /\ taken' = 0
    /\ contentLength' = 0
    /\ keepAlive' = TRUE
    /\ UNCHANGED headerBytes

\* reset()
Reset ==
    /\ state' = "RequestLine" /\ taken' = 0
    /\ headerBytes' = 0 /\ contentLength' = 0
    /\ keepAlive' = TRUE

\* Result::Complete: respond, reset the parser, and go on unless the connection closes.
Complete ==
    /\ pc = "parse" /\ state = "Done"
    /\ results' = Append(results, [status |-> OK, keepAlive |-> keepAlive])
    /\ Reset
    /\ consumed' = IF keepAlive THEN consumed ELSE arrived
    /\ pc' = IF keepAlive THEN "parse" ELSE "closing"
    /\ UNCHANGED clientVars

Parse ==
    \/ RequestLineIncomplete \/ RequestLineRefused \/ RequestLineTaken
    \/ HeaderIncomplete \/ HeaderRefused \/ HeaderTaken
    \/ HeadersRefused \/ HeadersFinished
    \/ BodyIncomplete \/ BodyTaken \/ Complete

Next == Arrive \/ Parse

Spec == Init /\ [][Next]_vars

-----------------------------------------------------------------------------
(* Reference: what becomes of a request that is there as a whole *)

\* Line k of the header block, the empty line included, is refused.
BadHeader(request, k) ==
    \/ HeaderBytes(request, k) > maxHeaderBlock
    \/ k <= Len(request.headers) /\ request.headers[k].kind = "nocolon"

\* The first line of the header block that is refused; 0 if none
FirstBadHeader(request) ==
    LET bad == {k \in 1..Len(request.headers) + 1 : BadHeader(request, k)}
    IN  IF bad = {} THEN 0 ELSE Min(bad)

Verdict(request) ==
    LET k == FirstBadHeader(request) IN
    CASE request.line > maxRequestLine -> 414
      [] request.line <= maxRequestLine /\ request.start = "malformed" -> 400
      [] request.line <= maxRequestLine /\ request.start = "version" -> 505
      [] OTHER -> IF k = 0 THEN FinishStatus(request)
                  ELSE IF HeaderBytes(request, k) > maxHeaderBlock THEN 431 ELSE 400

Decided(request) ==
    [status |-> Verdict(request),
     keepAlive |-> Verdict(request) = OK /\ FinishKeepAlive(request, request.start = "1.1")]

-----------------------------------------------------------------------------
(* Properties *)

\* Every variable has its type; the parser accepts no body above its limit.
TypeOK ==
    /\ stream \in Streams /\ arrived \in 0..TotalBytes /\ consumed \in 0..arrived
    /\ state \in {"RequestLine", "Headers", "Body", "Done"}
    /\ taken \in Nat /\ headerBytes \in 0..maxHeaderBlock /\ contentLength \in 0..maxBody
    /\ keepAlive \in BOOLEAN
    /\ \A i \in DOMAIN results : results[i] \in [status : {200, 400, 413, 414, 431, 501, 505},
                                                 keepAlive : BOOLEAN]
    /\ pc \in {"recv", "parse", "closing"}

\* http.h:40, "Bytes arrive in arbitrary chunks": every request is decided as if it had
\* arrived whole, wherever its bytes, or those of its neighbours, are cut.
ChunkingIrrelevant == \A i \in DOMAIN results : results[i] = Decided(stream[i])

\* The same, but for a request line of exactly maxRequestLine bytes, which parse() also
\* refuses with 414 (when its CR arrives without its LF): no other cut, earlier request
\* or limit changes what becomes of a request.
ChunkingIrrelevantBelowLimit ==
    \A i \in DOMAIN results :
        \/ results[i] = Decided(stream[i])
        \/ stream[i].line = maxRequestLine /\ results[i] = [status |-> 414, keepAlive |-> FALSE]

\* The parser never waits for bytes once the next request is there as a whole.
WaitsOnlyForMissingBytes ==
    pc = "recv" /\ Pending => arrived < End(stream, Len(results) + 1)

\* Requests are framed exactly: when the parser starts on a request, the bytes before it
\* and no others have been consumed, so no body byte is read as a request.
FramedExactly == pc # "closing" /\ state = "RequestLine" => consumed = End(stream, Len(results))

\* http.h:53-55: what the server buffers while it waits for more is bounded by the
\* limits, whatever the client sends.
BoundedWhileWaiting ==
    pc = "recv" => Buffered <= Max({maxRequestLine, maxHeaderBlock, maxBody})

=============================================================================
