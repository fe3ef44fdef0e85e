-------------------------- MODULE MCRequestParser --------------------------
(* Instances of RequestParser for TLC: limits of a few bytes, and requests  *)
(* below, at and above each of them.                                        *)
EXTENDS RequestParser

CONSTANTS
    ShortLines, LongLines,   \* lengths of request lines within and above the limit
    MaxRequests              \* bound on the requests of a stream

Header(kind, len, value) == [kind |-> kind, len |-> len, value |-> value]
Request(line, start, headers) == [line |-> line, start |-> start, headers |-> headers]

HeaderBlocks == {
    <<>>,
    <<Header("plain", 3, 0)>>,
    <<Header("plain", 4, 0)>>,
    <<Header("plain", 5, 0)>>,
    <<Header("nocolon", 1, 0)>>,
    <<Header("plain", 2, 0), Header("nocolon", 3, 0)>>,
    <<Header("te", 1, 0)>>,
    <<Header("length", 1, 0)>>,
    <<Header("length", 1, 2)>>,
    <<Header("length", 1, maxBody + 1)>>,
    <<Header("badlength", 1, 0)>>,
    <<Header("length", 1, 1), Header("length", 1, 1)>>,
    <<Header("close", 1, 0), Header("length", 1, 1)>>,
    <<Header("keep", 2, 0)>>,
    <<Header("close", 1, 0), Header("keep", 1, 0)>>}

Requests ==
    {Request(line, "1.1", headers) : line \in ShortLines, headers \in HeaderBlocks}
    \cup {Request(Min(ShortLines), "1.0", headers) : headers \in HeaderBlocks}
    \cup {Request(line, start, <<>>) : line \in ShortLines \cup LongLines,
                                       start \in {"1.1", "malformed", "version"}}

AllStreams == UNION {[1..n -> Requests] : n \in 1..MaxRequests}

=============================================================================
