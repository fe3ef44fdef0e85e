------------------------ MODULE RequestParserProofs ------------------------
(***************************************************************************)
(* Proofs for RequestParser, for every set of request streams, every       *)
(* chunking and all limits.  The invariant says where in the stream the    *)
(* parser is, for each of its states, and what it knows of the request it  *)
(* is in; every property of the runs follows from it.                      *)
(***************************************************************************)
EXTENDS RequestParser, NumberLemmas

RequestSet == [line : Nat, start : Starts, headers : Seq(Headers)]

-----------------------------------------------------------------------------
(* The layout of the stream *)

\* What a sequence of header fields looks like
LEMMA HeaderSequence ==
    ASSUME NEW h \in Seq(Headers)
    PROVE /\ Len(h) \in Nat /\ DOMAIN h = 1..Len(h)
          /\ \A i \in 1..Len(h) : h[i].len \in Nat /\ h[i].value \in Nat
  <1>1. Len(h) \in Nat /\ DOMAIN h = 1..Len(h)
    OBVIOUS
  <1>2. \A i \in 1..Len(h) : h[i] \in Headers
    OBVIOUS
  <1>3. \A f \in Headers : f.len \in Nat /\ f.value \in Nat
    BY DEF Headers
  <1> QED
    BY <1>1, <1>2, <1>3

\* What a request looks like
LEMMA RequestShape ==
    ASSUME NEW r \in RequestSet
    PROVE /\ r.line \in Nat /\ r.start \in Starts
          /\ Len(r.headers) \in Nat /\ DOMAIN r.headers = 1..Len(r.headers)
          /\ \A i \in 1..Len(r.headers) :
                r.headers[i].len \in Nat /\ r.headers[i].value \in Nat
  <1>1. r.line \in Nat /\ r.start \in Starts /\ r.headers \in Seq(Headers)
    BY DEF RequestSet
  <1> QED
    BY <1>1, HeaderSequence

\* HeaderBytes adds up the lines of the header block, the empty line included.
LEMMA HeaderBytesStep ==
    ASSUME NEW r \in RequestSet
    PROVE /\ HeaderBytes(r, 0) = 0
          /\ \A k \in Nat : HeaderBytes(r, k) \in Nat
          /\ \A k \in Nat : k < Len(r.headers) =>
                HeaderBytes(r, k + 1) = HeaderBytes(r, k) + r.headers[k + 1].len + Crlf
          /\ HeaderBytes(r, Len(r.headers) + 1) = HeaderBytes(r, Len(r.headers)) + Crlf
          /\ \A j, k \in Nat : j <= k => HeaderBytes(r, j) <= HeaderBytes(r, k)
  <1> DEFINE g == [i \in Nat |-> Crlf + (IF i \in DOMAIN r.headers THEN r.headers[i].len ELSE 0)]
  <1>2. Len(r.headers) \in Nat /\ DOMAIN r.headers = 1..Len(r.headers)
    BY RequestShape
  <1>3. \A i \in DOMAIN r.headers : r.headers[i].len \in Nat
    BY RequestShape
  <1>4. g \in [Nat -> Nat]
    BY <1>3 DEF Crlf
  <1>5. g \in [Nat -> Int]
    BY <1>4
  <1>6. \A k \in Nat : g[k + 1] = Crlf + (IF k < Len(r.headers) THEN r.headers[k + 1].len ELSE 0)
    BY <1>2
  <1>7. \A k : HeaderBytes(r, k) = PrefixSum(g, k)
    BY DEF HeaderBytes
  <1> HIDE DEF g
  <1>8. /\ PrefixSum(g, 0) = 0
        /\ \A k \in Nat : PrefixSum(g, k + 1) = PrefixSum(g, k) + g[k + 1]
    BY <1>5, PrefixSumStep
  <1>9. ASSUME NEW k \in Nat PROVE PrefixSum(g, k) \in Nat
    <2>1. k <= k
      OBVIOUS
    <2> QED
      BY <1>4, <2>1, PrefixSumMonotone
  <1>10. \A j, k \in Nat : j <= k => PrefixSum(g, j) <= PrefixSum(g, k)
    BY <1>4, PrefixSumMonotone
  <1>11. ASSUME NEW k \in Nat, k < Len(r.headers)
         PROVE HeaderBytes(r, k + 1) = HeaderBytes(r, k) + r.headers[k + 1].len + Crlf
    <2>1. PICK len \in Nat : len = r.headers[k + 1].len
      BY <1>2, <1>3, <1>11
    <2>2. g[k + 1] = Crlf + len
      BY <1>6, <1>11, <2>1
    <2>3. PrefixSum(g, k + 1) = PrefixSum(g, k) + (Crlf + len) /\ PrefixSum(g, k) \in Nat
      BY <1>8, <1>9, <2>2
    <2>4. PrefixSum(g, k + 1) = PrefixSum(g, k) + len + Crlf
      BY <2>3 DEF Crlf
    <2> QED
      BY <1>7, <2>1, <2>4
  <1>12. HeaderBytes(r, Len(r.headers) + 1) = HeaderBytes(r, Len(r.headers)) + Crlf
    <2>1. PICK n \in Nat : n = Len(r.headers)
      BY <1>2
    <2>2. g[n + 1] = Crlf
      BY <1>6, <2>1 DEF Crlf
    <2>3. PrefixSum(g, n + 1) = PrefixSum(g, n) + Crlf
      BY <1>8, <2>2
    <2> QED
      BY <1>7, <2>1, <2>3
  <1> QED
    BY <1>7, <1>8, <1>9, <1>10, <1>11, <1>12

\* The length of a body is a natural number.
LEMMA BodyLengthType ==
    ASSUME NEW r \in RequestSet
    PROVE BodyLength(r) \in Nat
  <1>1. \A i \in DOMAIN r.headers : r.headers[i].value \in Nat
    BY RequestShape
  <1>2. CASE LengthFields(r) = {} \/ Unnumeric(r)
    BY <1>2 DEF BodyLength
  <1>3. CASE LengthFields(r) # {} /\ ~Unnumeric(r)
    <2>1. (CHOOSE i \in LengthFields(r) : TRUE) \in LengthFields(r)
      BY <1>3
    <2> QED
      BY <1>1, <1>3, <2>1 DEF BodyLength, LengthFields
  <1> QED
    BY <1>2, <1>3

\* End adds up the requests of a stream.
LEMMA EndStep ==
    ASSUME NEW s \in Seq(RequestSet)
    PROVE /\ End(s, 0) = 0
          /\ \A n \in Nat : End(s, n) \in Nat
          /\ \A n \in Nat : n < Len(s) => End(s, n + 1) = End(s, n) + Size(s[n + 1])
          /\ \A m, n \in Nat : m <= n => End(s, m) <= End(s, n)
  <1> DEFINE g == [i \in Nat |-> IF i \in DOMAIN s THEN Size(s[i]) ELSE 0]
  <1>1. Len(s) \in Nat /\ DOMAIN s = 1..Len(s) /\ \A i \in DOMAIN s : s[i] \in RequestSet
    OBVIOUS
  <1>2. ASSUME NEW r \in RequestSet PROVE Size(r) \in Nat
    <2>1. r.line \in Nat /\ Len(r.headers) \in Nat
      BY RequestShape
    <2>0. PICK n \in Nat : n = Len(r.headers) + 1
      BY <2>1
    <2>2. HeaderBytes(r, n) \in Nat
      BY HeaderBytesStep
    <2>3. BodyLength(r) \in Nat
      BY BodyLengthType
    <2> QED
      BY <2>0, <2>1, <2>2, <2>3 DEF Size, Crlf
  <1>3. g \in [Nat -> Nat]
    BY <1>1, <1>2
  <1>4. g \in [Nat -> Int]
    BY <1>3
  <1>5. \A n \in Nat : n < Len(s) => g[n + 1] = Size(s[n + 1])
    BY <1>1
  <1>6. \A n : End(s, n) = PrefixSum(g, n)
    BY DEF End
  <1> HIDE DEF g
  <1>7. /\ PrefixSum(g, 0) = 0
        /\ \A n \in Nat : PrefixSum(g, n + 1) = PrefixSum(g, n) + g[n + 1]
    BY <1>4, PrefixSumStep
  <1>8. ASSUME NEW n \in Nat PROVE PrefixSum(g, n) \in Nat
    <2>1. n <= n
      OBVIOUS
    <2> QED
      BY <1>3, <2>1, PrefixSumMonotone
  <1>9. \A m, n \in Nat : m <= n => PrefixSum(g, m) <= PrefixSum(g, n)
    BY <1>3, PrefixSumMonotone
  <1>10. ASSUME NEW n \in Nat, n < Len(s) PROVE End(s, n + 1) = End(s, n) + Size(s[n + 1])
    <2>1. PrefixSum(g, n + 1) = PrefixSum(g, n) + Size(s[n + 1])
      BY <1>5, <1>7, <1>10
    <2> QED
      BY <1>6, <2>1
  <1> QED
    BY <1>6, <1>7, <1>8, <1>9, <1>10

-----------------------------------------------------------------------------
(* What becomes of a whole request *)

\* The request line is accepted.
GoodStart(r) == r.line <= maxRequestLine /\ r.start \in {"1.1", "1.0"}

\* None of the first k lines of the header block is refused.
Clean(r, k) == \A j \in 1..k : ~BadHeader(r, j)

\* The request is accepted as a whole.
Accepted(r) ==
    /\ GoodStart(r)
    /\ Clean(r, Len(r.headers) + 1)
    /\ FinishStatus(r) = OK

\* A request line that is too long or wrong decides the verdict.
LEMMA VerdictOfLine ==
    ASSUME NEW r \in RequestSet
    PROVE /\ r.line > maxRequestLine => Verdict(r) = 414
          /\ r.line <= maxRequestLine /\ r.start = "malformed" => Verdict(r) = 400
          /\ r.line <= maxRequestLine /\ r.start = "version" => Verdict(r) = 505
  <1>1. r.line \in Nat /\ maxRequestLine \in Nat
    BY RequestShape, ParserLimits
  <1> QED
    BY <1>1 DEF Verdict

\* Behind a good request line, the first bad line of the header block decides.
LEMMA VerdictOfHeader ==
    ASSUME NEW r \in RequestSet, GoodStart(r), NEW k \in Nat, k <= Len(r.headers),
           Clean(r, k), BadHeader(r, k + 1)
    PROVE Verdict(r) = IF HeaderBytes(r, k + 1) > maxHeaderBlock THEN 431 ELSE 400
  <1> DEFINE bad == {j \in 1..Len(r.headers) + 1 : BadHeader(r, j)}
  <1>1. r.line \in Nat /\ maxRequestLine \in Nat /\ Len(r.headers) \in Nat
    BY RequestShape, ParserLimits
  <1>2. k + 1 \in bad
    BY <1>1
  <1>3. \A j \in bad : k + 1 <= j
    BY <1>1 DEF Clean
  <1>4. bad \subseteq Nat /\ bad # {}
    BY <1>1, <1>2
  <1>5. FirstBadHeader(r) = Min(bad)
    BY <1>4 DEF FirstBadHeader
  <1> HIDE DEF bad
  <1>6. Min(bad) \in bad /\ \A j \in bad : Min(bad) <= j
    BY <1>2, <1>3 DEF Min
  <1>7. FirstBadHeader(r) = k + 1
    <2>1. PICK m \in Nat : m = Min(bad)
      BY <1>4, <1>6
    <2>2. k + 1 <= m /\ m <= k + 1
      BY <1>2, <1>3, <1>6, <2>1
    <2>3. m = k + 1
      BY <2>2
    <2> QED
      BY <1>5, <2>1, <2>3
  <1>8. /\ ~(r.line > maxRequestLine)
        /\ r.start # "malformed" /\ r.start # "version"
    BY <1>1 DEF GoodStart
  <1> QED
    BY <1>7, <1>8 DEF Verdict

\* Behind a clean header block, finishHeaders() decides.
LEMMA VerdictOfFinish ==
    ASSUME NEW r \in RequestSet, GoodStart(r), Clean(r, Len(r.headers) + 1)
    PROVE Verdict(r) = FinishStatus(r)
  <1>1. r.line \in Nat /\ maxRequestLine \in Nat
    BY RequestShape, ParserLimits
  <1>2. FirstBadHeader(r) = 0
    BY DEF FirstBadHeader, Clean
  <1>3. /\ ~(r.line > maxRequestLine)
        /\ r.start # "malformed" /\ r.start # "version"
    BY <1>1 DEF GoodStart
  <1> QED
    BY <1>2, <1>3 DEF Verdict

\* finishHeaders() refuses with one of three statuses, and accepts no body above the limit.
LEMMA FinishStatusRange ==
    ASSUME NEW r \in RequestSet
    PROVE /\ FinishStatus(r) \in {OK, 400, 413, 501}
          /\ FinishStatus(r) = OK => BodyLength(r) \in 0..maxBody
  BY BodyLengthType, ParserLimits DEF FinishStatus, OK

-----------------------------------------------------------------------------
(* The invariant *)

Decisions == [status : {200, 400, 413, 414, 431, 501, 505}, keepAlive : BOOLEAN]

Begin == End(stream, Len(results))

\* The request is decided as its reference says, or its line has exactly the limit.
Rightly(decision, r) ==
    \/ decision = Decided(r)
    \/ r.line = maxRequestLine /\ decision = [status |-> 414, keepAlive |-> FALSE]

\* No more requests are decided than the client sends.
Progress == results \in Seq(Decisions) /\ Len(results) <= Len(stream)

AtRequestLine ==
    /\ state = "RequestLine"
    /\ consumed = Begin
    /\ taken = 0 /\ headerBytes = 0 /\ contentLength = 0 /\ keepAlive

InHeaders ==
    /\ state = "Headers"
    /\ Pending /\ GoodStart(Current)
    /\ taken <= Len(Current.headers) /\ Clean(Current, taken)
    /\ headerBytes = HeaderBytes(Current, taken)
    /\ consumed = Begin + Current.line + Crlf + headerBytes
    /\ contentLength = 0
    /\ keepAlive = (Current.start = "1.1")

InBody ==
    /\ state = "Body"
    /\ Pending /\ Accepted(Current)
    /\ consumed = Begin + Size(Current) - BodyLength(Current)
    /\ contentLength = BodyLength(Current)
    /\ keepAlive = FinishKeepAlive(Current, Current.start = "1.1")

AtDone ==
    /\ state = "Done"
    /\ Pending /\ Accepted(Current)
    /\ consumed = Begin + Size(Current)
    /\ keepAlive = FinishKeepAlive(Current, Current.start = "1.1")

\* Where the parser is in the stream, for each of its states
Position == pc # "closing" => AtRequestLine \/ InHeaders \/ InBody \/ AtDone

ParserInv ==
    /\ TypeOK
    /\ Progress
    /\ Position
    /\ ChunkingIrrelevantBelowLimit
    /\ WaitsOnlyForMissingBytes
    /\ BoundedWhileWaiting

\* What the invariant says of the request being parsed
LEMMA Here ==
    ASSUME TypeOK, Progress
    PROVE /\ stream \in Seq(RequestSet)
          /\ Len(results) \in Nat /\ Len(stream) \in Nat
          /\ Begin \in Nat /\ Begin <= TotalBytes /\ TotalBytes \in Nat
          /\ arrived \in Nat /\ arrived <= TotalBytes /\ consumed \in Nat /\ consumed <= arrived
          /\ taken \in Nat /\ headerBytes \in Nat /\ contentLength \in Nat
          /\ ~Pending => Begin = TotalBytes
          /\ Pending => /\ Current \in RequestSet
                        /\ End(stream, Len(results) + 1) = Begin + Size(Current)
                        /\ Begin + Size(Current) <= TotalBytes
  <1>1. stream \in Seq(RequestSet)
    BY StreamsAssumption, ZenonT(30) DEF TypeOK, RequestSet
  <1>2. Len(results) \in Nat /\ Len(stream) \in Nat /\ Len(results) <= Len(stream)
    BY <1>1 DEF Progress
  <1>3. /\ \A n \in Nat : End(stream, n) \in Nat
        /\ \A n \in Nat : n < Len(stream) =>
                End(stream, n + 1) = End(stream, n) + Size(stream[n + 1])
        /\ \A m, n \in Nat : m <= n => End(stream, m) <= End(stream, n)
    BY <1>1, EndStep
  <1>4. Begin \in Nat /\ TotalBytes \in Nat /\ Begin <= TotalBytes
    BY <1>2, <1>3 DEF Begin, TotalBytes
  <1>5. /\ arrived \in Nat /\ arrived <= TotalBytes /\ consumed \in Nat /\ consumed <= arrived
        /\ taken \in Nat /\ headerBytes \in Nat /\ contentLength \in Nat
    BY <1>4, ParserLimits DEF TypeOK
  <1>6. ASSUME ~Pending PROVE Begin = TotalBytes
    <2>1. Len(results) = Len(stream)
      BY <1>2, <1>6 DEF Pending
    <2> QED
      BY <2>1 DEF Begin, TotalBytes
  <1>7. ASSUME Pending
        PROVE /\ Current \in RequestSet
              /\ End(stream, Len(results) + 1) = Begin + Size(Current)
              /\ Begin + Size(Current) <= TotalBytes
    <2>1. Len(results) + 1 \in 1..Len(stream) /\ Len(results) < Len(stream)
      BY <1>2, <1>7 DEF Pending
    <2>2. Current \in RequestSet
      BY <1>1, <2>1 DEF Current
    <2>3. End(stream, Len(results) + 1) = Begin + Size(Current)
      BY <1>2, <1>3, <2>1 DEF Begin, Current
    <2>4. End(stream, Len(results) + 1) <= TotalBytes
      BY <1>2, <1>3, <2>1 DEF TotalBytes
    <2> QED
      BY <2>2, <2>3, <2>4
  <1> QED
    BY <1>1, <1>2, <1>4, <1>5, <1>6, <1>7

\* The parts of the request being parsed, and how they add up
LEMMA Layout ==
    ASSUME NEW r \in RequestSet
    PROVE /\ r.line \in Nat /\ Len(r.headers) \in Nat /\ BodyLength(r) \in Nat
          /\ Size(r) \in Nat
          /\ \A k \in Nat : k <= Len(r.headers) =>
                /\ HeaderBytes(r, k) \in Nat
                /\ r.line + Crlf + HeaderBytes(r, k) + Crlf + BodyLength(r) <= Size(r)
          /\ \A k \in Nat : k < Len(r.headers) =>
                /\ r.headers[k + 1].len \in Nat
                /\ HeaderBytes(r, k + 1) = HeaderBytes(r, k) + r.headers[k + 1].len + Crlf
          /\ HeaderBytes(r, Len(r.headers) + 1) = HeaderBytes(r, Len(r.headers)) + Crlf
          /\ Size(r) = r.line + Crlf + HeaderBytes(r, Len(r.headers)) + Crlf + BodyLength(r)
  <1>1. r.line \in Nat /\ Len(r.headers) \in Nat /\ BodyLength(r) \in Nat
    BY RequestShape, BodyLengthType
  <1>2. PICK n \in Nat : n = Len(r.headers)
    BY <1>1
  <1>3. /\ HeaderBytes(r, n) \in Nat /\ HeaderBytes(r, n + 1) = HeaderBytes(r, n) + Crlf
        /\ \A k \in Nat : k <= n => HeaderBytes(r, k) \in Nat /\ HeaderBytes(r, k) <= HeaderBytes(r, n)
    <2>1. HeaderBytes(r, n + 1) = HeaderBytes(r, n) + Crlf
      BY <1>2, HeaderBytesStep
    <2>2. \A k \in Nat : HeaderBytes(r, k) \in Nat
      BY HeaderBytesStep
    <2>3. \A j, k \in Nat : j <= k => HeaderBytes(r, j) <= HeaderBytes(r, k)
      BY HeaderBytesStep
    <2> QED
      BY <2>1, <2>2, <2>3
  <1>4. Size(r) = r.line + Crlf + HeaderBytes(r, n + 1) + BodyLength(r)
    BY <1>2 DEF Size
  <1>5. Size(r) = r.line + Crlf + HeaderBytes(r, n) + Crlf + BodyLength(r)
    <2>1. PICK h \in Nat : h = HeaderBytes(r, n)
      BY <1>3
    <2>2. PICK line \in Nat, body \in Nat : line = r.line /\ body = BodyLength(r)
      BY <1>1
    <2>3. line + Crlf + (h + Crlf) + body = line + Crlf + h + Crlf + body
      BY DEF Crlf
    <2> QED
      BY <1>3, <1>4, <2>1, <2>2, <2>3
  <1>6. Size(r) \in Nat
    BY <1>1, <1>3, <1>5 DEF Crlf
  <1>7. ASSUME NEW k \in Nat, k <= n
        PROVE /\ HeaderBytes(r, k) \in Nat
              /\ r.line + Crlf + HeaderBytes(r, k) + Crlf + BodyLength(r) <= Size(r)
    <2>1. HeaderBytes(r, k) \in Nat /\ HeaderBytes(r, k) <= HeaderBytes(r, n)
      BY <1>3, <1>7
    <2> QED
      BY <1>1, <1>3, <1>5, <2>1, SMTT(30) DEF Crlf
  <1>8. ASSUME NEW k \in Nat, k < n
        PROVE /\ r.headers[k + 1].len \in Nat
              /\ HeaderBytes(r, k + 1) = HeaderBytes(r, k) + r.headers[k + 1].len + Crlf
    <2>1. k + 1 \in 1..Len(r.headers) /\ k < Len(r.headers)
      BY <1>2, <1>8
    <2> QED
      BY <2>1, RequestShape, HeaderBytesStep
  <1> QED
    BY <1>1, <1>2, <1>3, <1>5, <1>6, <1>7, <1>8

-----------------------------------------------------------------------------
(* Every step preserves the invariant *)

\* What waits in the buffer is compared with the largest of the limits.
LEMMA LargestLimit ==
    /\ Max({maxRequestLine, maxHeaderBlock, maxBody}) \in Nat
    /\ maxRequestLine <= Max({maxRequestLine, maxHeaderBlock, maxBody})
    /\ maxHeaderBlock <= Max({maxRequestLine, maxHeaderBlock, maxBody})
    /\ maxBody <= Max({maxRequestLine, maxHeaderBlock, maxBody})
  <1> DEFINE limits == {maxRequestLine, maxHeaderBlock, maxBody}
  <1>1. maxRequestLine \in Nat /\ maxHeaderBlock \in Nat /\ maxBody \in Nat
    BY ParserLimits
  <1>2. PICK n \in Nat : n = maxRequestLine + maxHeaderBlock + maxBody
    BY <1>1
  <1>3. \A x \in limits : x <= n
    BY <1>1, <1>2
  <1>4. limits \subseteq Nat /\ limits # {}
    BY <1>1
  <1>5. Max(limits) \in limits /\ \A x \in limits : x <= Max(limits)
    BY <1>3, <1>4, MaxOfBounded
  <1> QED
    BY <1>4, <1>5

\* A step that decides no request leaves the place in the stream alone.
LEMMA SameRequest ==
    ASSUME stream' = stream, results' = results
    PROVE /\ Begin' = Begin /\ TotalBytes' = TotalBytes
          /\ Pending' = Pending /\ Current' = Current
          /\ End(stream, Len(results) + 1)' = End(stream, Len(results) + 1)
  BY DEF Begin, TotalBytes, Pending, Current

\* parse() returns Error: the request is decided as its reference says, or it is one whose
\* line has exactly the limit.
LEMMA ErrorStep ==
    ASSUME ParserInv, NEW status \in {400, 413, 414, 431, 501, 505}, Error(status), Pending,
           \/ Verdict(Current) = status
           \/ Current.line = maxRequestLine /\ status = 414
    PROVE ParserInv'
  <1> DEFINE decision == [status |-> status, keepAlive |-> FALSE]
  <1>1. /\ results' = Append(results, decision)
        /\ consumed' = arrived /\ pc' = "closing"
        /\ stream' = stream /\ arrived' = arrived
        /\ UNCHANGED <<state, taken, headerBytes, contentLength, keepAlive>>
    BY DEF Error, clientVars, parserVars
  <1>2. TypeOK /\ Progress
    BY DEF ParserInv
  <1>3. decision \in Decisions
    BY DEF Decisions
  <1>4. results \in Seq(Decisions) /\ Len(results) \in Nat /\ Len(results) < Len(stream)
    BY <1>2 DEF Progress, Pending
  <1>5. /\ results' \in Seq(Decisions) /\ Len(results') = Len(results) + 1
        /\ DOMAIN results' = 1..(Len(results) + 1) /\ DOMAIN results = 1..Len(results)
        /\ \A i \in 1..Len(results) : results'[i] = results[i]
        /\ results'[Len(results) + 1] = decision
    BY <1>1, <1>3, <1>4
  <1>6. TotalBytes' = TotalBytes /\ arrived \in Nat
    BY <1>1, <1>2, Here DEF TotalBytes
  <1>7. TypeOK'
    <2>1. \A i \in DOMAIN results' : results'[i] \in Decisions
      BY <1>5
    <2> QED
      BY <1>1, <1>2, <1>6, <2>1 DEF TypeOK, Decisions
  <1>8. Progress'
    <2>1. Len(stream) \in Nat
      BY <1>2, Here
    <2> QED
      BY <1>1, <1>4, <1>5, <2>1 DEF Progress
  <1>9. ChunkingIrrelevantBelowLimit'
    <2>1. ASSUME NEW i \in 1..Len(results)
          PROVE Rightly(results'[i], stream[i])
      <3>1. \A j \in DOMAIN results : Rightly(results[j], stream[j])
        BY DEF ParserInv, ChunkingIrrelevantBelowLimit, Rightly
      <3> QED
        BY <1>5, <3>1
    <2>2. Rightly(decision, Current)
      <3>1. CASE Verdict(Current) = status
        <4>1. (Verdict(Current) = OK /\ FinishKeepAlive(Current, Current.start = "1.1")) = FALSE
          BY <3>1 DEF OK
        <4> QED
          BY <3>1, <4>1 DEF Decided, Rightly
      <3> QED
        BY <3>1, ZenonT(30) DEF Rightly
    <2>3. Current = stream[Len(results) + 1]
      BY DEF Current
    <2>4. ASSUME NEW i \in DOMAIN results'
          PROVE Rightly(results'[i], stream[i])
      <3>1. CASE i \in 1..Len(results)
        BY <2>1, <3>1
      <3>2. CASE i = Len(results) + 1
        BY <1>5, <2>2, <2>3, <3>2
      <3> QED
        BY <1>4, <1>5, <3>1, <3>2
    <2>5. \A i \in DOMAIN results' : Rightly(results'[i], stream'[i])
      BY <1>1, <2>4, ZenonT(30)
    <2> QED
      BY <2>5 DEF ChunkingIrrelevantBelowLimit, Rightly
  <1> QED
    BY <1>1, <1>7, <1>8, <1>9
    DEF ParserInv, Position, WaitsOnlyForMissingBytes, BoundedWhileWaiting

\* parse() returns NeedMore: bytes of the request are missing, and the buffer is within the limits.
LEMMA NeedMoreStep ==
    ASSUME ParserInv, pc = "parse", NeedMore,
           Pending => arrived < Begin + Size(Current),
           Buffered <= Max({maxRequestLine, maxHeaderBlock, maxBody})
    PROVE ParserInv'
  <1>1. /\ pc' = "recv" /\ stream' = stream /\ arrived' = arrived /\ consumed' = consumed
        /\ results' = results
        /\ UNCHANGED <<state, taken, headerBytes, contentLength, keepAlive>>
    BY DEF NeedMore, clientVars, parserVars
  <1>2. TypeOK /\ Progress /\ Position /\ ChunkingIrrelevantBelowLimit
    BY DEF ParserInv
  <1>3. /\ Begin' = Begin /\ TotalBytes' = TotalBytes /\ Pending' = Pending /\ Current' = Current
        /\ End(stream, Len(results) + 1)' = End(stream, Len(results) + 1)
    BY <1>1, SameRequest
  <1>4. TypeOK'
    BY <1>1, <1>2, <1>3 DEF TypeOK
  <1>5. Progress' /\ ChunkingIrrelevantBelowLimit'
    BY <1>1, <1>2 DEF Progress, ChunkingIrrelevantBelowLimit
  <1>6. Position'
    BY <1>1, <1>2, <1>3 DEF Position, AtRequestLine, InHeaders, InBody, AtDone
  <1>7. WaitsOnlyForMissingBytes'
    <2>1. Pending => End(stream, Len(results) + 1) = Begin + Size(Current)
      BY <1>2, Here
    <2> QED
      BY <1>1, <1>3, <2>1 DEF WaitsOnlyForMissingBytes
  <1>8. BoundedWhileWaiting'
    BY <1>1 DEF BoundedWhileWaiting, Buffered
  <1> QED
    BY <1>4, <1>5, <1>6, <1>7, <1>8 DEF ParserInv

\* A chunk arrives.
LEMMA ArriveStep ==
    ASSUME ParserInv, Arrive
    PROVE ParserInv'
  <1>1. PICK n \in 1..MaxChunk : arrived + n <= TotalBytes /\ arrived' = arrived + n
    BY DEF Arrive
  <1>2. /\ pc = "recv" /\ pc' = "parse" /\ stream' = stream /\ consumed' = consumed
        /\ results' = results
        /\ UNCHANGED <<state, taken, headerBytes, contentLength, keepAlive>>
    BY DEF Arrive, parserVars
  <1>3. TypeOK /\ Progress /\ Position /\ ChunkingIrrelevantBelowLimit
    BY DEF ParserInv
  <1>4. /\ Begin' = Begin /\ TotalBytes' = TotalBytes /\ Pending' = Pending /\ Current' = Current
    BY <1>2, SameRequest
  <1>5. TypeOK'
    <2>1. arrived' \in 0..TotalBytes /\ consumed \in 0..arrived'
      BY <1>1, <1>3, Here, ChunkAssumption
    <2> QED
      BY <1>2, <1>3, <1>4, <2>1 DEF TypeOK
  <1>6. Progress' /\ ChunkingIrrelevantBelowLimit'
    BY <1>2, <1>3 DEF Progress, ChunkingIrrelevantBelowLimit
  <1>7. Position'
    BY <1>2, <1>3, <1>4 DEF Position, AtRequestLine, InHeaders, InBody, AtDone
  <1> QED
    BY <1>2, <1>5, <1>6, <1>7 DEF ParserInv, WaitsOnlyForMissingBytes, BoundedWhileWaiting

\* A step of the parser that neither decides nor waits is correct once its place is.
LEMMA AdvanceStep ==
    ASSUME ParserInv, pc = "parse", pc' = pc, UNCHANGED <<clientVars, results>>,
           consumed' \in 0..arrived, state' \in {"RequestLine", "Headers", "Body", "Done"},
           taken' \in Nat, headerBytes' \in 0..maxHeaderBlock, contentLength' \in 0..maxBody,
           keepAlive' \in BOOLEAN,
           InHeaders' \/ InBody' \/ AtDone'
    PROVE ParserInv'
  <1>1. stream' = stream /\ arrived' = arrived /\ results' = results
    BY DEF clientVars
  <1>2. TypeOK /\ Progress /\ ChunkingIrrelevantBelowLimit
    BY DEF ParserInv
  <1>3. TotalBytes' = TotalBytes
    BY <1>1, SameRequest
  <1>4. TypeOK'
    BY <1>1, <1>2, <1>3 DEF TypeOK
  <1>5. Progress' /\ ChunkingIrrelevantBelowLimit'
    BY <1>1, <1>2 DEF Progress, ChunkingIrrelevantBelowLimit
  <1>6. Position'
    BY DEF Position
  <1> QED
    BY <1>4, <1>5, <1>6 DEF ParserInv, WaitsOnlyForMissingBytes, BoundedWhileWaiting

\* The state of the parser says where it is.
LEMMA Where ==
    ASSUME ParserInv, pc = "parse"
    PROVE /\ state = "RequestLine" => AtRequestLine
          /\ state = "Headers" => InHeaders
          /\ state = "Body" => InBody
          /\ state = "Done" => AtDone
  BY DEF ParserInv, Position, AtRequestLine, InHeaders, InBody, AtDone

\* No CRLF has arrived in state RequestLine.
LEMMA RequestLineIncompleteStep ==
    ASSUME ParserInv, RequestLineIncomplete
    PROVE ParserInv'
  <1>1. pc = "parse" /\ ~(Pending /\ LineArrived(Current.line))
    BY DEF RequestLineIncomplete
  <1>2. consumed = Begin
    BY <1>1, Where DEF RequestLineIncomplete, AtRequestLine
  <1>3. TypeOK /\ Progress
    BY DEF ParserInv
  <1>4. /\ Begin \in Nat /\ TotalBytes \in Nat /\ arrived \in Nat /\ arrived <= TotalBytes
        /\ consumed <= arrived
        /\ ~Pending => Begin = TotalBytes
        /\ Pending => Current \in RequestSet
    BY <1>3, Here
  <1>5. maxRequestLine \in Nat
    BY ParserLimits
  <1>6. CASE Buffered > maxRequestLine
    <2>1. Pending
      BY <1>2, <1>4, <1>5, <1>6 DEF Buffered
    <2>2. Current \in RequestSet /\ Current.line \in Nat
      BY <1>4, <2>1, RequestShape
    <2>3. Current.line >= maxRequestLine
      BY <1>1, <1>2, <1>4, <1>5, <1>6, <2>1, <2>2 DEF LineArrived, Buffered, Crlf
    <2>4. Verdict(Current) = 414 \/ Current.line = maxRequestLine
      BY <1>5, <2>2, <2>3, VerdictOfLine
    <2>5. Error(414)
      BY <1>6 DEF RequestLineIncomplete
    <2> QED
      BY <2>1, <2>4, <2>5, ErrorStep
  <1>7. CASE ~(Buffered > maxRequestLine)
    <2>1. ASSUME Pending PROVE arrived < Begin + Size(Current)
      <3>1. /\ Current.line \in Nat /\ Size(Current) \in Nat /\ BodyLength(Current) \in Nat
            /\ Len(Current.headers) \in Nat
        BY <1>4, <2>1, Layout
      <3>2. /\ HeaderBytes(Current, 0) \in Nat
            /\ Current.line + Crlf + HeaderBytes(Current, 0) + Crlf + BodyLength(Current)
                    <= Size(Current)
        BY <1>4, <2>1, <3>1, Layout
      <3>3. arrived - consumed < Current.line + Crlf
        BY <1>1, <1>2, <1>4, <2>1, <3>1 DEF LineArrived, Buffered, Crlf
      <3> QED
        BY <1>2, <1>4, <3>1, <3>2, <3>3 DEF Crlf
    <2>2. Buffered <= Max({maxRequestLine, maxHeaderBlock, maxBody})
      BY <1>2, <1>4, <1>5, <1>7, LargestLimit DEF Buffered
    <2>3. NeedMore
      BY <1>7 DEF RequestLineIncomplete
    <2> QED
      BY <1>1, <2>1, <2>2, <2>3, NeedMoreStep
  <1> QED
    BY <1>6, <1>7

\* The request line is refused.
LEMMA RequestLineRefusedStep ==
    ASSUME ParserInv, RequestLineRefused
    PROVE ParserInv'
  <1>1. Pending /\ TypeOK /\ Progress
    BY DEF ParserInv, RequestLineRefused
  <1>2. Current \in RequestSet
    BY <1>1, Here
  <1>3. CASE Current.line > maxRequestLine /\ Error(414)
    BY <1>1, <1>2, <1>3, VerdictOfLine, ErrorStep
  <1>4. CASE Current.line <= maxRequestLine /\ Current.start = "malformed" /\ Error(400)
    BY <1>1, <1>2, <1>4, VerdictOfLine, ErrorStep
  <1>5. CASE Current.line <= maxRequestLine /\ Current.start = "version" /\ Error(505)
    BY <1>1, <1>2, <1>5, VerdictOfLine, ErrorStep
  <1> QED
    BY <1>3, <1>4, <1>5 DEF RequestLineRefused

\* The request line is accepted.
LEMMA RequestLineTakenStep ==
    ASSUME ParserInv, RequestLineTaken
    PROVE ParserInv'
  <1>1. /\ pc = "parse" /\ Pending /\ LineArrived(Current.line)
        /\ GoodStart(Current)
        /\ consumed' = consumed + Current.line + Crlf
        /\ keepAlive' = (Current.start = "1.1")
        /\ state' = "Headers"
        /\ UNCHANGED <<clientVars, taken, headerBytes, contentLength, results, pc>>
    BY DEF RequestLineTaken, GoodStart
  <1>2. consumed = Begin /\ taken = 0 /\ headerBytes = 0 /\ contentLength = 0
    BY <1>1, Where DEF RequestLineTaken, AtRequestLine
  <1>3. TypeOK /\ Progress
    BY DEF ParserInv
  <1>4. Begin \in Nat /\ arrived \in Nat /\ Current \in RequestSet
    BY <1>1, <1>3, Here
  <1>5. Current.line \in Nat /\ Len(Current.headers) \in Nat /\ HeaderBytes(Current, 0) = 0
    BY <1>4, Layout, HeaderBytesStep
  <1>6. consumed' \in 0..arrived
    BY <1>1, <1>2, <1>4, <1>5 DEF LineArrived, Buffered, Crlf
  <1>7. consumed' = Begin + Current.line + Crlf + headerBytes'
    BY <1>1, <1>2, <1>4, <1>5 DEF Crlf
  <1>8. Begin' = Begin /\ Pending' = Pending /\ Current' = Current
    BY <1>1, SameRequest DEF clientVars
  <1>9. Clean(Current, 0)
    BY DEF Clean
  <1>10. InHeaders'
    BY <1>1, <1>2, <1>5, <1>7, <1>8, <1>9 DEF InHeaders
  <1>11. /\ pc' = pc /\ UNCHANGED <<clientVars, results>> /\ state' = "Headers"
         /\ taken' \in Nat /\ headerBytes' \in 0..maxHeaderBlock /\ contentLength' \in 0..maxBody
         /\ keepAlive' \in BOOLEAN
    BY <1>1, <1>2, ParserLimits
  <1> QED
    BY <1>1, <1>6, <1>10, <1>11, AdvanceStep

\* Where the next line of the header block ends
LEMMA NextHeader ==
    ASSUME ParserInv, pc = "parse", state = "Headers"
    PROVE /\ InHeaders /\ Pending /\ Current \in RequestSet /\ GoodStart(Current)
          /\ taken \in Nat /\ headerBytes \in Nat /\ consumed \in Nat /\ arrived \in Nat
          /\ Begin \in Nat /\ Len(Current.headers) \in Nat
          /\ taken <= Len(Current.headers) /\ Clean(Current, taken)
          /\ HeaderLen \in Nat
          /\ HeaderBytes(Current, taken + 1) = headerBytes + HeaderLen + Crlf
          /\ consumed + HeaderLen + Crlf
                = Begin + Current.line + Crlf + HeaderBytes(Current, taken + 1)
          /\ consumed + HeaderLen + Crlf <= Begin + Size(Current)
  <1>1. InHeaders /\ TypeOK /\ Progress
    BY Where DEF ParserInv
  <1>2. /\ Pending /\ GoodStart(Current)
        /\ taken <= Len(Current.headers) /\ Clean(Current, taken)
        /\ headerBytes = HeaderBytes(Current, taken)
        /\ consumed = Begin + Current.line + Crlf + headerBytes
    BY <1>1 DEF InHeaders
  <1>3. /\ Current \in RequestSet
        /\ taken \in Nat /\ headerBytes \in Nat /\ consumed \in Nat /\ arrived \in Nat
        /\ Begin \in Nat
    BY <1>1, <1>2, Here
  <1>4. PICK r \in RequestSet : r = Current
    BY <1>3
  <1>5. PICK n \in Nat, t \in Nat : n = Len(r.headers) /\ t = taken
    BY <1>3, <1>4, Layout
  <1>6. PICK body \in Nat, line \in Nat : body = BodyLength(r) /\ line = r.line
    BY Layout
  <1>7. Size(r) = line + Crlf + HeaderBytes(r, n) + Crlf + body /\ HeaderBytes(r, n) \in Nat
    BY <1>5, <1>6, Layout
  <1>8. CASE t < n
    <2>1. /\ r.headers[t + 1].len \in Nat
          /\ HeaderBytes(r, t + 1) = HeaderBytes(r, t) + r.headers[t + 1].len + Crlf
      BY <1>5, <1>8, Layout
    <2>2. HeaderLen = r.headers[t + 1].len
      BY <1>4, <1>5, <1>8 DEF HeaderLen
    <2>3. PICK len \in Nat : len = HeaderLen
      BY <2>1, <2>2
    <2>4. HeaderBytes(r, t + 1) = headerBytes + len + Crlf
      BY <1>2, <1>4, <1>5, <2>1, <2>2, <2>3
    <2>5. t + 1 \in Nat /\ t + 1 <= n
      BY <1>8
    <2>6. line + Crlf + HeaderBytes(r, t + 1) + Crlf + body <= Size(r)
      BY <1>5, <1>6, <2>5, Layout
    <2>7. consumed = Begin + line + Crlf + headerBytes
      BY <1>2, <1>4, <1>6
    <2>8. consumed + len + Crlf = Begin + line + Crlf + HeaderBytes(r, t + 1)
      BY <1>3, <2>4, <2>7 DEF Crlf
    <2>9. consumed + len + Crlf <= Begin + Size(r)
      <3>1. PICK h \in Nat : h = HeaderBytes(r, t + 1)
        BY <1>3, <2>4 DEF Crlf
      <3>2. Size(r) \in Nat
        BY Layout
      <3> QED
        BY <1>3, <2>6, <2>8, <3>1, <3>2 DEF Crlf
    <2> QED
      BY <1>1, <1>2, <1>3, <1>4, <1>5, <1>6, <2>3, <2>4, <2>8, <2>9
  <1>9. CASE t = n
    <2>1. HeaderLen = 0
      BY <1>4, <1>5, <1>9 DEF HeaderLen
    <2>2. HeaderBytes(r, t + 1) = HeaderBytes(r, t) + Crlf
      BY <1>5, <1>9, Layout
    <2>3. HeaderBytes(r, t + 1) = headerBytes + HeaderLen + Crlf
      BY <1>2, <1>3, <1>4, <1>5, <2>1, <2>2 DEF Crlf
    <2>4. consumed = Begin + line + Crlf + headerBytes
      BY <1>2, <1>4, <1>6
    <2>5. consumed + HeaderLen + Crlf = Begin + line + Crlf + HeaderBytes(r, t + 1)
      BY <1>3, <2>1, <2>3, <2>4 DEF Crlf
    <2>6. headerBytes = HeaderBytes(r, n)
      BY <1>2, <1>4, <1>5, <1>9
    <2>7. consumed + HeaderLen + Crlf <= Begin + Size(r)
      BY <1>3, <1>7, <2>1, <2>4, <2>6 DEF Crlf
    <2> QED
      BY <1>1, <1>2, <1>3, <1>4, <1>5, <1>6, <2>1, <2>3, <2>5, <2>7
  <1> QED
    BY <1>2, <1>4, <1>5, <1>8, <1>9

\* No CRLF has arrived in state Headers.
LEMMA HeaderIncompleteStep ==
    ASSUME ParserInv, HeaderIncomplete
    PROVE ParserInv'
  <1>1. pc = "parse" /\ state = "Headers" /\ ~LineArrived(HeaderLen)
    BY DEF HeaderIncomplete
  <1>2. /\ Pending /\ Current \in RequestSet /\ GoodStart(Current)
        /\ taken \in Nat /\ headerBytes \in Nat /\ consumed \in Nat /\ arrived \in Nat
        /\ Begin \in Nat /\ Len(Current.headers) \in Nat
        /\ taken <= Len(Current.headers) /\ Clean(Current, taken)
        /\ HeaderLen \in Nat
        /\ HeaderBytes(Current, taken + 1) = headerBytes + HeaderLen + Crlf
        /\ consumed + HeaderLen + Crlf <= Begin + Size(Current)
    BY <1>1, NextHeader
  <1>3. maxHeaderBlock \in Nat /\ arrived - consumed < HeaderLen + Crlf
    BY <1>1, <1>2, ParserLimits DEF LineArrived, Buffered, Crlf
  <1>4. CASE Buffered + headerBytes > maxHeaderBlock
    <2>1. HeaderBytes(Current, taken + 1) > maxHeaderBlock
      BY <1>2, <1>3, <1>4 DEF Buffered, Crlf
    <2>2. BadHeader(Current, taken + 1)
      BY <2>1 DEF BadHeader
    <2>3. Verdict(Current) = 431
      BY <1>2, <2>1, <2>2, VerdictOfHeader
    <2>4. Error(431)
      BY <1>4 DEF HeaderIncomplete
    <2> QED
      BY <1>2, <2>3, <2>4, ErrorStep
  <1>5. CASE ~(Buffered + headerBytes > maxHeaderBlock)
    <2>1. arrived < Begin + Size(Current)
      <3>1. Size(Current) \in Nat
        BY <1>2, Layout
      <3> QED
        BY <1>2, <1>3, <3>1 DEF Crlf
    <2>2. Buffered <= Max({maxRequestLine, maxHeaderBlock, maxBody})
      BY <1>2, <1>3, <1>5, LargestLimit DEF Buffered
    <2>3. NeedMore
      BY <1>5 DEF HeaderIncomplete
    <2> QED
      BY <1>1, <2>1, <2>2, <2>3, NeedMoreStep
  <1> QED
    BY <1>4, <1>5

\* A header line is above the limit or has no colon.
LEMMA HeaderRefusedStep ==
    ASSUME ParserInv, HeaderRefused
    PROVE ParserInv'
  <1>1. pc = "parse" /\ state = "Headers"
    BY DEF HeaderRefused
  <1>2. /\ Pending /\ Current \in RequestSet /\ GoodStart(Current)
        /\ taken \in Nat /\ headerBytes \in Nat /\ Len(Current.headers) \in Nat
        /\ taken <= Len(Current.headers) /\ Clean(Current, taken)
        /\ HeaderLen \in Nat
        /\ HeaderBytes(Current, taken + 1) = headerBytes + HeaderLen + Crlf
    BY <1>1, NextHeader
  <1>3. CASE headerBytes + HeaderLen + Crlf > maxHeaderBlock
    <2>1. HeaderBytes(Current, taken + 1) > maxHeaderBlock
      BY <1>2, <1>3
    <2>2. BadHeader(Current, taken + 1)
      BY <2>1 DEF BadHeader
    <2>3. Verdict(Current) = 431
      BY <1>2, <2>1, <2>2, VerdictOfHeader
    <2>4. Error(431)
      BY <1>3 DEF HeaderRefused
    <2> QED
      BY <1>2, <2>3, <2>4, ErrorStep
  <1>4. CASE ~(headerBytes + HeaderLen + Crlf > maxHeaderBlock)
    <2>1. /\ taken < Len(Current.headers)
          /\ Current.headers[taken + 1].kind = "nocolon"
          /\ Error(400)
      BY <1>4 DEF HeaderRefused
    <2>2. BadHeader(Current, taken + 1)
      BY <1>2, <2>1 DEF BadHeader
    <2>3. ~(HeaderBytes(Current, taken + 1) > maxHeaderBlock)
      BY <1>2, <1>4
    <2>4. Verdict(Current) = 400
      BY <1>2, <2>2, <2>3, VerdictOfHeader
    <2> QED
      BY <1>2, <2>1, <2>4, ErrorStep
  <1> QED
    BY <1>3, <1>4

\* A header field is taken.
LEMMA HeaderTakenStep ==
    ASSUME ParserInv, HeaderTaken
    PROVE ParserInv'
  <1>1. /\ pc = "parse" /\ state = "Headers" /\ LineArrived(HeaderLen)
        /\ headerBytes + HeaderLen + Crlf <= maxHeaderBlock
        /\ taken < Len(Current.headers)
        /\ Current.headers[taken + 1].kind # "nocolon"
        /\ consumed' = consumed + HeaderLen + Crlf
        /\ headerBytes' = headerBytes + HeaderLen + Crlf
        /\ taken' = taken + 1
        /\ UNCHANGED <<clientVars, state, contentLength, keepAlive, results, pc>>
    BY DEF HeaderTaken
  <1>2. /\ InHeaders /\ Pending /\ Current \in RequestSet /\ GoodStart(Current)
        /\ taken \in Nat /\ headerBytes \in Nat /\ consumed \in Nat /\ arrived \in Nat
        /\ Begin \in Nat /\ Len(Current.headers) \in Nat
        /\ Clean(Current, taken)
        /\ HeaderLen \in Nat
        /\ HeaderBytes(Current, taken + 1) = headerBytes + HeaderLen + Crlf
        /\ consumed + HeaderLen + Crlf
              = Begin + Current.line + Crlf + HeaderBytes(Current, taken + 1)
    BY <1>1, NextHeader
  <1>3. Begin' = Begin /\ Pending' = Pending /\ Current' = Current
    BY <1>1, SameRequest DEF clientVars
  <1>4. Clean(Current, taken + 1)
    <2>1. HeaderBytes(Current, taken + 1) <= maxHeaderBlock
      BY <1>1, <1>2
    <2>2. ~BadHeader(Current, taken + 1)
      BY <1>1, <1>2, <2>1, ParserLimits DEF BadHeader, Crlf
    <2>3. \A j \in 1..(taken + 1) : j \in 1..taken \/ j = taken + 1
      BY <1>2
    <2> QED
      BY <1>2, <2>2, <2>3 DEF Clean
  <1>5. taken' \in Nat /\ taken' <= Len(Current.headers)
    BY <1>1, <1>2
  <1>6. consumed' \in 0..arrived /\ headerBytes' \in 0..maxHeaderBlock
    <2>1. PICK len \in Nat : len = HeaderLen
      BY <1>2
    <2>2. /\ arrived - consumed >= len + Crlf /\ consumed' = consumed + len + Crlf
          /\ headerBytes + len + Crlf <= maxHeaderBlock /\ headerBytes' = headerBytes + len + Crlf
      BY <1>1, <2>1 DEF LineArrived, Buffered
    <2>3. maxHeaderBlock \in Nat /\ headerBytes \in Nat /\ consumed \in Nat /\ arrived \in Nat
      BY <1>2, ParserLimits
    <2> QED
      BY <2>2, <2>3 DEF Crlf
  <1>7. contentLength = 0 /\ keepAlive = (Current.start = "1.1") /\ keepAlive \in BOOLEAN
    BY <1>2 DEF InHeaders
  <1>8. headerBytes' = HeaderBytes(Current, taken')
        /\ consumed' = Begin + Current.line + Crlf + headerBytes'
    BY <1>1, <1>2
  <1>9. InHeaders'
    BY <1>1, <1>2, <1>3, <1>4, <1>5, <1>7, <1>8 DEF InHeaders
  <1>10. /\ pc' = pc /\ UNCHANGED <<clientVars, results>> /\ state' = "Headers"
         /\ contentLength' \in 0..maxBody /\ keepAlive' \in BOOLEAN
    BY <1>1, <1>7, ParserLimits
  <1> QED
    BY <1>1, <1>5, <1>6, <1>9, <1>10, AdvanceStep

\* The empty line: the whole header block is clean.
LEMMA BlockClean ==
    ASSUME ParserInv, HeadersEnd
    PROVE /\ InHeaders /\ Pending /\ Current \in RequestSet /\ GoodStart(Current)
          /\ Clean(Current, Len(Current.headers) + 1)
          /\ consumed \in Nat /\ headerBytes \in Nat /\ arrived \in Nat /\ Begin \in Nat
          /\ consumed + Crlf <= arrived /\ headerBytes + Crlf <= maxHeaderBlock
          /\ consumed + Crlf = Begin + Size(Current) - BodyLength(Current)
  <1>1. /\ pc = "parse" /\ state = "Headers" /\ taken = Len(Current.headers)
        /\ LineArrived(0) /\ headerBytes + Crlf <= maxHeaderBlock
    BY DEF HeadersEnd
  <1>2. /\ InHeaders /\ Pending /\ Current \in RequestSet /\ GoodStart(Current)
        /\ taken \in Nat /\ headerBytes \in Nat /\ consumed \in Nat /\ arrived \in Nat
        /\ Begin \in Nat /\ Clean(Current, taken)
        /\ HeaderBytes(Current, taken + 1) = headerBytes + HeaderLen + Crlf
        /\ consumed + HeaderLen + Crlf
              = Begin + Current.line + Crlf + HeaderBytes(Current, taken + 1)
    BY <1>1, NextHeader
  <1>3. HeaderLen = 0
    BY <1>1, <1>2 DEF HeaderLen
  <1>4. consumed + Crlf <= arrived
    BY <1>1, <1>2 DEF LineArrived, Buffered, Crlf
  <1>5. PICK r \in RequestSet : r = Current
    BY <1>2
  <1>6. PICK n \in Nat : n = Len(r.headers) /\ n = taken
    BY <1>1, <1>2, <1>5
  <1>7. HeaderBytes(r, n + 1) = headerBytes + Crlf
    BY <1>2, <1>3, <1>5, <1>6 DEF Crlf
  <1>8. Clean(r, n + 1)
    <2>1. ~BadHeader(r, n + 1)
      BY <1>1, <1>2, <1>6, <1>7, ParserLimits DEF BadHeader, Crlf
    <2>2. \A j \in 1..(n + 1) : j \in 1..n \/ j = n + 1
      OBVIOUS
    <2> QED
      BY <1>2, <1>5, <1>6, <2>1, <2>2 DEF Clean
  <1>9. consumed + Crlf = Begin + Size(r) - BodyLength(r)
    <2>1. PICK line \in Nat, body \in Nat : line = r.line /\ body = BodyLength(r)
      BY Layout
    <2>2. Size(r) = line + Crlf + HeaderBytes(r, n + 1) + body
      BY <1>6, <2>1 DEF Size
    <2>3. consumed + Crlf = Begin + line + Crlf + HeaderBytes(r, n + 1)
      BY <1>2, <1>3, <1>5, <1>6, <2>1 DEF Crlf
    <2> QED
      BY <1>2, <1>7, <2>1, <2>2, <2>3 DEF Crlf
  <1> QED
    BY <1>1, <1>2, <1>4, <1>5, <1>6, <1>8, <1>9

\* finishHeaders() refuses the request.
LEMMA HeadersRefusedStep ==
    ASSUME ParserInv, HeadersRefused
    PROVE ParserInv'
  <1>1. /\ Pending /\ Current \in RequestSet /\ GoodStart(Current)
        /\ Clean(Current, Len(Current.headers) + 1)
    BY BlockClean DEF HeadersRefused
  <1>2. FinishStatus(Current) \in {400, 413, 501} /\ Error(FinishStatus(Current))
    BY <1>1, FinishStatusRange DEF HeadersRefused
  <1>3. Verdict(Current) = FinishStatus(Current)
    BY <1>1, VerdictOfFinish
  <1> QED
    BY <1>1, <1>2, <1>3, ErrorStep

\* finishHeaders() accepts the request.
LEMMA HeadersFinishedStep ==
    ASSUME ParserInv, HeadersFinished
    PROVE ParserInv'
  <1>1. /\ InHeaders /\ Pending /\ Current \in RequestSet /\ GoodStart(Current)
        /\ Clean(Current, Len(Current.headers) + 1)
        /\ consumed \in Nat /\ headerBytes \in Nat /\ arrived \in Nat /\ Begin \in Nat
        /\ consumed + Crlf <= arrived /\ headerBytes + Crlf <= maxHeaderBlock
        /\ consumed + Crlf = Begin + Size(Current) - BodyLength(Current)
    BY BlockClean DEF HeadersFinished
  <1>2. /\ pc = "parse" /\ FinishStatus(Current) = OK
        /\ consumed' = consumed + Crlf
        /\ headerBytes' = headerBytes + Crlf
        /\ contentLength' = IF LengthFields(Current) = {} THEN contentLength ELSE BodyLength(Current)
        /\ keepAlive' = FinishKeepAlive(Current, keepAlive)
        /\ state' = IF contentLength' > 0 THEN "Body" ELSE "Done"
        /\ UNCHANGED <<clientVars, taken, results, pc>>
    BY DEF HeadersFinished, HeadersEnd
  <1>3. contentLength = 0 /\ keepAlive = (Current.start = "1.1") /\ taken \in Nat
    BY <1>1 DEF InHeaders, ParserInv, TypeOK
  <1>4. contentLength' = BodyLength(Current)
    BY <1>2, <1>3 DEF BodyLength
  <1>5. BodyLength(Current) \in 0..maxBody
    BY <1>1, <1>2, FinishStatusRange
  <1>6. keepAlive' = FinishKeepAlive(Current, Current.start = "1.1") /\ keepAlive' \in BOOLEAN
    BY <1>2, <1>3 DEF FinishKeepAlive
  <1>7. Begin' = Begin /\ Pending' = Pending /\ Current' = Current
    BY <1>2, SameRequest DEF clientVars
  <1>8. Accepted(Current)
    BY <1>1, <1>2 DEF Accepted
  <1>9. ASSUME BodyLength(Current) > 0 PROVE InBody'
    <2>1. state' = "Body"
      BY <1>2, <1>4, <1>9
    <2>2. /\ consumed' = Begin' + Size(Current') - BodyLength(Current')
          /\ contentLength' = BodyLength(Current')
          /\ keepAlive' = FinishKeepAlive(Current', Current'.start = "1.1")
          /\ Pending' /\ Accepted(Current')
      BY <1>1, <1>2, <1>4, <1>6, <1>7, <1>8
    <2> QED
      BY <2>1, <2>2 DEF InBody
  <1>10. ASSUME ~(BodyLength(Current) > 0) PROVE AtDone'
    <2>1. state' = "Done"
      BY <1>2, <1>4, <1>10
    <2>2. BodyLength(Current) = 0 /\ Size(Current) \in Nat
      BY <1>1, <1>5, <1>10, ParserLimits, Layout
    <2>3. consumed' = Begin + Size(Current)
      BY <1>1, <1>2, <2>2
    <2>4. /\ consumed' = Begin' + Size(Current')
          /\ keepAlive' = FinishKeepAlive(Current', Current'.start = "1.1")
          /\ Pending' /\ Accepted(Current')
      BY <1>1, <1>6, <1>7, <1>8, <2>3
    <2> QED
      BY <2>1, <2>4 DEF AtDone
  <1>11. InBody' \/ AtDone'
    BY <1>9, <1>10
  <1>12. consumed' \in 0..arrived /\ headerBytes' \in 0..maxHeaderBlock
    BY <1>1, <1>2, ParserLimits DEF Crlf
  <1>13. /\ pc' = pc /\ UNCHANGED <<clientVars, results>> /\ state' \in {"Body", "Done"}
         /\ taken' \in Nat /\ contentLength' \in 0..maxBody
    BY <1>2, <1>3, <1>4, <1>5
  <1> QED
    BY <1>2, <1>6, <1>11, <1>12, <1>13, AdvanceStep

\* The body has not arrived as a whole.
LEMMA BodyIncompleteStep ==
    ASSUME ParserInv, BodyIncomplete
    PROVE ParserInv'
  <1>1. pc = "parse" /\ Buffered < contentLength /\ NeedMore
    BY DEF BodyIncomplete
  <1>2. InBody /\ TypeOK /\ Progress
    BY <1>1, Where DEF BodyIncomplete, ParserInv
  <1>3. /\ Pending /\ consumed = Begin + Size(Current) - BodyLength(Current)
        /\ contentLength = BodyLength(Current)
    BY <1>2 DEF InBody
  <1>4. Begin \in Nat /\ arrived \in Nat /\ Current \in RequestSet
    BY <1>2, <1>3, Here
  <1>5. contentLength \in Nat /\ contentLength <= maxBody /\ maxBody \in Nat
    BY <1>2, ParserLimits DEF TypeOK
  <1>6. Size(Current) \in Nat
    BY <1>4, Layout
  <1>7. arrived < Begin + Size(Current)
    BY <1>1, <1>3, <1>4, <1>5, <1>6 DEF Buffered
  <1>8. Buffered <= Max({maxRequestLine, maxHeaderBlock, maxBody})
    BY <1>1, <1>3, <1>4, <1>5, <1>6, LargestLimit DEF Buffered
  <1> QED
    BY <1>1, <1>7, <1>8, NeedMoreStep

\* The body is taken.
LEMMA BodyTakenStep ==
    ASSUME ParserInv, BodyTaken
    PROVE ParserInv'
  <1>1. /\ pc = "parse" /\ Buffered >= contentLength
        /\ consumed' = consumed + contentLength /\ state' = "Done"
        /\ UNCHANGED <<clientVars, taken, headerBytes, contentLength, keepAlive, results, pc>>
    BY DEF BodyTaken
  <1>2. InBody /\ TypeOK /\ Progress
    BY <1>1, Where DEF BodyTaken, ParserInv
  <1>3. /\ Pending /\ Accepted(Current)
        /\ consumed = Begin + Size(Current) - BodyLength(Current)
        /\ contentLength = BodyLength(Current)
        /\ keepAlive = FinishKeepAlive(Current, Current.start = "1.1")
    BY <1>2 DEF InBody
  <1>4. /\ Begin \in Nat /\ arrived \in Nat /\ consumed \in Nat /\ Current \in RequestSet
        /\ contentLength \in Nat
    BY <1>2, <1>3, Here
  <1>5. Size(Current) \in Nat
    BY <1>4, Layout
  <1>6. consumed' = Begin + Size(Current) /\ consumed' \in 0..arrived
    BY <1>1, <1>3, <1>4, <1>5 DEF Buffered
  <1>7. Begin' = Begin /\ Pending' = Pending /\ Current' = Current
    BY <1>1, SameRequest DEF clientVars
  <1>8. AtDone'
    BY <1>1, <1>3, <1>6, <1>7 DEF AtDone
  <1>9. /\ pc' = pc /\ UNCHANGED <<clientVars, results>>
        /\ taken' \in Nat /\ headerBytes' \in 0..maxHeaderBlock /\ contentLength' \in 0..maxBody
        /\ keepAlive' \in BOOLEAN
    BY <1>1, <1>2 DEF TypeOK
  <1> QED
    BY <1>1, <1>6, <1>8, <1>9, AdvanceStep

\* The request is complete: it is decided as its reference says, and the next one starts
\* where it ends.
LEMMA CompleteStep ==
    ASSUME ParserInv, Complete
    PROVE ParserInv'
  <1> DEFINE decision == [status |-> OK, keepAlive |-> keepAlive]
  <1>1. /\ pc = "parse" /\ state = "Done"
        /\ results' = Append(results, decision)
        /\ consumed' = (IF keepAlive THEN consumed ELSE arrived)
        /\ pc' = (IF keepAlive THEN "parse" ELSE "closing")
        /\ stream' = stream /\ arrived' = arrived
        /\ state' = "RequestLine" /\ taken' = 0
        /\ headerBytes' = 0 /\ contentLength' = 0 /\ keepAlive' = TRUE
    BY DEF Complete, Reset, clientVars
  <1>2. AtDone /\ TypeOK /\ Progress
    BY <1>1, Where DEF ParserInv
  <1>3. /\ Pending /\ Accepted(Current)
        /\ consumed = Begin + Size(Current)
        /\ keepAlive = FinishKeepAlive(Current, Current.start = "1.1")
    BY <1>2 DEF AtDone
  <1>4. /\ Current \in RequestSet /\ arrived \in Nat /\ consumed \in Nat /\ consumed <= arrived
        /\ End(stream, Len(results) + 1) = consumed /\ Len(stream) \in Nat
    BY <1>2, <1>3, Here
  <1>5. keepAlive \in BOOLEAN
    BY <1>2 DEF TypeOK
  <1>6. decision \in Decisions
    BY <1>5 DEF Decisions, OK
  <1>7. results \in Seq(Decisions) /\ Len(results) \in Nat /\ Len(results) < Len(stream)
    BY <1>2, <1>3 DEF Progress, Pending
  <1>8. /\ results' \in Seq(Decisions) /\ Len(results') = Len(results) + 1
        /\ DOMAIN results' = 1..(Len(results) + 1) /\ DOMAIN results = 1..Len(results)
        /\ \A i \in 1..Len(results) : results'[i] = results[i]
        /\ results'[Len(results) + 1] = decision
    BY <1>1, <1>6, <1>7
  <1>9. TypeOK'
    <2>1. \A i \in DOMAIN results' : results'[i] \in Decisions
      BY <1>8
    <2>2. TotalBytes' = TotalBytes /\ consumed' \in 0..arrived
      BY <1>1, <1>4 DEF TotalBytes
    <2> QED
      BY <1>1, <1>2, <2>1, <2>2, ParserLimits DEF TypeOK, Decisions
  <1>10. Progress'
    BY <1>1, <1>4, <1>7, <1>8 DEF Progress
  <1>11. Position'
    <2>1. CASE keepAlive
      <3>1. Begin' = consumed /\ consumed' = consumed
        BY <1>1, <1>4, <1>8, <2>1 DEF Begin
      <3> QED
        BY <1>1, <3>1 DEF Position, AtRequestLine
    <2>2. CASE ~keepAlive
      BY <1>1, <2>2 DEF Position
    <2> QED
      BY <2>1, <2>2
  <1>12. ChunkingIrrelevantBelowLimit'
    <2>1. ASSUME NEW i \in 1..Len(results) PROVE Rightly(results'[i], stream[i])
      <3>1. \A j \in DOMAIN results : Rightly(results[j], stream[j])
        BY DEF ParserInv, ChunkingIrrelevantBelowLimit, Rightly
      <3> QED
        BY <1>8, <3>1
    <2>2. Rightly(decision, Current)
      <3>1. Verdict(Current) = OK
        BY <1>3, <1>4, VerdictOfFinish DEF Accepted
      <3>2. (Verdict(Current) = OK /\ FinishKeepAlive(Current, Current.start = "1.1")) = keepAlive
        BY <1>3, <1>5, <3>1
      <3> QED
        BY <3>1, <3>2 DEF Decided, Rightly
    <2>3. Current = stream[Len(results) + 1]
      BY DEF Current
    <2>4. ASSUME NEW i \in DOMAIN results' PROVE Rightly(results'[i], stream[i])
      <3>1. CASE i \in 1..Len(results)
        BY <2>1, <3>1
      <3>2. CASE i = Len(results) + 1
        BY <1>8, <2>2, <2>3, <3>2
      <3> QED
        BY <1>7, <1>8, <3>1, <3>2
    <2>5. \A i \in DOMAIN results' : Rightly(results'[i], stream'[i])
      BY <1>1, <2>4
    <2> QED
      BY <2>5 DEF ChunkingIrrelevantBelowLimit, Rightly
  <1> QED
    BY <1>1, <1>9, <1>10, <1>11, <1>12
    DEF ParserInv, WaitsOnlyForMissingBytes, BoundedWhileWaiting

-----------------------------------------------------------------------------
(* Theorems *)

\* The parser starts within the invariant.
LEMMA ParserInvInit == Init => ParserInv
  <1> SUFFICES ASSUME Init PROVE ParserInv
    OBVIOUS
  <1>1. stream \in Seq(RequestSet) /\ stream \in Streams
    BY StreamsAssumption DEF Init, RequestSet
  <1>2. Len(stream) \in Nat
    BY <1>1
  <1>3. /\ End(stream, 0) = 0
        /\ \A n \in Nat : End(stream, n) \in Nat
        /\ \A n \in Nat : n < Len(stream) => End(stream, n + 1) = End(stream, n) + Size(stream[n + 1])
    BY <1>1, EndStep
  <1>4. TotalBytes \in Nat
    BY <1>2, <1>3 DEF TotalBytes
  <1>5. TypeOK
    BY <1>1, <1>4, ParserLimits DEF Init, TypeOK
  <1>6. Progress
    BY <1>2 DEF Init, Progress
  <1>7. Position
    BY <1>3 DEF Init, Position, AtRequestLine, Begin
  <1>8. ChunkingIrrelevantBelowLimit
    BY DEF Init, ChunkingIrrelevantBelowLimit
  <1>9. WaitsOnlyForMissingBytes
    <2>1. ASSUME Pending PROVE arrived < End(stream, Len(results) + 1)
      <3>1. Len(results) = 0 /\ 0 < Len(stream) /\ arrived = 0
        BY <2>1 DEF Init, Pending
      <3>2. PICK r \in RequestSet : r = stream[1]
        BY <1>1, <1>2, <3>1
      <3>3. End(stream, 1) = Size(r)
        <4>1. End(stream, 0 + 1) = End(stream, 0) + Size(stream[0 + 1])
          BY <1>3, <3>1
        <4>2. Size(r) \in Nat
          BY Layout
        <4> QED
          BY <1>3, <3>2, <4>1, <4>2
      <3>4. Size(r) > 0
        <4>1. PICK line \in Nat, n \in Nat, body \in Nat :
                  line = r.line /\ n = Len(r.headers) /\ body = BodyLength(r)
          BY Layout
        <4>2. HeaderBytes(r, n) \in Nat /\ Size(r) = line + Crlf + HeaderBytes(r, n) + Crlf + body
          BY <4>1, Layout
        <4> QED
          BY <4>2 DEF Crlf
      <3> QED
        BY <3>1, <3>3, <3>4
    <2> QED
      BY <2>1 DEF WaitsOnlyForMissingBytes
  <1>10. BoundedWhileWaiting
    BY LargestLimit DEF Init, BoundedWhileWaiting, Buffered
  <1> QED
    BY <1>5, <1>6, <1>7, <1>8, <1>9, <1>10 DEF ParserInv

\* Every step of the specification preserves the invariant.
LEMMA ParserInvStep == ParserInv /\ [Next]_vars => ParserInv'
  <1> SUFFICES ASSUME ParserInv, [Next]_vars PROVE ParserInv'
    OBVIOUS
  <1>1. CASE Arrive
    BY <1>1, ArriveStep
  <1>2. CASE RequestLineIncomplete
    BY <1>2, RequestLineIncompleteStep
  <1>3. CASE RequestLineRefused
    BY <1>3, RequestLineRefusedStep
  <1>4. CASE RequestLineTaken
    BY <1>4, RequestLineTakenStep
  <1>5. CASE HeaderIncomplete
    BY <1>5, HeaderIncompleteStep
  <1>6. CASE HeaderRefused
    BY <1>6, HeaderRefusedStep
  <1>7. CASE HeaderTaken
    BY <1>7, HeaderTakenStep
  <1>8. CASE HeadersRefused
    BY <1>8, HeadersRefusedStep
  <1>9. CASE HeadersFinished
    BY <1>9, HeadersFinishedStep
  <1>10. CASE BodyIncomplete
    BY <1>10, BodyIncompleteStep
  <1>11. CASE BodyTaken
    BY <1>11, BodyTakenStep
  <1>12. CASE Complete
    BY <1>12, CompleteStep
  <1>13. CASE UNCHANGED vars
    <2>1. /\ pc' = pc /\ stream' = stream /\ arrived' = arrived /\ consumed' = consumed
          /\ results' = results
          /\ UNCHANGED <<state, taken, headerBytes, contentLength, keepAlive>>
      BY <1>13 DEF vars, clientVars, parserVars
    <2>2. /\ Begin' = Begin /\ TotalBytes' = TotalBytes /\ Pending' = Pending /\ Current' = Current
          /\ End(stream, Len(results) + 1)' = End(stream, Len(results) + 1)
      BY <2>1, SameRequest
    <2>3. TypeOK' /\ Progress' /\ ChunkingIrrelevantBelowLimit'
      BY <2>1, <2>2 DEF ParserInv, TypeOK, Progress, ChunkingIrrelevantBelowLimit
    <2>4. Position'
      BY <2>1, <2>2 DEF ParserInv, Position, AtRequestLine, InHeaders, InBody, AtDone
    <2>5. WaitsOnlyForMissingBytes' /\ BoundedWhileWaiting'
      BY <2>1, <2>2 DEF ParserInv, WaitsOnlyForMissingBytes, BoundedWhileWaiting, Buffered
    <2> QED
      BY <2>3, <2>4, <2>5 DEF ParserInv
  <1> QED
    BY <1>1, <1>2, <1>3, <1>4, <1>5, <1>6, <1>7, <1>8, <1>9, <1>10, <1>11, <1>12, <1>13
    DEF Next, Parse

\* The invariant holds in every reachable state.
LEMMA ParserInvariant == Spec => []ParserInv
  BY ParserInvInit, ParserInvStep, PTL DEF Spec

\* Every variable keeps its type, and the counters of RequestParser (http.h:66-67) stay
\* within the limits of the constructor, for all streams, chunks and limits.
THEOREM ParserTypeCorrect == Spec => []TypeOK
  <1>1. ParserInv => TypeOK
    BY DEF ParserInv
  <1> QED
    BY <1>1, ParserInvariant, PTL

\* However its bytes and those of its neighbours are cut into chunks, a request is decided
\* by parse() as if it were there as a whole, except for a line of exactly maxRequestLine bytes.
THEOREM ChunkingNeverMatters == Spec => []ChunkingIrrelevantBelowLimit
  <1>1. ParserInv => ChunkingIrrelevantBelowLimit
    BY DEF ParserInv
  <1> QED
    BY <1>1, ParserInvariant, PTL

\* parse() never returns NeedMore when the next request has arrived as a whole.
THEOREM NeverWaitsInVain == Spec => []WaitsOnlyForMissingBytes
  <1>1. ParserInv => WaitsOnlyForMissingBytes
    BY DEF ParserInv
  <1> QED
    BY <1>1, ParserInvariant, PTL

\* parse() starts every request exactly where the one before it ends: no byte of a body is
\* read as a request, and none is skipped.
THEOREM AlwaysFramedExactly == Spec => []FramedExactly
  <1>1. ParserInv => FramedExactly
    BY DEF ParserInv, Position, AtRequestLine, InHeaders, InBody, AtDone, FramedExactly, Begin
  <1> QED
    BY <1>1, ParserInvariant, PTL

\* What onReadable() keeps in its buffer between two calls of recv() is bounded by the limits.
THEOREM BufferAlwaysBounded == Spec => []BoundedWhileWaiting
  <1>1. ParserInv => BoundedWhileWaiting
    BY DEF ParserInv
  <1> QED
    BY <1>1, ParserInvariant, PTL

=============================================================================
