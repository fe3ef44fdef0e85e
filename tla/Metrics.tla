------------------------------ MODULE Metrics ------------------------------
(***************************************************************************)
(* The counters of Metrics (src/metrics.cpp).  Every fetch_add and every   *)
(* load is a step of its own, in program order: the operations are         *)
(* relaxed, but on x86-64 a fetch_add is a locked instruction and loads    *)
(* are not reordered with loads.                                           *)
(***************************************************************************)
EXTENDS Integers, Sequences, FiniteSets, FiniteSetsExt, PrefixSums

CONSTANT bucketBounds    \* Metrics::bucketBounds; the last one stands for UINT64_MAX

ASSUME BoundsAssumption ==
    /\ bucketBounds \in Seq(Nat) /\ Len(bucketBounds) > 1
    /\ \A i, j \in DOMAIN bucketBounds : i < j => bucketBounds[i] < bucketBounds[j]

VARIABLES
    totalRequests, bytesOut,    \* bytesOut in units of one response body
    responses,                  \* responses2xx, responses4xx, responses5xx
    latencyBuckets

metricVars == <<totalRequests, bytesOut, responses, latencyBuckets>>

bucketCount == Len(bucketBounds)
StatusClasses == {"ok", "clientError", "serverError"}

MetricsInit ==
    /\ totalRequests = 0 /\ bytesOut = 0
    /\ responses = [class \in StatusClasses |-> 0]
    /\ latencyBuckets = [i \in 1..bucketCount |-> 0]

\* The four updates of recordRequest(), in this order
RecordTotal ==
    /\ totalRequests' = totalRequests + 1
    /\ UNCHANGED <<bytesOut, responses, latencyBuckets>>

RecordBytes ==
    /\ bytesOut' = bytesOut + 1
    /\ UNCHANGED <<totalRequests, responses, latencyBuckets>>

Class(status) ==
    IF status < 400 THEN "ok" ELSE IF status < 500 THEN "clientError" ELSE "serverError"

\* Seeded fault: an answer of the 400s is not counted.
RecordStatusNoClientError(status) ==
    /\ responses' = IF Class(status) = "clientError" THEN responses
                    ELSE [responses EXCEPT ![Class(status)] = @ + 1]
    /\ UNCHANGED <<totalRequests, bytesOut, latencyBuckets>>

RecordStatus(status) ==
    /\ responses' = [responses EXCEPT ![Class(status)] = @ + 1]
    /\ UNCHANGED <<totalRequests, bytesOut, latencyBuckets>>

\* The first bucket whose bound is not below the latency
Bucket(micros) == Min({i \in 1..bucketCount : micros <= bucketBounds[i]})

\* Seeded fault: the unbounded bucket is not used.
RecordLatencyBounded(micros) ==
    /\ latencyBuckets' = IF Bucket(micros) < bucketCount
                         THEN [latencyBuckets EXCEPT ![Bucket(micros)] = @ + 1] ELSE latencyBuckets
    /\ UNCHANGED <<totalRequests, bytesOut, responses>>

RecordLatency(micros) ==
    /\ latencyBuckets' = [latencyBuckets EXCEPT ![Bucket(micros)] = @ + 1]
    /\ UNCHANGED <<totalRequests, bytesOut, responses>>

\* percentile(): the rank looked for, truncated
Rank(percent, total) == (percent * total) \div 100

\* One turn of its loop: bucket i has been loaded and `seen` requests were in the ones
\* before.  The answer is a bucket, bucketCount + 1 when the loop ends without one, or 0
\* while it goes on.
Unfound == bucketCount + 1

\* Seeded fault: the loop compares before it adds the bucket.
WalkBeforeLoad(i, seen, target) ==
    IF seen >= target THEN i ELSE IF i = bucketCount THEN Unfound ELSE 0

Walk(i, seen, target) ==
    IF seen + latencyBuckets[i] >= target THEN i ELSE IF i = bucketCount THEN Unfound ELSE 0

\* The bound it reports for that; the unbounded bucket has none of its own.
Upper(bucket) == IF bucket >= bucketCount THEN bucketBounds[bucketCount - 1] ELSE bucketBounds[bucket]

\* All the responses of a set of status counts
Answers(counts) == counts.ok + counts.clientError + counts.serverError

\* Requests in the first n buckets
Recorded(n) == PrefixSum([i \in Nat |-> IF i \in 1..bucketCount THEN latencyBuckets[i] ELSE 0], n)

\* Requests recorded with a latency of at most a bound; the bounds ascend.
RecordedUpTo(bound) == Recorded(Max({0} \cup {i \in 1..bucketCount : bucketBounds[i] <= bound}))

=============================================================================
