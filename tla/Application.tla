---------------------------- MODULE Application ----------------------------
(***************************************************************************)
(* What main() puts together around a loop, and what happens between a     *)
(* parsed request and its response, in the threads of either loop at once: *)
(* ConnectionHandler::onReadable() calls Router::route(), the handler uses *)
(* the key-value store, the file cache or the metrics, and                 *)
(* Metrics::recordRequest() counts the answer.                             *)
(*                                                                         *)
(* A step is one access to shared state, together with the computation of  *)
(* the thread before it; the store and the cache are behind mutexes that   *)
(* are held for one step.  A request is kept with its worker until its     *)
(* recording begins.                                                       *)
(***************************************************************************)
EXTENDS Config, Router, FileCache, KvStore, Metrics

CONSTANTS
    Workers,       \* threads that handle requests
    StaticPaths,   \* request paths that no route has
    Resolve,       \* the file each of them denotes, or Escaped
    Escaped,       \* resolve() refuses the path
    Workloads,     \* by name: what clients may ask in one behaviour, and the set-up
    NoRequest

Percentiles == <<50, 95, 99>>

ASSUME WorkersAssumption == IsFiniteSet(Workers)
ASSUME ResolveAssumption == Resolve \in [StaticPaths -> Files \cup {Escaped}] /\ Escaped \notin Files
ASSUME WorkloadsAssumption ==
    \A name \in DOMAIN Workloads : LET load == Workloads[name] IN
        /\ \A r \in load.requests : r # NoRequest /\ r.path \in knownPaths \cup StaticPaths
        /\ \A r \in load.requests : BodyTypes(r)
        /\ \A o \in load.options : OptionTypes(o)
        /\ load.present \subseteq Files /\ load.editable \subseteq Files
        /\ load.refusals \subseteq {400, 413, 414, 431, 501, 505}
        /\ load.latencies \subseteq Nat /\ load.max \in Nat
        /\ \A l \in load.latencies : l <= bucketBounds[bucketCount]

VARIABLES
    workload, left,     \* the clients: the workload, how many requests to come
    wpc,                \* where each worker is
    request, status,    \* the request it handles, the status it has decided on
    latency,            \* the time the handler took
    found,              \* readFile(): file, content, and the version on disk at the lookup
    snap                \* toJson(): what it has loaded so far

workerVars == <<wpc, request, status, latency, found, snap>>
vars == <<configVars, workload, left, workerVars, cacheVars, diskVars, kvVars, metricVars>>

Load == Workloads[workload]
NoFile == [file |-> Escaped, version |-> 0, since |-> 0]
NoSnap == [total |-> 0, responses |-> [class \in StatusClasses |-> 0],
           bucket |-> 1, seen |-> 0, reports |-> <<>>]

Init ==
    /\ workload \in DOMAIN Workloads
    /\ ConfigInit(Load.options)
    /\ left = IF Unreadable(options) THEN 0 ELSE Load.max    \* main() has returned
    /\ wpc = [w \in Workers |-> "idle"]
    /\ request = [w \in Workers |-> NoRequest]
    /\ status = [w \in Workers |-> 0]
    /\ latency = [w \in Workers |-> 0]
    /\ found = [w \in Workers |-> NoFile]
    /\ snap = [w \in Workers |-> NoSnap]
    /\ CacheInit(config.cacheCapacity, Load.present)
    /\ KvInit
    /\ MetricsInit

-----------------------------------------------------------------------------
(* From the request to the response *)

In(places) == Cardinality({w \in Workers : wpc[w] \in places})

\* A loop has config.threads threads, which are all alike.
Free(w) == wpc[w] = "idle" /\ Cardinality(Workers) - In({"idle"}) < config.threads

\* Worker w takes request r.
Take(w, r) ==
    /\ Free(w) /\ left > 0
    /\ left' = left - 1
    /\ request' = [request EXCEPT ![w] = r]
    /\ UNCHANGED workload

\* route() has returned a response with this status after some time.
Respond(w, code) ==
    /\ wpc' = [wpc EXCEPT ![w] = "total"]
    /\ status' = [status EXCEPT ![w] = code]
    /\ \E micros \in Load.latencies : latency' = [latency EXCEPT ![w] = micros]

\* The parser has refused a request: its error is recorded with a latency of 0.
Refuse(w) ==
    /\ Free(w) /\ left > 0
    /\ left' = left - 1
    /\ \E code \in Load.refusals : status' = [status EXCEPT ![w] = code]
    /\ wpc' = [wpc EXCEPT ![w] = "total"]
    /\ UNCHANGED <<workload, request, latency, found, snap, cacheVars, diskVars, kvVars, metricVars>>

\* Answers that need no shared state: 405, a path outside the static root, /healthz
LocalStatus(r) ==
    CASE NotAllowed(r.method, r.path) -> 405
      [] Fallback(r.method, r.path) /\ Resolve[r.path] = Escaped -> 403
      [] Matched(r.method, r.path) /\ r.path = "/healthz" -> 200
      [] OTHER -> 0

AnswerLocally(w, r) ==
    /\ LocalStatus(r) # 0
    /\ Take(w, r)
    /\ Respond(w, LocalStatus(r))
    /\ UNCHANGED <<found, snap, cacheVars, diskVars, kvVars, metricVars>>

\* GET /api/kv
KvRead(w, r) ==
    /\ r.path = "/api/kv" /\ Effective(r.method) = "GET"
    /\ LET key == queryParam(r.query, Name.key) IN
        /\ Take(w, r)
        /\ Respond(w, IF key = <<>> THEN ListStatus ELSE GetStatus(key))
    /\ UNCHANGED <<found, snap, cacheVars, diskVars, kvVars, metricVars>>

\* The body as its Content-Type says
Decode(r) == IF r.type = "json" THEN parseFlatJson(r.json) ELSE parseFormEncoded(r.form)

\* POST /api/kv
KvWrite(w, r) ==
    /\ r.path = "/api/kv" /\ r.method = "POST"
    /\ LET decoded == Decode(r) IN
        /\ Take(w, r)
        /\ Respond(w, PutStatus(decoded))
        /\ KvPut(decoded)
    /\ UNCHANGED <<found, snap, cacheVars, diskVars, metricVars>>

\* DELETE /api/kv
KvDelete(w, r) ==
    /\ r.path = "/api/kv" /\ r.method = "DELETE"
    /\ LET key == queryParam(r.query, Name.key) IN
        /\ Take(w, r)
        /\ Respond(w, RemoveStatus(key))
        /\ KvRemove(key)
    /\ UNCHANGED <<found, snap, cacheVars, diskVars, metricVars>>

\* StaticFileHandler and readFile(): the lookup in the cache
StaticFile(r) == Fallback(r.method, r.path) /\ Resolve[r.path] # Escaped

FileHit(w, r) ==
    /\ StaticFile(r)
    /\ LET file == Resolve[r.path] IN
        /\ CacheHit(file)
        /\ Take(w, r)
        /\ Respond(w, 200)
        /\ found' = [found EXCEPT ![w] = [file |-> CachedValue(file).of,
                                          version |-> CachedValue(file).version, since |-> 0]]
    /\ UNCHANGED <<snap, diskVars, kvVars, metricVars>>

FileMiss(w, r) ==
    /\ StaticFile(r)
    /\ LET file == Resolve[r.path] IN
        /\ CacheMiss(file)
        /\ Take(w, r)
        /\ wpc' = [wpc EXCEPT ![w] = "open"]
        /\ found' = [found EXCEPT ![w] = [file |-> file, version |-> 0, since |-> version[file]]]
    /\ UNCHANGED <<status, latency, snap, diskVars, kvVars, metricVars>>

\* Not a regular file, or it cannot be opened
FileAbsent(w) ==
    /\ wpc[w] = "open"
    /\ found[w].file \notin regular
    /\ Respond(w, 404)
    /\ found' = [found EXCEPT ![w] = NoFile]
    /\ UNCHANGED <<workload, left, request, snap, cacheVars, diskVars, kvVars, metricVars>>

FileRead(w) ==
    /\ wpc[w] = "open"
    /\ found[w].file \in regular
    /\ found' = [found EXCEPT ![w].version = version[found[w].file]]
    /\ wpc' = [wpc EXCEPT ![w] = "insert"]
    /\ UNCHANGED <<workload, left, request, status, latency, snap, cacheVars, diskVars, kvVars,
                   metricVars>>

\* Seeded fault: the thread looks again and answers with what the cache has by then.
FileInsertOrReuse(w) ==
    /\ wpc[w] = "insert"
    /\ LET file == found[w].file IN
        IF file \in index
        THEN /\ found' = [found EXCEPT ![w].version = CachedValue(file).version]
             /\ UNCHANGED cacheVars
        ELSE /\ CachePut(file, [of |-> file, version |-> found[w].version])
             /\ UNCHANGED found
    /\ Respond(w, 200)
    /\ UNCHANGED <<workload, left, request, snap, diskVars, kvVars, metricVars>>

FileInsert(w) ==
    /\ wpc[w] = "insert"
    /\ CachePut(found[w].file, [of |-> found[w].file, version |-> found[w].version])
    /\ Respond(w, 200)
    /\ UNCHANGED <<workload, left, request, found, snap, diskVars, kvVars, metricVars>>

-----------------------------------------------------------------------------
(* GET /api/stats: toJson() loads one counter after the other *)

StatsTotal(w, r) ==
    /\ Matched(r.method, r.path) /\ r.path = "/api/stats"
    /\ Take(w, r)
    /\ snap' = [snap EXCEPT ![w].total = totalRequests]
    /\ wpc' = [wpc EXCEPT ![w] = "ok"]
    /\ UNCHANGED <<status, latency, found, cacheVars, diskVars, kvVars, metricVars>>

NextLoad == [ok |-> "clientError", clientError |-> "serverError", serverError |-> "percentile"]

StatsLoad(w) ==
    /\ wpc[w] \in StatusClasses
    /\ snap' = [snap EXCEPT ![w].responses[wpc[w]] = responses[wpc[w]]]
    /\ wpc' = [wpc EXCEPT ![w] = NextLoad[@]]
    /\ UNCHANGED <<workload, left, request, status, latency, found, cacheVars, diskVars, kvVars,
                   metricVars>>

\* percentile() of an empty histogram is 0.0 and loads nothing.
StatsEmpty(w) ==
    /\ wpc[w] = "percentile"
    /\ snap[w].total = 0
    /\ Respond(w, 200)
    /\ UNCHANGED <<workload, left, request, found, snap, cacheVars, diskVars, kvVars, metricVars>>

Target(w) == Rank(Percentiles[Len(snap[w].reports) + 1], snap[w].total)

\* One turn of the loop of percentile(): load a bucket, and go on or report it.
StatsWalk(w) ==
    /\ wpc[w] = "percentile"
    /\ snap[w].total > 0
    /\ LET at == snap[w].bucket
           answer == Walk(at, snap[w].seen, Target(w)) IN
        IF answer = 0
        THEN /\ snap' = [snap EXCEPT ![w].bucket = at + 1, ![w].seen = @ + latencyBuckets[at]]
             /\ UNCHANGED <<wpc, status, latency>>
        ELSE /\ snap' = [snap EXCEPT ![w].bucket = 1, ![w].seen = 0,
                                     ![w].reports = Append(@, answer)]
             /\ IF Len(snap[w].reports) + 1 = Len(Percentiles)
                THEN Respond(w, 200)
                ELSE UNCHANGED <<wpc, status, latency>>
    /\ UNCHANGED <<workload, left, request, found, cacheVars, diskVars, kvVars, metricVars>>

-----------------------------------------------------------------------------
(* recordRequest(), then the response goes into the buffer of the connection *)

CountTotal(w) ==
    /\ wpc[w] = "total"
    /\ RecordTotal
    /\ wpc' = [wpc EXCEPT ![w] = "bytes"]
    /\ request' = [request EXCEPT ![w] = NoRequest]
    /\ found' = [found EXCEPT ![w] = NoFile]
    /\ snap' = [snap EXCEPT ![w] = NoSnap]
    /\ UNCHANGED <<workload, left, status, latency, cacheVars, diskVars, kvVars>>

CountBytes(w) ==
    /\ wpc[w] = "bytes"
    /\ RecordBytes
    /\ wpc' = [wpc EXCEPT ![w] = "status"]
    /\ UNCHANGED <<workload, left, request, status, latency, found, snap, cacheVars, diskVars, kvVars>>

CountStatus(w) ==
    /\ wpc[w] = "status"
    /\ RecordStatus(status[w])
    /\ wpc' = [wpc EXCEPT ![w] = "latency"]
    /\ status' = [status EXCEPT ![w] = 0]
    /\ UNCHANGED <<workload, left, request, latency, found, snap, cacheVars, diskVars, kvVars>>

CountLatency(w) ==
    /\ wpc[w] = "latency"
    /\ RecordLatency(latency[w])
    /\ wpc' = [wpc EXCEPT ![w] = "idle"]
    /\ latency' = [latency EXCEPT ![w] = 0]
    /\ UNCHANGED <<workload, left, request, status, found, snap, cacheVars, diskVars, kvVars>>

Worker(w) ==
    \/ Refuse(w)
    \/ \E r \in Load.requests :
        \/ AnswerLocally(w, r) \/ KvRead(w, r) \/ KvWrite(w, r) \/ KvDelete(w, r)
        \/ FileHit(w, r) \/ FileMiss(w, r) \/ StatsTotal(w, r)
    \/ FileAbsent(w) \/ FileRead(w) \/ FileInsert(w)
    \/ StatsLoad(w) \/ StatsEmpty(w) \/ StatsWalk(w)
    \/ CountTotal(w) \/ CountBytes(w) \/ CountStatus(w) \/ CountLatency(w)

Disk ==
    /\ \E f \in Load.editable : EditFile(f) \/ RemoveFile(f)
    /\ UNCHANGED <<workload, left, workerVars, cacheVars, kvVars, metricVars>>

Next ==
    /\ Disk \/ \E w \in Workers : Worker(w)
    /\ UNCHANGED configVars

Spec == Init /\ [][Next]_vars

-----------------------------------------------------------------------------
(* Properties *)

\* Every variable has its type.
TypeOK ==
    /\ CacheTypeOK
    /\ options \in Load.options /\ config.threads \in Nat \ {0} /\ config.mode \in {"pool", "reactor"}
    /\ workload \in DOMAIN Workloads /\ left \in 0..Load.max
    /\ wpc \in [Workers -> {"idle", "open", "insert", "percentile", "total", "bytes", "status",
                            "latency"} \cup StatusClasses]
    /\ request \in [Workers -> Load.requests \cup {NoRequest}]
    /\ status \in [Workers -> {0, 200, 201, 403, 404, 405, 507} \cup {400, 413, 414, 431, 501, 505}]
    /\ latency \in [Workers -> Load.latencies \cup {0}]
    /\ \A w \in Workers : wpc[w] = "insert" => found[w].version \in 1..MaxVersion
    /\ \A w \in Workers : Len(snap[w].reports) <= Len(Percentiles) /\ snap[w].bucket \in 1..bucketCount
    /\ created \in Nat /\ deleted \in Nat
    /\ totalRequests \in Nat /\ bytesOut \in Nat
    /\ responses \in [StatusClasses -> Nat] /\ latencyBuckets \in [1..bucketCount -> Nat]

\* A file is answered with its own content: one that was on disk, and for a request that
\* missed the cache, one that was there between its lookup and its answer, although the
\* file changes and other threads fill and evict the same cache in between.
ServedWasOnDisk ==
    \A w \in Workers : (wpc[w] = "total" /\ found[w] # NoFile) =>
        /\ found[w].file = Resolve[request[w].path]
        /\ found[w].version \in Max({1, found[w].since})..version[found[w].file]

\* The methods that a 405 names in its Allow header are those the path would have been
\* served for: whatever method the client tries next, it is answered with 405 again just
\* when it was not named, HEAD included.
AllowExact ==
    \A w \in Workers : (wpc[w] = "total" /\ status[w] = 405) =>
        LET path == request[w].path IN
            \A method \in {r.method : r \in Load.requests} \cup Allowed(path) :
                method \in Allowed(path) <=> ~NotAllowed(method, path)

\* POST /api/kv answers 400 when its JSON body does not even begin with a flat object of
\* strings.  When the body is one such object, its strings written the standard way, then
\* the last "key" and "value" are stored such that get() prints them just as the client
\* wrote them, and 400 is for the empty key alone.  Left open is what is no such object and
\* yet accepted: text behind the closing bracket, and strings with an escape or a
\* character the code guesses at (\u0041 is read as "u0041"); api.h:30-31 says that such
\* bodies are refused, and they are not.
JsonDecodedAsMeant ==
    \A w \in Workers : (wpc[w] = "total" /\ request[w] # NoRequest) =>
        LET r == request[w] IN
            (r.path = "/api/kv" /\ r.method = "POST" /\ r.type = "json") =>
                LET flat == {n \in 0..Len(r.json) : FlatObject(r.json, n)}
                    fields == Decode(r).fields IN
                    /\ flat = {} => status[w] = 400
                    /\ \A n \in flat : (WholeObject(r.json, n) /\ StandardStrings(r.json, n)) =>
                         /\ jsonEscape(Field(fields, Name.key)) = LastWritten(r.json, n, Name.key)
                         /\ jsonEscape(Field(fields, Name.value)) = LastWritten(r.json, n, Name.value)
                         /\ status[w] = 400 <=> LastWritten(r.json, n, Name.key) = <<>>

\* A text survives the API: what is written in a body comes out as it was written, and what
\* is stored by any way is printed so that it reads back.
JsonFaithful == JsonDecodedAsMeant /\ EscapedReadsBack

\* Every request is counted once by each group of counters, those that a worker is just
\* recording excepted: no update is lost and none of the groups runs ahead.
NothingUncounted ==
    /\ bytesOut = totalRequests - In({"bytes"})
    /\ Answers(responses) = totalRequests - In({"bytes", "status"})
    /\ Recorded(bucketCount) = totalRequests - In({"bytes", "status", "latency"})

\* A report of /api/stats is not a snapshot, but its status counts miss at most one request
\* per other thread of the total it shows, whatever is recorded while it is made.
ReportLagBounded ==
    \A w \in Workers : (wpc[w] \in {"percentile", "total"} /\ snap[w] # NoSnap) =>
        Answers(snap[w].responses) + config.threads - 1 >= snap[w].total

\* The bucket a percentile is reported from is the right one: the requests up to it make
\* up the rank, and it holds one of them.  What the number says differs.  Below the last
\* bucket, at least rank requests took no longer than the bound reported.  In the unbounded
\* bucket the bound below it is reported (metrics.cpp:51), and the request looked for took
\* longer: there the number is exceeded, not kept.  A rank that truncates to 0 gets the
\* first bucket though that may be empty, so only ranks above 0 have a request.
PercentileInBucket ==
    \A w \in Workers : \A n \in DOMAIN snap[w].reports :
        LET bucket == snap[w].reports[n]
            rank   == Rank(Percentiles[n], snap[w].total) IN
            bucket # Unfound =>
                /\ Recorded(bucket) >= rank
                /\ rank > 0 => latencyBuckets[bucket] > 0
                /\ bucket < bucketCount => RecordedUpTo(Upper(bucket)) >= rank
                /\ (bucket = bucketCount /\ rank > 0) => RecordedUpTo(Upper(bucket)) < Recorded(bucket)

\* The walk over the histogram runs off its end, and the largest bound is reported whatever
\* the latencies were, only when the requests above the rank are fewer than the other
\* threads: never for p99 after 100 requests per thread.
UnfoundOnlyWhenFew ==
    \A w \in Workers : \A n \in DOMAIN snap[w].reports :
        snap[w].reports[n] = Unfound =>
            snap[w].total - Rank(Percentiles[n], snap[w].total) < config.threads - 1

\* What percentile() reports: a bucket that holds the request of that rank, or, when the
\* report overtook the recording of a few requests, none.
PercentileHonest == PercentileInBucket /\ UnfoundOnlyWhenFew

=============================================================================
