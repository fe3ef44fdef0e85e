------------------------- MODULE ApplicationProofs -------------------------
(***************************************************************************)
(* Theorems about the services behind the loops.                           *)
(***************************************************************************)
EXTENDS Application, ServiceProofs, NumberLemmas, FiniteSetTheorems

\* The Allow header of a 405 (Router::route()) names exactly the methods the path can be
\* asked with, whatever method a client thinks of: HEAD where GET has a route, and no other
\* than the ones added.
THEOREM AllowIsExact ==
    \A method, path : path \in knownPaths => (method \in Allowed(path) <=> Matched(method, path))
<1> SUFFICES ASSUME NEW method, NEW path
             PROVE  method \in Allowed(path) <=> Matched(method, path)
  OBVIOUS
<1> DEFINE methods == {route[1] : route \in {r \in Routes : r[2] = path}}
<1>1. \A m : m \in methods <=> <<m, path>> \in Routes
  <2>1. \A r \in Routes : r = <<r[1], r[2]>>
    BY DEF Routes
  <2>2. \A m : <<m, path>>[1] = m /\ <<m, path>>[2] = path
    OBVIOUS
  <2> QED
    BY <2>1, <2>2
<1>2. ~(<<"HEAD", path>> \in Routes)
  BY DEF Routes
<1>3. Allowed(path) = methods \cup {m \in {"HEAD"} : "GET" \in methods}
  BY DEF Allowed
<1> HIDE DEF methods
<1>4. CASE method = "HEAD"
  BY <1>1, <1>2, <1>3, <1>4 DEF Matched, Effective
<1>5. CASE method # "HEAD"
  BY <1>1, <1>3, <1>5 DEF Matched, Effective
<1> QED
  BY <1>4, <1>5

-----------------------------------------------------------------------------
(* The key-value store *)

\* Only put() and remove() touch the store.
LEMMA StoreStep ==
    ASSUME [Next]_vars
    PROVE \/ UNCHANGED kvVars
          \/ \E w \in Workers, r \in Load.requests : KvWrite(w, r) \/ KvDelete(w, r)
  <1>1. CASE Disk
    BY <1>1 DEF Disk
  <1>2. CASE UNCHANGED vars
    BY <1>2 DEF vars
  <1>3. ASSUME NEW w \in Workers, Worker(w)
        PROVE \/ UNCHANGED kvVars
              \/ \E r \in Load.requests : KvWrite(w, r) \/ KvDelete(w, r)
    <2>1. CASE Refuse(w)
      BY <2>1 DEF Refuse
    <2>2. ASSUME NEW r \in Load.requests,
                 AnswerLocally(w, r) \/ KvRead(w, r) \/ FileHit(w, r) \/ FileMiss(w, r)
                   \/ StatsTotal(w, r)
          PROVE UNCHANGED kvVars
      BY <2>2 DEF AnswerLocally, KvRead, FileHit, FileMiss, StatsTotal
    <2>3. CASE FileAbsent(w) \/ FileRead(w) \/ FileInsert(w)
      BY <2>3 DEF FileAbsent, FileRead, FileInsert
    <2>4. CASE StatsLoad(w) \/ StatsEmpty(w) \/ StatsWalk(w)
      BY <2>4 DEF StatsLoad, StatsEmpty, StatsWalk
    <2>5. CASE CountTotal(w) \/ CountBytes(w) \/ CountStatus(w) \/ CountLatency(w)
      BY <2>5 DEF CountTotal, CountBytes, CountStatus, CountLatency
    <2> QED
      BY <1>3, <2>1, <2>2, <2>3, <2>4, <2>5 DEF Worker
  <1> QED
    BY <1>1, <1>2, <1>3 DEF Next

\* The keys of the store can be counted, and their number is what the answers say.
StoreInv ==
    /\ IsFiniteSet(DOMAIN store) /\ <<>> \notin DOMAIN store
    /\ created \in Nat /\ deleted \in Nat
    /\ StoreAccounted

\* put() decides on 201 for a new key below the limit, and on 200 for a key it has.
LEMMA PutStatusMeans ==
    ASSUME NEW decoded
    PROVE LET key == Field(decoded.fields, Name.key) IN
          /\ PutStatus(decoded) \in {200, 201, 400, 413, 507}
          /\ PutStatus(decoded) \in {200, 201} => key # <<>>
          /\ PutStatus(decoded) = 200 => key \in DOMAIN store
          /\ PutStatus(decoded) = 201 =>
                key \notin DOMAIN store /\ ~(Cardinality(DOMAIN store) >= maxEntries)
          /\ PutStatus(decoded) = 507 =>
                key \notin DOMAIN store /\ Cardinality(DOMAIN store) >= maxEntries
  <1> DEFINE key == Field(decoded.fields, Name.key)
  <1>1. BodyStatus(decoded) \in {0, 400, 413} /\ (BodyStatus(decoded) = 0 => key # <<>>)
    BY DEF BodyStatus
  <1>2. LockedStatus(key) \in {200, 201, 507}
    BY DEF LockedStatus
  <1>3. PutStatus(decoded) = IF BodyStatus(decoded) # 0 THEN BodyStatus(decoded)
                             ELSE LockedStatus(key)
    BY DEF PutStatus
  <1> HIDE DEF key
  <1>4. /\ LockedStatus(key) = 200 => key \in DOMAIN store
        /\ LockedStatus(key) = 201 =>
              key \notin DOMAIN store /\ ~(Cardinality(DOMAIN store) >= maxEntries)
        /\ LockedStatus(key) = 507 =>
              key \notin DOMAIN store /\ Cardinality(DOMAIN store) >= maxEntries
    BY DEF LockedStatus
  <1> QED
    BY <1>1, <1>2, <1>3, <1>4 DEF key

\* put() keeps count of the keys and stays within the limit.
LEMMA StoreInvPut ==
    ASSUME StoreInv, NEW decoded, KvPut(decoded)
    PROVE StoreInv'
  <1> DEFINE key == Field(decoded.fields, Name.key)
             value == Field(decoded.fields, Name.value)
             put == PutStatus(decoded)
  <1>1. /\ store' = (IF put \in {200, 201} THEN Stored(key, value) ELSE store)
        /\ created' = (IF put = 201 THEN created + 1 ELSE created) /\ deleted' = deleted
    BY DEF KvPut
  <1>2. DOMAIN Stored(key, value) = DOMAIN store \cup {key}
    BY DEF Stored, Mapped
  <1>3. /\ put \in {200, 201, 400, 413, 507}
        /\ put \in {200, 201} => key # <<>>
        /\ put = 200 => key \in DOMAIN store
        /\ put = 201 => key \notin DOMAIN store /\ ~(Cardinality(DOMAIN store) >= maxEntries)
    BY PutStatusMeans
  <1> HIDE DEF key, value, put
  <1>4. /\ IsFiniteSet(DOMAIN store) /\ <<>> \notin DOMAIN store /\ Cardinality(DOMAIN store) \in Nat
        /\ created \in Nat /\ deleted \in Nat /\ maxEntries \in Nat
        /\ Cardinality(DOMAIN store) <= maxEntries
        /\ Cardinality(DOMAIN store) = created - deleted
    BY FS_CardinalityType, StoreLimitsAssumption DEF StoreInv, StoreAccounted
  <1>5. CASE put = 201
    <2>1. DOMAIN store' = DOMAIN store \cup {key} /\ key \notin DOMAIN store
      BY <1>1, <1>2, <1>3, <1>5
    <2>2. /\ IsFiniteSet(DOMAIN store') /\ created' = created + 1 /\ deleted' = deleted
          /\ Cardinality(DOMAIN store') = Cardinality(DOMAIN store) + 1
      BY <1>1, <1>4, <1>5, <2>1, FS_AddElement
    <2>4. <<>> \notin DOMAIN store'
      BY <1>3, <1>4, <1>5, <2>1
    <2>3. Cardinality(DOMAIN store') <= maxEntries
      BY <1>3, <1>4, <1>5, <2>2
    <2> QED
      BY <1>4, <2>2, <2>3, <2>4 DEF StoreInv, StoreAccounted
  <1>6. CASE put # 201
    <2>1. DOMAIN store' = DOMAIN store
      BY <1>1, <1>2, <1>3, <1>6
    <2> QED
      BY <1>1, <1>4, <1>6, <2>1 DEF StoreInv, StoreAccounted
  <1> QED
    BY <1>5, <1>6

\* remove() keeps count of the keys.
LEMMA StoreInvRemove ==
    ASSUME StoreInv, NEW key, KvRemove(key)
    PROVE StoreInv'
  <1>1. /\ DOMAIN store' = DOMAIN store \ {key} /\ created' = created
        /\ deleted' = (IF RemoveStatus(key) = 200 THEN deleted + 1 ELSE deleted)
    BY DEF KvRemove
  <1>2. RemoveStatus(key) = 200 <=> key # <<>> /\ key \in DOMAIN store
    BY DEF RemoveStatus, GetStatus
  <1>3. /\ IsFiniteSet(DOMAIN store) /\ <<>> \notin DOMAIN store /\ Cardinality(DOMAIN store) \in Nat
        /\ created \in Nat /\ deleted \in Nat /\ maxEntries \in Nat
        /\ Cardinality(DOMAIN store) <= maxEntries
        /\ Cardinality(DOMAIN store) = created - deleted
    BY FS_CardinalityType, StoreLimitsAssumption DEF StoreInv, StoreAccounted
  <1>4. CASE key \in DOMAIN store
    <2>1. /\ IsFiniteSet(DOMAIN store') /\ Cardinality(DOMAIN store') = Cardinality(DOMAIN store) - 1
          /\ deleted' = deleted + 1
      BY <1>1, <1>2, <1>3, <1>4, FS_RemoveElement
    <2> QED
      BY <1>1, <1>3, <2>1 DEF StoreInv, StoreAccounted
  <1>5. CASE key \notin DOMAIN store
    <2>1. DOMAIN store' = DOMAIN store /\ deleted' = deleted
      BY <1>1, <1>2, <1>5
    <2> QED
      BY <1>1, <1>3, <2>1 DEF StoreInv, StoreAccounted
  <1> QED
    BY <1>4, <1>5

\* The store is empty at first.
LEMMA StoreInvInit == Init => StoreInv
  <1> SUFFICES ASSUME Init PROVE StoreInv
    OBVIOUS
  <1>1. DOMAIN store = {} /\ created = 0 /\ deleted = 0
    BY DEF Init, KvInit
  <1>2. IsFiniteSet({}) /\ Cardinality({}) = 0
    BY FS_EmptySet
  <1> QED
    BY <1>1, <1>2, StoreLimitsAssumption DEF StoreInv, StoreAccounted

LEMMA StoreInvStep == StoreInv /\ [Next]_vars => StoreInv'
  <1> SUFFICES ASSUME StoreInv, [Next]_vars PROVE StoreInv'
    OBVIOUS
  <1>1. CASE UNCHANGED kvVars
    BY <1>1 DEF StoreInv, StoreAccounted, kvVars
  <1>2. ASSUME NEW w \in Workers, NEW r \in Load.requests, KvWrite(w, r) PROVE StoreInv'
    BY <1>2, StoreInvPut DEF KvWrite
  <1>3. ASSUME NEW w \in Workers, NEW r \in Load.requests, KvDelete(w, r) PROVE StoreInv'
    BY <1>3, StoreInvRemove DEF KvDelete
  <1> QED
    BY <1>1, <1>2, <1>3, StoreStep

LEMMA StoreInvAlways == Spec => []StoreInv
  BY StoreInvInit, StoreInvStep, PTL DEF Spec

\* The store keeps within its limit and its number of keys is the number of keys created
\* less the number deleted, for all requests and any interleaving of the threads.
THEOREM StoreAlwaysAccounted == Spec => []StoreAccounted
  <1>1. StoreInv => StoreAccounted
    BY DEF StoreInv
  <1> QED
    BY <1>1, StoreInvAlways, PTL

-----------------------------------------------------------------------------
(* Types.  Configuration and cache have proofs of their own. *)

Pcs == {"idle", "open", "insert", "percentile", "total", "bytes", "status", "latency"}
       \cup StatusClasses
Statuses == {0, 200, 201, 403, 404, 405, 507} \cup {400, 413, 414, 431, 501, 505}
Snapshots == [total : Nat, responses : [StatusClasses -> Nat], bucket : 1..bucketCount,
              seen : Nat, reports : Seq(1..Unfound)]
Lookups == [file : Files, version : 0..MaxVersion, since : 1..MaxVersion]

WorkerTypes ==
    /\ wpc \in [Workers -> Pcs]
    /\ request \in [Workers -> Load.requests \cup {NoRequest}]
    /\ status \in [Workers -> Statuses]
    /\ latency \in [Workers -> Load.latencies \cup {0}]
    /\ found = [w \in Workers |-> found[w]]
    /\ snap \in [Workers -> Snapshots]

ServiceTypes ==
    /\ workload \in DOMAIN Workloads /\ left \in 0..Load.max
    /\ version \in [Files -> 1..MaxVersion] /\ regular \subseteq Files
    /\ totalRequests \in Nat /\ bytesOut \in Nat
    /\ responses \in [StatusClasses -> Nat] /\ latencyBuckets \in [1..bucketCount -> Nat]

\* What a worker holds while it looks for a file, and while it makes a report
Holding(pc, f, report) ==
    /\ pc \in {"open", "insert"} => f \in Lookups
    /\ pc = "insert" => f.version \in 1..MaxVersion
    /\ pc \notin StatusClasses \cup {"percentile", "total"} => report = NoSnap
    /\ pc \in StatusClasses => report.bucket = 1 /\ report.seen = 0 /\ report.reports = <<>>
    /\ pc = "percentile" => Len(report.reports) < Len(Percentiles)
    /\ Len(report.reports) <= Len(Percentiles)

Held == \A w \in Workers : Holding(wpc[w], found[w], snap[w])

WorkInv == ServiceTypes /\ WorkerTypes /\ Held

\* The constants of the workload
LEMMA WorkloadTypes ==
    ASSUME workload \in DOMAIN Workloads
    PROVE /\ \A r \in Load.requests : r # NoRequest /\ r.path \in knownPaths \cup StaticPaths
          /\ Load.present \subseteq Files /\ Load.editable \subseteq Files
          /\ Load.refusals \subseteq {400, 413, 414, 431, 501, 505}
          /\ Load.latencies \subseteq Nat /\ Load.max \in Nat
          /\ \A l \in Load.latencies : l <= bucketBounds[bucketCount]
  BY WorkloadsAssumption DEF Load

\* The histogram has at least two buckets.
LEMMA BucketCountType == bucketCount \in Nat /\ bucketCount > 1 /\ Unfound = bucketCount + 1
  BY BoundsAssumption DEF bucketCount, Unfound

\* A latency has a bucket.
LEMMA BucketType ==
    ASSUME NEW micros \in Nat, micros <= bucketBounds[bucketCount]
    PROVE Bucket(micros) \in 1..bucketCount
  <1> DEFINE fits == {i \in 1..bucketCount : micros <= bucketBounds[i]}
  <1>1. fits \subseteq Nat /\ bucketCount \in fits
    BY BucketCountType
  <1>2. PICK b \in fits : \A i \in fits : b <= i
    BY <1>1, LeastNatural
  <1> HIDE DEF fits
  <1>3. Min(fits) \in fits
    BY <1>2 DEF Min
  <1> QED
    BY <1>3 DEF Bucket, fits

\* An empty report is a snapshot.
LEMMA NoSnapType ==
    /\ NoSnap \in Snapshots /\ NoSnap.bucket = 1 /\ NoSnap.seen = 0 /\ NoSnap.reports = <<>>
    /\ NoSnap.total = 0
  BY BucketCountType DEF NoSnap, Snapshots

\* The step of the disk, and one that changes nothing, keep the types.
LEMMA ServiceTypesDisk ==
    ASSUME ServiceTypes, Disk
    PROVE ServiceTypes'
  <1>1. PICK f \in Load.editable : EditFile(f) \/ RemoveFile(f)
    BY DEF Disk
  <1>2. f \in Files /\ MaxVersion \in Nat
    BY <1>1, WorkloadTypes, MaxVersionAssumption DEF ServiceTypes
  <1>3. version' \in [Files -> 1..MaxVersion] /\ regular' \subseteq Files
    BY <1>1, <1>2 DEF ServiceTypes, EditFile, RemoveFile
  <1> QED
    BY <1>3 DEF Disk, ServiceTypes, metricVars, Load

\* A step of worker w leaves the other workers alone.
WorkerStep(w, pc, r, code, micros, f, report) ==
    /\ wpc' = [wpc EXCEPT ![w] = pc]
    /\ request' = [request EXCEPT ![w] = r]
    /\ status' = [status EXCEPT ![w] = code]
    /\ latency' = [latency EXCEPT ![w] = micros]
    /\ found' = [found EXCEPT ![w] = f]
    /\ snap' = [snap EXCEPT ![w] = report]
    /\ workload' = workload

\* If what it changes has its type, so have all.
LEMMA WorkerStepKeeps ==
    ASSUME WorkerTypes, Held, NEW w \in Workers, NEW pc \in Pcs,
           NEW r \in Load.requests \cup {NoRequest}, NEW code \in Statuses,
           NEW micros \in Load.latencies \cup {0}, NEW f, NEW report \in Snapshots,
           WorkerStep(w, pc, r, code, micros, f, report), Holding(pc, f, report)
    PROVE WorkerTypes' /\ Held'
  <1>1. Load' = Load
    BY DEF WorkerStep, Load
  <1>2. WorkerTypes'
    BY <1>1 DEF WorkerTypes, WorkerStep
  <1>3. ASSUME NEW v \in Workers
        PROVE IF v = w THEN wpc'[v] = pc /\ found'[v] = f /\ snap'[v] = report
              ELSE wpc'[v] = wpc[v] /\ found'[v] = found[v] /\ snap'[v] = snap[v]
    BY DEF WorkerTypes, WorkerStep
  <1>4. ASSUME NEW v \in Workers PROVE Holding(wpc'[v], found'[v], snap'[v])
    BY <1>3 DEF Held
  <1> QED
    BY <1>2, <1>4 DEF Held

\* What a worker keeps is what it assigns to itself.
LEMMA Kept ==
    ASSUME WorkerTypes, NEW w \in Workers
    PROVE /\ wpc[w] \in Pcs /\ request[w] \in Load.requests \cup {NoRequest}
          /\ status[w] \in Statuses /\ latency[w] \in Load.latencies \cup {0}
          /\ snap[w] \in Snapshots
          /\ wpc = [wpc EXCEPT ![w] = wpc[w]] /\ request = [request EXCEPT ![w] = request[w]]
          /\ status = [status EXCEPT ![w] = status[w]] /\ latency = [latency EXCEPT ![w] = latency[w]]
          /\ found = [found EXCEPT ![w] = found[w]] /\ snap = [snap EXCEPT ![w] = snap[w]]
  BY DEF WorkerTypes

\* Every handler ends with a response that has a status and a latency.
LEMMA ResponseKeeps ==
    ASSUME WorkInv, NEW w \in Workers, NEW code \in Statuses, Respond(w, code),
           NEW r \in Load.requests \cup {NoRequest}, request' = [request EXCEPT ![w] = r],
           NEW f, found' = [found EXCEPT ![w] = f],
           NEW report \in Snapshots, snap' = [snap EXCEPT ![w] = report],
           Len(report.reports) <= Len(Percentiles), workload' = workload
    PROVE WorkerTypes' /\ Held'
  <1>1. PICK micros \in Load.latencies : latency' = [latency EXCEPT ![w] = micros]
    BY DEF Respond
  <1>2. WorkerStep(w, "total", r, code, micros, f, report)
    BY <1>1 DEF WorkerStep, Respond
  <1>3. "total" \in Pcs /\ Holding("total", f, report)
    BY DEF Pcs, Holding, StatusClasses
  <1> QED
    BY <1>1, <1>2, <1>3, WorkerStepKeeps DEF WorkInv

\* The statuses that the key-value API and the router decide on
LEMMA DecidedStatuses ==
    /\ \A r : LocalStatus(r) \in Statuses
    /\ ListStatus \in Statuses /\ \A key : GetStatus(key) \in Statuses /\ RemoveStatus(key) \in Statuses
    /\ \A decoded : PutStatus(decoded) \in Statuses
  <1>1. \A r : LocalStatus(r) \in Statuses
    BY DEF LocalStatus, Statuses
  <1>2. ListStatus \in Statuses /\ \A key : GetStatus(key) \in Statuses /\ RemoveStatus(key) \in Statuses
    BY DEF ListStatus, GetStatus, RemoveStatus, Statuses
  <1>3. ASSUME NEW decoded PROVE PutStatus(decoded) \in Statuses
    BY PutStatusMeans DEF Statuses
  <1> QED
    BY <1>1, <1>2, <1>3

\* A new request takes a worker that holds nothing.
LEMMA TakeKeeps ==
    ASSUME WorkInv, NEW w \in Workers, NEW r \in Load.requests, Take(w, r)
    PROVE /\ wpc[w] = "idle" /\ snap[w] = NoSnap /\ snap[w] \in Snapshots
          /\ Len(snap[w].reports) <= Len(Percentiles)
          /\ left' \in 0..Load.max /\ Load' = Load /\ workload' = workload
          /\ request' = [request EXCEPT ![w] = r]
  <1>1. wpc[w] = "idle" /\ workload' = workload
    BY DEF Take, Free
  <1>2. snap[w] = NoSnap /\ Len(snap[w].reports) <= Len(Percentiles)
    BY <1>1 DEF WorkInv, Held, Holding, StatusClasses
  <1>3. left' \in 0..Load.max
    BY WorkloadTypes DEF Take, WorkInv, ServiceTypes
  <1> QED
    BY <1>1, <1>2, <1>3, NoSnapType DEF Take, Load

\* Requests answered at once
LEMMA TypesAtOnce ==
    ASSUME WorkInv, NEW w \in Workers, NEW r \in Load.requests,
           AnswerLocally(w, r) \/ KvRead(w, r) \/ KvWrite(w, r) \/ KvDelete(w, r) \/ FileHit(w, r)
    PROVE WorkInv'
  <1>1. Take(w, r)
    BY DEF AnswerLocally, KvRead, KvWrite, KvDelete, FileHit
  <1>2. PICK code \in Statuses : Respond(w, code)
    BY DecidedStatuses DEF AnswerLocally, KvRead, KvWrite, KvDelete, FileHit, Statuses
  <1>3. /\ snap' = snap /\ UNCHANGED diskVars /\ UNCHANGED metricVars
        /\ \E f : found' = [found EXCEPT ![w] = f]
    BY Kept DEF AnswerLocally, KvRead, KvWrite, KvDelete, FileHit, WorkInv
  <1>4. PICK f : found' = [found EXCEPT ![w] = f]
    BY <1>3
  <1>5. snap' = [snap EXCEPT ![w] = snap[w]]
    BY <1>3, Kept DEF WorkInv
  <1>6. WorkerTypes' /\ Held'
    BY <1>1, <1>2, <1>4, <1>5, TakeKeeps, ResponseKeeps
  <1>7. ServiceTypes'
    BY <1>1, <1>3, TakeKeeps DEF ServiceTypes, WorkInv, diskVars, metricVars
  <1> QED
    BY <1>6, <1>7 DEF WorkInv

\* A refused request
LEMMA TypesRefuse ==
    ASSUME WorkInv, NEW w \in Workers, Refuse(w)
    PROVE WorkInv'
  <1>1. PICK code \in Load.refusals : status' = [status EXCEPT ![w] = code]
    BY DEF Refuse
  <1>2. code \in Statuses
    BY <1>1, WorkloadTypes DEF WorkInv, ServiceTypes, Statuses
  <1>3. WorkerStep(w, "total", request[w], code, latency[w], found[w], snap[w])
    BY <1>1, Kept DEF WorkerStep, Refuse, WorkInv
  <1>4. snap[w] = NoSnap
    BY DEF Refuse, Free, WorkInv, Held, Holding, StatusClasses
  <1>5. "total" \in Pcs /\ Holding("total", found[w], snap[w])
    BY DEF Pcs, Holding, StatusClasses, WorkInv, Held
  <1>6. WorkerTypes' /\ Held'
    BY <1>2, <1>3, <1>5, Kept, WorkerStepKeeps DEF WorkInv
  <1>7. left' \in 0..Load.max /\ Load' = Load
    BY WorkloadTypes DEF Refuse, WorkInv, ServiceTypes, Load
  <1> QED
    BY <1>6, <1>7 DEF Refuse, WorkInv, ServiceTypes, diskVars, metricVars

\* A static path that was not refused denotes a file.
LEMMA StaticFileExists ==
    ASSUME workload \in DOMAIN Workloads, NEW r \in Load.requests, StaticFile(r)
    PROVE Resolve[r.path] \in Files
  BY WorkloadTypes, ResolveAssumption DEF StaticFile, Fallback

\* The steps of readFile()
LEMMA TypesFile ==
    ASSUME WorkInv, NEW w \in Workers,
           \/ \E r \in Load.requests : FileMiss(w, r)
           \/ FileAbsent(w) \/ FileRead(w) \/ FileInsert(w)
    PROVE WorkInv'
  <1>1. ASSUME NEW r \in Load.requests, FileMiss(w, r) PROVE WorkInv'
    <2> DEFINE f == [file |-> Resolve[r.path], version |-> 0, since |-> version[Resolve[r.path]]]
    <2>1. Take(w, r)
      BY <1>1 DEF FileMiss
    <2>2. snap[w] = NoSnap /\ left' \in 0..Load.max /\ Load' = Load /\ workload' = workload
      BY <2>1, TakeKeeps
    <2>3. WorkerStep(w, "open", r, status[w], latency[w], f, snap[w])
      BY <1>1, <2>1, <2>2, Kept DEF WorkerStep, FileMiss, Take, WorkInv
    <2>4. f \in Lookups
      BY <1>1, StaticFileExists, MaxVersionAssumption DEF FileMiss, WorkInv, ServiceTypes, Lookups
    <2>5. "open" \in Pcs /\ Holding("open", f, snap[w])
      BY <2>2, <2>4, NoSnapType DEF Pcs, Holding, StatusClasses, Percentiles
    <2> HIDE DEF f
    <2>6. WorkerTypes' /\ Held'
      BY <2>3, <2>5, Kept, WorkerStepKeeps DEF WorkInv
    <2> QED
      BY <1>1, <2>2, <2>6 DEF FileMiss, WorkInv, ServiceTypes, diskVars, metricVars
  <1>2. CASE FileAbsent(w)
    <2>1. /\ Respond(w, 404) /\ found' = [found EXCEPT ![w] = NoFile] /\ workload' = workload
          /\ request' = [request EXCEPT ![w] = request[w]] /\ snap' = [snap EXCEPT ![w] = snap[w]]
      BY <1>2, Kept DEF FileAbsent, WorkInv
    <2>2. 404 \in Statuses /\ Len(snap[w].reports) <= Len(Percentiles)
      BY DEF Statuses, WorkInv, Held, Holding
    <2>3. WorkerTypes' /\ Held'
      BY <2>1, <2>2, Kept, ResponseKeeps DEF WorkInv
    <2> QED
      BY <1>2, <2>3 DEF FileAbsent, WorkInv, ServiceTypes, diskVars, metricVars, Load
  <1>3. CASE FileRead(w)
    <2> DEFINE f == [found[w] EXCEPT !.version = version[found[w].file]]
    <2>1. wpc[w] = "open" /\ found[w] \in Lookups /\ snap[w] = NoSnap
      BY <1>3 DEF FileRead, WorkInv, Held, Holding, StatusClasses
    <2>2. version[found[w].file] \in 1..MaxVersion
      BY <2>1 DEF WorkInv, ServiceTypes, Lookups
    <2>3. f \in Lookups /\ f.version \in 1..MaxVersion
      BY <2>1, <2>2, MaxVersionAssumption DEF Lookups
    <2>4. WorkerStep(w, "insert", request[w], status[w], latency[w], f, snap[w])
      BY <1>3, Kept DEF WorkerStep, FileRead, WorkInv
    <2> HIDE DEF f
    <2>5. "insert" \in Pcs /\ Holding("insert", f, snap[w])
      BY <2>1, <2>3, NoSnapType DEF Pcs, Holding, StatusClasses, Percentiles
    <2>6. WorkerTypes' /\ Held'
      BY <2>4, <2>5, Kept, WorkerStepKeeps DEF WorkInv
    <2> QED
      BY <1>3, <2>6 DEF FileRead, WorkInv, ServiceTypes, diskVars, metricVars, Load
  <1>4. CASE FileInsert(w)
    <2>1. /\ Respond(w, 200) /\ found' = [found EXCEPT ![w] = found[w]] /\ workload' = workload
          /\ request' = [request EXCEPT ![w] = request[w]] /\ snap' = [snap EXCEPT ![w] = snap[w]]
      BY <1>4, Kept DEF FileInsert, WorkInv
    <2>2. 200 \in Statuses /\ Len(snap[w].reports) <= Len(Percentiles)
      BY DEF Statuses, WorkInv, Held, Holding
    <2>3. WorkerTypes' /\ Held'
      BY <2>1, <2>2, Kept, ResponseKeeps DEF WorkInv
    <2> QED
      BY <1>4, <2>3 DEF FileInsert, WorkInv, ServiceTypes, diskVars, metricVars, Load
  <1> QED
    BY <1>1, <1>2, <1>3, <1>4

\* What toJson() does to the report of worker w: total first, then the status counts
LEMMA TypesReport ==
    ASSUME WorkInv, NEW w \in Workers,
           (\E r \in Load.requests : StatsTotal(w, r)) \/ StatsLoad(w) \/ StatsEmpty(w)
    PROVE WorkInv'
  <1>1. ASSUME NEW r \in Load.requests, StatsTotal(w, r) PROVE WorkInv'
    <2> DEFINE report == [snap[w] EXCEPT !.total = totalRequests]
    <2>1. Take(w, r)
      BY <1>1 DEF StatsTotal
    <2>2. snap[w] = NoSnap /\ left' \in 0..Load.max /\ Load' = Load /\ workload' = workload
      BY <2>1, TakeKeeps
    <2>3. WorkerStep(w, "ok", r, status[w], latency[w], found[w], report)
      BY <1>1, <2>1, <2>2, Kept DEF WorkerStep, StatsTotal, Take, WorkInv
    <2>4. report \in Snapshots /\ report.bucket = 1 /\ report.seen = 0 /\ report.reports = <<>>
      BY <2>2, NoSnapType DEF Snapshots, WorkInv, ServiceTypes
    <2> HIDE DEF report
    <2>5. "ok" \in Pcs /\ Holding("ok", found[w], report)
      BY <2>4 DEF Pcs, Holding, StatusClasses, Percentiles
    <2>6. WorkerTypes' /\ Held'
      BY <2>3, <2>4, <2>5, Kept, WorkerStepKeeps DEF WorkInv
    <2> QED
      BY <1>1, <2>2, <2>6 DEF StatsTotal, WorkInv, ServiceTypes, diskVars, metricVars
  <1>2. CASE StatsLoad(w)
    <2> DEFINE report == [snap[w] EXCEPT !.responses[wpc[w]] = responses[wpc[w]]]
               pc == NextLoad[wpc[w]]
    <2>1. wpc[w] \in StatusClasses /\ snap[w] \in Snapshots
      BY <1>2, Kept DEF StatsLoad, WorkInv
    <2>2. snap[w].bucket = 1 /\ snap[w].seen = 0 /\ snap[w].reports = <<>>
      BY <2>1 DEF WorkInv, Held, Holding
    <2>3. pc \in {"clientError", "serverError", "percentile"}
      BY <2>1 DEF NextLoad, StatusClasses
    <2>4. WorkerStep(w, pc, request[w], status[w], latency[w], found[w], report)
      <3>1. wpc' = [wpc EXCEPT ![w] = pc]
        BY <1>2 DEF StatsLoad
      <3>2. snap' = [snap EXCEPT ![w] = report]
        BY <1>2 DEF StatsLoad
      <3> QED
        BY <1>2, <3>1, <3>2, Kept DEF WorkerStep, StatsLoad, WorkInv
    <2>5. report \in Snapshots /\ report.bucket = 1 /\ report.seen = 0 /\ report.reports = <<>>
      BY <2>1, <2>2 DEF Snapshots, WorkInv, ServiceTypes
    <2> HIDE DEF report, pc
    <2>6. pc \in Pcs /\ Holding(pc, found[w], report)
      BY <2>3, <2>5 DEF Pcs, Holding, StatusClasses, Percentiles
    <2>7. WorkerTypes' /\ Held'
      BY <2>4, <2>5, <2>6, Kept, WorkerStepKeeps DEF WorkInv
    <2> QED
      BY <1>2, <2>7 DEF StatsLoad, WorkInv, ServiceTypes, diskVars, metricVars, Load
  <1>3. CASE StatsEmpty(w)
    <2>1. /\ Respond(w, 200) /\ found' = [found EXCEPT ![w] = found[w]] /\ workload' = workload
          /\ request' = [request EXCEPT ![w] = request[w]] /\ snap' = [snap EXCEPT ![w] = snap[w]]
      BY <1>3, Kept DEF StatsEmpty, WorkInv
    <2>2. 200 \in Statuses /\ Len(snap[w].reports) <= Len(Percentiles)
      BY DEF Statuses, WorkInv, Held, Holding
    <2>3. WorkerTypes' /\ Held'
      BY <2>1, <2>2, Kept, ResponseKeeps DEF WorkInv
    <2> QED
      BY <1>3, <2>3 DEF StatsEmpty, WorkInv, ServiceTypes, diskVars, metricVars, Load
  <1> QED
    BY <1>1, <1>2, <1>3

\* The three outcomes of a turn of percentile(): on to the next bucket, on to the next
\* percentile, or the end of the report
WalksOn(w) ==
    /\ Walk(snap[w].bucket, snap[w].seen, Target(w)) = 0
    /\ snap' = [snap EXCEPT ![w] = [snap[w] EXCEPT !.bucket = snap[w].bucket + 1,
                                        !.seen = snap[w].seen + latencyBuckets[snap[w].bucket]]]
    /\ UNCHANGED <<wpc, status, latency>>

Reported(w) ==
    [snap[w] EXCEPT !.bucket = 1, !.seen = 0,
        !.reports = Append(snap[w].reports, Walk(snap[w].bucket, snap[w].seen, Target(w)))]

ReportsOne(w) ==
    /\ Walk(snap[w].bucket, snap[w].seen, Target(w)) # 0
    /\ snap' = [snap EXCEPT ![w] = Reported(w)]
    /\ IF Len(snap[w].reports) + 1 = Len(Percentiles) THEN Respond(w, 200)
       ELSE UNCHANGED <<wpc, status, latency>>

LEMMA WalkOutcomes ==
    ASSUME NEW w \in Workers, StatsWalk(w)
    PROVE /\ wpc[w] = "percentile" /\ snap[w].total > 0
          /\ WalksOn(w) \/ ReportsOne(w)
          /\ UNCHANGED <<workload, left, request, found, cacheVars, diskVars, kvVars, metricVars>>
  <1>1. CASE Walk(snap[w].bucket, snap[w].seen, Target(w)) = 0
    <2>1. snap' = [snap EXCEPT ![w] = [snap[w] EXCEPT !.bucket = snap[w].bucket + 1,
                                        !.seen = snap[w].seen + latencyBuckets[snap[w].bucket]]]
      BY <1>1 DEF StatsWalk
    <2> QED
      BY <1>1, <2>1 DEF StatsWalk, WalksOn
  <1>2. CASE Walk(snap[w].bucket, snap[w].seen, Target(w)) # 0
    <2>1. snap' = [snap EXCEPT ![w] = Reported(w)]
      BY <1>2 DEF StatsWalk, Reported
    <2> QED
      BY <1>2, <2>1 DEF StatsWalk, ReportsOne
  <1> QED
    BY <1>1, <1>2 DEF StatsWalk

\* A turn of the walk ends at a bucket, without one, or goes on to one that exists.
LEMMA WalkType ==
    ASSUME NEW at \in 1..bucketCount, NEW seen, NEW target
    PROVE /\ Walk(at, seen, target) # 0 => Walk(at, seen, target) \in 1..Unfound
          /\ Walk(at, seen, target) = 0 => at + 1 \in 1..bucketCount
  BY BucketCountType DEF Walk

\* Updating three fields of a report
LEMMA RecordUpdate ==
    ASSUME NEW A, NEW B, NEW C, NEW D, NEW E,
           NEW s \in [total : A, responses : B, bucket : C, seen : D, reports : E],
           NEW c \in C, NEW d \in D, NEW e \in E
    PROVE [s EXCEPT !.bucket = c, !.seen = d, !.reports = e]
            \in [total : A, responses : B, bucket : C, seen : D, reports : E]
  OBVIOUS

\* The steps of percentile()
LEMMA TypesWalk ==
    ASSUME WorkInv, NEW w \in Workers, StatsWalk(w)
    PROVE WorkInv'
  <1>1. /\ wpc[w] = "percentile" /\ snap[w] \in Snapshots
        /\ Len(snap[w].reports) < Len(Percentiles)
    BY WalkOutcomes, Kept DEF WorkInv, Held, Holding
  <1>2. /\ found' = [found EXCEPT ![w] = found[w]] /\ workload' = workload
        /\ request' = [request EXCEPT ![w] = request[w]]
    BY WalkOutcomes, Kept DEF WorkInv
  <1>3. /\ snap[w].bucket \in 1..bucketCount /\ snap[w].seen \in Nat
        /\ snap[w].reports \in Seq(1..Unfound) /\ latencyBuckets[snap[w].bucket] \in Nat
    BY <1>1 DEF Snapshots, WorkInv, ServiceTypes
  <1>4. ASSUME WalksOn(w) PROVE WorkerTypes' /\ Held'
    <2> DEFINE report == [snap[w] EXCEPT !.bucket = snap[w].bucket + 1,
                                         !.seen = snap[w].seen + latencyBuckets[snap[w].bucket]]
    <2>1. WorkerStep(w, wpc[w], request[w], status[w], latency[w], found[w], report)
      BY <1>2, <1>4, Kept DEF WorkerStep, WalksOn, WorkInv
    <2>2. snap[w].bucket + 1 \in 1..bucketCount
      BY <1>3, <1>4, WalkType DEF WalksOn
    <2>3. report \in Snapshots /\ report.reports = snap[w].reports
      <3>1. PICK next, seen : /\ next = snap[w].bucket + 1
                              /\ seen = snap[w].seen + latencyBuckets[snap[w].bucket]
        OBVIOUS
      <3>2. next \in 1..bucketCount /\ seen \in Nat
        BY <1>3, <2>2, <3>1
      <3>3. report = [snap[w] EXCEPT !.bucket = next, !.seen = seen]
        BY <3>1
      <3> QED
        BY <1>1, <3>2, <3>3 DEF Snapshots
    <2> HIDE DEF report
    <2>4. wpc[w] \in Pcs /\ Holding(wpc[w], found[w], report)
      BY <1>1, <2>3 DEF Pcs, Holding, StatusClasses
    <2> QED
      BY <2>1, <2>3, <2>4, Kept, WorkerStepKeeps DEF WorkInv
  <1>5. ASSUME ReportsOne(w) PROVE WorkerTypes' /\ Held'
    <2>1. Walk(snap[w].bucket, snap[w].seen, Target(w)) \in 1..Unfound
      BY <1>3, <1>5, WalkType DEF ReportsOne
    <2>2. /\ Reported(w) \in Snapshots
          /\ Len(Reported(w).reports) = Len(snap[w].reports) + 1
      <3>1. PICK all : all = Append(snap[w].reports, Walk(snap[w].bucket, snap[w].seen, Target(w)))
        OBVIOUS
      <3>2. all \in Seq(1..Unfound) /\ Len(all) = Len(snap[w].reports) + 1
        BY <1>3, <2>1, <3>1
      <3>3. Reported(w) = [snap[w] EXCEPT !.bucket = 1, !.seen = 0, !.reports = all]
        BY <3>1 DEF Reported
      <3>4. 1 \in 1..bucketCount
        BY BucketCountType
      <3>5. Reported(w).reports = all
        BY <1>1, <3>3 DEF Snapshots
      <3>6. Reported(w) \in Snapshots
        <4>1. PICK numbers, counts, totals :
                /\ Snapshots = [total : totals, responses : counts, bucket : 1..bucketCount,
                                seen : totals, reports : numbers]
                /\ numbers = Seq(1..Unfound) /\ totals = Nat
          BY DEF Snapshots
        <4>2. all \in numbers /\ 0 \in totals
          BY <3>2, <4>1
        <4>3. [snap[w] EXCEPT !.bucket = 1, !.seen = 0, !.reports = all]
                \in [total : totals, responses : counts, bucket : 1..bucketCount,
                     seen : totals, reports : numbers]
          BY <1>1, <3>4, <4>1, <4>2, RecordUpdate, Zenon
        <4> QED
          BY <3>3, <4>1, <4>3, Zenon
      <3> QED
        BY <3>2, <3>5, <3>6
    <2>3. Len(snap[w].reports) \in Nat /\ Len(Percentiles) = 3
      BY <1>3 DEF Percentiles
    <2>4. CASE Len(snap[w].reports) + 1 = Len(Percentiles)
      <3>1. Respond(w, 200) /\ 200 \in Statuses /\ snap' = [snap EXCEPT ![w] = Reported(w)]
        BY <1>5, <2>4 DEF ReportsOne, Statuses
      <3>2. request[w] \in Load.requests \cup {NoRequest} /\ Len(Reported(w).reports) <= Len(Percentiles)
        BY <2>2, <2>3, <2>4, Kept DEF WorkInv
      <3> QED
        BY <1>2, <2>2, <3>1, <3>2, ResponseKeeps DEF WorkInv
    <2>5. CASE Len(snap[w].reports) + 1 # Len(Percentiles)
      <3>1. WorkerStep(w, wpc[w], request[w], status[w], latency[w], found[w], Reported(w))
        BY <1>2, <1>5, <2>5, Kept DEF WorkerStep, ReportsOne, WorkInv
      <3>2. Holding(wpc[w], found[w], Reported(w))
        BY <1>1, <2>2, <2>3, <2>5 DEF Holding, StatusClasses
      <3> QED
        BY <2>2, <3>1, <3>2, Kept, WorkerStepKeeps DEF WorkInv
    <2> QED
      BY <2>4, <2>5
  <1>6. ServiceTypes'
    BY WalkOutcomes DEF WorkInv, ServiceTypes, diskVars, metricVars, Load
  <1> QED
    BY <1>4, <1>5, <1>6, WalkOutcomes DEF WorkInv

\* A status is counted in one of the three classes.
LEMMA ClassType == \A code : Class(code) \in StatusClasses
  BY DEF Class, StatusClasses

\* The four updates of recordRequest()
LEMMA TypesRecord ==
    ASSUME WorkInv, NEW w \in Workers,
           CountTotal(w) \/ CountBytes(w) \/ CountStatus(w) \/ CountLatency(w)
    PROVE WorkInv'
  <1>1. /\ \A pc \in {"bytes", "status", "latency", "idle"} : \A f : Holding(pc, f, NoSnap)
        /\ {"bytes", "status", "latency", "idle"} \subseteq Pcs /\ 0 \in Statuses
    BY NoSnapType DEF Holding, StatusClasses, Percentiles, Pcs, Statuses
  <1>2. CASE CountTotal(w)
    <2>1. WorkerStep(w, "bytes", NoRequest, status[w], latency[w], NoFile, NoSnap)
      BY <1>2, Kept DEF WorkerStep, CountTotal, WorkInv
    <2>2. WorkerTypes' /\ Held'
      BY <1>1, <2>1, Kept, NoSnapType, WorkerStepKeeps DEF WorkInv
    <2> QED
      BY <1>2, <2>2 DEF CountTotal, RecordTotal, WorkInv, ServiceTypes, diskVars, Load
  <1>3. CASE CountBytes(w)
    <2>1. WorkerStep(w, "status", request[w], status[w], latency[w], found[w], snap[w])
      BY <1>3, Kept DEF WorkerStep, CountBytes, WorkInv
    <2>2. snap[w] = NoSnap
      BY <1>3 DEF CountBytes, WorkInv, Held, Holding, StatusClasses
    <2>3. WorkerTypes' /\ Held'
      BY <1>1, <2>1, <2>2, Kept, WorkerStepKeeps DEF WorkInv
    <2> QED
      BY <1>3, <2>3 DEF CountBytes, RecordBytes, WorkInv, ServiceTypes, diskVars, Load
  <1>4. CASE CountStatus(w)
    <2>1. WorkerStep(w, "latency", request[w], 0, latency[w], found[w], snap[w])
      BY <1>4, Kept DEF WorkerStep, CountStatus, WorkInv
    <2>2. snap[w] = NoSnap
      BY <1>4 DEF CountStatus, WorkInv, Held, Holding, StatusClasses
    <2>3. WorkerTypes' /\ Held'
      BY <1>1, <2>1, <2>2, Kept, WorkerStepKeeps DEF WorkInv
    <2>4. responses' \in [StatusClasses -> Nat]
      BY <1>4, ClassType DEF CountStatus, RecordStatus, WorkInv, ServiceTypes
    <2> QED
      BY <1>4, <2>3, <2>4 DEF CountStatus, RecordStatus, WorkInv, ServiceTypes, diskVars, Load
  <1>5. CASE CountLatency(w)
    <2>1. WorkerStep(w, "idle", request[w], status[w], 0, found[w], snap[w])
      BY <1>5, Kept DEF WorkerStep, CountLatency, WorkInv
    <2>2. snap[w] = NoSnap
      BY <1>5 DEF CountLatency, WorkInv, Held, Holding, StatusClasses
    <2>3. WorkerTypes' /\ Held'
      BY <1>1, <2>1, <2>2, Kept, WorkerStepKeeps DEF WorkInv
    <2>4. latencyBuckets' \in [1..bucketCount -> Nat]
      <3>1. PICK bucket : bucket = Bucket(latency[w])
        OBVIOUS
      <3>2. latencyBuckets' = [latencyBuckets EXCEPT ![bucket] = @ + 1]
        BY <1>5, <3>1 DEF CountLatency, RecordLatency
      <3>3. latencyBuckets \in [1..bucketCount -> Nat]
        BY DEF WorkInv, ServiceTypes
      <3>4. CASE bucket \in 1..bucketCount
        BY <3>2, <3>3, <3>4
      <3>5. CASE bucket \notin 1..bucketCount
        BY <3>2, <3>3, <3>5
      <3> QED
        BY <3>4, <3>5
    <2> QED
      BY <1>5, <2>3, <2>4 DEF CountLatency, RecordLatency, WorkInv, ServiceTypes, diskVars, Load
  <1> QED
    BY <1>2, <1>3, <1>4, <1>5

\* Every step keeps the types.
LEMMA WorkInvStep ==
    ASSUME WorkInv, [Next]_vars
    PROVE WorkInv'
  <1>1. CASE Disk
    <2>1. ServiceTypes'
      BY <1>1, ServiceTypesDisk DEF WorkInv
    <2> QED
      BY <1>1, <2>1 DEF Disk, WorkInv, WorkerTypes, Held, workerVars, Load
  <1>2. ASSUME NEW w \in Workers, Worker(w) PROVE WorkInv'
    BY <1>2, TypesRefuse, TypesAtOnce, TypesFile, TypesReport, TypesWalk, TypesRecord DEF Worker
  <1>3. CASE UNCHANGED vars
    BY <1>3 DEF vars, WorkInv, ServiceTypes, WorkerTypes, Held, workerVars, diskVars, metricVars, Load
  <1> QED
    BY <1>1, <1>2, <1>3 DEF Next

\* It holds when main() has started.
LEMMA WorkInvInit ==
    ASSUME Init
    PROVE WorkInv
  <1>1. workload \in DOMAIN Workloads
    BY DEF Init
  <1>2. /\ left \in 0..Load.max /\ Load.present \subseteq Files
    BY <1>1, WorkloadTypes DEF Init
  <1>3. ServiceTypes
    BY <1>1, <1>2, MaxVersionAssumption DEF Init, ServiceTypes, CacheInit, MetricsInit
  <1>4. WorkerTypes
    BY NoSnapType DEF Init, WorkerTypes, Pcs, Statuses
  <1>5. Held
    BY NoSnapType DEF Init, Held, Holding, StatusClasses, Percentiles
  <1> QED
    BY <1>3, <1>4, <1>5 DEF WorkInv

LEMMA WorkInvAlways == Spec => []WorkInv
  BY WorkInvInit, WorkInvStep, PTL DEF Spec

-----------------------------------------------------------------------------
(* The configuration *)

ConfigTypes ==
    /\ options \in Load.options
    /\ config.threads \in Nat \ {0} /\ config.mode \in {"pool", "reactor"}

ConfigInv == ConfigTypes /\ HighestLayerWins

\* main() configures once, and nothing changes the configuration afterwards.
LEMMA ConfigInvAlways == Spec => []ConfigInv
  <1>1. Init => ConfigInv
    <2> SUFFICES ASSUME Init PROVE ConfigInv
      OBVIOUS
    <2>1. \A o \in Load.options : OptionTypes(o)
      BY WorkloadsAssumption DEF Init, Load
    <2> QED
      BY <2>1, ConfigRight DEF Init, ConfigInv, ConfigTypes
  <1>2. ConfigInv /\ [Next]_vars => ConfigInv'
    <2> SUFFICES ASSUME ConfigInv, [Next]_vars PROVE ConfigInv'
      OBVIOUS
    <2>1. UNCHANGED configVars
      BY DEF Next, vars
    <2>2. UNCHANGED workload
      <3>1. CASE UNCHANGED vars
        BY <3>1 DEF vars
      <3>2. CASE Disk
        BY <3>2 DEF Disk
      <3>3. ASSUME NEW w \in Workers, Worker(w) PROVE UNCHANGED workload
        BY <3>3 DEF Worker, Refuse, AnswerLocally, KvRead, KvWrite, KvDelete, FileHit, FileMiss,
                    StatsTotal, Take, FileAbsent, FileRead, FileInsert, StatsLoad, StatsEmpty, StatsWalk,
                    CountTotal, CountBytes, CountStatus, CountLatency
      <3> QED
        BY <3>1, <3>2, <3>3 DEF Next
    <2>3. ConfigTypes'
      BY <2>1, <2>2 DEF ConfigInv, ConfigTypes, configVars, Load
    <2>4. HighestLayerWins'
      <3>1. /\ options' = options /\ config' = config
            /\ \A flags, name, default :
                /\ HighestWord(flags, name, default)' = HighestWord(flags, name, default)
                /\ HighestNumber(flags, name, default)' = HighestNumber(flags, name, default)
            /\ \A name : InProcess(name)' = InProcess(name) /\ FileLines(name)' = FileLines(name)
        BY <2>1 DEF configVars, HighestWord, HighestNumber, Flagged, InProcess, FileLines
      <3> QED
        BY <3>1 DEF ConfigInv, HighestLayerWins
    <2> QED
      BY <2>3, <2>4 DEF ConfigInv
  <1> QED
    BY <1>1, <1>2, PTL DEF Spec

\* For every file, environment and command line that main() can read, each setting is the
\* one of the highest layer that has it, repeated lines and flags, unknown flags and a last
\* flag without a value included.
THEOREM HighestLayerAlwaysWins == Spec => []HighestLayerWins
  <1>1. ConfigInv => HighestLayerWins
    BY DEF ConfigInv
  <1> QED
    BY <1>1, ConfigInvAlways, PTL

-----------------------------------------------------------------------------
(* The counters *)

\* How a step of one worker changes the number of workers in some places
LEMMA InStep ==
    ASSUME WorkerTypes, NEW w \in Workers, NEW pc, wpc' = [wpc EXCEPT ![w] = pc], NEW places
    PROVE /\ In(places) \in Nat
          /\ In(places)' = In(places) + (IF pc \in places THEN 1 ELSE 0)
                                      - (IF wpc[w] \in places THEN 1 ELSE 0)
  <1> DEFINE A == {v \in Workers : wpc[v] \in places}
             B == {v \in Workers : wpc'[v] \in places}
  <1>1. In(places) = Cardinality(A) /\ In(places)' = Cardinality(B)
    BY DEF In
  <1>2. IsFiniteSet(A)
    BY WorkersAssumption, FS_Subset
  <1>3. \A v \in Workers : wpc'[v] = IF v = w THEN pc ELSE wpc[v]
    BY DEF WorkerTypes
  <1>4. /\ w \in A <=> wpc[w] \in places
        /\ pc \in places => B = A \cup {w}
        /\ pc \notin places => B = A \ {w}
    BY <1>3
  <1> HIDE DEF A, B
  <1>5. Cardinality(A) \in Nat
    BY <1>2, FS_CardinalityType
  <1>6. CASE pc \in places
    BY <1>1, <1>2, <1>4, <1>5, <1>6, FS_AddElement
  <1>7. CASE pc \notin places
    BY <1>1, <1>2, <1>4, <1>5, <1>7, FS_RemoveElement
  <1> QED
    BY <1>6, <1>7

LEMMA InType == ASSUME NEW places PROVE In(places) \in Nat
  <1>1. IsFiniteSet({v \in Workers : wpc[v] \in places})
    BY WorkersAssumption, FS_Subset
  <1> QED
    BY <1>1, FS_CardinalityType DEF In

Recording == {"bytes", "status", "latency"}

\* A step that does not record moves a worker outside of recordRequest().
Quiet(w, pc, report) ==
    /\ wpc' = [wpc EXCEPT ![w] = pc] /\ snap' = [snap EXCEPT ![w] = report]
    /\ wpc[w] \notin Recording /\ pc \notin Recording
    /\ UNCHANGED metricVars

\* From the beginning of a request to its response, without /api/stats
LEMMA QuietHandlers ==
    ASSUME WorkInv, NEW w \in Workers,
           \/ Refuse(w)
           \/ \E r \in Load.requests :
                \/ AnswerLocally(w, r) \/ KvRead(w, r) \/ KvWrite(w, r) \/ KvDelete(w, r)
                \/ FileHit(w, r) \/ FileMiss(w, r)
           \/ FileAbsent(w) \/ FileRead(w) \/ FileInsert(w)
    PROVE \E pc \in {"total", "open", "insert"} :
            /\ Quiet(w, pc, snap[w]) /\ snap[w] = NoSnap
            /\ wpc[w] = "idle" => Free(w)
            /\ wpc[w] # "idle" => wpc[w] \in {"open", "insert"}
  <1>1. snap = [snap EXCEPT ![w] = snap[w]] /\ (wpc[w] \in {"idle", "open", "insert"} => snap[w] = NoSnap)
    BY Kept DEF WorkInv, Held, Holding, StatusClasses
  <1>2. CASE Refuse(w)
    <2>1. Quiet(w, "total", snap[w])
      BY <1>1, <1>2 DEF Refuse, Quiet, Free, Recording
    <2> QED
      BY <1>1, <1>2, <2>1 DEF Refuse, Free
  <1>3. ASSUME NEW r \in Load.requests,
               AnswerLocally(w, r) \/ KvRead(w, r) \/ KvWrite(w, r) \/ KvDelete(w, r) \/ FileHit(w, r)
        PROVE Quiet(w, "total", snap[w]) /\ Free(w)
    <2>1. Take(w, r) /\ \E code : Respond(w, code)
      BY <1>3 DEF AnswerLocally, KvRead, KvWrite, KvDelete, FileHit
    <2>2. wpc' = [wpc EXCEPT ![w] = "total"] /\ Free(w) /\ wpc[w] = "idle"
      BY <2>1 DEF Respond, Take, Free
    <2>3. snap' = snap /\ UNCHANGED metricVars
      BY <1>3 DEF AnswerLocally, KvRead, KvWrite, KvDelete, FileHit
    <2> QED
      BY <1>1, <2>2, <2>3 DEF Quiet, Recording
  <1>4. ASSUME NEW r \in Load.requests, FileMiss(w, r) PROVE Quiet(w, "open", snap[w]) /\ Free(w)
    BY <1>1, <1>4 DEF FileMiss, Take, Free, Quiet, Recording
  <1>5. CASE FileAbsent(w)
    BY <1>1, <1>5 DEF FileAbsent, Respond, Quiet, Recording
  <1>6. CASE FileRead(w)
    BY <1>1, <1>6 DEF FileRead, Quiet, Recording
  <1>7. CASE FileInsert(w)
    BY <1>1, <1>7 DEF FileInsert, Respond, Quiet, Recording
  <1>8. Free(w) => wpc[w] = "idle"
    BY DEF Free
  <1> QED
    BY <1>1, <1>2, <1>3, <1>4, <1>5, <1>6, <1>7, <1>8

\* What a step does to the report that a worker makes
Reports(w, pc, report) ==
    \/ /\ Free(w) /\ snap[w] = NoSnap /\ pc = "ok"
       /\ report = [NoSnap EXCEPT !.total = totalRequests]
    \/ /\ wpc[w] \in StatusClasses /\ pc = NextLoad[wpc[w]]
       /\ report = [snap[w] EXCEPT !.responses[wpc[w]] = responses[wpc[w]]]
    \/ wpc[w] = "percentile" /\ pc = "total" /\ report = snap[w]
    \/ /\ wpc[w] = "percentile" /\ pc = "percentile"
       /\ Walk(snap[w].bucket, snap[w].seen, Target(w)) = 0
       /\ report = [snap[w] EXCEPT !.bucket = snap[w].bucket + 1,
                                   !.seen = snap[w].seen + latencyBuckets[snap[w].bucket]]
    \/ /\ wpc[w] = "percentile" /\ pc \in {"percentile", "total"}
       /\ Walk(snap[w].bucket, snap[w].seen, Target(w)) # 0
       /\ report = Reported(w)

LEMMA QuietReports ==
    ASSUME WorkInv, NEW w \in Workers,
           \/ \E r \in Load.requests : StatsTotal(w, r)
           \/ StatsLoad(w) \/ StatsEmpty(w) \/ StatsWalk(w)
    PROVE \E pc \in Pcs : \E report : Quiet(w, pc, report) /\ Reports(w, pc, report)
  <1>1. snap = [snap EXCEPT ![w] = snap[w]] /\ wpc = [wpc EXCEPT ![w] = wpc[w]] /\ wpc[w] \in Pcs
    BY Kept DEF WorkInv
  <1>2. ASSUME NEW r \in Load.requests, StatsTotal(w, r)
        PROVE \E report : Quiet(w, "ok", report) /\ Reports(w, "ok", report)
    <2>1. snap[w] = NoSnap /\ Free(w) /\ wpc[w] = "idle"
      BY <1>2, TakeKeeps DEF StatsTotal, Take
    <2>2. snap' = [snap EXCEPT ![w] = [snap[w] EXCEPT !.total = totalRequests]]
      BY <1>2 DEF StatsTotal
    <2>3. PICK report : report = [snap[w] EXCEPT !.total = totalRequests]
      OBVIOUS
    <2>4. Quiet(w, "ok", report)
      BY <1>2, <2>1, <2>2, <2>3 DEF StatsTotal, Quiet, Recording
    <2>5. Reports(w, "ok", report)
      BY <2>1, <2>3 DEF Reports
    <2> QED
      BY <2>4, <2>5
  <1>3. ASSUME StatsLoad(w)
        PROVE \E report : Quiet(w, NextLoad[wpc[w]], report) /\ Reports(w, NextLoad[wpc[w]], report)
    <2>1. wpc[w] \in StatusClasses
      BY <1>3 DEF StatsLoad
    <2>2. snap' = [snap EXCEPT ![w] = [snap[w] EXCEPT !.responses[wpc[w]] = responses[wpc[w]]]]
      BY <1>3 DEF StatsLoad
    <2>3. PICK report : report = [snap[w] EXCEPT !.responses[wpc[w]] = responses[wpc[w]]]
      OBVIOUS
    <2>4. NextLoad[wpc[w]] \notin Recording /\ wpc[w] \notin Recording
      BY <2>1 DEF NextLoad, StatusClasses, Recording
    <2>5. Quiet(w, NextLoad[wpc[w]], report)
      BY <1>3, <2>2, <2>3, <2>4 DEF StatsLoad, Quiet
    <2>6. Reports(w, NextLoad[wpc[w]], report)
      BY <2>1, <2>3 DEF Reports
    <2> QED
      BY <2>5, <2>6
  <1>4. ASSUME StatsEmpty(w) PROVE Quiet(w, "total", snap[w]) /\ Reports(w, "total", snap[w])
    BY <1>1, <1>4 DEF StatsEmpty, Respond, Quiet, Reports, Recording
  <1>5. ASSUME StatsWalk(w), WalksOn(w)
        PROVE \E report : Quiet(w, "percentile", report) /\ Reports(w, "percentile", report)
    <2>1. PICK report : report = [snap[w] EXCEPT !.bucket = snap[w].bucket + 1,
                                        !.seen = snap[w].seen + latencyBuckets[snap[w].bucket]]
      OBVIOUS
    <2>2. wpc[w] = "percentile" /\ UNCHANGED metricVars
      BY <1>5, WalkOutcomes
    <2>3. Quiet(w, "percentile", report)
      BY <1>1, <1>5, <2>1, <2>2 DEF WalksOn, Quiet, Recording
    <2>4. Reports(w, "percentile", report)
      BY <1>5, <2>1, <2>2 DEF WalksOn, Reports
    <2> QED
      BY <2>3, <2>4
  <1>6. ASSUME StatsWalk(w), ReportsOne(w)
        PROVE \E pc \in {"percentile", "total"} : Quiet(w, pc, Reported(w)) /\ Reports(w, pc, Reported(w))
    <2>1. wpc[w] = "percentile" /\ UNCHANGED metricVars
      BY <1>6, WalkOutcomes
    <2>2. PICK pc \in {"percentile", "total"} : wpc' = [wpc EXCEPT ![w] = pc]
      BY <1>1, <1>6, <2>1 DEF ReportsOne, Respond
    <2>3. Quiet(w, pc, Reported(w))
      BY <1>6, <2>1, <2>2 DEF ReportsOne, Quiet, Recording
    <2>4. Reports(w, pc, Reported(w))
      BY <1>6, <2>1, <2>2 DEF ReportsOne, Reports
    <2> QED
      BY <2>3, <2>4
  <1>7. /\ {"ok", "total", "percentile"} \subseteq Pcs
        /\ wpc[w] \in StatusClasses => NextLoad[wpc[w]] \in Pcs
    BY DEF Pcs, StatusClasses, NextLoad
  <1>8. StatsLoad(w) => wpc[w] \in StatusClasses
    BY DEF StatsLoad
  <1> QED
    BY <1>2, <1>3, <1>4, <1>5, <1>6, <1>7, <1>8, WalkOutcomes

Heights == [i \in Nat |-> IF i \in 1..bucketCount THEN latencyBuckets[i] ELSE 0]

\* The sums of the histogram
LEMMA RecordedTypes ==
    ASSUME latencyBuckets \in [1..bucketCount -> Nat]
    PROVE /\ Recorded(0) = 0
          /\ \A n \in Nat : Recorded(n) \in Nat
          /\ \A n \in 1..bucketCount : Recorded(n) = Recorded(n - 1) + latencyBuckets[n]
          /\ \A m, n \in Nat : m <= n => Recorded(m) <= Recorded(n)
  <1>1. Heights \in [Nat -> Nat] /\ Heights \in [Nat -> Int]
    BY DEF Heights
  <1>2. \A n : Recorded(n) = PrefixSum(Heights, n)
    BY DEF Recorded, Heights
  <1>3. /\ PrefixSum(Heights, 0) = 0
        /\ \A n \in Nat : PrefixSum(Heights, n + 1) = PrefixSum(Heights, n) + Heights[n + 1]
    BY <1>1, PrefixSumStep
  <1>4. \A m, n \in Nat : m <= n => PrefixSum(Heights, m) \in Nat /\ PrefixSum(Heights, m) <= PrefixSum(Heights, n)
    BY <1>1, PrefixSumMonotone
  <1>5. ASSUME NEW n \in 1..bucketCount PROVE Recorded(n) = Recorded(n - 1) + latencyBuckets[n]
    <2>1. n - 1 \in Nat /\ (n - 1) + 1 = n /\ n \in Nat
      BY BucketCountType
    <2>2. PrefixSum(Heights, n) = PrefixSum(Heights, n - 1) + Heights[n]
      BY <1>3, <2>1
    <2>3. Heights[n] = latencyBuckets[n]
      BY <2>1 DEF Heights
    <2> QED
      BY <1>2, <2>2, <2>3
  <1>6. \A n \in Nat : n <= n
    OBVIOUS
  <1> QED
    BY <1>2, <1>3, <1>4, <1>5, <1>6

\* A recorded latency adds one to the sums from its bucket on.
LEMMA RecordedStep ==
    ASSUME latencyBuckets \in [1..bucketCount -> Nat], NEW bucket \in 1..bucketCount,
           latencyBuckets' = [latencyBuckets EXCEPT ![bucket] = @ + 1], NEW n \in Nat
    PROVE Recorded(n)' = Recorded(n) + (IF bucket <= n THEN 1 ELSE 0)
  <1> DEFINE h == [i \in Nat |-> IF i \in 1..bucketCount THEN latencyBuckets'[i] ELSE 0]
  <1>1. Heights \in [Nat -> Int] /\ h \in [Nat -> Int] /\ bucket \in Nat /\ bucket > 0
    BY BucketCountType DEF Heights
  <1>2. h[bucket] = Heights[bucket] + 1 /\ \A i \in Nat : i # bucket => h[i] = Heights[i]
    BY <1>1 DEF Heights
  <1>3. Recorded(n) = PrefixSum(Heights, n) /\ Recorded(n)' = PrefixSum(h, n)
    BY DEF Recorded, Heights
  <1> HIDE DEF h
  <1>4. PICK f, g : f = Heights /\ g = h
    OBVIOUS
  <1>5. OneMore(f, g, bucket)
    BY <1>1, <1>2, <1>4 DEF OneMore
  <1>6. PrefixSum(g, n) = PrefixSum(f, n) + (IF bucket <= n THEN 1 ELSE 0)
    BY <1>1, <1>5, PrefixSumIncrement
  <1> QED
    BY <1>3, <1>4, <1>6

\* CountLatency() uses a bucket that exists.
LEMMA CountedBucket ==
    ASSUME WorkInv, NEW w \in Workers, CountLatency(w)
    PROVE \E bucket \in 1..bucketCount : latencyBuckets' = [latencyBuckets EXCEPT ![bucket] = @ + 1]
  <1>1. latency[w] \in Load.latencies \cup {0}
    BY Kept DEF WorkInv
  <1>2. /\ Load.latencies \subseteq Nat
        /\ \A l \in Load.latencies : l <= bucketBounds[bucketCount]
    BY WorkloadTypes DEF WorkInv, ServiceTypes
  <1>3. bucketBounds[bucketCount] \in Nat
    BY BoundsAssumption, BucketCountType DEF bucketCount
  <1>4. latency[w] \in Nat /\ latency[w] <= bucketBounds[bucketCount]
    BY <1>1, <1>2, <1>3
  <1>5. Bucket(latency[w]) \in 1..bucketCount
    BY <1>4, BucketType
  <1>6. latencyBuckets' = [latencyBuckets EXCEPT ![Bucket(latency[w])] = @ + 1]
    BY DEF CountLatency, RecordLatency
  <1> QED
    BY <1>5, <1>6

\* What the four updates do to their counters
LEMMA CountedClass ==
    ASSUME responses \in [StatusClasses -> Nat], NEW code, RecordStatus(code)
    PROVE /\ Answers(responses) \in Nat /\ Answers(responses') = Answers(responses) + 1
          /\ \A class \in StatusClasses : responses'[class] >= responses[class]
          /\ responses' \in [StatusClasses -> Nat]
  <1>1. PICK class \in StatusClasses : responses' = [responses EXCEPT ![class] = @ + 1]
    BY ClassType DEF RecordStatus
  <1>2. /\ responses.ok \in Nat /\ responses.clientError \in Nat /\ responses.serverError \in Nat
    BY DEF StatusClasses
  <1>3. CASE class = "ok"
    BY <1>1, <1>2, <1>3 DEF Answers, StatusClasses
  <1>4. CASE class = "clientError"
    BY <1>1, <1>2, <1>4 DEF Answers, StatusClasses
  <1>5. CASE class = "serverError"
    BY <1>1, <1>2, <1>5 DEF Answers, StatusClasses
  <1> QED
    BY <1>3, <1>4, <1>5 DEF StatusClasses

\* Every step of a worker counts or is quiet.
LEMMA WorkerSteps ==
    ASSUME WorkInv, NEW w \in Workers, Worker(w)
    PROVE \/ \E pc \in Pcs : \E report :
               /\ Quiet(w, pc, report)
               /\ \/ /\ report = snap[w] /\ snap[w] = NoSnap /\ pc \in {"total", "open", "insert"}
                     /\ wpc[w] = "idle" => Free(w)
                     /\ wpc[w] # "idle" => wpc[w] \in {"open", "insert"}
                  \/ Reports(w, pc, report)
          \/ CountTotal(w) \/ CountBytes(w) \/ CountStatus(w) \/ CountLatency(w)
  <1>1. {"total", "open", "insert"} \subseteq Pcs
    BY DEF Pcs
  <1>2. CASE \/ Refuse(w)
             \/ \E r \in Load.requests :
                  \/ AnswerLocally(w, r) \/ KvRead(w, r) \/ KvWrite(w, r) \/ KvDelete(w, r)
                  \/ FileHit(w, r) \/ FileMiss(w, r)
             \/ FileAbsent(w) \/ FileRead(w) \/ FileInsert(w)
    <2>1. PICK pc \in {"total", "open", "insert"} :
            /\ Quiet(w, pc, snap[w]) /\ snap[w] = NoSnap
            /\ wpc[w] = "idle" => Free(w)
            /\ wpc[w] # "idle" => wpc[w] \in {"open", "insert"}
      BY <1>2, QuietHandlers
    <2> QED
      BY <1>1, <2>1
  <1>3. CASE (\E r \in Load.requests : StatsTotal(w, r)) \/ StatsLoad(w) \/ StatsEmpty(w) \/ StatsWalk(w)
    BY <1>3, QuietReports
  <1> QED
    BY <1>2, <1>3 DEF Worker

\* The threads that are busy, and the counters
Busy == Cardinality(Workers) - In({"idle"}) <= config.threads

CountInv == Busy /\ NothingUncounted

LEMMA CountInvInit ==
    ASSUME Init, ConfigInv
    PROVE CountInv
  <1>1. \A v \in Workers : wpc[v] = "idle"
    BY DEF Init
  <1>2. {v \in Workers : wpc[v] \in {"idle"}} = Workers
    BY <1>1
  <1>3. ASSUME NEW places, "idle" \notin places PROVE In(places) = 0
    <2>1. {v \in Workers : wpc[v] \in places} = {}
      BY <1>1, <1>3
    <2> QED
      BY <2>1, FS_EmptySet DEF In
  <1>4. Cardinality(Workers) \in Nat
    BY WorkersAssumption, FS_CardinalityType
  <1>5. Busy
    BY <1>2, <1>4 DEF Busy, In, ConfigInv, ConfigTypes
  <1>6. Answers(responses) = 0 /\ totalRequests = 0 /\ bytesOut = 0
    BY DEF Init, MetricsInit, Answers, StatusClasses
  <1>7. Recorded(bucketCount) = 0
    <2> DEFINE T == {n \in Nat : n <= bucketCount /\ Recorded(n) # 0}
    <2>1. latencyBuckets = [i \in 1..bucketCount |-> 0]
      BY DEF Init, MetricsInit
    <2>2. latencyBuckets \in [1..bucketCount -> Nat]
      BY <2>1
    <2>3. /\ Recorded(0) = 0
          /\ \A n \in 1..bucketCount : Recorded(n) = Recorded(n - 1) + latencyBuckets[n]
      BY <2>2, RecordedTypes
    <2>4. ASSUME T # {} PROVE FALSE
      <3>1. PICK n \in T : \A j \in T : n <= j
        BY <2>4, LeastNatural
      <3>2. n # 0 /\ n - 1 \in Nat /\ n \in 1..bucketCount /\ n - 1 <= bucketCount
        BY <2>3, <3>1, BucketCountType
      <3>3. Recorded(n - 1) = 0
        BY <3>1, <3>2
      <3> QED
        BY <2>1, <2>3, <3>1, <3>2, <3>3
    <2>5. T = {} /\ bucketCount \in Nat /\ bucketCount <= bucketCount
      BY <2>4, BucketCountType
    <2> QED
      BY <2>5
  <1>8. NothingUncounted
    BY <1>3, <1>6, <1>7 DEF NothingUncounted
  <1> QED
    BY <1>5, <1>8 DEF CountInv

\* At most config.threads workers are busy, whatever a worker does.
LEMMA BusyStep ==
    ASSUME WorkerTypes, Busy, config.threads \in Nat, config' = config,
           NEW w \in Workers, NEW pc, wpc' = [wpc EXCEPT ![w] = pc], wpc[w] = "idle" => Free(w)
    PROVE Busy'
  <1>1. PICK all : all = Cardinality(Workers)
    OBVIOUS
  <1>2. all \in Nat
    BY <1>1, WorkersAssumption, FS_CardinalityType
  <1>3. /\ In({"idle"}) \in Nat
        /\ In({"idle"})' = In({"idle"}) + (IF pc \in {"idle"} THEN 1 ELSE 0)
                                        - (IF wpc[w] \in {"idle"} THEN 1 ELSE 0)
    BY InStep, ZenonT(30)
  <1>4. PICK idle : idle = In({"idle"})
    OBVIOUS
  <1>5. all - idle <= config.threads /\ (wpc[w] = "idle" => all - idle < config.threads)
    BY <1>1, <1>4 DEF Busy, Free
  <1>6. all - In({"idle"})' <= config.threads
    BY <1>2, <1>3, <1>4, <1>5
  <1> QED
    BY <1>1, <1>6 DEF Busy

LEMMA CountInvQuiet ==
    ASSUME WorkInv, ConfigInv, CountInv, UNCHANGED configVars, NEW w \in Workers, NEW pc, NEW report,
           Quiet(w, pc, report), wpc[w] = "idle" => Free(w)
    PROVE CountInv'
  <1>1. ASSUME NEW places, places \subseteq Recording PROVE In(places)' = In(places)
    <2>1. wpc' = [wpc EXCEPT ![w] = pc] /\ pc \notin places /\ wpc[w] \notin places
      BY <1>1 DEF Quiet
    <2>2. In(places) \in Nat /\ In(places)' = In(places) + 0 - 0
      BY <2>1, InStep DEF WorkInv
    <2> QED
      BY <2>2
  <1>2. /\ In({"bytes"})' = In({"bytes"}) /\ In({"bytes", "status"})' = In({"bytes", "status"})
        /\ In({"bytes", "status", "latency"})' = In({"bytes", "status", "latency"})
    BY <1>1 DEF Recording
  <1>3. /\ totalRequests' = totalRequests /\ bytesOut' = bytesOut
        /\ Answers(responses)' = Answers(responses) /\ Recorded(bucketCount)' = Recorded(bucketCount)
    BY DEF Quiet, metricVars, Answers, Recorded
  <1>4. NothingUncounted'
    BY <1>2, <1>3 DEF CountInv, NothingUncounted
  <1>5. Busy'
    BY BusyStep DEF CountInv, WorkInv, ConfigInv, ConfigTypes, configVars, Quiet
  <1> QED
    BY <1>4, <1>5 DEF CountInv

LEMMA CountInvCount ==
    ASSUME WorkInv, ConfigInv, CountInv, UNCHANGED configVars, NEW w \in Workers,
           CountTotal(w) \/ CountBytes(w) \/ CountStatus(w) \/ CountLatency(w)
    PROVE CountInv'
  <1>1. PICK pc : wpc' = [wpc EXCEPT ![w] = pc]
    BY DEF CountTotal, CountBytes, CountStatus, CountLatency
  <1>2. Busy'
    <2>1. wpc[w] # "idle"
      BY DEF CountTotal, CountBytes, CountStatus, CountLatency
    <2> QED
      BY <1>1, <2>1, BusyStep DEF CountInv, WorkInv, ConfigInv, ConfigTypes, configVars
  <1>3. /\ totalRequests \in Nat /\ bytesOut \in Nat /\ responses \in [StatusClasses -> Nat]
        /\ latencyBuckets \in [1..bucketCount -> Nat]
    BY DEF WorkInv, ServiceTypes
  <1>4. Recorded(bucketCount) \in Nat
    BY <1>3, RecordedTypes, BucketCountType
  <1>5. Answers(responses) \in Nat
    <2>1. responses.ok \in Nat /\ responses.clientError \in Nat /\ responses.serverError \in Nat
      BY <1>3 DEF StatusClasses
    <2> QED
      BY <2>1 DEF Answers
  <1> DEFINE step(places) == In(places)' = In(places) + (IF wpc'[w] \in places THEN 1 ELSE 0)
                                      - (IF wpc[w] \in places THEN 1 ELSE 0)
  <1>6. \A places : In(places) \in Nat
    BY InType
  <1>7. ASSUME NEW places PROVE step(places)
    <2>1. wpc'[w] = pc
      BY <1>1 DEF WorkInv, WorkerTypes
    <2> QED
      BY <1>1, <2>1, InStep, ZenonT(30) DEF WorkInv
  <1>8. step({"bytes"}) /\ step({"bytes", "status"}) /\ step({"bytes", "status", "latency"})
    BY <1>7
  <1>9. CASE CountTotal(w)
    <2>1. wpc[w] = "total" /\ wpc'[w] = "bytes"
      BY <1>9 DEF CountTotal, WorkInv, WorkerTypes
    <2>2. /\ totalRequests' = totalRequests + 1 /\ bytesOut' = bytesOut
          /\ Answers(responses)' = Answers(responses) /\ Recorded(bucketCount)' = Recorded(bucketCount)
      BY <1>9 DEF CountTotal, RecordTotal, Answers, Recorded
    <2>3. /\ In({"bytes"})' = In({"bytes"}) + 1 /\ In({"bytes", "status"})' = In({"bytes", "status"}) + 1
          /\ In({"bytes", "status", "latency"})' = In({"bytes", "status", "latency"}) + 1
      BY <1>6, <1>8, <2>1
    <2>4. NothingUncounted'
      BY <1>3, <1>4, <1>5, <1>6, <2>2, <2>3, SMTT(30) DEF CountInv, NothingUncounted
    <2> QED
      BY <1>2, <2>4 DEF CountInv
  <1>10. CASE CountBytes(w)
    <2>1. wpc[w] = "bytes" /\ wpc'[w] = "status"
      BY <1>10 DEF CountBytes, WorkInv, WorkerTypes
    <2>2. /\ totalRequests' = totalRequests /\ bytesOut' = bytesOut + 1
          /\ Answers(responses)' = Answers(responses) /\ Recorded(bucketCount)' = Recorded(bucketCount)
      BY <1>10 DEF CountBytes, RecordBytes, Answers, Recorded
    <2>3. NothingUncounted'
      BY <1>3, <1>4, <1>5, <1>6, <1>8, <2>1, <2>2 DEF CountInv, NothingUncounted
    <2> QED
      BY <1>2, <2>3 DEF CountInv
  <1>11. CASE CountStatus(w)
    <2>1. wpc[w] = "status" /\ wpc'[w] = "latency"
      BY <1>11 DEF CountStatus, WorkInv, WorkerTypes
    <2>2. Answers(responses') = Answers(responses) + 1
      BY <1>3, <1>11, CountedClass DEF CountStatus
    <2>3. /\ totalRequests' = totalRequests /\ bytesOut' = bytesOut
          /\ Answers(responses)' = Answers(responses') /\ Recorded(bucketCount)' = Recorded(bucketCount)
      BY <1>11 DEF CountStatus, RecordStatus, Answers, Recorded
    <2>4. NothingUncounted'
      BY <1>3, <1>4, <1>5, <1>6, <1>8, <2>1, <2>2, <2>3 DEF CountInv, NothingUncounted
    <2> QED
      BY <1>2, <2>4 DEF CountInv
  <1>12. CASE CountLatency(w)
    <2>1. wpc[w] = "latency" /\ wpc'[w] = "idle"
      BY <1>12 DEF CountLatency, WorkInv, WorkerTypes
    <2>2. Recorded(bucketCount)' = Recorded(bucketCount) + 1
      <3>1. PICK bucket \in 1..bucketCount : latencyBuckets' = [latencyBuckets EXCEPT ![bucket] = @ + 1]
        BY <1>12, CountedBucket
      <3>2. Recorded(bucketCount)' = Recorded(bucketCount) + (IF bucket <= bucketCount THEN 1 ELSE 0)
        BY <1>3, <3>1, RecordedStep, BucketCountType
      <3> QED
        BY <3>1, <3>2, BucketCountType
    <2>3. /\ totalRequests' = totalRequests /\ bytesOut' = bytesOut
          /\ Answers(responses)' = Answers(responses)
      BY <1>12 DEF CountLatency, RecordLatency, Answers
    <2>4. NothingUncounted'
      BY <1>3, <1>4, <1>5, <1>6, <1>8, <2>1, <2>2, <2>3 DEF CountInv, NothingUncounted
    <2> QED
      BY <1>2, <2>4 DEF CountInv
  <1> QED
    BY <1>9, <1>10, <1>11, <1>12

\* Steps of the environment leave workers, counters and configuration alone.
LEMMA CountInvIdle ==
    ASSUME CountInv, UNCHANGED <<wpc, metricVars, configVars>>
    PROVE CountInv'
  BY DEF CountInv, Busy, NothingUncounted, In, Answers, Recorded, metricVars, configVars

LEMMA CountInvStep ==
    ASSUME WorkInv, ConfigInv, CountInv, [Next]_vars
    PROVE CountInv'
  <1>1. UNCHANGED configVars
    BY DEF Next, vars
  <1>2. CASE UNCHANGED vars
    BY <1>2, CountInvIdle DEF vars, workerVars
  <1>3. CASE Disk
    BY <1>1, <1>3, CountInvIdle DEF Disk, workerVars
  <1>4. ASSUME NEW w \in Workers, Worker(w) PROVE CountInv'
    <2>1. CASE CountTotal(w) \/ CountBytes(w) \/ CountStatus(w) \/ CountLatency(w)
      BY <1>1, <2>1, CountInvCount
    <2>2. ASSUME NEW pc, NEW report, Reports(w, pc, report) PROVE wpc[w] = "idle" => Free(w)
      BY <2>2 DEF Reports, StatusClasses
    <2>3. CASE ~(CountTotal(w) \/ CountBytes(w) \/ CountStatus(w) \/ CountLatency(w))
      <3>1. \E pc, report : Quiet(w, pc, report) /\ (wpc[w] = "idle" => Free(w))
        BY <1>4, <2>2, <2>3, WorkerSteps
      <3> QED
        BY <1>1, <3>1, CountInvQuiet
    <2> QED
      BY <2>1, <2>3
  <1> QED
    BY <1>2, <1>3, <1>4 DEF Next

LEMMA CountInvAlways == Spec => []CountInv
  BY CountInvInit, CountInvStep, ConfigInvAlways, WorkInvAlways, PTL DEF Spec

\* No update of a counter is ever lost and no group of counters runs ahead of another by
\* more than the requests that are just being recorded, for any number of threads and
\* requests and in every interleaving.
THEOREM AlwaysCounted == Spec => []NothingUncounted
  <1>1. CountInv => NothingUncounted
    BY DEF CountInv
  <1> QED
    BY <1>1, CountInvAlways, PTL

-----------------------------------------------------------------------------
(* The report of /api/stats.  Definitions over values, so that a step is a *)
(* change of values.                                                       *)

\* How many requests are in the first buckets
Sums == [n \in 0..bucketCount |-> Recorded(n)]

\* The status counts that a report shows if what it has yet to load were loaded now
Shown(pc, report, counts) ==
    (IF pc = "ok" THEN counts.ok ELSE report.responses.ok)
    + (IF pc \in {"ok", "clientError"} THEN counts.clientError ELSE report.responses.clientError)
    + (IF pc \in StatusClasses THEN counts.serverError ELSE report.responses.serverError)

\* A bucket that was reported for a rank, in terms of the histogram and its sums
RightBucket(bucket, rank, total, buckets, sums, threads) ==
    /\ bucket # Unfound => sums[bucket] >= rank /\ (rank > 0 => buckets[bucket] > 0)
    /\ bucket = Unfound => total - rank < threads - 1

RightBuckets(report, buckets, sums, threads) ==
    \A n \in DOMAIN report.reports :
        RightBucket(report.reports[n], Rank(Percentiles[n], report.total), report.total,
                    buckets, sums, threads)

\* The walk has seen no more than is there, and with what is ahead of it all of the total
\* but one request per other thread.
OnTheWay(report, sums, threads) ==
    /\ report.seen <= sums[report.bucket - 1]
    /\ report.seen + sums[bucketCount] - sums[report.bucket - 1] + threads - 1 >= report.total
    /\ report.seen = 0 \/ report.seen < Rank(Percentiles[Len(report.reports) + 1], report.total)

ReportRight(pc, report, counts, buckets, sums, threads) ==
    /\ Shown(pc, report, counts) + threads - 1 >= report.total
    /\ RightBuckets(report, buckets, sums, threads)
    /\ pc \in StatusClasses \cup {"percentile"} => OnTheWay(report, sums, threads)

ReportInv ==
    \A w \in Workers :
        ReportRight(wpc[w], snap[w], responses, latencyBuckets, Sums, config.threads)

\* The rank of a percentile is a natural number.
LEMMA RankType ==
    ASSUME NEW n \in 1..Len(Percentiles), NEW total \in Nat
    PROVE Rank(Percentiles[n], total) \in Nat
  <1>1. n \in {1, 2, 3} /\ Percentiles[1] = 50 /\ Percentiles[2] = 95 /\ Percentiles[3] = 99
    BY DEF Percentiles
  <1>2. (50 * total) \div 100 \in Nat /\ (95 * total) \div 100 \in Nat /\ (99 * total) \div 100 \in Nat
    OBVIOUS
  <1> QED
    BY <1>1, <1>2 DEF Rank

\* The values of the counters before and after a step that records
Grows(counts, counts2, buckets, buckets2, sums, sums2) ==
    /\ counts \in [StatusClasses -> Nat] /\ counts2 \in [StatusClasses -> Nat]
    /\ buckets \in [1..bucketCount -> Nat] /\ buckets2 \in [1..bucketCount -> Nat]
    /\ sums \in [0..bucketCount -> Nat] /\ sums2 \in [0..bucketCount -> Nat]
    /\ \A class \in StatusClasses : counts[class] <= counts2[class]
    /\ \A i \in 1..bucketCount : buckets[i] <= buckets2[i]
    /\ \A n \in 0..bucketCount :
        sums[n] <= sums2[n] /\ sums2[n] - sums[n] <= sums2[bucketCount] - sums[bucketCount]

\* What a report has right stays right while requests are recorded.
LEMMA ReportStays ==
    ASSUME NEW pc, NEW report \in Snapshots, NEW threads \in Nat,
           Len(report.reports) <= Len(Percentiles),
           NEW counts, NEW counts2, NEW buckets, NEW buckets2, NEW sums, NEW sums2,
           Grows(counts, counts2, buckets, buckets2, sums, sums2),
           ReportRight(pc, report, counts, buckets, sums, threads)
    PROVE ReportRight(pc, report, counts2, buckets2, sums2, threads)
  <1>1. /\ report.total \in Nat /\ report.seen \in Nat /\ report.bucket \in 1..bucketCount
        /\ report.reports \in Seq(1..Unfound) /\ report.responses \in [StatusClasses -> Nat]
    BY DEF Snapshots
  <1>2. Shown(pc, report, counts2) + threads - 1 >= report.total
    <2>1. /\ counts.ok \in Nat /\ counts.clientError \in Nat /\ counts.serverError \in Nat
          /\ counts2.ok \in Nat /\ counts2.clientError \in Nat /\ counts2.serverError \in Nat
          /\ counts.ok <= counts2.ok /\ counts.clientError <= counts2.clientError
          /\ counts.serverError <= counts2.serverError
          /\ report.responses.ok \in Nat /\ report.responses.clientError \in Nat
          /\ report.responses.serverError \in Nat
      BY <1>1 DEF Grows, StatusClasses
    <2>2. PICK a, b, c, a2, b2, c2 :
            /\ a = IF pc = "ok" THEN counts.ok ELSE report.responses.ok
            /\ b = IF pc \in {"ok", "clientError"} THEN counts.clientError ELSE report.responses.clientError
            /\ c = IF pc \in StatusClasses THEN counts.serverError ELSE report.responses.serverError
            /\ a2 = IF pc = "ok" THEN counts2.ok ELSE report.responses.ok
            /\ b2 = IF pc \in {"ok", "clientError"} THEN counts2.clientError ELSE report.responses.clientError
            /\ c2 = IF pc \in StatusClasses THEN counts2.serverError ELSE report.responses.serverError
      BY Zenon
    <2>3. a \in Nat /\ a2 \in Nat /\ a <= a2
      BY <2>1, <2>2
    <2>4. b \in Nat /\ b2 \in Nat /\ b <= b2
      BY <2>1, <2>2
    <2>5. c \in Nat /\ c2 \in Nat /\ c <= c2
      BY <2>1, <2>2
    <2>6. Shown(pc, report, counts) = a + b + c /\ Shown(pc, report, counts2) = a2 + b2 + c2
      BY <2>2, Zenon DEF Shown
    <2>7. a + b + c + threads - 1 >= report.total
      BY <2>6 DEF ReportRight
    <2>8. a2 + b2 + c2 + threads - 1 >= report.total
      BY <1>1, <2>3, <2>4, <2>5, <2>7
    <2> QED
      BY <2>6, <2>8
  <1>3. RightBuckets(report, buckets2, sums2, threads)
    <2> SUFFICES ASSUME NEW n \in DOMAIN report.reports
                 PROVE RightBucket(report.reports[n], Rank(Percentiles[n], report.total),
                                   report.total, buckets2, sums2, threads)
      BY DEF RightBuckets
    <2>1. PICK bucket, rank : bucket = report.reports[n] /\ rank = Rank(Percentiles[n], report.total)
      OBVIOUS
    <2>2. n \in 1..Len(Percentiles)
      BY <1>1 DEF Percentiles
    <2>3. bucket \in 1..Unfound /\ rank \in Nat
      <3>1. PICK reports, T : reports = report.reports /\ T = 1..Unfound
        OBVIOUS
      <3>3. reports \in Seq(T) /\ n \in DOMAIN reports
        BY <1>1, <3>1
      <3>4. reports[n] \in T
        BY <3>3
      <3>2. rank \in Nat
        BY <1>1, <2>1, <2>2, RankType, Zenon
      <3> QED
        BY <2>1, <3>1, <3>2, <3>4
    <2>4. RightBucket(bucket, rank, report.total, buckets, sums, threads)
      BY <2>1 DEF ReportRight, RightBuckets
    <2>5. RightBucket(bucket, rank, report.total, buckets2, sums2, threads)
      <3>1. CASE bucket # Unfound
        <4>1. /\ bucket \in 1..bucketCount /\ bucket \in 0..bucketCount /\ bucket # Unfound
          BY <2>3, <3>1, BucketCountType
        <4>2. /\ sums[bucket] \in Nat /\ sums2[bucket] \in Nat /\ sums[bucket] <= sums2[bucket]
              /\ buckets[bucket] \in Nat /\ buckets2[bucket] \in Nat /\ buckets[bucket] <= buckets2[bucket]
          BY <4>1 DEF Grows
        <4> QED
          BY <2>3, <2>4, <3>1, <4>1, <4>2 DEF RightBucket
      <3>2. CASE bucket = Unfound
        BY <2>4, <3>2 DEF RightBucket
      <3> QED
        BY <3>1, <3>2
    <2> QED
      BY <2>1, <2>5
  <1>4. ASSUME OnTheWay(report, sums, threads) PROVE OnTheWay(report, sums2, threads)
    <2>1. PICK before, before2, all, all2 :
            /\ before = sums[report.bucket - 1] /\ before2 = sums2[report.bucket - 1]
            /\ all = sums[bucketCount] /\ all2 = sums2[bucketCount]
      OBVIOUS
    <2>2. report.bucket - 1 \in 0..bucketCount /\ bucketCount \in 0..bucketCount
      BY <1>1, BucketCountType
    <2>3. /\ before \in Nat /\ before2 \in Nat /\ all \in Nat /\ all2 \in Nat
          /\ before <= before2 /\ before2 - before <= all2 - all
      BY <2>1, <2>2 DEF Grows
    <2>4. report.seen <= before /\ report.seen + all - before + threads - 1 >= report.total
      BY <1>4, <2>1 DEF OnTheWay
    <2>5. report.seen <= before2 /\ report.seen + all2 - before2 + threads - 1 >= report.total
      BY <1>1, <2>3, <2>4, SMTT(30)
    <2> QED
      BY <1>4, <2>1, <2>5 DEF OnTheWay
  <1> QED
    BY <1>2, <1>3, <1>4 DEF ReportRight

\* The counters and their sums
LEMMA SumsTypes ==
    ASSUME latencyBuckets \in [1..bucketCount -> Nat]
    PROVE /\ Sums \in [0..bucketCount -> Nat] /\ Sums[0] = 0
          /\ \A n \in 1..bucketCount : Sums[n] = Sums[n - 1] + latencyBuckets[n]
          /\ Sums[bucketCount] = Recorded(bucketCount)
  <1>1. /\ Recorded(0) = 0
        /\ \A n \in Nat : Recorded(n) \in Nat
        /\ \A n \in 1..bucketCount : Recorded(n) = Recorded(n - 1) + latencyBuckets[n]
    BY RecordedTypes
  <1>2. /\ 0..bucketCount \subseteq Nat /\ 0 \in 0..bucketCount /\ bucketCount \in 0..bucketCount
        /\ \A n \in 1..bucketCount : n \in 0..bucketCount /\ n - 1 \in 0..bucketCount
    BY BucketCountType
  <1> QED
    BY <1>1, <1>2 DEF Sums

\* A step leaves the counters alone or records.
LEMMA GrowsQuietly ==
    ASSUME ServiceTypes, UNCHANGED metricVars
    PROVE Grows(responses, responses', latencyBuckets, latencyBuckets', Sums, Sums')
  <1>1. Sums' = Sums
    BY DEF Sums, Recorded, metricVars
  <1>2. /\ responses \in [StatusClasses -> Nat] /\ latencyBuckets \in [1..bucketCount -> Nat]
        /\ Sums \in [0..bucketCount -> Nat]
    BY SumsTypes DEF ServiceTypes
  <1>3. responses' = responses /\ latencyBuckets' = latencyBuckets
    BY DEF metricVars
  <1>4. bucketCount \in 0..bucketCount
    BY BucketCountType
  <1>5. \A n \in 0..bucketCount : Sums[n] <= Sums[n] /\ Sums[n] - Sums[n] <= Sums[bucketCount] - Sums[bucketCount]
    BY <1>2, <1>4
  <1> QED
    BY <1>1, <1>2, <1>3, <1>5 DEF Grows

LEMMA GrowsByCounting ==
    ASSUME WorkInv, NEW w \in Workers,
           CountTotal(w) \/ CountBytes(w) \/ CountStatus(w) \/ CountLatency(w)
    PROVE Grows(responses, responses', latencyBuckets, latencyBuckets', Sums, Sums')
  <1>1. /\ responses \in [StatusClasses -> Nat] /\ latencyBuckets \in [1..bucketCount -> Nat]
        /\ Sums \in [0..bucketCount -> Nat] /\ bucketCount \in 0..bucketCount
    BY SumsTypes, BucketCountType, SMTT(30) DEF WorkInv, ServiceTypes
  <1>2. ASSUME latencyBuckets' = latencyBuckets
        PROVE /\ Sums' = Sums
              /\ \A n \in 0..bucketCount :
                    Sums[n] <= Sums[n] /\ Sums[n] - Sums[n] <= Sums[bucketCount] - Sums[bucketCount]
    <2>1. Sums' = Sums
      BY <1>2 DEF Sums, Recorded
    <2> QED
      BY <1>1, <2>1
  <1>3. CASE CountTotal(w) \/ CountBytes(w)
    <2>1. responses' = responses /\ latencyBuckets' = latencyBuckets
      BY <1>3 DEF CountTotal, RecordTotal, CountBytes, RecordBytes
    <2>2. /\ \A class \in StatusClasses : responses[class] <= responses'[class]
          /\ \A i \in 1..bucketCount : latencyBuckets[i] <= latencyBuckets'[i]
      BY <1>1, <2>1
    <2> QED
      BY <1>1, <1>2, <2>1, <2>2 DEF Grows
  <1>4. CASE CountStatus(w)
    <2>1. latencyBuckets' = latencyBuckets /\ RecordStatus(status[w])
      BY <1>4 DEF CountStatus, RecordStatus
    <2>2. /\ responses' \in [StatusClasses -> Nat]
          /\ \A class \in StatusClasses : responses'[class] >= responses[class]
      BY <1>1, <2>1, CountedClass
    <2>3. \A class \in StatusClasses : responses[class] <= responses'[class]
      BY <1>1, <2>2
    <2>4. \A i \in 1..bucketCount : latencyBuckets[i] <= latencyBuckets'[i]
      BY <1>1, <2>1
    <2> QED
      BY <1>1, <1>2, <2>1, <2>2, <2>3, <2>4 DEF Grows
  <1>5. CASE CountLatency(w)
    <2>1. responses' = responses
      BY <1>5 DEF CountLatency, RecordLatency
    <2>2. PICK bucket \in 1..bucketCount : latencyBuckets' = [latencyBuckets EXCEPT ![bucket] = @ + 1]
      BY <1>5, CountedBucket
    <2>3. /\ latencyBuckets' \in [1..bucketCount -> Nat]
          /\ \A i \in 1..bucketCount : latencyBuckets[i] <= latencyBuckets'[i]
      <3>1. ASSUME NEW i \in 1..bucketCount
            PROVE latencyBuckets'[i] \in Nat /\ latencyBuckets[i] <= latencyBuckets'[i]
        <4>1. latencyBuckets'[i] = (IF i = bucket THEN latencyBuckets[i] + 1 ELSE latencyBuckets[i])
          BY <1>1, <2>2
        <4>2. latencyBuckets[i] \in Nat
          BY <1>1
        <4> QED
          BY <4>1, <4>2
      <3> QED
        BY <1>1, <2>2, <3>1
    <2>4. ASSUME NEW n \in 0..bucketCount
          PROVE Sums'[n] = Sums[n] + (IF bucket <= n THEN 1 ELSE 0)
      <3>1. n \in Nat
        BY <2>4, BucketCountType
      <3>2. Recorded(n)' = Recorded(n) + (IF bucket <= n THEN 1 ELSE 0)
        BY <1>1, <2>2, <3>1, RecordedStep
      <3>3. Sums[n] = Recorded(n) /\ Sums'[n] = Recorded(n)'
        BY <2>4 DEF Sums
      <3> QED
        BY <3>2, <3>3
    <2>5. DOMAIN Sums' = 0..bucketCount /\ Sums' = [n \in 0..bucketCount |-> Sums'[n]]
      BY DEF Sums
    <2>6. \A n \in 0..bucketCount : Sums'[n] \in Nat
      BY <1>1, <2>4
    <2>7. Sums' \in [0..bucketCount -> Nat]
      BY <2>5, <2>6
    <2>8. \A n \in 0..bucketCount :
            Sums[n] <= Sums'[n] /\ Sums'[n] - Sums[n] <= Sums'[bucketCount] - Sums[bucketCount]
      <3> SUFFICES ASSUME NEW n \in 0..bucketCount
                   PROVE /\ Sums[n] <= Sums'[n]
                         /\ Sums'[n] - Sums[n] <= Sums'[bucketCount] - Sums[bucketCount]
        OBVIOUS
      <3>1. Sums'[bucketCount] = Sums[bucketCount] + 1
        BY <1>1, <2>2, <2>4, BucketCountType
      <3>2. Sums[n] \in Nat /\ Sums[bucketCount] \in Nat
        BY <1>1
      <3> QED
        BY <2>4, <3>1, <3>2
    <2>9. \A class \in StatusClasses : responses[class] <= responses'[class]
      BY <1>1, <2>1
    <2> QED
      BY <1>1, <2>1, <2>3, <2>7, <2>8, <2>9 DEF Grows
  <1> QED
    BY <1>3, <1>4, <1>5

\* There is nothing wrong with a report that has not begun.
LEMMA NoReportRight ==
    ASSUME NEW pc, pc \notin StatusClasses, pc # "percentile", NEW threads \in Nat \ {0},
           NEW counts, NEW buckets, NEW sums
    PROVE ReportRight(pc, NoSnap, counts, buckets, sums, threads)
  <1>1. /\ NoSnap.responses.ok = 0 /\ NoSnap.responses.clientError = 0
        /\ NoSnap.responses.serverError = 0 /\ NoSnap.total = 0 /\ NoSnap.reports = <<>>
    BY DEF NoSnap, StatusClasses
  <1>2. pc # "ok" /\ pc # "clientError"
    BY DEF StatusClasses
  <1>3. Shown(pc, NoSnap, counts) = 0
    BY <1>1, <1>2 DEF Shown
  <1>4. RightBuckets(NoSnap, buckets, sums, threads)
    BY <1>1 DEF RightBuckets
  <1> QED
    BY <1>1, <1>3, <1>4 DEF ReportRight

\* When a report begins, every other busy thread can have at most one request half recorded.
LEMMA LagAtStart ==
    ASSUME WorkInv, ConfigInv, CountInv, NEW w \in Workers, Free(w)
    PROVE /\ Answers(responses) + config.threads - 1 >= totalRequests
          /\ Sums[bucketCount] + config.threads - 1 >= totalRequests
          /\ totalRequests \in Nat /\ config.threads \in Nat
  <1>1. ASSUME NEW places, "idle" \notin places
        PROVE In(places) + In({"idle"}) <= Cardinality(Workers)
    <2> DEFINE A == {v \in Workers : wpc[v] \in places}
               B == {v \in Workers : wpc[v] \in {"idle"}}
    <2>1. IsFiniteSet(A) /\ IsFiniteSet(B) /\ IsFiniteSet(Workers)
      BY WorkersAssumption, FS_Subset
    <2>2. A \cap B = {} /\ A \cup B \subseteq Workers
      BY <1>1
    <2>3. In(places) = Cardinality(A) /\ In({"idle"}) = Cardinality(B)
      BY DEF In
    <2> HIDE DEF A, B
    <2>4. /\ Cardinality(A \cup B) = Cardinality(A) + Cardinality(B) - Cardinality(A \cap B)
          /\ Cardinality(A \cap B) = 0
      BY <2>1, <2>2, FS_Union, FS_EmptySet
    <2>5. Cardinality(A \cup B) <= Cardinality(Workers)
      BY <2>1, <2>2, FS_Subset
    <2>6. Cardinality(A) \in Nat /\ Cardinality(B) \in Nat /\ Cardinality(Workers) \in Nat
      BY <2>1, FS_CardinalityType
    <2> QED
      BY <2>3, <2>4, <2>5, <2>6
  <1>2. PICK all, idle, some, more :
          /\ all = Cardinality(Workers) /\ idle = In({"idle"})
          /\ some = In({"bytes", "status"}) /\ more = In({"bytes", "status", "latency"})
    OBVIOUS
  <1>3. all \in Nat /\ idle \in Nat /\ some \in Nat /\ more \in Nat
    BY <1>2, InType, WorkersAssumption, FS_CardinalityType
  <1>4. some + idle <= all /\ more + idle <= all
    BY <1>1, <1>2
  <1>5. config.threads \in Nat /\ totalRequests \in Nat
    BY DEF ConfigInv, ConfigTypes, WorkInv, ServiceTypes
  <1>6. all - idle < config.threads
    BY <1>2 DEF Free
  <1>7. Answers(responses) = totalRequests - some /\ Recorded(bucketCount) = totalRequests - more
    BY <1>2 DEF CountInv, NothingUncounted
  <1>8. Sums[bucketCount] = Recorded(bucketCount)
    BY SumsTypes DEF WorkInv, ServiceTypes
  <1>9. /\ totalRequests - some + config.threads - 1 >= totalRequests
        /\ totalRequests - more + config.threads - 1 >= totalRequests
    BY <1>3, <1>4, <1>5, <1>6
  <1> QED
    BY <1>5, <1>7, <1>8, <1>9

\* toJson() loads the total.
LEMMA ReportBegins ==
    ASSUME WorkInv, ConfigInv, CountInv, NEW w \in Workers, Free(w)
    PROVE ReportRight("ok", [NoSnap EXCEPT !.total = totalRequests], responses, latencyBuckets, Sums,
                      config.threads)
  <1>1. PICK report : report = [NoSnap EXCEPT !.total = totalRequests]
    OBVIOUS
  <1>2. /\ report.total = totalRequests /\ report.bucket = 1 /\ report.seen = 0
        /\ report.reports = <<>>
    BY <1>1 DEF NoSnap
  <1>3. Shown("ok", report, responses) = Answers(responses)
    BY DEF Shown, Answers, StatusClasses
  <1>4. RightBuckets(report, latencyBuckets, Sums, config.threads)
    BY <1>2 DEF RightBuckets
  <1>5. Sums[0] = 0 /\ Sums[bucketCount] \in Nat
    BY SumsTypes, BucketCountType DEF WorkInv, ServiceTypes
  <1>6. OnTheWay(report, Sums, config.threads)
    <2>1. 0 <= Sums[0] /\ 0 + Sums[bucketCount] - Sums[0] + config.threads - 1 >= totalRequests
      BY <1>5, LagAtStart
    <2> QED
      BY <1>2, <2>1 DEF OnTheWay
  <1>7. ReportRight("ok", report, responses, latencyBuckets, Sums, config.threads)
    BY <1>2, <1>3, <1>4, <1>6, LagAtStart DEF ReportRight
  <1> QED
    BY <1>1, <1>7

\* toJson() loads the next status count.
LEMMA ReportLoads ==
    ASSUME NEW pc \in StatusClasses, NEW old \in Snapshots, NEW counts \in [StatusClasses -> Nat],
           NEW buckets, NEW sums, NEW threads \in Nat,
           ReportRight(pc, old, counts, buckets, sums, threads)
    PROVE ReportRight(NextLoad[pc], [old EXCEPT !.responses[pc] = counts[pc]], counts, buckets, sums, threads)
  <1>1. PICK report : report = [old EXCEPT !.responses[pc] = counts[pc]]
    OBVIOUS
  <1>2. /\ report.total = old.total /\ report.bucket = old.bucket /\ report.seen = old.seen
        /\ report.reports = old.reports /\ report.responses = [old.responses EXCEPT ![pc] = counts[pc]]
    BY <1>1 DEF Snapshots
  <1>3. old.responses \in [StatusClasses -> Nat]
    BY DEF Snapshots
  <1>4. \A class \in StatusClasses :
            report.responses[class] = IF class = pc THEN counts[pc] ELSE old.responses[class]
    BY <1>2, <1>3
  <1>5. Shown(NextLoad[pc], report, counts) = Shown(pc, old, counts)
    <2>1. CASE pc = "ok"
      BY <1>4, <2>1 DEF Shown, NextLoad, StatusClasses
    <2>2. CASE pc = "clientError"
      BY <1>4, <2>2 DEF Shown, NextLoad, StatusClasses
    <2>3. CASE pc = "serverError"
      BY <1>4, <2>3 DEF Shown, NextLoad, StatusClasses
    <2> QED
      BY <2>1, <2>2, <2>3 DEF StatusClasses
  <1>6. RightBuckets(report, buckets, sums, threads) <=> RightBuckets(old, buckets, sums, threads)
    BY <1>2 DEF RightBuckets
  <1>7. OnTheWay(report, sums, threads) <=> OnTheWay(old, sums, threads)
    BY <1>2 DEF OnTheWay
  <1>8. ReportRight(NextLoad[pc], report, counts, buckets, sums, threads)
    BY <1>2, <1>5, <1>6, <1>7 DEF ReportRight
  <1> QED
    BY <1>1, <1>8

\* The sums belong to the buckets.
SumsOf(buckets, sums) ==
    /\ buckets \in [1..bucketCount -> Nat] /\ sums \in [0..bucketCount -> Nat] /\ sums[0] = 0
    /\ \A n \in 1..bucketCount : sums[n] = sums[n - 1] + buckets[n]

\* The rank that a report looks for next
Sought(report) == Rank(Percentiles[Len(report.reports) + 1], report.total)

LEMMA SoughtType ==
    ASSUME NEW report \in Snapshots, Len(report.reports) < Len(Percentiles)
    PROVE Sought(report) \in Nat
  <1>1. report.total \in Nat /\ Len(report.reports) \in Nat
    BY DEF Snapshots
  <1>2. Len(report.reports) + 1 \in 1..Len(Percentiles)
    BY <1>1 DEF Percentiles
  <1> QED
    BY <1>1, <1>2, RankType DEF Sought

\* percentile() goes on to the next bucket.
LEMMA ReportWalks ==
    ASSUME NEW old \in Snapshots, Len(old.reports) < Len(Percentiles),
           NEW counts, NEW buckets, NEW sums, SumsOf(buckets, sums), NEW threads \in Nat,
           ReportRight("percentile", old, counts, buckets, sums, threads),
           old.bucket < bucketCount, ~(old.seen + buckets[old.bucket] >= Sought(old))
    PROVE ReportRight("percentile",
                      [old EXCEPT !.bucket = old.bucket + 1, !.seen = old.seen + buckets[old.bucket]],
                      counts, buckets, sums, threads)
  <1>1. PICK next, seen : next = old.bucket + 1 /\ seen = old.seen + buckets[old.bucket]
    OBVIOUS
  <1>2. PICK report : report = [old EXCEPT !.bucket = next, !.seen = seen]
    OBVIOUS
  <1>3. /\ old.total \in Nat /\ old.seen \in Nat /\ old.bucket \in 1..bucketCount
        /\ Sought(old) \in Nat
    BY SoughtType DEF Snapshots
  <1>4. /\ report.total = old.total /\ report.bucket = next /\ report.seen = seen
        /\ report.reports = old.reports /\ report.responses = old.responses
    BY <1>2 DEF Snapshots
  <1>5. OnTheWay(report, sums, threads)
    <2>1. PICK before, load, all, here :
            /\ before = sums[old.bucket - 1] /\ load = buckets[old.bucket]
            /\ all = sums[bucketCount] /\ here = sums[old.bucket]
      OBVIOUS
    <2>2. /\ old.bucket - 1 \in 0..bucketCount /\ old.bucket \in 0..bucketCount
          /\ bucketCount \in 0..bucketCount /\ next - 1 = old.bucket
      BY <1>1, <1>3, BucketCountType
    <2>3. before \in Nat /\ load \in Nat /\ all \in Nat /\ here = before + load
      BY <1>3, <2>1, <2>2 DEF SumsOf
    <2>4. /\ old.seen <= before /\ old.seen + all - before + threads - 1 >= old.total
      BY <2>1 DEF ReportRight, OnTheWay
    <2>5. seen = old.seen + load
      BY <1>1, <2>1
    <2>6. seen <= here /\ seen + all - here + threads - 1 >= old.total
      BY <1>3, <2>3, <2>4, <2>5
    <2>7. seen < Sought(old)
      BY <1>1, <1>3, <2>1, <2>3
    <2>8. sums[report.bucket - 1] = here /\ Sought(report) = Sought(old)
      BY <1>4, <2>1, <2>2 DEF Sought
    <2> QED
      BY <1>4, <2>1, <2>6, <2>7, <2>8 DEF OnTheWay, Sought
  <1>6. RightBuckets(report, buckets, sums, threads) <=> RightBuckets(old, buckets, sums, threads)
    BY <1>4 DEF RightBuckets
  <1>7. Shown("percentile", report, counts) = Shown("percentile", old, counts)
    BY <1>4 DEF Shown
  <1>8. ReportRight("percentile", report, counts, buckets, sums, threads)
    BY <1>4, <1>5, <1>6, <1>7 DEF ReportRight
  <1> QED
    BY <1>1, <1>2, <1>8

\* percentile() finds its bucket, or the loop ends without one.
LEMMA AnswerRight ==
    ASSUME NEW old \in Snapshots, Len(old.reports) < Len(Percentiles),
           NEW counts, NEW buckets, NEW sums, SumsOf(buckets, sums), NEW threads \in Nat,
           ReportRight("percentile", old, counts, buckets, sums, threads),
           NEW answer,
           \/ old.seen + buckets[old.bucket] >= Sought(old) /\ answer = old.bucket
           \/ /\ ~(old.seen + buckets[old.bucket] >= Sought(old))
              /\ old.bucket = bucketCount /\ answer = Unfound
    PROVE /\ RightBucket(answer, Sought(old), old.total, buckets, sums, threads)
          /\ sums[bucketCount] + threads - 1 >= old.total
  <1>1. /\ old.total \in Nat /\ old.seen \in Nat /\ old.bucket \in 1..bucketCount
        /\ Sought(old) \in Nat
    BY SoughtType DEF Snapshots
  <1>2. PICK before, load, all, here, rank :
          /\ before = sums[old.bucket - 1] /\ load = buckets[old.bucket] /\ rank = Sought(old)
          /\ all = sums[bucketCount] /\ here = sums[old.bucket]
    OBVIOUS
  <1>3. /\ old.bucket - 1 \in 0..bucketCount /\ old.bucket \in 0..bucketCount
        /\ bucketCount \in 0..bucketCount
    BY <1>1, BucketCountType
  <1>4. before \in Nat /\ load \in Nat /\ all \in Nat /\ here = before + load /\ rank \in Nat
    BY <1>1, <1>2, <1>3 DEF SumsOf
  <1>5. /\ old.seen <= before /\ old.seen + all - before + threads - 1 >= old.total
        /\ old.seen = 0 \/ old.seen < rank
    BY <1>2 DEF ReportRight, OnTheWay, Sought
  <1>6. all + threads - 1 >= old.total
    BY <1>1, <1>4, <1>5, SMTT(30)
  <1>7. CASE old.seen + load >= rank /\ answer = old.bucket
    <2>1. here >= rank /\ (rank > 0 => load > 0)
      BY <1>1, <1>4, <1>5, <1>7, SMTT(30)
    <2>2. answer # Unfound
      BY <1>1, <1>7, BucketCountType
    <2> QED
      BY <1>2, <1>6, <1>7, <2>1, <2>2 DEF RightBucket
  <1>8. CASE ~(old.seen + load >= rank) /\ old.bucket = bucketCount /\ answer = Unfound
    <2>1. here = all
      BY <1>2, <1>8
    <2>2. old.total - rank < threads - 1
      BY <1>1, <1>4, <1>5, <1>8, <2>1
    <2> QED
      BY <1>2, <1>6, <1>8, <2>2 DEF RightBucket
  <1> QED
    BY <1>2, <1>7, <1>8

\* It becomes the next percentile of the report.
Extended(old, answer, report) ==
    report = [old EXCEPT !.bucket = 1, !.seen = 0, !.reports = Append(old.reports, answer)]

LEMMA ReportAppends ==
    ASSUME NEW old \in Snapshots, NEW answer \in 1..Unfound,
           NEW counts, NEW buckets, NEW sums, SumsOf(buckets, sums), NEW threads \in Nat,
           ReportRight("percentile", old, counts, buckets, sums, threads),
           RightBucket(answer, Sought(old), old.total, buckets, sums, threads),
           sums[bucketCount] + threads - 1 >= old.total, NEW pc \in {"percentile", "total"},
           NEW report, Extended(old, answer, report)
    PROVE ReportRight(pc, report, counts, buckets, sums, threads)
  <1>1. PICK all : all = Append(old.reports, answer)
    OBVIOUS
  <1>2. report = [old EXCEPT !.bucket = 1, !.seen = 0, !.reports = all]
    BY <1>1 DEF Extended
  <1>3. /\ report.total = old.total /\ report.bucket = 1 /\ report.seen = 0
        /\ report.reports = all /\ report.responses = old.responses
    BY <1>2 DEF Snapshots
  <1>4. old.reports \in Seq(1..Unfound)
    BY DEF Snapshots
  <1>5. PICK size : size = Len(old.reports)
    OBVIOUS
  <1>6. /\ size \in Nat /\ DOMAIN all = 1..size + 1 /\ all[size + 1] = answer
        /\ DOMAIN old.reports = 1..size /\ \A n \in 1..size : all[n] = old.reports[n]
    BY <1>1, <1>4, <1>5
  <1>7. RightBuckets(report, buckets, sums, threads)
    <2> SUFFICES ASSUME NEW n \in DOMAIN report.reports
                 PROVE RightBucket(report.reports[n], Rank(Percentiles[n], report.total), report.total,
                                   buckets, sums, threads)
      BY DEF RightBuckets
    <2>1. CASE n = size + 1
      <3>1. report.reports[n] = answer /\ Rank(Percentiles[n], report.total) = Sought(old)
        BY <1>3, <1>5, <1>6, <2>1 DEF Sought
      <3> QED
        BY <1>3, <3>1
    <2>2. CASE n # size + 1
      <3>1. n \in 1..size /\ report.reports[n] = old.reports[n]
        BY <1>3, <1>6, <2>2
      <3>2. RightBucket(old.reports[n], Rank(Percentiles[n], old.total), old.total, buckets, sums, threads)
        BY <1>6, <3>1 DEF ReportRight, RightBuckets
      <3> QED
        BY <1>3, <3>1, <3>2
    <2> QED
      BY <2>1, <2>2
  <1>8. OnTheWay(report, sums, threads)
    <2>1. sums[1 - 1] = 0 /\ sums[bucketCount] \in Nat
      BY BucketCountType DEF SumsOf
    <2>2. 0 <= 0 /\ 0 + sums[bucketCount] - 0 + threads - 1 >= old.total
      BY <2>1
    <2> QED
      BY <1>3, <2>1, <2>2 DEF OnTheWay
  <1>9. Shown(pc, report, counts) = Shown("percentile", old, counts)
    BY <1>3 DEF Shown, StatusClasses
  <1> QED
    BY <1>3, <1>7, <1>8, <1>9 DEF ReportRight

\* Every step of toJson() leaves a right report right.
LEMMA ReportsStep ==
    ASSUME WorkInv, ConfigInv, CountInv, NEW w \in Workers, NEW pc, NEW report, Reports(w, pc, report),
           ReportRight(wpc[w], snap[w], responses, latencyBuckets, Sums, config.threads)
    PROVE ReportRight(pc, report, responses, latencyBuckets, Sums, config.threads)
  <1>1. /\ responses \in [StatusClasses -> Nat] /\ SumsOf(latencyBuckets, Sums)
        /\ config.threads \in Nat /\ snap[w] \in Snapshots
        /\ wpc[w] = "percentile" => Len(snap[w].reports) < Len(Percentiles)
    BY SumsTypes, Kept DEF WorkInv, ServiceTypes, SumsOf, ConfigInv, ConfigTypes, Held, Holding
  <1>2. Target(w) = Sought(snap[w]) /\ snap[w].bucket \in 1..bucketCount
    BY <1>1 DEF Target, Sought, Snapshots
  <1>3. CASE /\ Free(w) /\ snap[w] = NoSnap /\ pc = "ok"
             /\ report = [NoSnap EXCEPT !.total = totalRequests]
    BY <1>3, ReportBegins
  <1>4. CASE /\ wpc[w] \in StatusClasses /\ pc = NextLoad[wpc[w]]
             /\ report = [snap[w] EXCEPT !.responses[wpc[w]] = responses[wpc[w]]]
    BY <1>1, <1>4, ReportLoads
  <1>5. CASE wpc[w] = "percentile" /\ pc = "total" /\ report = snap[w]
    <2>1. Shown("total", snap[w], responses) = Shown("percentile", snap[w], responses)
      BY DEF Shown, StatusClasses
    <2>2. ReportRight("total", snap[w], responses, latencyBuckets, Sums, config.threads)
      BY <1>5, <2>1 DEF ReportRight, StatusClasses
    <2> QED
      BY <1>5, <2>2
  <1>6. CASE /\ wpc[w] = "percentile" /\ pc = "percentile"
             /\ Walk(snap[w].bucket, snap[w].seen, Target(w)) = 0
             /\ report = [snap[w] EXCEPT !.bucket = snap[w].bucket + 1,
                                         !.seen = snap[w].seen + latencyBuckets[snap[w].bucket]]
    <2>1. /\ ~(snap[w].seen + latencyBuckets[snap[w].bucket] >= Sought(snap[w]))
          /\ snap[w].bucket < bucketCount
      BY <1>2, <1>6, BucketCountType DEF Walk
    <2> QED
      BY <1>1, <1>6, <2>1, ReportWalks
  <1>7. CASE /\ wpc[w] = "percentile" /\ pc \in {"percentile", "total"}
             /\ Walk(snap[w].bucket, snap[w].seen, Target(w)) # 0
             /\ report = Reported(w)
    <2>1. PICK answer : answer = Walk(snap[w].bucket, snap[w].seen, Target(w))
      OBVIOUS
    <2>2. \/ /\ snap[w].seen + latencyBuckets[snap[w].bucket] >= Sought(snap[w])
             /\ answer = snap[w].bucket
          \/ /\ ~(snap[w].seen + latencyBuckets[snap[w].bucket] >= Sought(snap[w]))
             /\ snap[w].bucket = bucketCount /\ answer = Unfound
      BY <1>2, <1>7, <2>1 DEF Walk
    <2>3. answer \in 1..Unfound
      BY <1>2, <1>7, <2>1, WalkType
    <2>4. /\ RightBucket(answer, Sought(snap[w]), snap[w].total, latencyBuckets, Sums, config.threads)
          /\ Sums[bucketCount] + config.threads - 1 >= snap[w].total
      BY <1>1, <1>7, <2>2, AnswerRight
    <2>5. Extended(snap[w], answer, report)
      BY <1>7, <2>1 DEF Reported, Extended
    <2>6. pc \in {"percentile", "total"} /\ wpc[w] = "percentile"
      BY <1>7
    <2> QED
      BY <1>1, <2>3, <2>4, <2>5, <2>6, ReportAppends
  <1> QED
    BY <1>3, <1>4, <1>5, <1>6, <1>7 DEF Reports

\* Whoever moves, a report that was right stays right.
LEMMA ReportMoves ==
    ASSUME WorkInv, ConfigInv, UNCHANGED configVars, NEW w \in Workers, NEW pc, NEW report \in Snapshots,
           wpc' = [wpc EXCEPT ![w] = pc], snap' = [snap EXCEPT ![w] = report],
           Len(report.reports) <= Len(Percentiles),
           ReportInv,
           ReportRight(pc, report, responses, latencyBuckets, Sums, config.threads),
           Grows(responses, responses', latencyBuckets, latencyBuckets', Sums, Sums')
    PROVE ReportInv'
  <1>1. config.threads \in Nat /\ config' = config
    BY DEF ConfigInv, ConfigTypes, configVars
  <1>2. ASSUME NEW v \in Workers
        PROVE ReportRight(wpc'[v], snap'[v], responses', latencyBuckets', Sums', config'.threads)
    <2>1. PICK at, old : at = wpc'[v] /\ old = snap'[v]
      OBVIOUS
    <2>2. /\ v = w => at = pc /\ old = report
          /\ v # w => at = wpc[v] /\ old = snap[v]
      BY <1>2, <2>1 DEF WorkInv, WorkerTypes
    <2>3. old \in Snapshots /\ Len(old.reports) <= Len(Percentiles)
      BY <2>2, Kept DEF WorkInv, Held, Holding
    <2>4. ReportRight(at, old, responses, latencyBuckets, Sums, config.threads)
      BY <2>2 DEF ReportInv
    <2>5. ReportRight(at, old, responses', latencyBuckets', Sums', config.threads)
      BY <1>1, <2>3, <2>4, ReportStays
    <2> QED
      BY <1>1, <2>1, <2>5
  <1> QED
    BY <1>2 DEF ReportInv

LEMMA ReportInvStep ==
    ASSUME WorkInv, WorkInv', ConfigInv, CountInv, ReportInv, [Next]_vars
    PROVE ReportInv'
  <1>1. UNCHANGED configVars
    BY DEF Next, vars
  <1>2. CASE UNCHANGED <<wpc, snap, metricVars>>
    BY <1>1, <1>2 DEF ReportInv, Sums, Recorded, metricVars, configVars
  <1>3. ASSUME NEW w \in Workers, Worker(w) PROVE ReportInv'
    <2>1. config.threads \in Nat \ {0}
      BY DEF ConfigInv, ConfigTypes
    <2>2. CASE CountTotal(w) \/ CountBytes(w) \/ CountStatus(w) \/ CountLatency(w)
      <3>1. PICK pc \in Recording \cup {"idle"} : wpc' = [wpc EXCEPT ![w] = pc]
        BY <2>2 DEF CountTotal, CountBytes, CountStatus, CountLatency, Recording
      <3>2. snap' = [snap EXCEPT ![w] = NoSnap]
        <4>1. CASE CountTotal(w)
          BY <4>1 DEF CountTotal
        <4>2. CASE CountBytes(w) \/ CountStatus(w) \/ CountLatency(w)
          <5>1. snap' = snap /\ wpc[w] \in Recording
            BY <4>2 DEF CountBytes, CountStatus, CountLatency, Recording
          <5>2. snap[w] = NoSnap
            BY <5>1 DEF WorkInv, Held, Holding, StatusClasses, Recording
          <5> QED
            BY <5>1, <5>2, Kept DEF WorkInv
        <4> QED
          BY <2>2, <4>1, <4>2
      <3>3. pc \notin StatusClasses /\ pc # "percentile"
        BY <3>1 DEF Recording, StatusClasses
      <3>4. ReportRight(pc, NoSnap, responses, latencyBuckets, Sums, config.threads)
        BY <2>1, <3>3, NoReportRight
      <3>5. Grows(responses, responses', latencyBuckets, latencyBuckets', Sums, Sums')
        BY <2>2, GrowsByCounting
      <3>6. NoSnap \in Snapshots /\ Len(NoSnap.reports) <= Len(Percentiles)
        BY NoSnapType DEF Percentiles
      <3> QED
        BY <1>1, <3>1, <3>2, <3>4, <3>5, <3>6, ReportMoves
    <2>3. CASE ~(CountTotal(w) \/ CountBytes(w) \/ CountStatus(w) \/ CountLatency(w))
      <3>1. PICK pc, report :
              /\ Quiet(w, pc, report)
              /\ \/ report = snap[w] /\ snap[w] = NoSnap /\ pc \in {"total", "open", "insert"}
                 \/ Reports(w, pc, report)
        BY <1>3, <2>3, WorkerSteps
      <3>2. wpc' = [wpc EXCEPT ![w] = pc] /\ snap' = [snap EXCEPT ![w] = report] /\ UNCHANGED metricVars
        BY <3>1 DEF Quiet
      <3>3. ReportRight(pc, report, responses, latencyBuckets, Sums, config.threads)
        <4>1. CASE report = snap[w] /\ snap[w] = NoSnap /\ pc \in {"total", "open", "insert"}
          <5>1. pc \notin StatusClasses /\ pc # "percentile"
            BY <4>1 DEF StatusClasses
          <5> QED
            BY <2>1, <4>1, <5>1, NoReportRight
        <4>2. CASE Reports(w, pc, report)
          BY <4>2, ReportsStep DEF ReportInv
        <4> QED
          BY <3>1, <4>1, <4>2
      <3>4. Grows(responses, responses', latencyBuckets, latencyBuckets', Sums, Sums')
        BY <3>2, GrowsQuietly DEF WorkInv
      <3>5. report \in Snapshots /\ Len(report.reports) <= Len(Percentiles)
        <4>1. snap'[w] = report
          BY <3>2 DEF WorkInv, WorkerTypes
        <4>2. snap'[w] \in Snapshots /\ Len(snap'[w].reports) <= Len(Percentiles)
          BY DEF WorkInv, WorkerTypes, Held, Holding
        <4> QED
          BY <4>1, <4>2
      <3> QED
        BY <1>1, <3>2, <3>3, <3>4, <3>5, ReportMoves
    <2> QED
      BY <2>2, <2>3
  <1>4. Disk \/ UNCHANGED vars => UNCHANGED <<wpc, snap, metricVars>>
    BY DEF Disk, vars, workerVars
  <1> QED
    BY <1>2, <1>3, <1>4 DEF Next

LEMMA ReportInvInit ==
    ASSUME Init, ConfigInv
    PROVE ReportInv
  <1>1. config.threads \in Nat \ {0}
    BY DEF ConfigInv, ConfigTypes
  <1>2. ASSUME NEW w \in Workers PROVE wpc[w] = "idle" /\ snap[w] = NoSnap
    BY <1>2 DEF Init
  <1>3. "idle" \notin StatusClasses
    BY DEF StatusClasses
  <1>4. ReportRight("idle", NoSnap, responses, latencyBuckets, Sums, config.threads)
    BY <1>1, <1>3, NoReportRight
  <1> QED
    BY <1>2, <1>4 DEF ReportInv

LEMMA ReportInvAlways == Spec => []ReportInv
  BY ReportInvInit, ReportInvStep, CountInvAlways, ConfigInvAlways, WorkInvAlways, PTL DEF Spec

\* A report of /api/stats, assembled from relaxed loads while other threads record, misses
\* at most one request per other thread of the total it shows, for any number of threads.
THEOREM ReportLagAlwaysBounded == Spec => []ReportLagBounded
  <1>1. ReportInv => ReportLagBounded
    <2> SUFFICES ASSUME ReportInv, NEW w \in Workers, wpc[w] \in {"percentile", "total"}
                 PROVE Answers(snap[w].responses) + config.threads - 1 >= snap[w].total
      BY DEF ReportLagBounded
    <2>1. Shown(wpc[w], snap[w], responses) = Answers(snap[w].responses)
      BY DEF Shown, Answers, StatusClasses
    <2> QED
      BY <2>1 DEF ReportInv, ReportRight
  <1> QED
    BY <1>1, ReportInvAlways, PTL

\* The bound that is reported for a bucket covers the buckets up to it.
LEMMA RecordedUpToBucket ==
    ASSUME NEW bucket \in 1..bucketCount, bucket < bucketCount
    PROVE RecordedUpTo(Upper(bucket)) = Recorded(bucket)
  <1> DEFINE below == {0} \cup {i \in 1..bucketCount : bucketBounds[i] <= Upper(bucket)}
  <1>1. /\ bucketBounds \in [1..bucketCount -> Nat]
        /\ \A i, j \in 1..bucketCount : i < j => bucketBounds[i] < bucketBounds[j]
    BY BoundsAssumption DEF bucketCount
  <1>2. bucketCount \in Nat /\ Upper(bucket) = bucketBounds[bucket]
    BY BucketCountType DEF Upper
  <1>3. bucket \in below
    BY <1>1, <1>2
  <1>4. ASSUME NEW i \in below PROVE i <= bucket
    <2>1. CASE i = 0
      BY <1>2, <2>1
    <2>2. CASE i # 0
      <3>1. i \in 1..bucketCount /\ bucketBounds[i] <= bucketBounds[bucket]
        BY <1>2, <1>4, <2>2
      <3>2. bucketBounds[i] \in Nat /\ bucketBounds[bucket] \in Nat
        BY <1>1, <3>1
      <3>3. ~(bucket < i)
        BY <1>1, <3>1, <3>2
      <3> QED
        BY <1>2, <3>1, <3>3
    <2> QED
      BY <2>1, <2>2
  <1>5. below \subseteq Nat
    BY <1>2
  <1>6. RecordedUpTo(Upper(bucket)) = Recorded(Max(below))
    BY DEF RecordedUpTo
  <1> HIDE DEF below
  <1>7. bucket \in Nat
    BY <1>2
  <1>8. Max(below) \in below /\ \A i \in below : i <= Max(below)
    BY <1>3, <1>4, <1>5, <1>7, MaxOfBounded
  <1>9. Max(below) = bucket
    <2>1. PICK top : top = Max(below)
      OBVIOUS
    <2>2. top \in Nat /\ top <= bucket /\ bucket <= top
      BY <1>3, <1>4, <1>5, <1>8, <2>1
    <2> QED
      BY <1>7, <2>1, <2>2
  <1> QED
    BY <1>6, <1>9

\* For the unbounded bucket it is the bound of the bucket below.
LEMMA UnboundedBound ==
    /\ bucketCount - 1 \in 1..bucketCount /\ bucketCount - 1 < bucketCount
    /\ Upper(bucketCount) = Upper(bucketCount - 1)
  <1>1. bucketCount - 1 \in 1..bucketCount /\ ~(bucketCount - 1 >= bucketCount) /\ bucketCount >= bucketCount
    BY BucketCountType
  <1> QED
    BY <1>1, BucketCountType DEF Upper

\* Every percentile that /api/stats reports comes from a bucket that holds a request of that
\* rank, where the bound covers the rank below the unbounded bucket and is exceeded in it;
\* the walk runs off the histogram only when the requests above the rank are fewer than the
\* other threads.
THEOREM PercentileAlwaysHonest == Spec => []PercentileHonest
  <1>1. ASSUME WorkInv, ReportInv, NEW w \in Workers, NEW n \in DOMAIN snap[w].reports,
               NEW bucket, bucket = snap[w].reports[n],
               NEW rank, rank = Rank(Percentiles[n], snap[w].total)
        PROVE /\ bucket # Unfound =>
                    /\ Recorded(bucket) >= rank
                    /\ rank > 0 => latencyBuckets[bucket] > 0
                    /\ bucket < bucketCount => RecordedUpTo(Upper(bucket)) >= rank
                    /\ (bucket = bucketCount /\ rank > 0) =>
                            RecordedUpTo(Upper(bucket)) < Recorded(bucket)
              /\ bucket = Unfound => snap[w].total - rank < config.threads - 1
    <2>1. RightBucket(bucket, rank, snap[w].total, latencyBuckets, Sums, config.threads)
      BY <1>1 DEF ReportInv, ReportRight, RightBuckets
    <2>2. bucket \in 1..Unfound
      <3>1. PICK reports, T : reports = snap[w].reports /\ T = 1..Unfound
        OBVIOUS
      <3>2. reports \in Seq(T)
        BY <1>1, <3>1, Kept DEF WorkInv, Snapshots
      <3>3. n \in DOMAIN reports /\ bucket = reports[n]
        BY <1>1, <3>1
      <3>4. bucket \in T
        BY <3>2, <3>3
      <3> QED
        BY <3>1, <3>4
    <2>3. ASSUME bucket # Unfound
          PROVE /\ Recorded(bucket) >= rank
                /\ rank > 0 => latencyBuckets[bucket] > 0
                /\ bucket < bucketCount => RecordedUpTo(Upper(bucket)) >= rank
                /\ (bucket = bucketCount /\ rank > 0) => RecordedUpTo(Upper(bucket)) < Recorded(bucket)
      <3>1. bucket \in 1..bucketCount /\ bucket \in 0..bucketCount
        BY <2>2, <2>3, BucketCountType
      <3>2. Sums[bucket] = Recorded(bucket)
        BY <3>1 DEF Sums
      <3>3. Recorded(bucket) >= rank /\ (rank > 0 => latencyBuckets[bucket] > 0)
        BY <2>1, <2>3, <3>2 DEF RightBucket
      <3>4. bucket < bucketCount => RecordedUpTo(Upper(bucket)) = Recorded(bucket)
        BY <3>1, RecordedUpToBucket
      <3>5. ASSUME bucket = bucketCount, rank > 0
            PROVE RecordedUpTo(Upper(bucket)) < Recorded(bucket)
        <4>1. RecordedUpTo(Upper(bucket)) = Recorded(bucketCount - 1)
          BY <3>5, UnboundedBound, RecordedUpToBucket
        <4>2. SumsOf(latencyBuckets, Sums)
          BY <1>1, SumsTypes DEF WorkInv, ServiceTypes, SumsOf
        <4>3. PICK before, load, here : /\ before = Sums[bucket - 1] /\ load = latencyBuckets[bucket]
                                        /\ here = Sums[bucket]
          OBVIOUS
        <4>4. bucket - 1 \in 0..bucketCount
          BY <3>1, BucketCountType
        <4>5. before \in Nat /\ load \in Nat /\ here = before + load
          BY <3>1, <4>2, <4>3, <4>4 DEF SumsOf
        <4>6. load > 0
          BY <3>3, <3>5, <4>3
        <4>7. before < here
          BY <4>5, <4>6
        <4>8. before = Recorded(bucketCount - 1) /\ here = Recorded(bucket)
          BY <3>2, <3>5, <4>3, <4>4 DEF Sums
        <4> QED
          BY <4>1, <4>7, <4>8
      <3> QED
        BY <3>3, <3>4, <3>5
    <2> QED
      BY <2>1, <2>3 DEF RightBucket
  <1>2. WorkInv /\ ReportInv => PercentileInBucket
    BY <1>1 DEF PercentileInBucket
  <1>3. WorkInv /\ ReportInv => UnfoundOnlyWhenFew
    BY <1>1 DEF UnfoundOnlyWhenFew
  <1>4. WorkInv /\ ReportInv => PercentileHonest
    BY <1>2, <1>3 DEF PercentileHonest
  <1> QED
    BY <1>4, ReportInvAlways, WorkInvAlways, PTL

-----------------------------------------------------------------------------
(* The file cache and the disk *)

CacheCounts == hitCount \in Nat /\ missCount \in Nat

\* How a step of a worker touches the cache
CacheStep(w) ==
    \/ UNCHANGED cacheVars
    \/ \E r \in Load.requests : FileHit(w, r) \/ FileMiss(w, r)
    \/ FileInsert(w)

LEMMA CacheSteps ==
    ASSUME [Next]_vars
    PROVE UNCHANGED cacheVars \/ \E w \in Workers : CacheStep(w)
  <1>1. CASE Disk \/ UNCHANGED vars
    BY <1>1 DEF Disk, vars
  <1>2. ASSUME NEW w \in Workers, Worker(w) PROVE CacheStep(w)
    <2>1. CASE Refuse(w) \/ FileAbsent(w) \/ FileRead(w) \/ StatsLoad(w) \/ StatsEmpty(w)
      BY <2>1 DEF CacheStep, Refuse, FileAbsent, FileRead, StatsLoad, StatsEmpty
    <2>2. CASE StatsWalk(w)
      BY <2>2, WalkOutcomes DEF CacheStep
    <2>3. CASE CountTotal(w) \/ CountBytes(w) \/ CountStatus(w) \/ CountLatency(w)
      BY <2>3 DEF CacheStep, CountTotal, CountBytes, CountStatus, CountLatency
    <2>4. ASSUME NEW r \in Load.requests,
                 \/ AnswerLocally(w, r) \/ KvRead(w, r) \/ KvWrite(w, r) \/ KvDelete(w, r)
                 \/ StatsTotal(w, r)
          PROVE UNCHANGED cacheVars
      BY <2>4 DEF AnswerLocally, KvRead, KvWrite, KvDelete, StatsTotal
    <2> QED
      BY <1>2, <2>1, <2>2, <2>3, <2>4 DEF Worker, CacheStep
  <1> QED
    BY <1>1, <1>2 DEF Next

\* What a thread inserts is the content of the file it looked for.
LEMMA InsertedType ==
    ASSUME WorkInv, NEW w \in Workers, wpc[w] = "insert"
    PROVE /\ found[w].file \in Files
          /\ [of |-> found[w].file, version |-> found[w].version] \in Content
  BY DEF WorkInv, Held, Holding, Lookups, Content

LEMMA CacheInvStep ==
    ASSUME WorkInv, CacheInv, CacheCounts, [Next]_vars
    PROVE CacheInv' /\ CacheCounts'
  <1>1. CASE UNCHANGED cacheVars
    BY <1>1 DEF CacheInv, CacheCounts, cacheVars
  <1>2. ASSUME NEW key, CacheHit(key) PROVE CacheInv' /\ CacheCounts'
    BY <1>2, CacheHitKeeps DEF CacheHit, CacheCounts
  <1>3. ASSUME NEW key, CacheMiss(key) PROVE CacheInv' /\ CacheCounts'
    BY <1>3 DEF CacheMiss, CacheInv, CacheCounts
  <1>4. ASSUME NEW w \in Workers, FileInsert(w) PROVE CacheInv' /\ CacheCounts'
    <2>1. PICK key, value : key = found[w].file
                            /\ value = [of |-> found[w].file, version |-> found[w].version]
      OBVIOUS
    <2>2. key \in Files /\ value \in Content /\ CachePut(key, value)
      BY <1>4, <2>1, InsertedType DEF FileInsert
    <2> QED
      BY <2>2, CachePutKeeps DEF CachePut, CacheCounts
  <1>5. ASSUME NEW w \in Workers, NEW r \in Load.requests, FileHit(w, r) \/ FileMiss(w, r)
        PROVE \E key : CacheHit(key) \/ CacheMiss(key)
    BY <1>5 DEF FileHit, FileMiss
  <1> QED
    BY <1>1, <1>2, <1>3, <1>4, <1>5, CacheSteps DEF CacheStep

LEMMA CacheInvAlways == Spec => [](CacheInv /\ CacheCounts)
  <1>1. Init => CacheInv /\ CacheCounts
    <2> SUFFICES ASSUME Init PROVE CacheInv /\ CacheCounts
      OBVIOUS
    <2>1. \A o \in Load.options : OptionTypes(o)
      BY WorkloadsAssumption DEF Init, Load
    <2>2. config.cacheCapacity \in Int
      BY <2>1, ConfigRight DEF Init
    <2>3. CacheInit(config.cacheCapacity, Load.present)
      BY DEF Init
    <2> QED
      BY <2>2, <2>3, CacheInvInit DEF CacheCounts, CacheInit
  <1>2. WorkInv /\ CacheInv /\ CacheCounts /\ [Next]_vars => CacheInv' /\ CacheCounts'
    BY CacheInvStep
  <1> QED
    BY <1>1, <1>2, WorkInvAlways, PTL DEF Spec

\* Whatever threads hit, miss and insert at once, list and index of the cache name the same
\* keys, each once, and these are the most recently used ones, as many as fit.
THEOREM CacheAlwaysLru == Spec => []CacheIsLru
  BY CacheInvMeans, CacheInvAlways, PTL


\* Every entry of the list is a content its file has had.
Truthful(list, disk) ==
    \A i \in 1..Len(list) : /\ list[i].value.of = list[i].key
                            /\ list[i].value.version <= disk[list[i].key]

\* What a worker has read is the file it was asked for, not older than its lookup.
Serving(pc, r, f, disk) ==
    /\ pc \notin {"open", "insert", "total"} => f = NoFile
    /\ pc \in {"open", "insert"} => f.file = Resolve[r.path] /\ f.since <= disk[f.file]
    /\ pc = "insert" => f.since <= f.version /\ f.version <= disk[f.file]
    /\ (pc = "total" /\ f # NoFile) =>
        /\ f.file \in Files /\ f.file = Resolve[r.path]
        /\ f.version \in 1..MaxVersion /\ f.since \in 0..MaxVersion
        /\ f.since <= f.version /\ f.version <= disk[f.file]

DiskInv ==
    /\ Truthful(entries, version)
    /\ \A w \in Workers : Serving(wpc[w], request[w], found[w], version)

\* A step of worker w that leaves the disk alone, and after which w serves what is right
Serves(w, pc, r, f) ==
    /\ wpc' = [wpc EXCEPT ![w] = pc]
    /\ request' = [request EXCEPT ![w] = r]
    /\ found' = [found EXCEPT ![w] = f]
    /\ version' = version
    /\ Serving(pc, r, f, version)
    /\ Truthful(entries', version)

LEMMA ServingNothing ==
    ASSUME NEW pc, pc \notin {"open", "insert"}, NEW r, NEW disk
    PROVE Serving(pc, r, NoFile, disk)
  BY DEF Serving

\* A thread that is not in readFile() holds no file.
LEMMA ServesNothing ==
    ASSUME WorkInv, DiskInv, NEW w \in Workers, NEW pc, NEW r, pc \notin {"open", "insert"},
           wpc' = [wpc EXCEPT ![w] = pc], request' = [request EXCEPT ![w] = r],
           \/ found' = [found EXCEPT ![w] = NoFile]
           \/ found' = found /\ wpc[w] \notin {"open", "insert", "total"},
           UNCHANGED <<cacheVars, diskVars>>
    PROVE Serves(w, pc, r, NoFile)
  <1>1. found' = [found EXCEPT ![w] = NoFile]
    <2>1. wpc[w] \notin {"open", "insert", "total"} => found[w] = NoFile
      BY DEF DiskInv, Serving
    <2> QED
      BY <2>1, Kept DEF WorkInv
  <1> QED
    BY <1>1, ServingNothing DEF Serves, DiskInv, cacheVars, diskVars

\* The steps that have nothing to do with a file
LEMMA ServesElsewhere ==
    ASSUME WorkInv, DiskInv, NEW w \in Workers,
           \/ Refuse(w)
           \/ \E r \in Load.requests :
                \/ AnswerLocally(w, r) \/ KvRead(w, r) \/ KvWrite(w, r) \/ KvDelete(w, r)
                \/ StatsTotal(w, r)
           \/ StatsLoad(w) \/ StatsEmpty(w) \/ StatsWalk(w)
           \/ FileAbsent(w) \/ CountTotal(w) \/ CountBytes(w) \/ CountStatus(w) \/ CountLatency(w)
    PROVE \E pc, r, f : Serves(w, pc, r, f)
  <1>1. /\ request = [request EXCEPT ![w] = request[w]] /\ wpc = [wpc EXCEPT ![w] = wpc[w]]
    BY Kept DEF WorkInv
  <1>2. CASE Refuse(w)
    BY <1>1, <1>2, ServesNothing DEF Refuse, Free
  <1>3. ASSUME NEW r \in Load.requests,
               \/ AnswerLocally(w, r) \/ KvRead(w, r) \/ KvWrite(w, r) \/ KvDelete(w, r)
        PROVE \E pc, s, f : Serves(w, pc, s, f)
    <2>1. /\ wpc[w] = "idle" /\ wpc' = [wpc EXCEPT ![w] = "total"]
          /\ request' = [request EXCEPT ![w] = r] /\ found' = found
          /\ UNCHANGED <<cacheVars, diskVars>>
      BY <1>3 DEF AnswerLocally, KvRead, KvWrite, KvDelete, Take, Free, Respond
    <2> QED
      BY <2>1, ServesNothing
  <1>4. ASSUME NEW r \in Load.requests, StatsTotal(w, r) PROVE \E pc, s, f : Serves(w, pc, s, f)
    BY <1>4, ServesNothing DEF StatsTotal, Take, Free
  <1>5. CASE StatsLoad(w)
    <2>1. PICK pc : pc = NextLoad[wpc[w]]
      OBVIOUS
    <2>2. pc \notin {"open", "insert"} /\ wpc[w] \notin {"open", "insert", "total"}
      BY <1>5, <2>1 DEF StatsLoad, StatusClasses, NextLoad
    <2>3. wpc' = [wpc EXCEPT ![w] = pc] /\ request' = request /\ found' = found
          /\ UNCHANGED <<cacheVars, diskVars>>
      BY <1>5, <2>1 DEF StatsLoad
    <2> QED
      BY <1>1, <2>2, <2>3, ServesNothing
  <1>6. CASE StatsEmpty(w)
    BY <1>1, <1>6, ServesNothing DEF StatsEmpty, Respond
  <1>7. CASE StatsWalk(w)
    <2>1. /\ wpc[w] = "percentile" /\ request' = request /\ found' = found
          /\ UNCHANGED <<cacheVars, diskVars>>
      BY <1>7, WalkOutcomes
    <2>2. wpc' = [wpc EXCEPT ![w] = "total"] \/ wpc' = wpc
      BY <1>7, WalkOutcomes DEF WalksOn, ReportsOne, Respond
    <2> QED
      BY <1>1, <2>1, <2>2, ServesNothing
  <1>8. CASE FileAbsent(w)
    BY <1>1, <1>8, ServesNothing DEF FileAbsent, Respond
  <1>9. CASE CountTotal(w)
    BY <1>9, ServesNothing DEF CountTotal
  <1>10. CASE CountBytes(w) \/ CountStatus(w) \/ CountLatency(w)
    BY <1>1, <1>10, ServesNothing DEF CountBytes, CountStatus, CountLatency
  <1> QED
    BY <1>2, <1>3, <1>4, <1>5, <1>6, <1>7, <1>8, <1>9, <1>10

\* A step that inserts nothing untrue keeps the cache truthful.
LEMMA TruthfulStays ==
    ASSUME NEW disk, Truthful(entries, disk), NEW e, Only(e),
           e.value.of = e.key, e.value.version <= disk[e.key]
    PROVE Truthful(entries', disk)
  BY DEF Truthful, Only

\* A hit serves what some thread has read from that file.
LEMMA ServesHit ==
    ASSUME WorkInv, CacheInv, DiskInv, NEW w \in Workers, NEW r \in Load.requests, FileHit(w, r)
    PROVE \E pc, s, f : Serves(w, pc, s, f)
  <1>1. PICK key, p, e : key = Resolve[r.path] /\ p = Position(key) /\ e = entries[p]
    OBVIOUS
  <1>2. CacheHit(key) /\ key \in index
    BY <1>1 DEF FileHit, CacheHit
  <1>3. p \in 1..Len(entries) /\ e \in Entry /\ e.key = key /\ key \in Files
    BY <1>1, <1>2, CachedEntry
  <1>4. Only(e)
    BY <1>1, <1>2, CacheHitKeeps
  <1>5. e.value.of = e.key /\ e.value.version <= version[e.key]
    BY <1>1, <1>3 DEF DiskInv, Truthful
  <1>6. Truthful(entries', version)
    BY <1>4, <1>5, TruthfulStays DEF DiskInv
  <1>7. PICK f : f = [file |-> e.value.of, version |-> e.value.version, since |-> 0]
    OBVIOUS
  <1>8. /\ wpc' = [wpc EXCEPT ![w] = "total"] /\ request' = [request EXCEPT ![w] = r]
        /\ found' = [found EXCEPT ![w] = f] /\ version' = version
    BY <1>1, <1>7 DEF FileHit, Take, Respond, CachedValue, diskVars
  <1>9. e.value.version \in 1..MaxVersion
    BY <1>3 DEF Entry, Content
  <1>10. Serving("total", r, f, version)
    <2>1. f.file = key /\ f.version = e.value.version /\ f.since = 0
      BY <1>3, <1>5, <1>7
    <2> QED
      BY <1>1, <1>3, <1>5, <1>9, <2>1, MaxVersionAssumption DEF Serving
  <1> QED
    BY <1>6, <1>8, <1>10 DEF Serves

\* A miss remembers the version at the lookup, and the content read later is no older.
LEMMA ServesMiss ==
    ASSUME WorkInv, CacheInv, DiskInv, NEW w \in Workers,
           (\E r \in Load.requests : FileMiss(w, r)) \/ FileRead(w)
    PROVE \E pc, s, f : Serves(w, pc, s, f)
  <1>1. version \in [Files -> 1..MaxVersion] /\ MaxVersion \in Nat
    BY MaxVersionAssumption DEF WorkInv, ServiceTypes
  <1>2. ASSUME NEW r \in Load.requests, FileMiss(w, r) PROVE \E pc, s, f : Serves(w, pc, s, f)
    <2>1. PICK key, f : key = Resolve[r.path]
                        /\ f = [file |-> key, version |-> 0, since |-> version[key]]
      OBVIOUS
    <2>2. key \in Files
      BY <1>2, <2>1, StaticFileExists DEF FileMiss, WorkInv, ServiceTypes
    <2>3. /\ wpc' = [wpc EXCEPT ![w] = "open"] /\ request' = [request EXCEPT ![w] = r]
          /\ found' = [found EXCEPT ![w] = f] /\ version' = version /\ entries' = entries
      BY <1>2, <2>1 DEF FileMiss, CacheMiss, Take, diskVars
    <2>4. Serving("open", r, f, version)
      BY <1>1, <2>1, <2>2 DEF Serving
    <2> QED
      BY <2>3, <2>4 DEF Serves, DiskInv
  <1>3. CASE FileRead(w)
    <2>1. PICK old, f : old = found[w] /\ f = [old EXCEPT !.version = version[old.file]]
      OBVIOUS
    <2>2. /\ wpc[w] = "open" /\ wpc' = [wpc EXCEPT ![w] = "insert"] /\ request' = request
          /\ found' = [found EXCEPT ![w] = f] /\ UNCHANGED <<version, entries>>
      BY <1>3, <2>1 DEF FileRead, cacheVars, diskVars
    <2>3. old \in Lookups /\ old.file = Resolve[request[w].path] /\ old.since <= version[old.file]
      BY <2>1, <2>2 DEF WorkInv, Held, Holding, DiskInv, Serving
    <2>4. f.file = old.file /\ f.version = version[old.file] /\ f.since = old.since
      BY <2>1, <2>3 DEF Lookups
    <2>5. version[old.file] \in Int
      BY <1>1, <2>3 DEF Lookups
    <2>6. Serving("insert", request[w], f, version)
      BY <2>3, <2>4, <2>5 DEF Serving
    <2> QED
      BY <2>2, <2>6, Kept DEF Serves, DiskInv, WorkInv
  <1> QED
    BY <1>2, <1>3

\* The content that is inserted is the one that is served, whoever has inserted meanwhile.
LEMMA ServesInsert ==
    ASSUME WorkInv, CacheInv, DiskInv, NEW w \in Workers, FileInsert(w)
    PROVE \E pc, s, f : Serves(w, pc, s, f)
  <1>1. PICK f, value, e : /\ f = found[w] /\ value = [of |-> f.file, version |-> f.version]
                           /\ e = [key |-> f.file, value |-> value]
    OBVIOUS
  <1>2. /\ wpc[w] = "insert" /\ CachePut(f.file, value) /\ wpc' = [wpc EXCEPT ![w] = "total"]
        /\ UNCHANGED <<request, found, version>>
    BY <1>1 DEF FileInsert, Respond, diskVars
  <1>3. f.file \in Files /\ value \in Content
    BY <1>1, <1>2, InsertedType
  <1>4. /\ f \in Lookups /\ f.version \in 1..MaxVersion /\ f.file = Resolve[request[w].path]
        /\ f.since <= f.version /\ f.version <= version[f.file]
    BY <1>1, <1>2 DEF WorkInv, Held, Holding, DiskInv, Serving
  <1>5. Only(e)
    BY <1>1, <1>2, <1>3, CachePutKeeps
  <1>6. e.value.of = e.key /\ e.value.version <= version[e.key]
    BY <1>1, <1>4
  <1>7. Truthful(entries', version)
    BY <1>5, <1>6, TruthfulStays DEF DiskInv
  <1>8. f.since \in 0..MaxVersion
    BY <1>4, MaxVersionAssumption DEF Lookups
  <1>9. Serving("total", request[w], f, version)
    BY <1>3, <1>4, <1>8 DEF Serving
  <1> QED
    BY <1>1, <1>2, <1>7, <1>9, Kept DEF Serves, WorkInv

\* Versions only grow, so what has been read was on disk and stays so.
LEMMA ServingStays ==
    ASSUME WorkInv, NEW w \in Workers, Serving(wpc[w], request[w], found[w], version),
           NEW disk \in [Files -> Int], \A f \in Files : version[f] <= disk[f]
    PROVE Serving(wpc[w], request[w], found[w], disk)
  <1>1. PICK pc, r, f : pc = wpc[w] /\ r = request[w] /\ f = found[w]
    OBVIOUS
  <1>2. version \in [Files -> 1..MaxVersion] /\ MaxVersion \in Nat
    BY MaxVersionAssumption DEF WorkInv, ServiceTypes
  <1>3. Serving(pc, r, f, version)
    BY <1>1
  <1>4. pc \in {"open", "insert"} =>
          f.file \in Files /\ f.since \in Int /\ f.version \in Int
    <2>1. pc \in {"open", "insert"} => f \in Lookups
      BY <1>1 DEF WorkInv, Held, Holding
    <2> QED
      BY <1>2, <2>1 DEF Lookups
  <1>5. \A file \in Files, n \in Int : n <= version[file] => n <= disk[file]
    BY <1>2
  <1>6. Serving(pc, r, f, disk)
    <2>1. pc \in {"open", "insert"} => f.since <= disk[f.file]
      BY <1>3, <1>4, <1>5 DEF Serving
    <2>2. pc = "insert" => f.version <= disk[f.file]
      BY <1>3, <1>4, <1>5 DEF Serving
    <2>3. (pc = "total" /\ f # NoFile) => f.version <= disk[f.file]
      BY <1>2, <1>3, <1>5 DEF Serving
    <2> QED
      BY <1>3, <2>1, <2>2, <2>3 DEF Serving
  <1> QED
    BY <1>1, <1>6

LEMMA DiskInvStep ==
    ASSUME WorkInv, WorkInv', CacheInv, DiskInv, [Next]_vars
    PROVE DiskInv'
  <1>1. ASSUME NEW w \in Workers, Worker(w) PROVE DiskInv'
    <2>1. PICK pc, r, f : Serves(w, pc, r, f)
      BY <1>1, ServesElsewhere, ServesHit, ServesMiss, ServesInsert DEF Worker
    <2>2. ASSUME NEW v \in Workers PROVE Serving(wpc'[v], request'[v], found'[v], version)
      <3>1. /\ v = w => wpc'[v] = pc /\ request'[v] = r /\ found'[v] = f
            /\ v # w => wpc'[v] = wpc[v] /\ request'[v] = request[v] /\ found'[v] = found[v]
        BY <2>1 DEF Serves, WorkInv, WorkerTypes
      <3> QED
        BY <2>1, <3>1 DEF Serves, DiskInv
    <2> QED
      BY <2>1, <2>2 DEF Serves, DiskInv
  <1>2. CASE Disk
    <2>1. version \in [Files -> 1..MaxVersion] /\ version' \in [Files -> 1..MaxVersion]
          /\ MaxVersion \in Nat
      BY MaxVersionAssumption DEF WorkInv, ServiceTypes
    <2>2. PICK g : EditFile(g) \/ RemoveFile(g)
      BY <1>2 DEF Disk
    <2>3. ASSUME NEW f \in Files PROVE version[f] <= version'[f]
      <3>1. version[f] \in Int /\ (version'[f] = version[f] \/ version'[f] = version[f] + 1)
        BY <2>1, <2>2 DEF EditFile, RemoveFile
      <3> QED
        BY <3>1
    <2>4. UNCHANGED <<wpc, request, found, entries>>
      BY <1>2 DEF Disk, workerVars, cacheVars
    <2>5. version' \in [Files -> Int]
      BY <2>1
    <2>6. \A w \in Workers : Serving(wpc[w], request[w], found[w], version')
      BY <2>3, <2>5, ServingStays DEF DiskInv
    <2>7. ASSUME NEW i \in 1..Len(entries)
          PROVE entries[i].value.of = entries[i].key /\ entries[i].value.version <= version'[entries[i].key]
      <3>1. PICK e : e = entries[i]
        OBVIOUS
      <3>2. e \in Entry
        <4>1. entries \in Seq(Entry)
          BY Zenon DEF CacheInv, Lru
        <4> QED
          BY <3>1, <4>1
      <3>3. e.key \in Files /\ e.value.version \in Int
        BY <2>1, <3>2 DEF Entry, Content
      <3>4. e.value.of = e.key /\ e.value.version <= version[e.key]
        BY <3>1 DEF DiskInv, Truthful
      <3>5. version[e.key] \in Int /\ version'[e.key] \in Int /\ version[e.key] <= version'[e.key]
        BY <2>1, <2>3, <3>3
      <3> QED
        BY <3>1, <3>3, <3>4, <3>5
    <2> QED
      BY <2>4, <2>6, <2>7 DEF DiskInv, Truthful
  <1>3. CASE UNCHANGED vars
    BY <1>3 DEF vars, workerVars, cacheVars, diskVars, DiskInv
  <1> QED
    BY <1>1, <1>2, <1>3 DEF Next

LEMMA DiskInvAlways == Spec => []DiskInv
  <1>1. Init => DiskInv
    <2> SUFFICES ASSUME Init PROVE DiskInv
      OBVIOUS
    <2>1. Truthful(entries, version)
      BY DEF Init, CacheInit, Truthful
    <2>2. ASSUME NEW w \in Workers PROVE Serving(wpc[w], request[w], found[w], version)
      <3>1. wpc[w] = "idle" /\ found[w] = NoFile
        BY DEF Init
      <3> QED
        BY <3>1, ServingNothing
    <2> QED
      BY <2>1, <2>2 DEF DiskInv
  <1>2. WorkInv /\ WorkInv' /\ CacheInv /\ DiskInv /\ [Next]_vars => DiskInv'
    BY DiskInvStep
  <1> QED
    BY <1>1, <1>2, WorkInvAlways, CacheInvAlways, PTL DEF Spec

\* A file is answered with its own content, one that was on disk and after a miss not older
\* than the lookup, for any number of threads, files and edits between the steps.
THEOREM AlwaysServedFromDisk == Spec => []ServedWasOnDisk
  <1>1. ASSUME WorkInv, DiskInv, NEW w \in Workers, wpc[w] = "total", found[w] # NoFile
        PROVE /\ found[w].file = Resolve[request[w].path]
              /\ found[w].version \in Max({1, found[w].since})..version[found[w].file]
    <2>1. PICK f : f = found[w]
      OBVIOUS
    <2>2. /\ f.file \in Files /\ f.file = Resolve[request[w].path]
          /\ f.version \in 1..MaxVersion /\ f.since \in 0..MaxVersion
          /\ f.since <= f.version /\ f.version <= version[f.file]
      BY <1>1, <2>1 DEF DiskInv, Serving
    <2>3. version[f.file] \in Int /\ MaxVersion \in Nat
      BY <1>1, <2>2, MaxVersionAssumption DEF WorkInv, ServiceTypes
    <2>4. PICK since, content : since = f.since /\ content = f.version
      OBVIOUS
    <2>5. since \in Nat /\ content \in Nat /\ 1 <= content /\ since <= content
      BY <2>2, <2>3, <2>4
    <2>6. Max({1, since}) \in {1, since}
      <3>1. {1, since} \subseteq Nat /\ {1, since} # {} /\ \A x \in {1, since} : x <= content
        BY <2>5
      <3> QED
        BY <2>5, <3>1, MaxOfBounded
    <2>7. content \in Max({1, since})..version[f.file]
      BY <2>2, <2>3, <2>4, <2>5, <2>6
    <2> QED
      BY <2>1, <2>2, <2>4, <2>7
  <1>2. WorkInv /\ DiskInv => ServedWasOnDisk
    BY <1>1 DEF ServedWasOnDisk
  <1> QED
    BY <1>2, WorkInvAlways, DiskInvAlways, PTL

-----------------------------------------------------------------------------
(* Types, from the invariants of the parts *)

\* Every variable of the threads, the cache, the store and the metrics keeps its type.
THEOREM ApplicationTypeCorrect == Spec => []TypeOK
  <1>1. ASSUME WorkInv, ConfigInv, StoreInv, CacheInv, CacheCounts
        PROVE TypeOK
    <2>1. CacheTypeOK
      <3>1. /\ capacity \in Nat \ {0} /\ entries \in Seq(Entry) /\ used \in Seq(Files)
            /\ index = Leading(used, Len(entries)) /\ Len(entries) <= Len(used)
        BY <1>1, Zenon DEF CacheInv, Lru
      <3>2. index \subseteq Files
        <4>1. Len(entries) \in Nat /\ Len(used) \in Nat /\ Len(entries) <= Len(used)
          BY <3>1
        <4>2. \A i \in 1..Len(entries) : used[i] \in Files
          BY <3>1, <4>1
        <4> QED
          BY <3>1, <4>2 DEF Leading
      <3> QED
        BY <1>1, <3>1, <3>2 DEF CacheTypeOK, CacheCounts, Entry, WorkInv, ServiceTypes
    <2>2. created \in Nat /\ deleted \in Nat
      BY <1>1 DEF StoreInv
    <2>3. \A w \in Workers : wpc[w] = "insert" => found[w].version \in 1..MaxVersion
      BY <1>1 DEF WorkInv, Held, Holding
    <2>4. \A w \in Workers : Len(snap[w].reports) <= Len(Percentiles) /\ snap[w].bucket \in 1..bucketCount
      BY <1>1, Kept DEF WorkInv, Held, Holding, Snapshots
    <2> QED
      BY <1>1, <2>1, <2>2, <2>3, <2>4
      DEF TypeOK, WorkInv, ServiceTypes, WorkerTypes, Pcs, Statuses, ConfigInv, ConfigTypes
  <1> QED
    BY <1>1, WorkInvAlways, ConfigInvAlways, StoreInvAlways, CacheInvAlways, PTL

-----------------------------------------------------------------------------
(* Bodies and stored texts *)

\* Keys and values are texts.
HoldsTexts(map) == \A key \in DOMAIN map : key \in ApiTexts /\ map[key] \in ApiTexts

\* Both ways to decode a body yield texts.
LEMMA DecodeType ==
    ASSUME workload \in DOMAIN Workloads, NEW r \in Load.requests
    PROVE r.json \in Seq(Tokens) /\ Decode(r).fields \in Maps
  <1>1. BodyTypes(r)
    BY WorkloadsAssumption DEF Load
  <1>2. r.json \in Seq(Tokens) /\ r.form \in Seq(Segments)
    BY <1>1 DEF BodyTypes, Tokens, Segments, ApiTexts
  <1>3. parseFlatJson(r.json).fields \in Maps
    BY <1>2, JsonMeaning
  <1>4. parseFormEncoded(r.form).fields \in Maps
    BY <1>2, FormType
  <1> QED
    BY <1>2, <1>3, <1>4 DEF Decode

\* The store holds nothing else.
LEMMA TextsAlways == Spec => []HoldsTexts(store)
  <1>1. Init => HoldsTexts(store)
    BY DEF Init, KvInit, HoldsTexts
  <1>2. ASSUME WorkInv, HoldsTexts(store), [Next]_vars PROVE HoldsTexts(store')
    <2>1. CASE UNCHANGED kvVars
      BY <1>2, <2>1 DEF kvVars
    <2>2. ASSUME NEW w \in Workers, NEW r \in Load.requests, KvWrite(w, r) PROVE HoldsTexts(store')
      <3>1. PICK key, value : /\ key = Field(Decode(r).fields, Name.key)
                              /\ value = Field(Decode(r).fields, Name.value)
        OBVIOUS
      <3>2. key \in ApiTexts /\ value \in ApiTexts
        BY <1>2, <3>1, DecodeType, FieldType DEF WorkInv, ServiceTypes
      <3>3. store' = Mapped(store, key, value) \/ store' = store
        BY <2>2, <3>1 DEF KvWrite, KvPut, Stored
      <3>4. HoldsTexts(Mapped(store, key, value))
        BY <1>2, <3>2 DEF HoldsTexts, Mapped
      <3> QED
        BY <1>2, <3>3, <3>4
    <2>3. ASSUME NEW w \in Workers, NEW r \in Load.requests, KvDelete(w, r) PROVE HoldsTexts(store')
      <3>1. PICK key : store' = [k \in DOMAIN store \ {key} |-> store[k]]
        BY <2>3 DEF KvDelete, KvRemove
      <3> QED
        BY <1>2, <3>1 DEF HoldsTexts
    <2> QED
      BY <1>2, <2>1, <2>2, <2>3, StoreStep
  <1>3. WorkInv /\ HoldsTexts(store) /\ [Next]_vars => HoldsTexts(store)'
    BY <1>2
  <1> QED
    BY <1>1, <1>3, WorkInvAlways, PTL DEF Spec

\* A body to put is decoded in the step that answers it, and answered with 400 just for what
\* the body is; 405 is the answer to a path that has routes; a thread that records or waits
\* has no request.
PutRequest(r) == r.path = "/api/kv" /\ r.method = "POST"
PutAnswered(pc, r, code) ==
    /\ pc \in {"idle", "bytes", "status", "latency"} => r = NoRequest
    /\ (r # NoRequest /\ PutRequest(r)) => pc = "total" /\ (code = 400 <=> BodyStatus(Decode(r)) = 400)
    /\ (pc = "total" /\ code = 405) => r # NoRequest /\ r.path \in knownPaths

AnswerInv == \A w \in Workers : PutAnswered(wpc[w], request[w], status[w])

\* Worker w goes on to pc with request r and this status.
GoesOn(w, pc, r, code) ==
    /\ wpc' = [wpc EXCEPT ![w] = pc]
    /\ request' = [request EXCEPT ![w] = r]
    /\ status' = [status EXCEPT ![w] = code]
    /\ PutAnswered(pc, r, code)

\* A request that has its own handler is not to put.
LEMMA OtherHandlers ==
    ASSUME NEW w, NEW r,
           \/ AnswerLocally(w, r) \/ KvRead(w, r) \/ KvDelete(w, r)
           \/ FileHit(w, r) \/ FileMiss(w, r) \/ StatsTotal(w, r)
    PROVE ~PutRequest(r)
  <1> SUFFICES ASSUME PutRequest(r) PROVE FALSE
    OBVIOUS
  <1>1. r.path = "/api/kv" /\ r.method = "POST" /\ Effective(r.method) = "POST"
    BY DEF PutRequest, Effective
  <1>2. <<"POST", "/api/kv">> \in Routes /\ <<"POST", "/api/kv">>[2] = "/api/kv"
    BY DEF Routes
  <1>3. Matched(r.method, r.path) /\ r.path \in knownPaths
    BY <1>1, <1>2 DEF Matched, knownPaths
  <1>4. ~NotAllowed(r.method, r.path) /\ ~Fallback(r.method, r.path) /\ r.path # "/healthz"
        /\ r.path # "/api/stats"
    BY <1>1, <1>3 DEF NotAllowed, Fallback
  <1>5. LocalStatus(r) = 0 /\ ~StaticFile(r)
    BY <1>4 DEF LocalStatus, StaticFile
  <1> QED
    BY <1>1, <1>4, <1>5 DEF AnswerLocally, KvRead, KvDelete, FileHit, FileMiss, StatsTotal

\* put() answers 400 only for the body, and never 405.
LEMMA PutRefusesBody ==
    ASSUME NEW decoded
    PROVE /\ PutStatus(decoded) = 400 <=> BodyStatus(decoded) = 400
          /\ PutStatus(decoded) # 405
  <1>1. \A key : LockedStatus(key) # 400 /\ LockedStatus(key) # 405
    BY DEF LockedStatus
  <1>2. BodyStatus(decoded) # 405
    BY DEF BodyStatus
  <1> QED
    BY <1>1, <1>2 DEF PutStatus

\* The steps from a request to its response
LEMMA GoesOnHandling ==
    ASSUME WorkInv, AnswerInv, NEW w \in Workers,
           \/ Refuse(w)
           \/ \E r \in Load.requests :
                \/ AnswerLocally(w, r) \/ KvRead(w, r) \/ KvWrite(w, r) \/ KvDelete(w, r)
                \/ FileHit(w, r) \/ FileMiss(w, r) \/ StatsTotal(w, r)
    PROVE \E pc, s, code : GoesOn(w, pc, s, code)
  <1>1. /\ request = [request EXCEPT ![w] = request[w]] /\ status = [status EXCEPT ![w] = status[w]]
        /\ wpc = [wpc EXCEPT ![w] = wpc[w]]
    BY Kept DEF WorkInv
  <1>2. CASE Refuse(w)
    <2>1. request[w] = NoRequest
      BY <1>2 DEF Refuse, Free, AnswerInv, PutAnswered
    <2>2. PICK code \in Load.refusals : status' = [status EXCEPT ![w] = code]
      BY <1>2 DEF Refuse
    <2>4. Load.refusals \subseteq {400, 413, 414, 431, 501, 505}
      BY WorkloadTypes DEF WorkInv, ServiceTypes
    <2>5. code # 405
      BY <2>2, <2>4
    <2>3. PutAnswered("total", request[w], code)
      BY <2>1, <2>5 DEF PutAnswered
    <2> QED
      BY <1>1, <1>2, <2>2, <2>3 DEF GoesOn, Refuse
  <1>3. ASSUME NEW r \in Load.requests,
               AnswerLocally(w, r) \/ KvRead(w, r) \/ KvDelete(w, r) \/ FileHit(w, r)
        PROVE \E pc, s, code : GoesOn(w, pc, s, code)
    <2>0. LocalStatus(r) = 405 => r.path \in knownPaths
      BY DEF LocalStatus, NotAllowed
    <2>1. Take(w, r) /\ \E code : Respond(w, code) /\ (code = 405 => r.path \in knownPaths)
      BY <1>3, <2>0 DEF AnswerLocally, KvRead, KvDelete, FileHit, ListStatus, GetStatus, RemoveStatus
    <2>2. PICK code : Respond(w, code) /\ (code = 405 => r.path \in knownPaths)
      BY <2>1
    <2>3. ~PutRequest(r)
      BY <1>3, OtherHandlers
    <2>5. r # NoRequest
      BY WorkloadTypes DEF WorkInv, ServiceTypes
    <2>4. PutAnswered("total", r, code)
      BY <2>2, <2>3, <2>5 DEF PutAnswered
    <2> QED
      BY <2>1, <2>2, <2>4 DEF Take, Respond, GoesOn
  <1>4. ASSUME NEW r \in Load.requests, KvWrite(w, r)
        PROVE \E pc, s, code : GoesOn(w, pc, s, code)
    <2>1. PICK code : code = PutStatus(Decode(r))
      OBVIOUS
    <2>2. Take(w, r) /\ Respond(w, code)
      BY <1>4, <2>1 DEF KvWrite
    <2>3. PutAnswered("total", r, code)
      BY <2>1, PutRefusesBody DEF PutAnswered
    <2> QED
      BY <2>2, <2>3 DEF Take, Respond, GoesOn
  <1>5. ASSUME NEW r \in Load.requests, FileMiss(w, r) \/ StatsTotal(w, r)
        PROVE \E pc, s, code : GoesOn(w, pc, s, code)
    <2>1. ~PutRequest(r)
      BY <1>5, OtherHandlers
    <2>2. PICK pc \in {"open", "ok"} : wpc' = [wpc EXCEPT ![w] = pc]
      BY <1>5 DEF FileMiss, StatsTotal
    <2>3. request' = [request EXCEPT ![w] = r] /\ status' = status
      BY <1>5 DEF FileMiss, StatsTotal, Take
    <2>4. PutAnswered(pc, r, status[w])
      BY <2>1, <2>2 DEF PutAnswered
    <2> QED
      BY <1>1, <2>2, <2>3, <2>4 DEF GoesOn
  <1> QED
    BY <1>2, <1>3, <1>4, <1>5

\* A thread on its way to a response keeps a request that is not to put.
LEMMA GoesOnElsewhere ==
    ASSUME WorkInv, AnswerInv, NEW w \in Workers, wpc[w] # "total", NEW pc, NEW code,
           pc \notin {"idle", "bytes", "status", "latency"}, pc = "total" => code # 405,
           wpc' = [wpc EXCEPT ![w] = pc], request' = request, status' = [status EXCEPT ![w] = code]
    PROVE GoesOn(w, pc, request[w], code)
  <1>1. PutAnswered(wpc[w], request[w], status[w])
    BY DEF AnswerInv
  <1>2. PutAnswered(pc, request[w], code)
    BY <1>1 DEF PutAnswered
  <1> QED
    BY <1>2, Kept DEF GoesOn, WorkInv

\* The steps in readFile(), toJson() and recordRequest()
LEMMA GoesOnInside ==
    ASSUME WorkInv, AnswerInv, NEW w \in Workers,
           \/ FileAbsent(w) \/ FileRead(w) \/ FileInsert(w)
           \/ StatsLoad(w) \/ StatsEmpty(w) \/ StatsWalk(w)
           \/ CountTotal(w) \/ CountBytes(w) \/ CountStatus(w) \/ CountLatency(w)
    PROVE \E pc, s, code : GoesOn(w, pc, s, code)
  <1>1. /\ request = [request EXCEPT ![w] = request[w]] /\ status = [status EXCEPT ![w] = status[w]]
        /\ wpc = [wpc EXCEPT ![w] = wpc[w]]
    BY Kept DEF WorkInv
  <1>0. ASSUME NEW code, code # 405, Respond(w, code), wpc[w] # "total", request' = request
        PROVE \E pc, s : GoesOn(w, pc, s, code)
    <2>1. wpc' = [wpc EXCEPT ![w] = "total"] /\ status' = [status EXCEPT ![w] = code]
      BY <1>0 DEF Respond
    <2>2. "total" \notin {"idle", "bytes", "status", "latency"}
      OBVIOUS
    <2> QED
      BY <1>0, <2>1, <2>2, GoesOnElsewhere
  <1>2. CASE FileAbsent(w)
    BY <1>0, <1>2 DEF FileAbsent
  <1>3. CASE FileRead(w)
    BY <1>1, <1>3, GoesOnElsewhere DEF FileRead
  <1>4. CASE FileInsert(w)
    BY <1>0, <1>4 DEF FileInsert
  <1>5. CASE StatsLoad(w)
    <2>1. PICK pc : pc = NextLoad[wpc[w]]
      OBVIOUS
    <2>2. /\ wpc' = [wpc EXCEPT ![w] = pc] /\ request' = request /\ status' = status
          /\ wpc[w] \in StatusClasses
      BY <1>5, <2>1 DEF StatsLoad
    <2>3. wpc[w] # "total" /\ pc \in {"clientError", "serverError", "percentile"}
      BY <2>1, <2>2 DEF StatusClasses, NextLoad
    <2> QED
      BY <1>1, <2>2, <2>3, GoesOnElsewhere
  <1>6. CASE StatsEmpty(w)
    BY <1>0, <1>6 DEF StatsEmpty
  <1>7. CASE StatsWalk(w)
    <2>1. wpc[w] = "percentile" /\ request' = request /\ (WalksOn(w) \/ ReportsOne(w))
      BY <1>7, WalkOutcomes
    <2>2. WalksOn(w) => wpc' = wpc /\ status' = status
      BY DEF WalksOn
    <2>3. ReportsOne(w) => Respond(w, 200) \/ (wpc' = wpc /\ status' = status)
      BY Zenon DEF ReportsOne
    <2>4. CASE wpc' = wpc /\ status' = status
      BY <1>1, <2>1, <2>4, GoesOnElsewhere
    <2>5. CASE Respond(w, 200)
      BY <1>0, <2>1, <2>5
    <2> QED
      BY <2>1, <2>2, <2>3, <2>4, <2>5
  <1>8. ASSUME NEW pc, pc # "total", NEW code PROVE PutAnswered(pc, NoRequest, code)
    BY <1>8 DEF PutAnswered
  <1>9. CASE CountTotal(w)
    BY <1>1, <1>8, <1>9 DEF CountTotal, GoesOn
  <1>10. ASSUME CountBytes(w) \/ CountStatus(w) \/ CountLatency(w)
         PROVE request[w] = NoRequest /\ request' = request
    BY <1>10 DEF CountBytes, CountStatus, CountLatency, AnswerInv, PutAnswered
  <1>11. CASE CountBytes(w)
    BY <1>1, <1>8, <1>10, <1>11 DEF CountBytes, GoesOn
  <1>12. CASE CountStatus(w)
    BY <1>1, <1>8, <1>10, <1>12 DEF CountStatus, GoesOn
  <1>13. CASE CountLatency(w)
    BY <1>1, <1>8, <1>10, <1>13 DEF CountLatency, GoesOn
  <1> QED
    BY <1>2, <1>3, <1>4, <1>5, <1>6, <1>7, <1>9, <1>11, <1>12, <1>13

LEMMA AnswerInvAlways == Spec => []AnswerInv
  <1>1. Init => AnswerInv
    BY DEF Init, AnswerInv, PutAnswered
  <1>2. ASSUME WorkInv, AnswerInv, [Next]_vars PROVE AnswerInv'
    <2>1. ASSUME NEW w \in Workers, Worker(w) PROVE AnswerInv'
      <3>1. PICK pc, s, code : GoesOn(w, pc, s, code)
        BY <1>2, <2>1, GoesOnHandling, GoesOnInside DEF Worker
      <3>2. ASSUME NEW v \in Workers PROVE PutAnswered(wpc'[v], request'[v], status'[v])
        <4>1. /\ v = w => wpc'[v] = pc /\ request'[v] = s /\ status'[v] = code
              /\ v # w => wpc'[v] = wpc[v] /\ request'[v] = request[v] /\ status'[v] = status[v]
          BY <1>2, <3>1 DEF GoesOn, WorkInv, WorkerTypes
        <4> QED
          BY <1>2, <3>1, <4>1 DEF GoesOn, AnswerInv
      <3> QED
        BY <3>2 DEF AnswerInv
    <2>2. CASE Disk \/ UNCHANGED vars
      BY <1>2, <2>2 DEF Disk, vars, workerVars, AnswerInv
    <2> QED
      BY <1>2, <2>1, <2>2 DEF Next
  <1>3. WorkInv /\ AnswerInv /\ [Next]_vars => AnswerInv'
    BY <1>2
  <1> QED
    BY <1>1, <1>3, WorkInvAlways, PTL DEF Spec

\* The Allow header of every 405 names exactly the methods the path is served for, for any
\* set of requests and any number of threads.
THEOREM AllowAlwaysExact == Spec => []AllowExact
  <1>1. ASSUME AnswerInv, NEW w \in Workers, wpc[w] = "total", status[w] = 405, NEW method
        PROVE method \in Allowed(request[w].path) <=> ~NotAllowed(method, request[w].path)
    <2>1. PICK path : path = request[w].path
      OBVIOUS
    <2>2. path \in knownPaths
      BY <1>1, <2>1 DEF AnswerInv, PutAnswered
    <2>3. method \in Allowed(path) <=> Matched(method, path)
      BY <2>2, AllowIsExact
    <2> QED
      BY <2>1, <2>2, <2>3 DEF NotAllowed
  <1>2. AnswerInv => AllowExact
    BY <1>1 DEF AllowExact
  <1> QED
    BY <1>2, AnswerInvAlways, PTL

\* What a JSON body has to mean: it is refused when it does not begin with a flat object,
\* and a whole one in standard writing is stored as it was written.
Meant(r, flat, code) ==
    /\ flat = {} => code = 400
    /\ \A n \in flat : (WholeObject(r.json, n) /\ StandardStrings(r.json, n)) =>
         /\ jsonEscape(Field(Decode(r).fields, Name.key)) = LastWritten(r.json, n, Name.key)
         /\ jsonEscape(Field(Decode(r).fields, Name.value)) = LastWritten(r.json, n, Name.value)
         /\ code = 400 <=> LastWritten(r.json, n, Name.key) = <<>>

\* A worker that has answered a POST of a JSON body to /api/kv has decoded the body as meant.
LEMMA AnsweredAsMeant ==
    ASSUME WorkInv, AnswerInv, NEW w \in Workers, wpc[w] = "total", request[w] # NoRequest,
           PutRequest(request[w]), request[w].type = "json"
    PROVE Meant(request[w], FlatSizes(request[w].json), status[w])
  <1>1. PICK r, flat, code : r = request[w] /\ flat = FlatSizes(r.json) /\ code = status[w]
    OBVIOUS
  <1>2. r \in Load.requests /\ workload \in DOMAIN Workloads
    BY <1>1, Kept DEF WorkInv, ServiceTypes
  <1>3. PICK decoded : decoded = Decode(r)
    OBVIOUS
  <1>4. r.json \in Seq(Tokens) /\ decoded = parseFlatJson(r.json)
    BY <1>1, <1>2, <1>3, DecodeType DEF Decode
  <1>5. /\ decoded.ok <=> flat # {}
        /\ \A n \in flat : \A name : Field(decoded.fields, name) = LastValue(r.json, n, name)
    BY <1>1, <1>4, JsonMeaning
  <1>6. code = 400 <=> BodyStatus(decoded) = 400
    BY <1>1, <1>3 DEF AnswerInv, PutAnswered
  <1>7. BodyStatus(decoded) = 400 <=> ~decoded.ok \/ Field(decoded.fields, Name.key) = <<>>
    BY DEF BodyStatus
  <1>8. ASSUME NEW n \in flat, WholeObject(r.json, n), StandardStrings(r.json, n)
        PROVE /\ jsonEscape(Field(decoded.fields, Name.key)) = LastWritten(r.json, n, Name.key)
              /\ jsonEscape(Field(decoded.fields, Name.value)) = LastWritten(r.json, n, Name.value)
              /\ code = 400 <=> LastWritten(r.json, n, Name.key) = <<>>
    <2>1. PICK tokens, name, value :
            tokens = r.json /\ name = LastValue(r.json, n, Name.key) /\ value = LastValue(r.json, n, Name.value)
      OBVIOUS
    <2>2. name = Field(decoded.fields, Name.key) /\ value = Field(decoded.fields, Name.value)
      BY <1>5, <1>8, <2>1
    <2>3. n \in FlatSizes(tokens) /\ tokens \in Seq(Tokens) /\ StandardStrings(tokens, n)
      BY <1>1, <1>4, <1>8, <2>1
    <2>4. /\ jsonEscape(name) = LastWritten(tokens, n, Name.key)
          /\ jsonEscape(value) = LastWritten(tokens, n, Name.value)
          /\ name = <<>> <=> LastWritten(tokens, n, Name.key) = <<>>
      BY <2>1, <2>3, WrittenIsEchoed
    <2>5. code = 400 <=> name = <<>>
      BY <1>5, <1>6, <1>7, <1>8, <2>2
    <2> QED
      BY <2>1, <2>2, <2>4, <2>5
  <1>9. flat = {} => code = 400
    BY <1>5, <1>6, <1>7
  <1>10. Meant(r, flat, code)
    BY <1>3, <1>8, <1>9 DEF Meant
  <1> QED
    BY <1>1, <1>10

\* Every JSON body that is one flat object in standard writing is stored such that it is
\* printed as it was written, every body that begins with none is refused, and every text
\* that is stored is printed by jsonEscape() so that readString() reads it back, control
\* characters excepted, for any number of threads and requests in any order.
THEOREM JsonAlwaysFaithful == Spec => []JsonFaithful
  <1>1. ASSUME HoldsTexts(store) PROVE EscapedReadsBack
    <2>1. ASSUME NEW key \in DOMAIN store, NEW text \in {key, store[key]},
                 \A i \in DOMAIN text : text[i] # "control"
          PROVE readString(jsonEscape(text)) = text
      <3>1. text \in ApiTexts
        BY <1>1, <2>1 DEF HoldsTexts
      <3> QED
        BY <2>1, <3>1, ReadsBack
    <2> QED
      BY <2>1 DEF EscapedReadsBack
  <1>2. ASSUME WorkInv, AnswerInv PROVE JsonDecodedAsMeant
    <2>1. ASSUME NEW w \in Workers, wpc[w] = "total", request[w] # NoRequest,
                 request[w].path = "/api/kv", request[w].method = "POST", request[w].type = "json"
          PROVE LET r      == request[w]
                    flat   == {n \in 0..Len(r.json) : FlatObject(r.json, n)}
                    fields == Decode(r).fields IN
                /\ flat = {} => status[w] = 400
                /\ \A n \in flat : (WholeObject(r.json, n) /\ StandardStrings(r.json, n)) =>
                     /\ jsonEscape(Field(fields, Name.key)) = LastWritten(r.json, n, Name.key)
                     /\ jsonEscape(Field(fields, Name.value)) = LastWritten(r.json, n, Name.value)
                     /\ status[w] = 400 <=> LastWritten(r.json, n, Name.key) = <<>>
      <3>1. PutRequest(request[w])
        BY <2>1 DEF PutRequest
      <3>2. Meant(request[w], FlatSizes(request[w].json), status[w])
        BY <1>2, <2>1, <3>1, AnsweredAsMeant
      <3>3. PICK r, flat, code :
              r = request[w] /\ flat = FlatSizes(request[w].json) /\ code = status[w]
        OBVIOUS
      <3>4. Meant(r, flat, code)
        BY <3>2, <3>3
      <3>5. flat = {n \in 0..Len(r.json) : FlatObject(r.json, n)}
        BY <3>3 DEF FlatSizes
      <3> QED
        BY <3>3, <3>4, <3>5 DEF Meant
    <2> QED
      BY <2>1, Zenon DEF JsonDecodedAsMeant
  <1>3. WorkInv /\ AnswerInv /\ HoldsTexts(store) => JsonFaithful
    BY <1>1, <1>2 DEF JsonFaithful
  <1> QED
    BY <1>3, WorkInvAlways, AnswerInvAlways, TextsAlways, PTL

=============================================================================
