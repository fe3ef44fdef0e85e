----------------------------- MODULE FileCache -----------------------------
(***************************************************************************)
(* LRUCache (src/lru_cache.cpp) and the files behind FileManager           *)
(* (src/file_manager.cpp).  The operations of the cache run under its      *)
(* mutex, one step each; the module that uses them says which thread takes *)
(* which step, and what happens between a miss and the insertion.          *)
(*                                                                         *)
(* The content of a file is a version number that somebody outside the     *)
(* server advances.  A node of the list keeps its identity when it is      *)
(* spliced, so the iterators of index are represented by the keys alone.   *)
(***************************************************************************)
EXTENDS Integers, Sequences, FiniteSets, SequencesExt

CONSTANTS
    Files,         \* canonical paths below the static root
    SizeBits,      \* width of size_t
    MaxVersion     \* bound on the edits of a file

\* The second part follows from the first; the provers know nothing of powers.
ASSUME SizeBitsAssumption == SizeBits \in Nat \ {0} /\ 2^SizeBits \in Nat \ {0}
ASSUME MaxVersionAssumption == MaxVersion \in Nat \ {0}

VARIABLES
    capacity, entries, index,   \* LRUCache: front = most recently used
    hitCount, missCount,
    used,                       \* history: every key used, most recent first
    version, regular            \* the disk: content of each file, the ones that exist

cacheVars == <<capacity, entries, index, hitCount, missCount, used>>
diskVars == <<version, regular>>

\* Seeded fault: a capacity of 0 is kept.
CapacityUnclamped(configured) == configured % 2^SizeBits

\* An int of the configuration becomes a size_t, and 0 becomes 1.
Capacity(configured) ==
    LET size == configured % 2^SizeBits IN IF size = 0 THEN 1 ELSE size

CacheInit(configured, present) ==
    /\ capacity = Capacity(configured)
    /\ entries = <<>> /\ index = {} /\ used = <<>>
    /\ hitCount = 0 /\ missCount = 0
    /\ version = [f \in Files |-> 1]
    /\ regular = present

Content == [of : Files, version : 1..MaxVersion]
Position(key) == CHOOSE i \in DOMAIN entries : entries[i].key = key
CachedValue(key) == entries[Position(key)].value
Use(key) ==
    LET places == {i \in DOMAIN used : used[i] = key} IN
        used' = <<key>> \o (IF places = {} THEN used ELSE RemoveAt(used, CHOOSE i \in places : TRUE))

\* Seeded fault: a hit leaves the entry where it is.
CacheHitNoSplice(key) ==
    /\ key \in index
    /\ hitCount' = hitCount + 1
    /\ Use(key)
    /\ UNCHANGED <<capacity, entries, index, missCount>>

\* get() finds the key and moves its entry to the front.
CacheHit(key) ==
    /\ key \in index
    /\ entries' = <<entries[Position(key)]>> \o RemoveAt(entries, Position(key))
    /\ hitCount' = hitCount + 1
    /\ Use(key)
    /\ UNCHANGED <<capacity, index, missCount>>

\* get() does not find it.
CacheMiss(key) ==
    /\ key \notin index
    /\ missCount' = missCount + 1
    /\ UNCHANGED <<capacity, entries, index, hitCount, used>>

\* put() of a key that another thread has inserted since the miss
CacheReplace(key, value) ==
    /\ key \in index
    /\ entries' = <<[key |-> key, value |-> value]>> \o RemoveAt(entries, Position(key))
    /\ UNCHANGED index

\* put() of a new key: the last entry goes when there are too many.
CacheAdd(key, value) ==
    LET grown == <<[key |-> key, value |-> value]>> \o entries
        full  == Cardinality(index \cup {key}) > capacity IN
        /\ key \notin index
        /\ entries' = IF full THEN Front(grown) ELSE grown
        /\ index' = IF full THEN (index \cup {key}) \ {Last(grown).key} ELSE index \cup {key}

\* Seeded fault: put() does not look for the key, as the caller has just missed it.
CachePutBlind(key, value) ==
    LET grown == <<[key |-> key, value |-> value]>> \o entries
        full  == Len(grown) > capacity IN
        /\ entries' = IF full THEN Front(grown) ELSE grown
        /\ index' = IF full THEN (index \cup {key}) \ {Last(grown).key} ELSE index \cup {key}
        /\ Use(key)
        /\ UNCHANGED <<capacity, hitCount, missCount>>

CachePut(key, value) ==
    /\ CacheReplace(key, value) \/ CacheAdd(key, value)
    /\ Use(key)
    /\ UNCHANGED <<capacity, hitCount, missCount>>

\* Somebody edits, creates or removes a file.
EditFile(f) ==
    /\ version[f] < MaxVersion
    /\ version' = [version EXCEPT ![f] = @ + 1]
    /\ regular' = regular \cup {f}

RemoveFile(f) ==
    /\ f \in regular
    /\ regular' = regular \ {f}
    /\ UNCHANGED version

-----------------------------------------------------------------------------

CacheTypeOK ==
    /\ capacity \in Nat \ {0}
    /\ entries \in Seq([key : Files, value : Content]) /\ index \subseteq Files
    /\ hitCount \in Nat /\ missCount \in Nat
    /\ used \in Seq(Files)
    /\ version \in [Files -> 1..MaxVersion] /\ regular \subseteq Files

\* The list and the index of LRUCache name the same keys, each once, although two threads
\* may miss on one file and both insert it: an index entry without a node would be a
\* dangling iterator.
IndexMatchesList ==
    /\ index = {entries[i].key : i \in DOMAIN entries}
    /\ Cardinality(index) = Len(entries)

\* The cache holds exactly the files used most recently, as many as its capacity allows, in
\* the order of their last use, whatever hits, evictions and concurrent insertions there
\* were (the reference of "least recently used").
HoldsMostRecent ==
    [i \in DOMAIN entries |-> entries[i].key]
        = SubSeq(used, 1, Min({capacity, Len(used)}))

\* LRUCache is a consistent LRU cache at every moment between two critical sections.
CacheIsLru == IndexMatchesList /\ HoldsMostRecent

=============================================================================
