---------------------------- MODULE ResponseCache ----------------------------
(***************************************************************************)
(* The exact-match response cache (src/cache.rs), the requests that look   *)
(* in it and fill it (src/proxy.rs) and apply_snapshot (src/state.rs),     *)
(* which empties it when the policy changes.                               *)
(*                                                                         *)
(* The map is under a mutex; the byte counter is an atomic, and clear sets *)
(* it to zero after the mutex is released, so that store may fall between  *)
(* any two operations of a put: a put is several steps, under the lock.    *)
(* The counter wraps at Word (2^64 in the code).  Keys are the pairs they  *)
(* are hashed from: the first model of the request's chain, whichever of   *)
(* them answers in the end, and the body.  Policies are numbered in the    *)
(* order they arrive, each differing from the one before (content_eq says  *)
(* so); all of them have caching on.                                       *)
(***************************************************************************)
EXTENDS Naturals, FiniteSets

CONSTANTS
    Calls,        \* requests in flight
    ModelNames, Bodies,
    Sizes,        \* sizes of answers
    MaxEntryBytes, MaxEntries, MaxBytes, Word,
    Ttl,          \* a model's cache_ttl
    MaxPolicy,    \* bound: policies applied
    MaxTime,      \* bound: the clock
    None

\* The limits are far below the counter's width (64 MiB and 512 KiB against
\* 2^64), so that only a counter run below zero can wrap.
CacheConstants ==
    /\ MaxEntryBytes \in Nat /\ MaxEntries \in Nat /\ MaxBytes \in Nat /\ Word \in Nat /\ Ttl \in Nat
    /\ Sizes \subseteq Nat
    /\ MaxBytes + MaxEntryBytes < Word
    /\ None \notin Calls

ASSUME CacheAssumption == CacheConstants

VARIABLES
    entries,      \* the map
    bytes,
    lock,         \* who is inside put
    req,
    snap, reg,    \* the policy in AppState::snapshot and AppState::registry
    applying,     \* where apply_snapshot is
    now,
    applied,      \* history: how many applications have begun
    overtaken     \* history: a put went on between clear's two halves

caching == <<entries, bytes, lock, req, snap, reg, applying, now, applied, overtaken>>

Keys == ModelNames \X Bodies
Idle == [at |-> "idle"]
Drop(f, S) == [k \in DOMAIN f \ S |-> f[k]]

CacheInit ==
    /\ entries = [k \in {} |-> 0] /\ bytes = 0 /\ lock = None
    /\ req = [r \in Calls |-> Idle]
    /\ snap = 0 /\ reg = 0 /\ applying = "no" /\ now = 0
    /\ applied = 0 /\ overtaken = FALSE

CacheGoto(r, to) == req' = [req EXCEPT ![r].at = to]

\* The sum of the sizes in a map: the number of bytes, told apart by where they are.
BytesIn(f) == UNION {{k} \X (1 .. f[k].size) : k \in DOMAIN f}
BytesOf(f) == Cardinality(BytesIn(f))
Total == BytesOf(entries)

\* u64 arithmetic.
Plus(a, b)  == (a + b) % Word
Minus(a, b) == (a + Word - b) % Word

-----------------------------------------------------------------------------
(***************************************************************************)
(* A request.                                                              *)
(***************************************************************************)

\* It is authorised and resolved to a model.
Begin(r) ==
    /\ req[r] = Idle
    /\ \E k \in Keys : req' = [req EXCEPT ![r] = [at |-> "get", key |-> k, size |-> 0, clock |-> 0, reg |-> reg]]
    /\ UNCHANGED <<entries, bytes, lock, snap, reg, applying, now, applied, overtaken>>

\* get: a hit ends the request, an expired entry goes; the request is then
\* routed by the registry it loads.
get(r) ==
    /\ req[r].at = "get" /\ lock = None
    /\ LET k == req[r].key
           there == k \in DOMAIN entries
           live == there /\ entries[k].until > now
       IN  /\ req' = [req EXCEPT ![r] = IF live THEN Idle ELSE [@ EXCEPT !.at = "sent", !.reg = reg]]
           /\ entries' = IF there /\ ~live THEN Drop(entries, {k}) ELSE entries
           /\ bytes' = IF there /\ ~live THEN Minus(bytes, entries[k].size) ELSE bytes
    /\ UNCHANGED <<lock, snap, reg, applying, now, applied, overtaken>>

\* cache_and_finish: a whole answer of this size is to be kept, and the clock is
\* read; put leaves the very large alone.
Collected(r) ==
    /\ req[r].at = "sent"
    /\ \E n \in Sizes :
          req' = [req EXCEPT ![r] = IF n > MaxEntryBytes THEN Idle ELSE [@ EXCEPT !.at = "put", !.size = n, !.clock = now]]
    /\ UNCHANGED <<entries, bytes, lock, snap, reg, applying, now, applied, overtaken>>

\* An error, a stream, an answer in the client's own protocol, a broken body or
\* a client that left: nothing is kept.
NotKept(r) ==
    /\ req[r].at = "sent"
    /\ req' = [req EXCEPT ![r] = Idle]
    /\ UNCHANGED <<entries, bytes, lock, snap, reg, applying, now, applied, overtaken>>

\* put: too many entries, or too many bytes.
Full(n) == Cardinality(DOMAIN entries) >= MaxEntries \/ Plus(bytes, n) > MaxBytes

PutCheck(r) ==
    /\ req[r].at = "put" /\ lock = None
    /\ lock' = r
    /\ CacheGoto(r, IF Full(req[r].size) THEN "sweep" ELSE "insert")
    /\ UNCHANGED <<entries, bytes, snap, reg, applying, now, applied, overtaken>>

\* put: what has expired goes, and the counter is set to what is left.
PutSweep(r) ==
    /\ req[r].at = "sweep"
    /\ LET dead == {k \in DOMAIN entries : entries[k].until <= req[r].clock} IN
          /\ entries' = Drop(entries, dead)
          /\ bytes' = IF dead # {} THEN BytesOf(entries') % Word ELSE bytes
    /\ CacheGoto(r, "recheck")
    /\ UNCHANGED <<lock, snap, reg, applying, now, applied, overtaken>>

\* put: still full, so the answer is not kept.
PutRecheck(r) ==
    /\ req[r].at = "recheck"
    /\ IF Full(req[r].size) THEN lock' = None /\ req' = [req EXCEPT ![r] = Idle]
                            ELSE CacheGoto(r, "insert") /\ UNCHANGED lock
    /\ UNCHANGED <<entries, bytes, snap, reg, applying, now, applied, overtaken>>

\* put: the entry is in; what it replaced is no longer counted.
PutInsert(r) ==
    /\ req[r].at = "insert"
    /\ LET k == req[r].key
           e == [size |-> req[r].size, until |-> req[r].clock + Ttl, reg |-> req[r].reg, since |-> applied]
       IN  /\ entries' = [x \in DOMAIN entries \cup {k} |-> IF x = k THEN e ELSE entries[x]]
           /\ bytes' = IF k \in DOMAIN entries THEN Minus(bytes, entries[k].size) ELSE bytes
    /\ CacheGoto(r, "count")
    /\ overtaken' = (overtaken \/ applying = "emptied")
    /\ UNCHANGED <<lock, snap, reg, applying, now, applied>>

PutCount(r) ==
    /\ req[r].at = "count"
    /\ bytes' = Plus(bytes, req[r].size)
    /\ lock' = None /\ req' = [req EXCEPT ![r] = Idle]
    /\ overtaken' = (overtaken \/ applying = "emptied")
    /\ UNCHANGED <<entries, snap, reg, applying, now, applied>>

-----------------------------------------------------------------------------
(***************************************************************************)
(* apply_snapshot, of a policy that says something new.                    *)
(***************************************************************************)

\* Mutant of is_empty: the byte counter is asked instead of the map.
is_empty_by_bytes == bytes = 0

\* ResponseCache::is_empty.
is_empty == DOMAIN entries = {}

\* The new registry is built; is the cache empty?
ApplyBegin ==
    /\ applying = "no" /\ snap < MaxPolicy /\ lock = None
    /\ applying' = IF is_empty THEN "clean" ELSE "full"
    /\ applied' = applied + 1
    /\ UNCHANGED <<entries, bytes, lock, req, snap, reg, now, overtaken>>

\* clear: the map, under the lock,
ClearEntries ==
    /\ applying = "full" /\ lock = None
    /\ entries' = [k \in {} |-> 0] /\ applying' = "emptied"
    /\ UNCHANGED <<bytes, lock, req, snap, reg, now, applied, overtaken>>

\* and then the counter.
ClearBytes ==
    /\ applying = "emptied"
    /\ bytes' = 0 /\ applying' = "clean"
    /\ UNCHANGED <<entries, lock, req, snap, reg, now, applied, overtaken>>

StoreSnapshot ==
    /\ applying = "clean"
    /\ snap' = snap + 1 /\ applying' = "stored"
    /\ UNCHANGED <<entries, bytes, lock, req, reg, now, applied, overtaken>>

StoreRegistry ==
    /\ applying = "stored"
    /\ reg' = snap /\ applying' = "no"
    /\ UNCHANGED <<entries, bytes, lock, req, snap, now, applied, overtaken>>

Clock ==
    /\ now < MaxTime /\ now' = now + 1
    /\ UNCHANGED <<entries, bytes, lock, req, snap, reg, applying, applied, overtaken>>

CacheNext ==
    \/ \E r \in Calls :
         \/ Begin(r) \/ get(r) \/ Collected(r) \/ NotKept(r)
         \/ PutCheck(r) \/ PutSweep(r) \/ PutRecheck(r) \/ PutInsert(r) \/ PutCount(r)
    \/ ApplyBegin \/ ClearEntries \/ ClearBytes \/ StoreSnapshot \/ StoreRegistry
    \/ Clock

CacheSpec == CacheInit /\ [][CacheNext]_caching

-----------------------------------------------------------------------------
(***************************************************************************)
(* Properties.                                                             *)
(***************************************************************************)

\* Nothing that was in the cache when a new policy came is there once it is in
\* force: an answer of an older policy is in the cache only if its request was
\* under way at the time, and then only as long as it lives (apply_snapshot).
NoneSurvives ==
    \A k \in DOMAIN entries :
        applying = "no" /\ entries[k].reg # reg => entries[k].since >= reg

\* Both limits hold, and the counter is what the map holds, unless a put got
\* between clear's two halves (put, get, clear).
Bounded ==
    /\ Cardinality(DOMAIN entries) <= MaxEntries
    /\ ~overtaken => Total <= MaxBytes
    /\ ~overtaken /\ applying # "emptied" /\ lock = None => bytes = Total

\* What the cache may be relied on for, whatever puts, lookups and new policies
\* do to each other.
CacheSound == NoneSurvives /\ Bounded

-----------------------------------------------------------------------------
(***************************************************************************)
(* The inductive invariant behind it.                                      *)
(***************************************************************************)

InPut == {"sweep", "recheck", "insert", "count"}

\* Type correctness.
CacheTypeOK ==
    /\ IsFiniteSet(DOMAIN entries)
    /\ \A k \in DOMAIN entries : entries[k] \in [size : 0 .. MaxEntryBytes, until : Nat, reg : Nat, since : Nat]
    /\ bytes \in Nat /\ snap \in Nat /\ reg \in Nat /\ now \in Nat /\ applied \in Nat
    /\ lock \in Calls \cup {None} /\ overtaken \in BOOLEAN
    /\ applying \in {"no", "full", "emptied", "clean", "stored"}
    /\ req \in [Calls -> {Idle} \cup [at : {"get", "sent", "put"} \cup InPut, key : Keys,
                                        size : 0 .. MaxEntryBytes, clock : Nat, reg : Nat]]

\* The mutex is held by the request that is inside put.
LockHeld == \A r \in Calls : req[r].at \in InPut <=> lock = r

\* An application under way is one ahead of the policies stored.
Numbered ==
    /\ applying = "no" => reg = snap /\ applied = snap
    /\ applying \in {"full", "emptied", "clean"} => reg = snap /\ applied = snap + 1
    /\ applying = "stored" => snap = reg + 1 /\ applied = snap

\* Once the cache was found or made empty, what is in it came in after the
\* last application began.
AllSince == applying # "full" => \A k \in DOMAIN entries : entries[k].since >= applied

\* A put that has checked has room for its entry; ~overtaken: for its bytes too.
RoomChecked ==
    /\ Cardinality(DOMAIN entries) <= MaxEntries
    /\ \A r \in Calls : req[r].at = "insert" =>
          /\ Cardinality(DOMAIN entries) < MaxEntries
          /\ ~overtaken => Total + req[r].size <= MaxBytes

\* The counter lags the map by the entry that is being put.  Between clear's
\* halves it is what it was, and the map is empty.
BytesCounted ==
    ~overtaken =>
        /\ Total <= MaxBytes /\ bytes <= MaxBytes
        /\ applying = "emptied" => DOMAIN entries = {} /\ \A r \in Calls : req[r].at # "count"
        /\ applying # "emptied" =>
              /\ (\A r \in Calls : req[r].at # "count") => bytes = Total
              /\ \A r \in Calls : req[r].at = "count" => bytes + req[r].size = Total

CacheIInv == CacheTypeOK /\ LockHeld /\ Numbered /\ AllSince /\ RoomChecked /\ BytesCounted
=============================================================================
