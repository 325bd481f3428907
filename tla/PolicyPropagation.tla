-------------------------- MODULE PolicyPropagation --------------------------
(***************************************************************************)
(* How a policy change travels: rows in Postgres, the snapshot a control-  *)
(* plane pod builds and publishes (src/control/build.rs, control/api.rs),  *)
(* GET /snapshot with its ETag, and the proxy that polls it, keeps it on   *)
(* disk and applies it (src/source, src/state.rs, src/main.rs).            *)
(*                                                                         *)
(* A policy is what its two halves were read from: `models`, which routing *)
(* is built from, and `keys`, which authenticate; each is the number of    *)
(* writes to its tables, zero being no policy at all.  build_snapshot is   *)
(* many queries and no transaction: it reads the one, later the other.  A  *)
(* version is only ever compared for equality, so a published snapshot's   *)
(* is the number of snapshots published before it.                         *)
(***************************************************************************)
EXTENDS Naturals

CONSTANTS
    Pods, Proxies,
    Unroutable,    \* states of the models no Registry can be built from (an auth_header or
                   \* a key that is no HTTP header: Backend::new)
    MaxModels,     \* bound: writes to the models
    MaxKeys,       \* bound: writes to the keys
    MaxFaults      \* bound: crashes and failed calls

ASSUME PolicyAssumption ==
    /\ MaxModels \in Nat \ {0} /\ MaxKeys \in Nat \ {0} /\ MaxFaults \in Nat
    /\ Unroutable \subseteq 2..MaxModels

Builders == {"refresh", "rebuild"}   \* the admin handlers' build, the ticker's

VARIABLES
    db,          \* the rows
    pub,         \* the snapshot a pod publishes; version 0 before its first
    lock,        \* PUBLISH of each pod: "free" or a builder
    build,       \* what each builder of each pod has read so far
    due,         \* admin writes of a pod whose refresh is to come
    stamps,      \* versions given out
    mode,        \* of a proxy: "starting" or "up"
    snap, reg,   \* its snapshot, and the models its Registry was built from
    disk,        \* its snapshot cache
    poll,        \* its fetch: where it is, and what it has or got
    writable,    \* the proxy's cache directory can be written to
    faults

pods    == <<pub, lock, build, due, stamps>>
proxies == <<mode, snap, reg, disk, poll>>
vars    == <<db, pods, proxies, writable, faults>>

Nothing == [models |-> 0, keys |-> 0, version |-> 0]
Idle    == [at |-> "idle", got |-> Nothing]

Routable(s)     == s.models \notin Unroutable
SamePolicy(s, t) == s.models = t.models /\ s.keys = t.keys
AtLeast(s, t)    == s.models >= t.models /\ s.keys >= t.keys

Init ==
    /\ db = [models |-> 1, keys |-> 1]
    /\ pub = [p \in Pods |-> Nothing]
    /\ lock = [p \in Pods |-> "free"]
    /\ build = [p \in Pods |-> [b \in Builders |-> Idle]]
    /\ due = [p \in Pods |-> 0]
    /\ stamps = 0
    /\ mode = [x \in Proxies |-> "starting"]
    /\ snap = [x \in Proxies |-> Nothing] /\ reg = [x \in Proxies |-> 0]
    /\ disk = [x \in Proxies |-> Nothing]
    /\ poll = [x \in Proxies |-> Idle]
    /\ writable \in BOOLEAN
    /\ faults = 0

Serving(p) == pub[p].version > 0

Fault == faults < MaxFaults /\ faults' = faults + 1

-----------------------------------------------------------------------------
(***************************************************************************)
(* The control plane.                                                      *)
(***************************************************************************)

Commit(half) ==
    /\ db[half] < IF half = "models" THEN MaxModels ELSE MaxKeys
    /\ db' = [db EXCEPT ![half] = @ + 1]

\* An admin handler commits its rows; refresh comes after.
AdminWrite(p, half) ==
    /\ Serving(p) /\ Commit(half)
    /\ due' = [due EXCEPT ![p] = @ + 1]
    /\ UNCHANGED <<pub, lock, build, stamps, proxies, writable, faults>>

\* `fastllm-proxy import`, or SQL by hand: nobody refreshes.
OutsideWrite(half) ==
    /\ Commit(half)
    /\ UNCHANGED <<pods, proxies, writable, faults>>

\* A handler's refresh is due, or the ticker's (a pod's first build is the
\* one before it serves).
Wanted(p, b) == IF b = "refresh" THEN Serving(p) /\ due[p] > 0 ELSE TRUE

\* Mutant of BuildBegin: builds of a pod are not serialised.
BuildBeginUnlocked(p, b) ==
    /\ Wanted(p, b) /\ build[p][b].at = "idle"
    /\ lock' = [lock EXCEPT ![p] = b]
    /\ build' = [build EXCEPT ![p][b] = [at |-> "keys", got |-> [Nothing EXCEPT !.models = db.models]]]
    /\ UNCHANGED <<db, pub, due, stamps, proxies, writable, faults>>

\* PUBLISH is taken and the models are read.
BuildBegin(p, b) ==
    /\ Wanted(p, b) /\ build[p][b].at = "idle" /\ lock[p] = "free"
    /\ lock' = [lock EXCEPT ![p] = b]
    /\ build' = [build EXCEPT ![p][b] = [at |-> "keys", got |-> [Nothing EXCEPT !.models = db.models]]]
    /\ UNCHANGED <<db, pub, due, stamps, proxies, writable, faults>>

\* The keys, the grants and the principals are read, and the version.
BuildKeys(p, b) ==
    /\ build[p][b].at = "keys"
    /\ build' = [build EXCEPT ![p][b] = [at |-> "built", got |-> [@.got EXCEPT !.keys = db.keys]]]
    /\ UNCHANGED <<db, pub, lock, due, stamps, proxies, writable, faults>>

\* The builder is done and drops the lock.
Done(p, b) ==
    /\ build' = [build EXCEPT ![p][b] = Idle]
    /\ lock' = [lock EXCEPT ![p] = "free"]
    /\ due' = IF b = "refresh" THEN [due EXCEPT ![p] = @ - 1] ELSE due

\* Mutant of Stamp: a version too coarse to tell two builds apart.
StampCoarse(p) == IF pub[p].version = 0 THEN stamps + 1 ELSE pub[p].version

\* The version of the next snapshot published.
Stamp(p) == stamps + 1

\* store_snapshot; the ticker's rebuild only if the policy differs.
Publish(p, b) ==
    /\ build[p][b].at = "built"
    /\ IF b = "rebuild" /\ Serving(p) /\ SamePolicy(build[p][b].got, pub[p])
       THEN UNCHANGED <<pub, stamps>>
       ELSE /\ pub' = [pub EXCEPT ![p] = [build[p][b].got EXCEPT !.version = Stamp(p)]]
            /\ stamps' = Stamp(p)
    /\ Done(p, b)
    /\ UNCHANGED <<db, proxies, writable, faults>>

\* A query fails: counted for a refresh, and nothing is published.
BuildFails(p, b) ==
    /\ build[p][b].at # "idle" /\ Fault
    /\ Done(p, b)
    /\ UNCHANGED <<db, pub, stamps, proxies, writable>>

\* The pod is replaced (Recreate); refreshes that were due go with it.
PodRestart(p) ==
    /\ Serving(p) /\ Fault
    /\ pub' = [pub EXCEPT ![p] = Nothing]
    /\ lock' = [lock EXCEPT ![p] = "free"]
    /\ build' = [build EXCEPT ![p] = [b \in Builders |-> Idle]]
    /\ due' = [due EXCEPT ![p] = 0]
    /\ UNCHANGED <<db, stamps, proxies, writable>>

-----------------------------------------------------------------------------
(***************************************************************************)
(* The proxy.                                                              *)
(***************************************************************************)

\* fetch is sent with the version it has; a starting proxy has none.
PollSend(x) ==
    /\ poll[x].at = "idle"
    /\ poll' = [poll EXCEPT ![x] =
                  [at |-> "sent", got |-> IF mode[x] = "up" THEN snap[x] ELSE Nothing]]
    /\ UNCHANGED <<db, pods, mode, snap, reg, disk, writable, faults>>

\* Mutant of WriteCache: the cache is written once and never again.
WriteCacheOnce(x, s) ==
    disk' = IF writable /\ disk[x] = Nothing THEN [disk EXCEPT ![x] = s] ELSE disk

\* write_cache: to a temporary file and renamed; a failure is logged.
WriteCache(x, s) == disk' = IF writable THEN [disk EXCEPT ![x] = s] ELSE disk

\* get_snapshot: 304 for the version the proxy has.
NotModified(x, p) == poll[x].got.version = pub[p].version

\* fetch is answered: what it got is on disk before anybody looks at it.
PollServe(x, p) ==
    /\ poll[x].at = "sent" /\ Serving(p)
    /\ IF NotModified(x, p)
       THEN poll' = [poll EXCEPT ![x] = Idle] /\ UNCHANGED disk
       ELSE /\ poll' = [poll EXCEPT ![x] = [at |-> "got", got |-> pub[p]]]
            /\ WriteCache(x, pub[p])
    /\ UNCHANGED <<db, pods, mode, snap, reg, writable, faults>>

\* load_cached, or the empty snapshot.
LoadCached(x) == disk[x]

\* The control plane does not answer.  A starting proxy takes what is on disk,
\* or starts with nothing.
PollFails(x) ==
    /\ poll[x].at = "sent" /\ Fault
    /\ poll' = [poll EXCEPT ![x] = IF mode[x] = "up" THEN Idle
                                   ELSE [at |-> "got", got |-> LoadCached(x)]]
    /\ UNCHANGED <<db, pods, mode, snap, reg, disk, writable>>

\* Mutant of Apply: authorisation moves before routing is known to work.
ApplyStoreFirst(x) ==
    /\ mode[x] = "up" /\ poll[x].at = "got"
    /\ snap' = [snap EXCEPT ![x] = poll[x].got]
    /\ poll' = [poll EXCEPT ![x] =
                  IF ~SamePolicy(poll[x].got, snap[x]) /\ Routable(poll[x].got)
                  THEN [poll[x] EXCEPT !.at = "storing"] ELSE Idle]
    /\ UNCHANGED <<db, pods, mode, reg, disk, writable, faults>>

\* apply_snapshot: the same policy replaces the snapshot, one that cannot be
\* routed nothing; otherwise the snapshot is stored, and then the registry.
Apply(x) ==
    /\ mode[x] = "up" /\ poll[x].at = "got"
    /\ \/ /\ SamePolicy(poll[x].got, snap[x])
          /\ snap' = [snap EXCEPT ![x] = poll[x].got]
          /\ poll' = [poll EXCEPT ![x] = Idle]
       \/ /\ ~SamePolicy(poll[x].got, snap[x]) /\ ~Routable(poll[x].got)
          /\ poll' = [poll EXCEPT ![x] = Idle]
          /\ UNCHANGED snap
       \/ /\ ~SamePolicy(poll[x].got, snap[x]) /\ Routable(poll[x].got)
          /\ snap' = [snap EXCEPT ![x] = poll[x].got]
          /\ poll' = [poll EXCEPT ![x].at = "storing"]
    /\ UNCHANGED <<db, pods, mode, reg, disk, writable, faults>>

StoreRegistry(x) ==
    /\ poll[x].at = "storing"
    /\ reg' = [reg EXCEPT ![x] = poll[x].got.models]
    /\ poll' = [poll EXCEPT ![x] = Idle]
    /\ UNCHANGED <<db, pods, mode, snap, disk, writable, faults>>

\* build_app_state: a snapshot that cannot be routed ends the process, which
\* is started again.
Boot(x) ==
    /\ mode[x] = "starting" /\ poll[x].at = "got"
    /\ IF Routable(poll[x].got)
       THEN /\ mode' = [mode EXCEPT ![x] = "up"]
            /\ snap' = [snap EXCEPT ![x] = poll[x].got]
            /\ reg' = [reg EXCEPT ![x] = poll[x].got.models]
       ELSE UNCHANGED <<mode, snap, reg>>
    /\ poll' = [poll EXCEPT ![x] = Idle]
    /\ UNCHANGED <<db, pods, disk, writable, faults>>

\* The process dies.  snap keeps what it served last; nothing reads it.
ProxyCrash(x) ==
    /\ mode[x] = "up" /\ Fault
    /\ mode' = [mode EXCEPT ![x] = "starting"]
    /\ poll' = [poll EXCEPT ![x] = Idle]
    /\ UNCHANGED <<db, pods, snap, reg, disk, writable>>

BuildStep(p, b) == BuildBegin(p, b) \/ BuildKeys(p, b) \/ Publish(p, b)

PollStep(x) ==
    \/ PollSend(x) \/ (\E p \in Pods : PollServe(x, p))
    \/ Apply(x) \/ StoreRegistry(x) \/ Boot(x)

Next ==
    \/ \E half \in {"models", "keys"} :
          OutsideWrite(half) \/ \E p \in Pods : AdminWrite(p, half)
    \/ \E p \in Pods : PodRestart(p) \/ \E b \in Builders : BuildStep(p, b) \/ BuildFails(p, b)
    \/ \E x \in Proxies : PollStep(x) \/ PollFails(x) \/ ProxyCrash(x)

Spec == Init /\ [][Next]_vars

(***************************************************************************)
(* The rebuilder and the poller are tickers, a build and a fetch come to   *)
(* an end, a process that exits is started again.  Refreshes are fair only *)
(* weakly: the lock need not be fair to them, the ticker does their work.  *)
(***************************************************************************)
Fairness ==
    /\ \A p \in Pods : WF_vars(BuildStep(p, "rebuild")) /\ WF_vars(BuildStep(p, "refresh"))
    /\ \A p \in Pods : SF_vars(BuildBegin(p, "rebuild"))
    /\ \A x \in Proxies : WF_vars(PollStep(x))

FairSpec == Spec /\ Fairness

-----------------------------------------------------------------------------
(***************************************************************************)
(* Properties.                                                             *)
(***************************************************************************)

Policies == [models : 0..MaxModels, keys : 0..MaxKeys, version : 0..stamps]

\* Types; versions are only ever ones that were given out.
TypeOK ==
    /\ db \in [models : 1..MaxModels, keys : 1..MaxKeys]
    /\ stamps \in Nat
    /\ pub \in [Pods -> Policies] /\ lock \in [Pods -> Builders \cup {"free"}]
    /\ build \in [Pods -> [Builders -> [at : {"idle", "keys", "built"}, got : Policies]]]
    /\ due \in [Pods -> Nat]
    /\ mode \in [Proxies -> {"starting", "up"}]
    /\ snap \in [Proxies -> Policies] /\ reg \in [Proxies -> 0..MaxModels]
    /\ disk \in [Proxies -> Policies]
    /\ poll \in [Proxies -> [at : {"idle", "sent", "got", "storing"}, got : Policies]]
    /\ writable \in BOOLEAN /\ faults \in 0..MaxFaults

\* A pod never publishes an older view over a newer one, whichever of its builds
\* began first and whatever was written between a build's queries: a revoked key
\* stays revoked (refresh: "bringing back a revoked key").
PublishedOnlyForward ==
    [][\A p \in Pods : pub'[p].version > 0 => AtLeast(pub'[p], pub[p])]_vars

\* Authorisation and routing move together: outside apply_snapshot's two stores a
\* proxy routes by the models of the snapshot it authorises by, also after a
\* snapshot that could not be routed.
AuthAndRoutingAgree ==
    \A x \in Proxies :
        mode[x] = "up" /\ poll[x].at # "storing" => reg[x] = snap[x].models

\* With the one control-plane pod the deployments run, a proxy never falls back to
\* an older policy, not even over crashes, restarts from disk, failed polls and
\* unroutable snapshots, if its cache directory can be written.
PolicyNeverRegresses ==
    [][\A x \in Proxies : writable => AtLeast(snap'[x], snap[x])]_vars

\* Every write reaches every proxy in the end, authorisation and routing both,
\* unless the last models cannot be routed at all.
Converges ==
    <>[](\/ db.models \in Unroutable
         \/ \A x \in Proxies :
              mode[x] = "up" /\ SamePolicy(snap[x], db) /\ reg[x] = db.models)

-----------------------------------------------------------------------------
(***************************************************************************)
(* The inductive invariants behind the theorems of PolicyPropagationProofs. *)
(***************************************************************************)

\* PUBLISH: whoever builds holds it, so a pod has one build at a time.
BuilderHoldsLock ==
    \A p \in Pods, b \in Builders : build[p][b].at # "idle" => lock[p] = b

\* A refresh is taken off the list once, when it is done.
RefreshIsDue == \A p \in Pods : build[p]["refresh"].at # "idle" => due[p] > 0

\* Half by half, s is no newer than what a pod's build has read.
NotAfterBuild(s, p, b) ==
    /\ build[p][b].at # "idle" => s.models <= build[p][b].got.models
    /\ build[p][b].at = "built" => s.keys <= build[p][b].got.keys

\* What is published was in the database, and so was what a build has read,
\* which is no older than what is published.
ReadFromDb ==
    \A p \in Pods :
        /\ AtLeast(db, pub[p])
        /\ \A b \in Builders : /\ AtLeast(db, build[p][b].got)
                               /\ NotAfterBuild(pub[p], p, b)

\* Between its two stores apply_snapshot has the models it is about to route by.
StoringAgrees ==
    \A x \in Proxies : poll[x].at = "storing" => snap[x].models = poll[x].got.models

IInv == /\ TypeOK /\ BuilderHoldsLock /\ RefreshIsDue /\ ReadFromDb
        /\ StoringAgrees /\ AuthAndRoutingAgree

\* Nothing a pod will ever serve is older than s.
Superseded(s) ==
    /\ AtLeast(db, s)
    /\ \A p \in Pods : /\ Serving(p) => AtLeast(pub[p], s)
                      /\ \A b \in Builders : NotAfterBuild(s, p, b)

\* With one pod: whatever a proxy has is superseded, the disk is no older than
\* what was applied last, and what is about to be applied is what is on disk.
ProxyAhead(x) ==
    /\ Superseded(snap[x]) /\ Superseded(disk[x]) /\ Superseded(poll[x].got)
    /\ writable => AtLeast(disk[x], snap[x])
    /\ writable /\ poll[x].at = "got" => SamePolicy(poll[x].got, disk[x])

OnePodInv == \A x \in Proxies : ProxyAhead(x)

=============================================================================
