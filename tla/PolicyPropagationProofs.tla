----------------------- MODULE PolicyPropagationProofs -----------------------
(***************************************************************************)
(* Theorems about PolicyPropagation, for any number of pods, proxies,      *)
(* writes and faults, and any set of unroutable models; and, from the      *)
(* section on tables on, about AdminIdentity, which says how one pod comes *)
(* to publish what it publishes of principals, roles and keys, for any     *)
(* tables at the start, any number of requests, imports and builds.        *)
(***************************************************************************)
EXTENDS PolicyPropagation, AdminIdentity, FiniteSetTheorems, TLAPS

USE PolicyAssumption

Places == {"idle", "sent", "got", "storing"}

\* The two halves of TypeOK.
PodTypes ==
    /\ db \in [models : 1..MaxModels, keys : 1..MaxKeys]
    /\ stamps \in Nat
    /\ pub \in [Pods -> Policies] /\ lock \in [Pods -> Builders \cup {"free"}]
    /\ build \in [Pods -> [Builders -> [at : {"idle", "keys", "built"}, got : Policies]]]
    /\ due \in [Pods -> Nat]

ProxyTypes ==
    /\ mode \in [Proxies -> {"starting", "up"}]
    /\ snap \in [Proxies -> Policies] /\ reg \in [Proxies -> 0..MaxModels]
    /\ disk \in [Proxies -> Policies]
    /\ poll \in [Proxies -> [at : Places, got : Policies]]

\* What the control plane's steps keep, and what the proxies' keep.
PodInv   == PodTypes /\ BuilderHoldsLock /\ RefreshIsDue /\ ReadFromDb
ProxyInv == ProxyTypes /\ StoringAgrees /\ AuthAndRoutingAgree

LEMMA IInvHalves ==
    IInv <=> PodInv /\ ProxyInv /\ writable \in BOOLEAN /\ faults \in 0..MaxFaults
BY Zenon DEF IInv, TypeOK, PodInv, ProxyInv, PodTypes, ProxyTypes, Places

\* What a member of Policies, and of the builders' state, looks like.
LEMMA PolicyParts ==
    ASSUME stamps \in Nat, NEW s \in Policies
    PROVE  /\ s = [models |-> s.models, keys |-> s.keys, version |-> s.version]
           /\ s.models \in 0..MaxModels /\ s.keys \in 0..MaxKeys /\ s.version \in 0..stamps
BY DEF Policies

LEMMA BuildParts ==
    ASSUME PodTypes, NEW p \in Pods, NEW b \in Builders
    PROVE  /\ build[p][b] = [at |-> build[p][b].at, got |-> build[p][b].got]
           /\ build[p][b].got \in Policies /\ pub[p] \in Policies
BY DEF PodTypes

LEMMA InitIInv == Init => IInv
<1> SUFFICES ASSUME Init PROVE IInv
  OBVIOUS
<1>1. writable \in BOOLEAN
  BY Zenon DEF Init
<1>2. Nothing \in Policies /\ Nothing.models = 0 /\ Nothing.keys = 0
  BY DEF Init, Nothing, Policies
<1>3. PodInv
  <2>1. PodTypes
    BY <1>2 DEF Init, PodTypes, Idle
  <2>2. \A p \in Pods, b \in Builders : build[p][b].at = "idle" /\ build[p][b].got = Nothing
    BY DEF Init, Idle
  <2>3. BuilderHoldsLock /\ RefreshIsDue
    BY <2>2 DEF BuilderHoldsLock, RefreshIsDue, Builders
  <2>4. ReadFromDb
    <3>1. db.models = 1 /\ db.keys = 1 /\ \A p \in Pods : pub[p] = Nothing
      BY DEF Init
    <3>2. AtLeast(db, Nothing)
      BY <3>1 DEF AtLeast, Nothing
    <3>3. "idle" # "built"
      OBVIOUS
    <3> QED
      BY <2>2, <3>1, <3>2, <3>3, Zenon DEF ReadFromDb, NotAfterBuild
  <2> QED
    BY <2>1, <2>3, <2>4, Zenon DEF PodInv
<1>4. ProxyInv
  BY <1>2 DEF Init, ProxyInv, ProxyTypes, StoringAgrees, AuthAndRoutingAgree, Idle, Places
<1>5. faults \in 0..MaxFaults
  BY DEF Init
<1> QED
  BY <1>1, <1>3, <1>4, <1>5, IInvHalves, Zenon

(***************************************************************************)
(* The half a step does not touch.  Versions given out stay given out.     *)
(***************************************************************************)
LEMMA ProxiesStay ==
    ASSUME ProxyInv, UNCHANGED proxies, stamps \in Nat, stamps' \in Nat, stamps <= stamps'
    PROVE  ProxyInv'
<1>1. Policies \subseteq Policies'
  BY DEF Policies
<1>2. ProxyTypes'
  BY <1>1 DEF ProxyInv, ProxyTypes, proxies
<1>3. StoringAgrees' /\ AuthAndRoutingAgree'
  BY DEF ProxyInv, StoringAgrees, AuthAndRoutingAgree, proxies
<1> QED
  BY <1>2, <1>3, Zenon DEF ProxyInv

LEMMA PodsStay == ASSUME PodInv, UNCHANGED <<db, pods>> PROVE PodInv'
<1>1. PodTypes'
  BY DEF PodInv, PodTypes, pods, Policies
<1>2. BuilderHoldsLock' /\ RefreshIsDue' /\ ReadFromDb'
  BY DEF PodInv, BuilderHoldsLock, RefreshIsDue, ReadFromDb, NotAfterBuild, AtLeast, pods
<1> QED
  BY <1>1, <1>2, Zenon DEF PodInv

(***************************************************************************)
(* The control plane's steps.                                              *)
(***************************************************************************)
LEMMA CommitStep ==
    ASSUME PodInv, NEW half \in {"models", "keys"}, Commit(half),
           UNCHANGED <<pub, lock, build, stamps>>,
           due' = due \/ \E p \in Pods : due' = [due EXCEPT ![p] = @ + 1]
    PROVE  PodInv'
<1>1. /\ db' \in [models : 1..MaxModels, keys : 1..MaxKeys]
      /\ db'.models >= db.models /\ db'.keys >= db.keys
  BY DEF PodInv, PodTypes, Commit
<1>2. due' \in [Pods -> Nat] /\ \A p \in Pods : due'[p] >= due[p]
  <2>1. due \in [Pods -> Nat]
    BY DEF PodInv, PodTypes
  <2>2. CASE due' = due
    BY <2>1, <2>2
  <2>3. CASE \E p \in Pods : due' = [due EXCEPT ![p] = @ + 1]
    <3>1. PICK p \in Pods : due' = [due EXCEPT ![p] = @ + 1]
      BY <2>3
    <3> QED
      BY <2>1, <3>1
  <2> QED
    BY <2>2, <2>3
<1>3. PodTypes'
  BY <1>1, <1>2 DEF PodInv, PodTypes, Policies
<1>4. BuilderHoldsLock'
  BY DEF PodInv, BuilderHoldsLock
<1>5. RefreshIsDue'
  BY <1>2 DEF PodInv, PodTypes, RefreshIsDue
<1>6. ReadFromDb'
  BY <1>1 DEF PodInv, PodTypes, ReadFromDb, NotAfterBuild, AtLeast, Policies
<1> QED
  BY <1>3, <1>4, <1>5, <1>6, Zenon DEF PodInv

\* A builder moves on to a view of the database no older than what is published.
LEMMA BuilderMoves ==
    ASSUME PodInv, NEW p \in Pods, NEW b \in Builders,
           NEW at \in {"keys", "built"}, NEW got \in Policies,
           build' = [build EXCEPT ![p][b] = [at |-> at, got |-> got]],
           UNCHANGED <<db, pub, due, stamps>>,
           lock' \in [Pods -> Builders \cup {"free"}], lock'[p] = b,
           \A q \in Pods \ {p} : lock'[q] = lock[q],
           \A c \in Builders \ {b} : build[p][c].at = "idle",
           b = "refresh" => due[p] > 0,
           AtLeast(db, got), pub[p].models <= got.models,
           at = "built" => pub[p].keys <= got.keys
    PROVE  PodInv'
<1>1. /\ build'[p][b].at = at /\ build'[p][b].got = got
      /\ \A c \in Builders \ {b} : build'[p][c] = build[p][c]
      /\ \A q \in Pods \ {p} : build'[q] = build[q]
  BY DEF PodInv, PodTypes
<1>2. PodTypes'
  BY DEF PodInv, PodTypes, Policies
<1>3. BuilderHoldsLock'
  BY <1>1 DEF PodInv, BuilderHoldsLock
<1>4. RefreshIsDue'
  BY <1>1 DEF PodInv, RefreshIsDue, Builders
<1>5. ReadFromDb'
  <2> SUFFICES ASSUME NEW q \in Pods
               PROVE  /\ AtLeast(db, pub[q])
                      /\ \A c \in Builders : /\ AtLeast(db, build'[q][c].got)
                                             /\ NotAfterBuild(pub[q], q, c)'
    BY DEF ReadFromDb, AtLeast, NotAfterBuild
  <2>1. CASE q = p
    BY <1>1, <2>1 DEF PodInv, ReadFromDb, NotAfterBuild, AtLeast
  <2>2. CASE q # p
    BY <1>1, <2>2 DEF PodInv, ReadFromDb, NotAfterBuild, AtLeast
  <2> QED
    BY <2>1, <2>2
<1> QED
  BY <1>2, <1>3, <1>4, <1>5, Zenon DEF PodInv

LEMMA BuildBeginStep ==
    ASSUME PodInv, NEW p \in Pods, NEW b \in Builders, BuildBegin(p, b)
    PROVE  PodInv'
<1> DEFINE got == [Nothing EXCEPT !.models = db.models]
<1>1. got \in Policies /\ AtLeast(db, got) /\ pub[p].models <= got.models
  <2>1. /\ db.models \in 1..MaxModels /\ db.keys \in 1..MaxKeys /\ stamps \in Nat
        /\ pub[p] \in Policies
    BY DEF PodInv, PodTypes
  <2>2. got = [models |-> db.models, keys |-> 0, version |-> 0]
    BY DEF Nothing
  <2>3. pub[p].models <= db.models
    BY <2>1, PolicyParts DEF PodInv, ReadFromDb, AtLeast
  <2> QED
    BY <2>1, <2>2, <2>3 DEF AtLeast, Policies
<1>2. \A c \in Builders : build[p][c].at = "idle"
  BY DEF PodInv, BuilderHoldsLock, BuildBegin, Builders
<1>3. /\ lock' \in [Pods -> Builders \cup {"free"}] /\ lock'[p] = b
      /\ \A q \in Pods \ {p} : lock'[q] = lock[q]
  BY DEF PodInv, PodTypes, BuildBegin
<1>4. b = "refresh" => due[p] > 0
  BY DEF BuildBegin, Wanted
<1>5. /\ build' = [build EXCEPT ![p][b] = [at |-> "keys", got |-> got]]
      /\ UNCHANGED <<db, pub, due, stamps>>
  BY DEF BuildBegin
<1> HIDE DEF got
<1> QED
  BY <1>1, <1>2, <1>3, <1>4, <1>5, BuilderMoves

LEMMA BuildKeysStep ==
    ASSUME PodInv, NEW p \in Pods, NEW b \in Builders, BuildKeys(p, b)
    PROVE  PodInv'
<1> DEFINE got == [build[p][b].got EXCEPT !.keys = db.keys]
<1>0. /\ db.models \in 1..MaxModels /\ db.keys \in 1..MaxKeys /\ stamps \in Nat
      /\ build[p][b] = [at |-> build[p][b].at, got |-> build[p][b].got]
      /\ build[p][b].got \in Policies /\ pub[p] \in Policies
  BY BuildParts DEF PodInv, PodTypes
<1>1. /\ got \in Policies /\ got.models = build[p][b].got.models /\ got.keys = db.keys
  BY <1>0 DEF Policies
<1>2. AtLeast(db, got) /\ pub[p].models <= got.models /\ pub[p].keys <= got.keys
  <2>1. /\ AtLeast(db, build[p][b].got) /\ AtLeast(db, pub[p])
        /\ pub[p].models <= build[p][b].got.models
    BY DEF PodInv, ReadFromDb, NotAfterBuild, BuildKeys
  <2> HIDE DEF got
  <2> QED
    BY <1>0, <1>1, <2>1, PolicyParts DEF AtLeast
<1>3. lock[p] = b /\ \A c \in Builders \ {b} : build[p][c].at = "idle"
  BY DEF PodInv, BuilderHoldsLock, BuildKeys
<1>4. b = "refresh" => due[p] > 0
  BY DEF PodInv, RefreshIsDue, BuildKeys
<1>5. /\ build' = [build EXCEPT ![p][b] = [at |-> "built", got |-> got]]
      /\ UNCHANGED <<db, pub, due, stamps, lock>>
  BY DEF BuildKeys, PodInv, PodTypes
<1>6. lock' \in [Pods -> Builders \cup {"free"}]
  BY <1>5 DEF PodInv, PodTypes
<1> HIDE DEF got
<1> QED
  BY <1>1, <1>2, <1>3, <1>4, <1>5, <1>6, BuilderMoves

\* The pod's builders fall idle, and what is published was in the database.
LEMMA BuildersRest ==
    ASSUME PodInv, NEW p \in Pods,
           stamps' \in Nat, stamps <= stamps', UNCHANGED db,
           pub' \in [Pods -> Policies'], AtLeast(db, pub'[p]),
           \A q \in Pods \ {p} : pub'[q] = pub[q] /\ lock'[q] = lock[q]
                                 /\ build'[q] = build[q] /\ due'[q] = due[q],
           \A c \in Builders : build'[p][c].at = "idle" /\ AtLeast(db, build'[p][c].got),
           build' \in [Pods -> [Builders -> [at : {"idle", "keys", "built"}, got : Policies']]],
           lock' \in [Pods -> Builders \cup {"free"}], due' \in [Pods -> Nat]
    PROVE  PodInv'
<1>1. PodTypes'
  BY DEF PodInv, PodTypes
<1>2. BuilderHoldsLock' /\ RefreshIsDue'
  <2>1. \A q \in Pods, c \in Builders :
          build'[q][c].at # "idle" =>
             q # p /\ build[q][c].at # "idle" /\ lock'[q] = lock[q] /\ due'[q] = due[q]
    OBVIOUS
  <2> QED
    BY <2>1 DEF PodInv, BuilderHoldsLock, RefreshIsDue, Builders
<1>3. ReadFromDb'
  <2> SUFFICES ASSUME NEW q \in Pods
               PROVE  /\ AtLeast(db, pub'[q])
                      /\ \A c \in Builders : /\ AtLeast(db, build'[q][c].got)
                                             /\ NotAfterBuild(pub[q], q, c)'
    BY DEF ReadFromDb, AtLeast, NotAfterBuild
  <2>1. CASE q = p
    BY <2>1 DEF NotAfterBuild, AtLeast
  <2>2. CASE q # p
    BY <2>2 DEF PodInv, ReadFromDb, NotAfterBuild, AtLeast
  <2> QED
    BY <2>1, <2>2
<1> QED
  BY <1>1, <1>2, <1>3, Zenon DEF PodInv

LEMMA DoneRests ==
    ASSUME PodInv, NEW p \in Pods, NEW b \in Builders, build[p][b].at # "idle", Done(p, b),
           stamps' \in Nat, stamps <= stamps'
    PROVE  /\ \A q \in Pods \ {p} : lock'[q] = lock[q] /\ build'[q] = build[q]
                                    /\ due'[q] = due[q]
           /\ \A c \in Builders : build'[p][c].at = "idle" /\ AtLeast(db, build'[p][c].got)
           /\ build' \in [Pods -> [Builders -> [at : {"idle", "keys", "built"},
                                                got : Policies']]]
           /\ lock' \in [Pods -> Builders \cup {"free"}] /\ due' \in [Pods -> Nat]
<1>1. \A c \in Builders \ {b} : build[p][c].at = "idle"
  BY DEF PodInv, BuilderHoldsLock
<1>2. /\ build'[p][b] = Idle /\ \A c \in Builders \ {b} : build'[p][c] = build[p][c]
      /\ \A q \in Pods \ {p} : lock'[q] = lock[q] /\ build'[q] = build[q]
  BY DEF PodInv, PodTypes, Done
<1>3. Idle \in [at : {"idle", "keys", "built"}, got : Policies'] /\ Policies \subseteq Policies'
  BY DEF Idle, Nothing, Policies, PodInv, PodTypes
<1>4. build' \in [Pods -> [Builders -> [at : {"idle", "keys", "built"}, got : Policies']]]
  <2>1. build \in [Pods -> [Builders -> [at : {"idle", "keys", "built"}, got : Policies']]]
    BY <1>3 DEF PodInv, PodTypes
  <2> QED
    BY <1>3, <2>1 DEF Done
<1>5. lock' \in [Pods -> Builders \cup {"free"}]
  BY DEF PodInv, PodTypes, Done
<1>6. due' \in [Pods -> Nat] /\ \A q \in Pods \ {p} : due'[q] = due[q]
  BY DEF PodInv, PodTypes, RefreshIsDue, Done
<1>7. \A c \in Builders : build'[p][c].at = "idle" /\ AtLeast(db, build'[p][c].got)
  <2>1. Idle.at = "idle" /\ AtLeast(db, Idle.got)
    <3>1. db.models \in Nat /\ db.keys \in Nat
      BY DEF PodInv, PodTypes
    <3> QED
      BY <3>1 DEF Idle, AtLeast, Nothing
  <2>2. \A c \in Builders : AtLeast(db, build[p][c].got)
    BY Zenon DEF PodInv, ReadFromDb
  <2> SUFFICES ASSUME NEW c \in Builders
               PROVE  build'[p][c].at = "idle" /\ AtLeast(db, build'[p][c].got)
    OBVIOUS
  <2>3. CASE c = b
    BY <1>2, <2>1, <2>3, Zenon
  <2>4. CASE c # b
    BY <1>1, <1>2, <2>2, <2>4
  <2> QED
    BY <2>3, <2>4
<1> QED
  BY <1>2, <1>4, <1>5, <1>6, <1>7

LEMMA PublishStep ==
    ASSUME PodInv, NEW p \in Pods, NEW b \in Builders, Publish(p, b)
    PROVE  PodInv' /\ AtLeast(pub'[p], pub[p]) /\ stamps' \in Nat /\ stamps <= stamps'
<1>1. /\ build[p][b].got \in Policies /\ pub[p] \in Policies
      /\ AtLeast(db, build[p][b].got) /\ AtLeast(build[p][b].got, pub[p])
      /\ AtLeast(db, pub[p])
  BY DEF PodInv, PodTypes, ReadFromDb, NotAfterBuild, AtLeast, Publish, Policies
<1> DEFINE new == [build[p][b].got EXCEPT !.version = Stamp(p)]
<1>2. \/ UNCHANGED <<pub, stamps>>
      \/ pub' = [pub EXCEPT ![p] = new] /\ stamps' = stamps + 1
  BY DEF Publish, Stamp
<1>3. stamps' \in Nat /\ stamps <= stamps' /\ Policies \subseteq Policies'
  BY <1>2 DEF PodInv, PodTypes, Policies
<1>4. /\ pub' \in [Pods -> Policies'] /\ AtLeast(db, pub'[p]) /\ AtLeast(pub'[p], pub[p])
      /\ \A q \in Pods \ {p} : pub'[q] = pub[q]
  <2>1. CASE UNCHANGED <<pub, stamps>>
    BY <1>1, <1>3, <2>1 DEF PodInv, PodTypes, AtLeast, Policies
  <2>2. CASE pub' = [pub EXCEPT ![p] = new] /\ stamps' = stamps + 1
    <3>1. /\ new \in Policies' /\ new.models = build[p][b].got.models
          /\ new.keys = build[p][b].got.keys
      <4>1. new = [models |-> build[p][b].got.models, keys |-> build[p][b].got.keys,
                   version |-> stamps + 1] /\ stamps \in Nat
        BY <1>1 DEF PodInv, PodTypes, Policies, Stamp
      <4> QED
        BY <1>1, <2>2, <4>1 DEF Policies
    <3> HIDE DEF new
    <3> QED
      BY <1>1, <1>3, <2>2, <3>1 DEF PodInv, PodTypes, AtLeast
  <2> QED
    BY <1>2, <2>1, <2>2
<1>5. build[p][b].at # "idle" /\ Done(p, b) /\ UNCHANGED db
  BY DEF Publish
<1> HIDE DEF new
<1> QED
  BY <1>3, <1>4, <1>5, DoneRests, BuildersRest

LEMMA BuildFailsStep ==
    ASSUME PodInv, NEW p \in Pods, NEW b \in Builders, BuildFails(p, b)
    PROVE  PodInv'
<1>1. /\ stamps' = stamps /\ stamps \in Nat /\ pub' = pub
      /\ build[p][b].at # "idle" /\ Done(p, b) /\ UNCHANGED db
  BY DEF BuildFails, PodInv, PodTypes
<1>2. pub' \in [Pods -> Policies'] /\ AtLeast(db, pub'[p])
  <2>1. Policies' = Policies
    BY <1>1 DEF Policies
  <2> QED
    BY <1>1, <2>1 DEF PodInv, PodTypes, ReadFromDb
<1>3. stamps' \in Nat /\ stamps <= stamps'
  BY <1>1
<1>4. \A q \in Pods \ {p} : pub'[q] = pub[q]
  BY <1>1
<1> QED
  BY <1>1, <1>2, <1>3, <1>4, DoneRests, BuildersRest

LEMMA PodRestartStep ==
    ASSUME PodInv, NEW p \in Pods, PodRestart(p)
    PROVE  PodInv'
<1>1. /\ stamps' = stamps /\ stamps \in Nat /\ UNCHANGED db /\ Policies' = Policies
      /\ Nothing \in Policies /\ Nothing.models = 0 /\ Nothing.keys = 0
  BY DEF PodRestart, PodInv, PodTypes, Policies, Nothing
<1>2. /\ pub' \in [Pods -> Policies'] /\ AtLeast(db, pub'[p])
      /\ \A q \in Pods \ {p} : pub'[q] = pub[q]
  BY <1>1 DEF PodRestart, PodInv, PodTypes, AtLeast
<1>3. /\ lock' \in [Pods -> Builders \cup {"free"}] /\ due' \in [Pods -> Nat]
      /\ \A q \in Pods \ {p} : lock'[q] = lock[q] /\ due'[q] = due[q]
  BY DEF PodRestart, PodInv, PodTypes
<1>4. /\ build' \in [Pods -> [Builders -> [at : {"idle", "keys", "built"}, got : Policies']]]
      /\ \A q \in Pods \ {p} : build'[q] = build[q]
      /\ \A c \in Builders : build'[p][c] = Idle
  BY <1>1 DEF PodRestart, PodInv, PodTypes, Idle
<1>5. \A c \in Builders : build'[p][c].at = "idle" /\ AtLeast(db, build'[p][c].got)
  BY <1>1, <1>4 DEF Idle, AtLeast, PodInv, PodTypes
<1> QED
  BY <1>1, <1>2, <1>3, <1>4, <1>5, BuildersRest

(***************************************************************************)
(* The proxies' steps.                                                     *)
(***************************************************************************)
LEMMA PollParts ==
    ASSUME ProxyTypes, stamps \in Nat, NEW x \in Proxies
    PROVE  /\ poll[x] = [at |-> poll[x].at, got |-> poll[x].got]
           /\ poll[x].got \in Policies /\ poll[x].at \in Places
           /\ snap[x] \in Policies /\ disk[x] \in Policies
           /\ poll[x].got.models \in 0..MaxModels
BY DEF ProxyTypes, Policies

\* One proxy moves: the others are as they were.
LEMMA ProxyMoves ==
    ASSUME ProxyInv, UNCHANGED stamps, NEW x \in Proxies,
           mode' \in [Proxies -> {"starting", "up"}], snap' \in [Proxies -> Policies],
           reg' \in [Proxies -> 0..MaxModels], disk' \in [Proxies -> Policies],
           poll' \in [Proxies -> [at : Places, got : Policies]],
           \A y \in Proxies \ {x} : /\ mode'[y] = mode[y] /\ snap'[y] = snap[y]
                                   /\ reg'[y] = reg[y] /\ poll'[y] = poll[y],
           poll'[x].at = "storing" => snap'[x].models = poll'[x].got.models,
           mode'[x] = "up" /\ poll'[x].at # "storing" => reg'[x] = snap'[x].models
    PROVE  ProxyInv'
<1>1. Policies' = Policies
  BY DEF Policies
<1>2. ProxyTypes'
  BY <1>1 DEF ProxyTypes
<1>3. StoringAgrees' /\ AuthAndRoutingAgree'
  BY DEF ProxyInv, StoringAgrees, AuthAndRoutingAgree
<1> QED
  BY <1>2, <1>3, Zenon DEF ProxyInv

\* As above, for a step of its poll alone.
LEMMA PollMoves ==
    ASSUME ProxyInv, UNCHANGED <<stamps, mode, snap, reg>>, NEW x \in Proxies,
           poll[x].at # "storing",
           NEW at \in {"idle", "sent", "got"}, NEW got \in Policies,
           poll' = [poll EXCEPT ![x] = [at |-> at, got |-> got]],
           disk' \in [Proxies -> Policies]
    PROVE  ProxyInv'
<1>1. /\ mode' \in [Proxies -> {"starting", "up"}] /\ snap' \in [Proxies -> Policies]
      /\ reg' \in [Proxies -> 0..MaxModels]
      /\ poll' \in [Proxies -> [at : Places, got : Policies]] /\ poll'[x].at = at
      /\ \A y \in Proxies \ {x} : /\ mode'[y] = mode[y] /\ snap'[y] = snap[y]
                                  /\ reg'[y] = reg[y] /\ poll'[y] = poll[y]
  BY DEF ProxyInv, ProxyTypes, Places
<1>2. mode[x] = "up" => reg[x] = snap[x].models
  BY DEF ProxyInv, AuthAndRoutingAgree
<1> QED
  BY <1>1, <1>2, ProxyMoves

LEMMA NothingTyped == stamps \in Nat => Nothing \in Policies
BY DEF Nothing, Policies

LEMMA PollSendStep ==
    ASSUME ProxyInv, stamps \in Nat, NEW x \in Proxies, PollSend(x)
    PROVE  ProxyInv'
<1>1. /\ UNCHANGED <<stamps, mode, snap, reg>> /\ disk' = disk /\ poll[x].at = "idle"
  BY DEF PollSend, pods
<1>2. PICK got \in Policies : poll' = [poll EXCEPT ![x] = [at |-> "sent", got |-> got]]
  BY NothingTyped DEF PollSend, ProxyInv, ProxyTypes
<1>3. disk' \in [Proxies -> Policies]
  BY <1>1 DEF ProxyInv, ProxyTypes
<1> QED
  BY <1>1, <1>2, <1>3, PollMoves

\* write_cache puts the snapshot on disk or leaves the disk alone.
LEMMA WriteCacheTyped ==
    ASSUME ProxyTypes, NEW x \in Proxies, NEW s \in Policies, WriteCache(x, s)
    PROVE  disk' \in [Proxies -> Policies]
<1>1. disk' \in {disk, [disk EXCEPT ![x] = s]}
  BY Zenon DEF WriteCache
<1> QED
  BY <1>1 DEF ProxyTypes

LEMMA PollServeStep ==
    ASSUME ProxyInv, stamps \in Nat, NEW x \in Proxies, NEW p \in Pods, pub[p] \in Policies,
           PollServe(x, p)
    PROVE  ProxyInv'
<1>1. UNCHANGED <<stamps, mode, snap, reg>> /\ poll[x].at = "sent"
  BY DEF PollServe, pods
<1>2. CASE poll' = [poll EXCEPT ![x] = Idle] /\ UNCHANGED disk
  <2>1. disk' \in [Proxies -> Policies]
    BY <1>2 DEF ProxyInv, ProxyTypes
  <2> QED
    BY <1>1, <1>2, <2>1, NothingTyped, PollMoves DEF Idle
<1>3. CASE poll' = [poll EXCEPT ![x] = [at |-> "got", got |-> pub[p]]] /\ WriteCache(x, pub[p])
  <2>1. disk' \in [Proxies -> Policies]
    BY <1>3, WriteCacheTyped, Zenon DEF ProxyInv
  <2> QED
    BY <1>1, <1>3, <2>1, PollMoves
<1> QED
  BY <1>2, <1>3 DEF PollServe

LEMMA PollFailsStep ==
    ASSUME ProxyInv, stamps \in Nat, NEW x \in Proxies, PollFails(x)
    PROVE  ProxyInv'
<1>1. UNCHANGED <<stamps, mode, snap, reg>> /\ disk' = disk /\ poll[x].at = "sent"
  BY DEF PollFails, pods
<1>2. disk[x] \in Policies /\ disk' \in [Proxies -> Policies]
  BY <1>1 DEF ProxyInv, ProxyTypes
<1>3. CASE poll' = [poll EXCEPT ![x] = Idle]
  BY <1>1, <1>2, <1>3, NothingTyped, PollMoves DEF Idle
<1>4. CASE poll' = [poll EXCEPT ![x] = [at |-> "got", got |-> disk[x]]]
  BY <1>1, <1>2, <1>4, PollMoves
<1> QED
  BY <1>3, <1>4 DEF PollFails, LoadCached

LEMMA ApplyStep ==
    ASSUME ProxyInv, stamps \in Nat, NEW x \in Proxies, Apply(x)
    PROVE  ProxyInv'
<1>1. /\ UNCHANGED <<stamps, mode, reg>> /\ disk' = disk
      /\ poll[x].at = "got" /\ mode[x] = "up" /\ poll[x].got \in Policies
  BY PollParts DEF Apply, pods, ProxyInv
<1>2. /\ reg[x] = snap[x].models /\ Idle \in [at : Places, got : Policies]
      /\ Idle.at = "idle" /\ disk' \in [Proxies -> Policies]
  BY <1>1, NothingTyped DEF ProxyInv, ProxyTypes, AuthAndRoutingAgree, Idle, Places
<1>3. CASE /\ SamePolicy(poll[x].got, snap[x]) /\ snap' = [snap EXCEPT ![x] = poll[x].got]
           /\ poll' = [poll EXCEPT ![x] = Idle]
  <2>1. /\ snap' \in [Proxies -> Policies] /\ snap'[x] = poll[x].got /\ poll'[x] = Idle
        /\ poll' \in [Proxies -> [at : Places, got : Policies]]
        /\ \A y \in Proxies \ {x} : snap'[y] = snap[y] /\ poll'[y] = poll[y]
    BY <1>1, <1>2, <1>3 DEF ProxyInv, ProxyTypes
  <2> QED
    BY <1>1, <1>2, <1>3, <2>1, ProxyMoves DEF ProxyInv, ProxyTypes, SamePolicy
<1>4. CASE snap' = snap /\ poll' = [poll EXCEPT ![x] = Idle]
  BY <1>1, <1>2, <1>4, NothingTyped, PollMoves DEF Idle
<1>5. CASE snap' = [snap EXCEPT ![x] = poll[x].got] /\ poll' = [poll EXCEPT ![x].at = "storing"]
  <2>1. /\ snap' \in [Proxies -> Policies] /\ snap'[x] = poll[x].got
        /\ poll'[x].at = "storing" /\ poll'[x].got = poll[x].got
        /\ poll' \in [Proxies -> [at : Places, got : Policies]]
        /\ \A y \in Proxies \ {x} : snap'[y] = snap[y] /\ poll'[y] = poll[y]
    BY <1>1, <1>5 DEF ProxyInv, ProxyTypes, Places
  <2> QED
    BY <1>1, <1>2, <2>1, ProxyMoves DEF ProxyInv, ProxyTypes
<1> QED
  BY <1>3, <1>4, <1>5 DEF Apply

LEMMA StoreRegistryStep ==
    ASSUME ProxyInv, stamps \in Nat, NEW x \in Proxies, StoreRegistry(x)
    PROVE  ProxyInv'
<1>1. /\ UNCHANGED <<stamps, mode, snap, disk>>
      /\ reg' = [reg EXCEPT ![x] = poll[x].got.models]
      /\ poll' = [poll EXCEPT ![x] = Idle] /\ poll[x].at = "storing"
  BY DEF StoreRegistry, pods
<1>2. poll[x].got.models \in 0..MaxModels /\ poll[x].got.models = snap[x].models
  BY <1>1, PollParts DEF ProxyInv, StoringAgrees
<1>3. Idle \in [at : Places, got : Policies] /\ Idle.at = "idle"
  BY NothingTyped DEF Idle, Places
<1>4. /\ reg' \in [Proxies -> 0..MaxModels] /\ reg'[x] = snap[x].models /\ poll'[x] = Idle
      /\ poll' \in [Proxies -> [at : Places, got : Policies]]
      /\ \A y \in Proxies \ {x} : reg'[y] = reg[y] /\ poll'[y] = poll[y]
  BY <1>1, <1>2, <1>3 DEF ProxyInv, ProxyTypes
<1> QED
  BY <1>1, <1>3, <1>4, ProxyMoves DEF ProxyInv, ProxyTypes

LEMMA BootStep ==
    ASSUME ProxyInv, stamps \in Nat, NEW x \in Proxies, Boot(x)
    PROVE  ProxyInv'
<1>1. /\ UNCHANGED <<stamps, disk>> /\ mode[x] = "starting" /\ poll[x].at = "got"
      /\ poll' = [poll EXCEPT ![x] = Idle] /\ poll[x].got \in Policies
      /\ poll[x].got.models \in 0..MaxModels
  BY PollParts DEF Boot, pods, ProxyInv
<1>2. Idle \in [at : Places, got : Policies] /\ Idle.at = "idle"
  BY NothingTyped DEF Idle, Places
<1>3. /\ poll'[x] = Idle /\ poll' \in [Proxies -> [at : Places, got : Policies]]
      /\ \A y \in Proxies \ {x} : poll'[y] = poll[y]
      /\ disk' \in [Proxies -> Policies]
  BY <1>1, <1>2 DEF ProxyInv, ProxyTypes
<1>4. CASE /\ mode' = [mode EXCEPT ![x] = "up"] /\ snap' = [snap EXCEPT ![x] = poll[x].got]
           /\ reg' = [reg EXCEPT ![x] = poll[x].got.models]
  <2>1. /\ mode' \in [Proxies -> {"starting", "up"}] /\ snap' \in [Proxies -> Policies]
        /\ reg' \in [Proxies -> 0..MaxModels] /\ reg'[x] = snap'[x].models
        /\ \A y \in Proxies \ {x} : mode'[y] = mode[y] /\ snap'[y] = snap[y] /\ reg'[y] = reg[y]
    BY <1>1, <1>4 DEF ProxyInv, ProxyTypes
  <2> QED
    BY <1>1, <1>2, <1>3, <2>1, ProxyMoves
<1>5. CASE UNCHANGED <<mode, snap, reg>>
  BY <1>1, <1>3, <1>5, NothingTyped, PollMoves DEF Idle
<1> QED
  BY <1>4, <1>5 DEF Boot

LEMMA ProxyCrashStep ==
    ASSUME ProxyInv, stamps \in Nat, NEW x \in Proxies, ProxyCrash(x)
    PROVE  ProxyInv'
<1>1. /\ UNCHANGED <<stamps, snap, reg, disk>>
      /\ mode' = [mode EXCEPT ![x] = "starting"] /\ poll' = [poll EXCEPT ![x] = Idle]
  BY DEF ProxyCrash, pods
<1>2. Idle \in [at : Places, got : Policies] /\ Idle.at = "idle"
  BY NothingTyped DEF Idle, Places
<1>3. /\ poll'[x] = Idle /\ poll' \in [Proxies -> [at : Places, got : Policies]]
      /\ mode'[x] = "starting" /\ mode' \in [Proxies -> {"starting", "up"}]
      /\ \A y \in Proxies \ {x} : poll'[y] = poll[y] /\ mode'[y] = mode[y]
  BY <1>1, <1>2 DEF ProxyInv, ProxyTypes
<1> QED
  BY <1>1, <1>2, <1>3, ProxyMoves DEF ProxyInv, ProxyTypes

(***************************************************************************)
(* Every step is one of these.                                             *)
(***************************************************************************)
PodStep(p, b) == BuildBegin(p, b) \/ BuildKeys(p, b) \/ Publish(p, b) \/ BuildFails(p, b)

ControlStep ==
    \/ \E half \in {"models", "keys"} :
          OutsideWrite(half) \/ \E p \in Pods : AdminWrite(p, half)
    \/ \E p \in Pods : PodRestart(p) \/ \E b \in Builders : PodStep(p, b)

ProxyStep(x) ==
    \/ PollSend(x) \/ (\E p \in Pods : PollServe(x, p)) \/ PollFails(x)
    \/ Apply(x) \/ StoreRegistry(x) \/ Boot(x) \/ ProxyCrash(x)

LEMMA StepKinds == Next => ControlStep \/ \E x \in Proxies : ProxyStep(x)
BY Zenon DEF Next, ControlStep, ProxyStep, PodStep, BuildStep, PollStep

LEMMA ControlFrame ==
    ControlStep => UNCHANGED <<proxies, writable>> /\ (faults' = faults \/ Fault)
<1> SUFFICES ASSUME ControlStep PROVE UNCHANGED <<proxies, writable>> /\ (faults' = faults \/ Fault)
  OBVIOUS
<1>1. CASE \E half \in {"models", "keys"} :
             OutsideWrite(half) \/ \E p \in Pods : AdminWrite(p, half)
  BY <1>1, Zenon DEF OutsideWrite, AdminWrite
<1>2. CASE \E p \in Pods : PodRestart(p) \/ \E b \in Builders : PodStep(p, b)
  BY <1>2, Zenon DEF PodRestart, PodStep, BuildBegin, BuildKeys, Publish, BuildFails
<1> QED
  BY <1>1, <1>2, Zenon DEF ControlStep

LEMMA ProxyFrame ==
    ASSUME NEW x \in Proxies, ProxyStep(x)
    PROVE  UNCHANGED <<db, pods, writable>> /\ (faults' = faults \/ Fault)
BY Zenon DEF ProxyStep, PollSend, PollServe, PollFails, Apply, StoreRegistry, Boot, ProxyCrash

LEMMA ControlStepInv ==
    ASSUME PodInv, ControlStep
    PROVE  PodInv' /\ stamps' \in Nat /\ stamps <= stamps'
<1>0. stamps \in Nat
  BY DEF PodInv, PodTypes
<1>1. ASSUME NEW half \in {"models", "keys"}, OutsideWrite(half)
      PROVE  PodInv' /\ stamps' = stamps
  BY <1>1, CommitStep, Zenon DEF OutsideWrite, pods
<1>2. ASSUME NEW half \in {"models", "keys"}, NEW p \in Pods, AdminWrite(p, half)
      PROVE  PodInv' /\ stamps' = stamps
  BY <1>2, CommitStep, Zenon DEF AdminWrite
<1>3. ASSUME NEW p \in Pods, PodRestart(p) PROVE PodInv' /\ stamps' = stamps
  BY <1>3, PodRestartStep, Zenon DEF PodRestart
<1>4. ASSUME NEW p \in Pods, NEW b \in Builders, PodStep(p, b)
      PROVE  PodInv' /\ stamps' \in Nat /\ stamps <= stamps'
  <2>1. CASE BuildBegin(p, b) \/ BuildKeys(p, b) \/ BuildFails(p, b)
    <3>1. PodInv' /\ stamps' = stamps
      BY <2>1, BuildBeginStep, BuildKeysStep, BuildFailsStep, Zenon
         DEF BuildBegin, BuildKeys, BuildFails
    <3> QED
      BY <1>0, <3>1
  <2>2. CASE Publish(p, b)
    BY <2>2, PublishStep, Zenon
  <2> QED
    BY <1>4, <2>1, <2>2, Zenon DEF PodStep
<1>5. ASSUME PodInv', stamps' = stamps PROVE PodInv' /\ stamps' \in Nat /\ stamps <= stamps'
  BY <1>0, <1>5
<1> QED
  BY <1>1, <1>2, <1>3, <1>4, <1>5, Zenon DEF ControlStep

LEMMA ProxyStepInv ==
    ASSUME PodInv, ProxyInv, NEW x \in Proxies, ProxyStep(x)
    PROVE  PodInv' /\ ProxyInv'
<1>1. stamps \in Nat /\ \A p \in Pods : pub[p] \in Policies
  BY DEF PodInv, PodTypes
<1>2. PodInv'
  BY ProxyFrame, PodsStay, Zenon
<1>3. ProxyInv'
  BY <1>1, PollSendStep, PollServeStep, PollFailsStep, ApplyStep, StoreRegistryStep, BootStep,
     ProxyCrashStep, Zenon DEF ProxyStep
<1> QED
  BY <1>2, <1>3

\* IInv is inductive.
LEMMA NextIInv == ASSUME IInv, [Next]_vars PROVE IInv'
<1>1. PodInv /\ ProxyInv /\ writable \in BOOLEAN /\ faults \in 0..MaxFaults
  BY IInvHalves, Zenon
<1>2. stamps \in Nat
  BY <1>1 DEF PodInv, PodTypes
<1>3. ASSUME faults' = faults \/ Fault PROVE faults' \in 0..MaxFaults
  BY <1>1, <1>3 DEF Fault
<1>4. CASE ControlStep
  <2>1. PodInv' /\ stamps' \in Nat /\ stamps <= stamps'
    BY <1>1, <1>4, ControlStepInv, Zenon
  <2>2. ProxyInv'
    BY <1>1, <1>2, <1>4, <2>1, ControlFrame, ProxiesStay, Zenon
  <2>3. writable' \in BOOLEAN /\ faults' \in 0..MaxFaults
    BY <1>1, <1>3, <1>4, ControlFrame, Zenon
  <2> QED
    BY <2>1, <2>2, <2>3, Zenon DEF IInv, TypeOK, PodInv, ProxyInv, PodTypes, ProxyTypes, Places
<1>5. CASE \E x \in Proxies : ProxyStep(x)
  <2>1. PodInv' /\ ProxyInv'
    BY <1>1, <1>5, ProxyStepInv, Zenon
  <2>2. writable' \in BOOLEAN /\ faults' \in 0..MaxFaults
    BY <1>1, <1>3, <1>5, ProxyFrame, Zenon
  <2> QED
    BY <2>1, <2>2, Zenon DEF IInv, TypeOK, PodInv, ProxyInv, PodTypes, ProxyTypes, Places
<1>6. CASE UNCHANGED vars
  <2>1. PodInv' /\ ProxyInv'
    BY <1>1, <1>2, <1>6, PodsStay, ProxiesStay DEF vars, pods
  <2>2. writable' \in BOOLEAN /\ faults' \in 0..MaxFaults
    BY <1>1, <1>6, Zenon DEF vars
  <2> QED
    BY <2>1, <2>2, Zenon DEF IInv, TypeOK, PodInv, ProxyInv, PodTypes, ProxyTypes, Places
<1> QED
  BY <1>4, <1>5, <1>6, StepKinds, Zenon

LEMMA Invariance == Spec => []IInv
BY InitIInv, NextIInv, PTL DEF Spec

(***************************************************************************)
(* Types, for any number of pods and proxies: no refresh is taken off the  *)
(* list twice, no version is seen that was not given out (refresh).        *)
(***************************************************************************)
THEOREM PropagationTypeCorrect == Spec => []TypeOK
<1>1. IInv => TypeOK
  BY Zenon DEF IInv
<1> QED
  BY <1>1, Invariance, PTL

(***************************************************************************)
(* A proxy routes by the models of the snapshot it authorises by, whatever *)
(* the control plane publishes and whatever fails (apply_snapshot).        *)
(***************************************************************************)
THEOREM AuthFollowsRouting == Spec => []AuthAndRoutingAgree
<1>1. IInv => AuthAndRoutingAgree
  BY Zenon DEF IInv
<1> QED
  BY <1>1, Invariance, PTL

LEMMA ForwardStep ==
    ASSUME IInv, Next, NEW p \in Pods, pub'[p].version > 0
    PROVE  AtLeast(pub'[p], pub[p])
<1>1. PodInv /\ pub[p] \in Policies /\ stamps \in Nat
  BY IInvHalves, Zenon DEF PodInv, PodTypes
<1>2. AtLeast(pub[p], pub[p])
  BY <1>1, PolicyParts DEF AtLeast
<1>3. CASE pub' = pub
  BY <1>2, <1>3, Zenon
<1>4. ASSUME NEW q \in Pods, PodRestart(q) PROVE AtLeast(pub'[p], pub[p])
  <2>1. CASE q = p
    <3>1. pub'[p] = Nothing
      BY <1>1, <1>4, <2>1 DEF PodRestart, PodInv, PodTypes
    <3> QED
      BY <3>1 DEF Nothing
  <2>2. CASE q # p
    <3>1. pub'[p] = pub[p]
      BY <1>1, <1>4, <2>2 DEF PodRestart, PodInv, PodTypes
    <3> QED
      BY <1>2, <3>1, Zenon
  <2> QED
    BY <2>1, <2>2
<1>5. ASSUME NEW q \in Pods, NEW b \in Builders, Publish(q, b) PROVE AtLeast(pub'[p], pub[p])
  <2>1. CASE q = p
    BY <1>1, <1>5, <2>1, PublishStep, Zenon
  <2>2. CASE q # p
    <3>1. pub'[p] = pub[p]
      BY <1>1, <1>5, <2>2 DEF Publish, PodInv, PodTypes
    <3> QED
      BY <1>2, <3>1, Zenon
  <2> QED
    BY <2>1, <2>2
<1>6. CASE ControlStep
  BY <1>3, <1>4, <1>5, <1>6, Zenon
     DEF ControlStep, PodStep, OutsideWrite, AdminWrite, BuildBegin, BuildKeys, BuildFails, pods
<1>7. CASE \E x \in Proxies : ProxyStep(x)
  BY <1>3, <1>7, ProxyFrame, Zenon DEF pods
<1> QED
  BY <1>6, <1>7, StepKinds, Zenon

(***************************************************************************)
(* A pod never publishes an older view over a newer one (PUBLISH, refresh, *)
(* rebuild_once).                                                          *)
(***************************************************************************)
THEOREM NeverPublishesBackwards == Spec => PublishedOnlyForward
<1>1. ASSUME IInv, [Next]_vars
      PROVE  [\A p \in Pods : pub'[p].version > 0 => AtLeast(pub'[p], pub[p])]_vars
  BY <1>1, ForwardStep, Zenon
<1> QED
  BY <1>1, Invariance, PTL DEF Spec, PublishedOnlyForward

(***************************************************************************)
(* One pod.  What nothing a pod will serve is older than stays so: builds  *)
(* read the database, and only what they have read is published.           *)
(***************************************************************************)
LEMMA BuildNumbers ==
    ASSUME PodTypes, NEW p \in Pods, NEW b \in Builders
    PROVE  build[p][b].got.models \in Nat /\ build[p][b].got.keys \in Nat
BY DEF PodTypes, Policies

LEMMA NothingSuperseded == PodInv => Superseded(Nothing)
<1> SUFFICES ASSUME PodInv PROVE Superseded(Nothing)
  OBVIOUS
<1>1. stamps \in Nat /\ db.models \in Nat /\ db.keys \in Nat
  BY DEF PodInv, PodTypes
<1>2. \A p \in Pods : pub[p].models \in Nat /\ pub[p].keys \in Nat
  BY <1>1, PolicyParts DEF PodInv, PodTypes
<1>3. \A p \in Pods, b \in Builders : build[p][b].got.models \in Nat /\ build[p][b].got.keys \in Nat
  BY BuildNumbers DEF PodInv
<1> QED
  BY <1>1, <1>2, <1>3 DEF Superseded, NotAfterBuild, AtLeast, Nothing

\* s is rigid: the policy a proxy has before the step.
LEMMA SupersededStays ==
    ASSUME PodInv, ControlStep, NEW m \in Nat, NEW k \in Nat,
           NEW s, s.models = m, s.keys = k, Superseded(s)
    PROVE  Superseded(s)'
<1>0. /\ stamps \in Nat /\ db.models \in Nat /\ db.keys \in Nat
      /\ db.models >= m /\ db.keys >= k
  BY DEF PodInv, PodTypes, Superseded, AtLeast
<1>1. ASSUME NEW half \in {"models", "keys"}, Commit(half), UNCHANGED <<pub, build>>
      PROVE  Superseded(s)'
  <2>1. db'.models >= db.models /\ db'.keys >= db.keys
        /\ db'.models \in Nat /\ db'.keys \in Nat
    BY <1>1 DEF Commit, PodInv, PodTypes
  <2> QED
    BY <1>0, <1>1, <2>1 DEF Superseded, NotAfterBuild, AtLeast, Serving
<1>2. ASSUME NEW p \in Pods, UNCHANGED db,
             \A q \in Pods \ {p} : pub'[q] = pub[q] /\ build'[q] = build[q],
             pub'[p].version > 0 => pub'[p].models >= m /\ pub'[p].keys >= k,
             \A b \in Builders : /\ build'[p][b].at # "idle" => m <= build'[p][b].got.models
                                 /\ build'[p][b].at = "built" => k <= build'[p][b].got.keys
      PROVE  Superseded(s)'
  <2> SUFFICES ASSUME NEW q \in Pods
               PROVE  /\ pub'[q].version > 0 => pub'[q].models >= m /\ pub'[q].keys >= k
                      /\ \A b \in Builders :
                            /\ build'[q][b].at # "idle" => m <= build'[q][b].got.models
                            /\ build'[q][b].at = "built" => k <= build'[q][b].got.keys
    BY <1>0, <1>2 DEF Superseded, NotAfterBuild, AtLeast, Serving
  <2>1. CASE q = p
    BY <1>2, <2>1
  <2>2. CASE q # p
    BY <1>2, <2>2 DEF Superseded, NotAfterBuild, AtLeast, Serving
  <2> QED
    BY <2>1, <2>2
<1>3. \A p \in Pods, b \in Builders :
        /\ build[p][b].at # "idle" => m <= build[p][b].got.models
        /\ build[p][b].at = "built" => k <= build[p][b].got.keys
  BY DEF Superseded, NotAfterBuild
<1>4. \A p \in Pods : pub[p].version > 0 => pub[p].models >= m /\ pub[p].keys >= k
  BY DEF Superseded, AtLeast, Serving
<1>5. ASSUME NEW p \in Pods, PodRestart(p) PROVE Superseded(s)'
  <2>1. /\ pub'[p] = Nothing /\ \A b \in Builders : build'[p][b] = Idle
        /\ \A q \in Pods \ {p} : pub'[q] = pub[q] /\ build'[q] = build[q]
        /\ UNCHANGED db
    BY <1>5 DEF PodRestart, PodInv, PodTypes
  <2>2. Nothing.version = 0 /\ Idle.at = "idle"
    BY DEF Nothing, Idle
  <2> QED
    BY <1>2, <2>1, <2>2
<1>6. ASSUME NEW p \in Pods, NEW b \in Builders, BuildBegin(p, b) PROVE Superseded(s)'
  <2>1. /\ build'[p][b].at = "keys" /\ build'[p][b].got.models = db.models
        /\ \A c \in Builders \ {b} : build'[p][c] = build[p][c]
        /\ \A q \in Pods \ {p} : build'[q] = build[q]
        /\ UNCHANGED <<db, pub>>
    BY <1>6 DEF BuildBegin, PodInv, PodTypes, Nothing
  <2> QED
    BY <1>0, <1>2, <1>3, <1>4, <2>1
<1>7. ASSUME NEW p \in Pods, NEW b \in Builders, BuildKeys(p, b) PROVE Superseded(s)'
  <2>1. build[p][b].at = "keys" /\ UNCHANGED <<db, pub>>
    BY <1>7 DEF BuildKeys
  <2>2. /\ build'[p][b].at = "built"
        /\ build'[p][b].got = [build[p][b].got EXCEPT !.keys = db.keys]
        /\ \A c \in Builders \ {b} : build'[p][c] = build[p][c]
        /\ \A q \in Pods \ {p} : build'[q] = build[q]
    BY <1>7 DEF BuildKeys, PodInv, PodTypes
  <2>3. build'[p][b].got.models = build[p][b].got.models /\ build'[p][b].got.keys = db.keys
    BY <1>0, <2>2, BuildParts DEF PodInv, Policies
  <2>4. m <= build[p][b].got.models
    BY <1>3, <2>1
  <2>5. \A c \in Builders : /\ build'[p][c].at # "idle" => m <= build'[p][c].got.models
                            /\ build'[p][c].at = "built" => k <= build'[p][c].got.keys
    BY <1>0, <1>3, <2>2, <2>3, <2>4
  <2> QED
    BY <1>2, <1>4, <2>1, <2>2, <2>5
<1>8. ASSUME NEW p \in Pods, NEW b \in Builders, Done(p, b)
      PROVE  /\ build'[p][b].at = "idle"
             /\ \A c \in Builders \ {b} : build'[p][c] = build[p][c]
             /\ \A q \in Pods \ {p} : build'[q] = build[q]
  BY <1>8 DEF Done, Idle, PodInv, PodTypes
<1>9. ASSUME NEW p \in Pods, NEW b \in Builders, BuildFails(p, b) PROVE Superseded(s)'
  <2>1. UNCHANGED <<db, pub>> /\ Done(p, b)
    BY <1>9 DEF BuildFails
  <2> QED
    BY <1>2, <1>3, <1>4, <1>8, <2>1
<1>10. ASSUME NEW p \in Pods, NEW b \in Builders, Publish(p, b) PROVE Superseded(s)'
  <2>1. /\ UNCHANGED db /\ Done(p, b) /\ build[p][b].at = "built"
        /\ \/ pub' = pub
           \/ pub' = [pub EXCEPT ![p] = [build[p][b].got EXCEPT !.version = Stamp(p)]]
    BY <1>10 DEF Publish
  <2>2. CASE pub' = pub
    BY <1>2, <1>3, <1>4, <1>8, <2>1, <2>2
  <2>3. CASE pub' = [pub EXCEPT ![p] = [build[p][b].got EXCEPT !.version = Stamp(p)]]
    <3>1. /\ pub'[p] = [build[p][b].got EXCEPT !.version = Stamp(p)]
          /\ \A q \in Pods \ {p} : pub'[q] = pub[q]
      BY <2>3 DEF PodInv, PodTypes
    <3>2. pub'[p].models = build[p][b].got.models /\ pub'[p].keys = build[p][b].got.keys
      BY <1>0, <3>1, BuildParts DEF PodInv, Policies
    <3>3. build[p][b].got.models \in Nat /\ build[p][b].got.keys \in Nat
      BY BuildNumbers DEF PodInv
    <3>4. pub'[p].models >= m /\ pub'[p].keys >= k
      BY <1>3, <2>1, <3>2, <3>3
    <3>5. \A c \in Builders : /\ build'[p][c].at # "idle" => m <= build'[p][c].got.models
                              /\ build'[p][c].at = "built" => k <= build'[p][c].got.keys
      BY <1>3, <1>8, <2>1
    <3>6. \A q \in Pods \ {p} : pub'[q] = pub[q] /\ build'[q] = build[q]
      BY <1>8, <2>1, <3>1, Zenon
    <3> QED
      BY <1>2, <2>1, <3>4, <3>5, <3>6, Zenon
  <2> QED
    BY <2>1, <2>2, <2>3
<1> QED
  BY <1>1, <1>5, <1>6, <1>7, <1>9, <1>10, Zenon
     DEF ControlStep, PodStep, OutsideWrite, AdminWrite, pods

\* What a proxy holds has numbers for its halves, so the lemma applies.
LEMMA PolicyStays ==
    ASSUME PodInv, ControlStep, NEW s \in Policies, Superseded(s)
    PROVE  Superseded(s)'
<1>1. s.models \in Nat /\ s.keys \in Nat
  BY DEF Policies
<1> QED
  BY <1>1, SupersededStays, Zenon

LEMMA ControlAhead ==
    ASSUME IInv, OnePodInv, ControlStep
    PROVE  OnePodInv'
<1> SUFFICES ASSUME NEW x \in Proxies PROVE ProxyAhead(x)'
  BY Zenon DEF OnePodInv
<1>1. PodInv /\ ProxyInv /\ ProxyAhead(x)
  BY IInvHalves, Zenon DEF OnePodInv
<1>2. snap[x] \in Policies /\ disk[x] \in Policies /\ poll[x].got \in Policies
  BY <1>1, PollParts DEF ProxyInv, PodInv, PodTypes
<1>3. snap' = snap /\ disk' = disk /\ poll' = poll /\ (writable' <=> writable)
  <2>1. UNCHANGED proxies /\ writable' = writable
    BY ControlFrame
  <2>2. writable' <=> writable
    BY <2>1, Zenon
  <2> QED
    BY <2>1, <2>2 DEF proxies
<1>4. Superseded(snap[x])'
  <2>1. PICK s \in Policies : s = snap[x]
    BY <1>2
  <2>2. Superseded(s)
    BY <1>1, <2>1, Zenon DEF ProxyAhead
  <2>3. Superseded(s)'
    BY <1>1, <2>2, PolicyStays
  <2> QED
    BY <1>3, <2>1, <2>3 DEF Superseded
<1>5. Superseded(disk[x])'
  <2>1. PICK s \in Policies : s = disk[x]
    BY <1>2
  <2>2. Superseded(s)
    BY <1>1, <2>1, Zenon DEF ProxyAhead
  <2>3. Superseded(s)'
    BY <1>1, <2>2, PolicyStays
  <2> QED
    BY <1>3, <2>1, <2>3 DEF Superseded
<1>6. Superseded(poll[x].got)'
  <2>1. PICK s \in Policies : s = poll[x].got
    BY <1>2
  <2>2. Superseded(s)
    BY <1>1, <2>1, Zenon DEF ProxyAhead
  <2>3. Superseded(s)'
    BY <1>1, <2>2, PolicyStays
  <2> QED
    BY <1>3, <2>1, <2>3 DEF Superseded
<1> QED
  BY <1>1, <1>3, <1>4, <1>5, <1>6 DEF ProxyAhead, AtLeast, SamePolicy

\* A proxy's steps: what it takes over was superseded before, or is what the one
\* pod publishes, which is no older than anything superseded.
LEMMA ProxyAheadMoves ==
    ASSUME IInv, OnePodInv, UNCHANGED <<db, pods>>, writable' = writable,
           NEW x \in Proxies,
           \A y \in Proxies \ {x} : snap'[y] = snap[y] /\ disk'[y] = disk[y] /\ poll'[y] = poll[y],
           Superseded(snap'[x]), Superseded(disk'[x]), Superseded(poll'[x].got),
           writable => AtLeast(disk'[x], snap'[x]),
           writable /\ poll'[x].at = "got" => SamePolicy(poll'[x].got, disk'[x])
    PROVE  OnePodInv'
<1> SUFFICES ASSUME NEW y \in Proxies PROVE ProxyAhead(y)'
  BY Zenon DEF OnePodInv
<1>1. ProxyAhead(y)
  BY Zenon DEF OnePodInv
<1>2. writable' <=> writable
  BY Zenon
<1>3. /\ Superseded(snap'[y]) /\ Superseded(disk'[y]) /\ Superseded(poll'[y].got)
      /\ writable => AtLeast(disk'[y], snap'[y])
      /\ writable /\ poll'[y].at = "got" => SamePolicy(poll'[y].got, disk'[y])
  <2>1. CASE y = x
    BY <2>1, Zenon
  <2>2. CASE y # x
    BY <1>1, <2>2, Zenon DEF ProxyAhead
  <2> QED
    BY <2>1, <2>2, Zenon
<1>4. Superseded(snap[y])' /\ Superseded(disk[y])' /\ Superseded(poll[y].got)'
  BY <1>3 DEF Superseded, NotAfterBuild, Serving, AtLeast, pods
<1> QED
  BY <1>2, <1>3, <1>4 DEF ProxyAhead, AtLeast, SamePolicy

LEMMA AtLeastReflexive == \A s \in Policies : AtLeast(s, s)
BY DEF AtLeast, Policies

LEMMA PublishedSuperseded ==
    ASSUME PodInv, NEW p, Pods = {p}, Serving(p)
    PROVE  Superseded(pub[p])
<1>1. stamps \in Nat /\ pub[p] \in Policies
  BY DEF PodInv, PodTypes
<1>2. AtLeast(pub[p], pub[p])
  BY <1>1, AtLeastReflexive, Zenon
<1> QED
  BY <1>2 DEF PodInv, ReadFromDb, Superseded

LEMMA ProxyStepAhead ==
    ASSUME IInv, OnePodInv, NEW p, Pods = {p}, NEW x \in Proxies, ProxyStep(x)
    PROVE  OnePodInv' /\ \A y \in Proxies : writable => AtLeast(snap'[y], snap[y])
<1>1. /\ PodInv /\ ProxyInv /\ ProxyAhead(x) /\ Superseded(Nothing)
      /\ UNCHANGED <<db, pods>> /\ writable' = writable
  BY IInvHalves, NothingSuperseded, ProxyFrame, Zenon DEF OnePodInv
<1>2. /\ snap \in [Proxies -> Policies] /\ disk \in [Proxies -> Policies]
      /\ poll \in [Proxies -> [at : Places, got : Policies]] /\ stamps \in Nat
  BY <1>1 DEF ProxyInv, ProxyTypes, PodInv, PodTypes
<1>3. /\ \A y \in Proxies : AtLeast(snap[y], snap[y])
      /\ Idle.got = Nothing /\ Idle.at = "idle"
  BY <1>2, AtLeastReflexive DEF Idle
<1>4. /\ Superseded(snap[x]) /\ Superseded(disk[x]) /\ Superseded(poll[x].got)
      /\ writable => AtLeast(disk[x], snap[x])
      /\ writable /\ poll[x].at = "got" => SamePolicy(poll[x].got, disk[x])
  BY <1>1, Zenon DEF ProxyAhead
\* The poll alone moves, and to something superseded.
<1>5. ASSUME UNCHANGED <<snap, disk>>, NEW at \in Places, NEW got, Superseded(got),
             poll' = [poll EXCEPT ![x] = [at |-> at, got |-> got]],
             writable /\ at = "got" => SamePolicy(got, disk[x])
      PROVE  OnePodInv' /\ \A y \in Proxies : writable => AtLeast(snap'[y], snap[y])
  <2>1. /\ poll'[x].at = at /\ poll'[x].got = got
        /\ \A y \in Proxies \ {x} : poll'[y] = poll[y]
    BY <1>2, <1>5
  <2>2. snap' = snap /\ disk' = disk
    BY <1>5
  <2>3. OnePodInv'
    BY <1>1, <1>4, <1>5, <2>1, <2>2, ProxyAheadMoves, Zenon
  <2> QED
    BY <1>3, <2>2, <2>3, Zenon
\* The snapshot got is taken over.
<1>6. ASSUME poll[x].at = "got", snap' = [snap EXCEPT ![x] = poll[x].got], disk' = disk,
             \A y \in Proxies \ {x} : poll'[y] = poll[y],
             poll'[x].at # "got", poll'[x].got \in {Nothing, poll[x].got}
      PROVE  OnePodInv' /\ \A y \in Proxies : writable => AtLeast(snap'[y], snap[y])
  <2>1. snap'[x] = poll[x].got /\ \A y \in Proxies \ {x} : snap'[y] = snap[y]
    BY <1>2, <1>6
  <2>2. disk[x] \in Policies /\ poll[x].got \in Policies /\ snap[x] \in Policies
    BY <1>2
  <2>3. writable => AtLeast(disk[x], poll[x].got) /\ AtLeast(poll[x].got, snap[x])
    BY <1>2, <1>4, <1>6, <2>2, PolicyParts DEF AtLeast, SamePolicy
  <2>4. Superseded(poll'[x].got)
    BY <1>1, <1>4, <1>6, Zenon
  <2>5. OnePodInv'
    BY <1>1, <1>4, <1>6, <2>1, <2>3, <2>4, ProxyAheadMoves, Zenon
  <2> QED
    BY <1>3, <2>1, <2>3, <2>5, Zenon
<1>7. CASE PollSend(x)
  <2>1. PICK got : /\ poll' = [poll EXCEPT ![x] = [at |-> "sent", got |-> got]]
                   /\ Superseded(got)
    BY <1>1, <1>4, <1>7, Zenon DEF PollSend
  <2>2. UNCHANGED <<snap, disk>> /\ "sent" \in Places /\ "sent" # "got"
    BY <1>7 DEF PollSend, Places
  <2> QED
    BY <1>5, <2>1, <2>2, Zenon
<1>8. CASE PollServe(x, p)
  <2>1. CASE poll' = [poll EXCEPT ![x] = Idle] /\ UNCHANGED disk
    BY <1>1, <1>5, <1>8, <2>1 DEF Places, Idle, PollServe
  <2>2. CASE poll' = [poll EXCEPT ![x] = [at |-> "got", got |-> pub[p]]] /\ WriteCache(x, pub[p])
    <3>1. snap' = snap /\ Superseded(pub[p]) /\ AtLeast(pub[p], snap[x]) /\ pub[p] \in Policies
      <4>1. snap' = snap /\ Serving(p) /\ pub[p] \in Policies
        BY <1>1, <1>8 DEF PollServe, PodInv, PodTypes
      <4>2. Superseded(pub[p])
        BY <1>1, <4>1, PublishedSuperseded, Zenon
      <4>3. AtLeast(pub[p], snap[x])
        BY <1>4, <4>1, Zenon DEF Superseded
      <4> QED
        BY <4>1, <4>2, <4>3
    <3>2. /\ poll'[x].at = "got" /\ poll'[x].got = pub[p]
          /\ \A y \in Proxies \ {x} : poll'[y] = poll[y]
      BY <1>2, <2>2
    <3>3. /\ disk' \in {disk, [disk EXCEPT ![x] = pub[p]]}
          /\ writable => disk' = [disk EXCEPT ![x] = pub[p]]
      BY <2>2, Zenon DEF WriteCache
    <3>4. /\ \A y \in Proxies \ {x} : disk'[y] = disk[y]
          /\ disk'[x] \in {disk[x], pub[p]}
          /\ [disk EXCEPT ![x] = pub[p]][x] = pub[p]
      BY <1>2, <3>3
    <3>5. writable => disk'[x] = pub[p]
      BY <3>3, <3>4, Zenon
    <3>6. SamePolicy(pub[p], pub[p])
      BY DEF SamePolicy
    <3>7. OnePodInv'
      <4>1. Superseded(disk'[x])
        BY <1>4, <3>1, <3>4, Zenon
      <4>2. writable => AtLeast(disk'[x], snap'[x]) /\ SamePolicy(poll'[x].got, disk'[x])
        BY <3>1, <3>2, <3>5, <3>6, Zenon
      <4> QED
        BY <1>1, <1>4, <3>1, <3>2, <3>4, <4>1, <4>2, ProxyAheadMoves, Zenon
    <3> QED
      BY <1>3, <3>1, <3>7, Zenon
  <2> QED
    BY <1>8, <2>1, <2>2 DEF PollServe
<1>9. CASE PollFails(x)
  <2>1. CASE poll' = [poll EXCEPT ![x] = Idle]
    BY <1>1, <1>5, <1>9, <2>1 DEF Places, Idle, PollFails
  <2>2. CASE poll' = [poll EXCEPT ![x] = [at |-> "got", got |-> disk[x]]]
    <3>1. SamePolicy(disk[x], disk[x]) /\ UNCHANGED <<snap, disk>> /\ "got" \in Places
      BY <1>9 DEF SamePolicy, PollFails, Places
    <3> QED
      BY <1>4, <1>5, <2>2, <3>1, Zenon
  <2> QED
    BY <1>9, <2>1, <2>2 DEF PollFails, LoadCached
<1>10. CASE Apply(x)
  <2>1. poll[x].at = "got" /\ disk' = disk
    BY <1>10 DEF Apply
  <2>2. CASE snap' = [snap EXCEPT ![x] = poll[x].got] /\ poll' = [poll EXCEPT ![x] = Idle]
    <3>1. poll'[x] = Idle /\ \A y \in Proxies \ {x} : poll'[y] = poll[y]
      BY <1>2, <2>2
    <3> QED
      BY <1>3, <1>6, <2>1, <2>2, <3>1
  <2>3. CASE snap' = snap /\ poll' = [poll EXCEPT ![x] = Idle]
    BY <1>1, <1>5, <2>1, <2>3 DEF Places, Idle
  <2>4. CASE snap' = [snap EXCEPT ![x] = poll[x].got] /\ poll' = [poll EXCEPT ![x].at = "storing"]
    <3>1. /\ poll'[x].at = "storing" /\ poll'[x].got = poll[x].got
          /\ \A y \in Proxies \ {x} : poll'[y] = poll[y]
      BY <1>2, <2>4
    <3> QED
      BY <1>6, <2>1, <2>4, <3>1
  <2> QED
    BY <1>10, <2>2, <2>3, <2>4 DEF Apply
<1>11. CASE StoreRegistry(x) \/ ProxyCrash(x)
  BY <1>1, <1>5, <1>11 DEF StoreRegistry, ProxyCrash, Places, Idle
<1>12. CASE Boot(x)
  <2>1. poll' = [poll EXCEPT ![x] = Idle] /\ disk' = disk /\ poll[x].at = "got"
    BY <1>12 DEF Boot
  <2>2. CASE snap' = [snap EXCEPT ![x] = poll[x].got]
    <3>1. poll'[x] = Idle /\ \A y \in Proxies \ {x} : poll'[y] = poll[y]
      BY <1>2, <2>1
    <3> QED
      BY <1>3, <1>6, <2>1, <2>2, <3>1
  <2>3. CASE snap' = snap
    BY <1>1, <1>5, <2>1, <2>3 DEF Places, Idle
  <2> QED
    BY <1>12, <2>2, <2>3 DEF Boot
<1> QED
  BY <1>7, <1>8, <1>9, <1>10, <1>11, <1>12, Zenon DEF ProxyStep

LEMMA InitAhead == Init => OnePodInv
<1> SUFFICES ASSUME Init, NEW x \in Proxies PROVE ProxyAhead(x)
  BY Zenon DEF OnePodInv
<1>1. Superseded(Nothing)
  BY InitIInv, IInvHalves, NothingSuperseded, Zenon
<1>2. snap[x] = Nothing /\ disk[x] = Nothing /\ poll[x].at = "idle" /\ poll[x].got = Nothing
  BY DEF Init, Idle
<1>3. AtLeast(Nothing, Nothing)
  BY DEF AtLeast, Nothing
<1>4. "idle" # "got"
  OBVIOUS
<1> QED
  BY <1>1, <1>2, <1>3, <1>4, Zenon DEF ProxyAhead

(***************************************************************************)
(* With one control-plane pod and a cache directory that can be written, a *)
(* proxy's policy never goes back, however many proxies, writes, crashes   *)
(* and failed calls (HttpSource::fetch, apply_snapshot, build_app_state).  *)
(***************************************************************************)
THEOREM OnePodNeverRegresses ==
    ASSUME NEW p, Pods = {p}
    PROVE  Spec => PolicyNeverRegresses
<1>1. ASSUME IInv, OnePodInv, [Next]_vars
      PROVE  /\ OnePodInv'
             /\ [\A x \in Proxies : writable => AtLeast(snap'[x], snap[x])]_vars
  <2>1. \A x \in Proxies : AtLeast(snap[x], snap[x])
    BY <1>1, IInvHalves, AtLeastReflexive DEF ProxyInv, ProxyTypes
  <2>2. CASE ControlStep
    <3>1. snap' = snap
      BY <2>2, ControlFrame DEF proxies
    <3> QED
      BY <1>1, <2>1, <2>2, <3>1, ControlAhead, Zenon
  <2>3. CASE \E x \in Proxies : ProxyStep(x)
    BY <1>1, <2>3, ProxyStepAhead, Zenon
  <2>4. CASE UNCHANGED vars
    <3>1. UNCHANGED <<db, pods, snap, disk, poll>> /\ writable' = writable
      BY <2>4 DEF vars, proxies
    <3>2. writable' <=> writable
      BY <3>1, Zenon
    <3>3. OnePodInv'
      BY <1>1, <3>1, <3>2 DEF OnePodInv, ProxyAhead, Superseded, NotAfterBuild, Serving, AtLeast,
                              SamePolicy, pods
    <3> QED
      BY <2>4, <3>3, Zenon
  <2> QED
    BY <1>1, <2>2, <2>3, <2>4, StepKinds, Zenon
<1> QED
  BY <1>1, Invariance, InitAhead, PTL DEF Spec, PolicyNeverRegresses

HIDE PolicyAssumption

-----------------------------------------------------------------------------
(***************************************************************************)
(* AdminIdentity.  Tables.                                                 *)
(***************************************************************************)

\* What a table is.
LEMMA RowsElim ==
    ASSUME NEW Ids, NEW Row, NEW f \in Rows(Ids, Row)
    PROVE  /\ f = [x \in DOMAIN f |-> f[x]]
           /\ DOMAIN f \subseteq Ids
           /\ \A x \in DOMAIN f : f[x] \in Row
<1>1. PICK S \in SUBSET Ids : f \in [S -> Row]
  BY DEF Rows
<1> QED
  BY <1>1

LEMMA RowsIntro ==
    ASSUME NEW Ids, NEW Row, NEW f, f = [x \in DOMAIN f |-> f[x]],
           DOMAIN f \subseteq Ids, \A x \in DOMAIN f : f[x] \in Row
    PROVE  f \in Rows(Ids, Row)
<1>1. f \in [DOMAIN f -> Row]
  OBVIOUS
<1> QED
  BY <1>1 DEF Rows

\* A row put into a table.
LEMMA PutRows ==
    ASSUME NEW Ids, NEW Row, NEW f \in Rows(Ids, Row), NEW x \in Ids, NEW v \in Row
    PROVE  Put(f, x, v) \in Rows(Ids, Row)
<1> DEFINE g == Put(f, x, v)
<1>1. DOMAIN f \subseteq Ids /\ \A y \in DOMAIN f : f[y] \in Row
  BY RowsElim
<1>2. /\ g = [y \in DOMAIN g |-> g[y]] /\ DOMAIN g = DOMAIN f \cup {x}
      /\ g[x] = v /\ \A y \in DOMAIN f : y # x => g[y] = f[y]
  BY DEF Put
<1>3. DOMAIN g \subseteq Ids /\ \A y \in DOMAIN g : g[y] \in Row
  BY <1>1, <1>2
<1> HIDE DEF g
<1>4. g \in Rows(Ids, Row)
  BY <1>2, <1>3, RowsIntro
<1> QED
  BY <1>2, <1>4 DEF g

\* Rows taken out of a table.
LEMMA WithoutRows ==
    ASSUME NEW Ids, NEW Row, NEW f \in Rows(Ids, Row), NEW gone
    PROVE  Without(f, gone) \in Rows(Ids, Row)
<1> DEFINE g == Without(f, gone)
<1>1. DOMAIN f \subseteq Ids /\ \A y \in DOMAIN f : f[y] \in Row
  BY RowsElim
<1>2. /\ g = [y \in DOMAIN g |-> g[y]] /\ DOMAIN g = DOMAIN f \ gone
      /\ \A y \in DOMAIN f : y \notin gone => g[y] = f[y]
  BY DEF Without
<1>3. DOMAIN g \subseteq Ids /\ \A y \in DOMAIN g : g[y] \in Row
  BY <1>1, <1>2
<1> HIDE DEF g
<1>4. g \in Rows(Ids, Row)
  BY <1>2, <1>3, RowsIntro
<1> QED
  BY <1>2, <1>4 DEF g

\* A row changed in place.
With(f, x, v) == [f EXCEPT ![x] = v]

LEMMA WithRows ==
    ASSUME NEW Ids, NEW Row, NEW f \in Rows(Ids, Row), NEW x \in DOMAIN f, NEW v \in Row
    PROVE  /\ With(f, x, v) \in Rows(Ids, Row)
           /\ DOMAIN With(f, x, v) = DOMAIN f
           /\ With(f, x, v)[x] = v
           /\ \A y \in DOMAIN f : y # x => With(f, x, v)[y] = f[y]
<1> DEFINE g == With(f, x, v)
<1>1. DOMAIN f \subseteq Ids /\ \A y \in DOMAIN f : f[y] \in Row
  BY RowsElim
<1>2. /\ g = [y \in DOMAIN g |-> g[y]] /\ DOMAIN g = DOMAIN f
      /\ g[x] = v /\ \A y \in DOMAIN f : y # x => g[y] = f[y]
  BY DEF With
<1>3. DOMAIN g \subseteq Ids /\ \A y \in DOMAIN g : g[y] \in Row
  BY <1>1, <1>2
<1> HIDE DEF g
<1>4. g \in Rows(Ids, Row)
  BY <1>2, <1>3, RowsIntro
<1> QED
  BY <1>2, <1>4 DEF g

\* A table nothing is in.
LEMMA EmptyRows ==
    ASSUME NEW Ids, NEW Row
    PROVE  NoRows \in Rows(Ids, Row) /\ DOMAIN NoRows = {}
<1>1. DOMAIN NoRows = {} /\ NoRows = [x \in DOMAIN NoRows |-> NoRows[x]]
  BY DEF NoRows
<1> QED
  BY <1>1, RowsIntro

-----------------------------------------------------------------------------
(***************************************************************************)
(* What a step on the tables has to keep.                                  *)
(***************************************************************************)

\* Tables d with the ids t handed out may follow the present ones: they are
\* sound, a principal that is new has a new id, and no key comes back to use.
Good(d, t) ==
    /\ d \in Tables /\ Referential(d) /\ taken \subseteq t
    /\ DOMAIN d.principals \subseteq t /\ DOMAIN d.roles \subseteq t
    /\ DOMAIN d.keys \subseteq t /\ DOMAIN d.sessions \subseteq t
    /\ \A p \in DOMAIN d.principals : p \in DOMAIN tables.principals \/ p \notin taken
    /\ \A k \in taken : Dead(tables.keys, k) => Dead(d.keys, k)

\* A request c may follow call[r].
Fits(c, r, d, t) ==
    /\ c \in Calls
    /\ c.at # "idle" => c.actor \in t
    /\ \A k \in c.kills : k \in t /\ Dead(d.keys, k)
    /\ reading[r].at # "idle" => c = call[r]

\* A step on the tables and the requests alone keeps the invariant.
LEMMA StepKeeps ==
    ASSUME IdentityIInv, Good(tables', taken'),
           call' \in [Callers -> Calls],
           \A r \in Callers : Fits(call'[r], r, tables', taken'),
           calls' \in Nat, ticks' \in Nat,
           UNCHANGED <<PUBLISH, reading, published, revoked, answered, audited>>
    PROVE  IdentityIInv'
<1>1. IdentityTypeOK'
  BY DEF IdentityIInv, IdentityTypeOK, Good
<1>2. TablesSound'
  BY DEF Good, TablesSound
<1>3. TakenOnce'
  BY DEF IdentityIInv, TakenOnce, Good, Fits
<1>4. OneBuild'
  BY DEF IdentityIInv, OneBuild, Fits, IdentityBuilders
<1>5. Withdrawn'
  <2>1. \A k \in revoked' : k \in taken' /\ Dead(tables.keys, k)' /\ Dead(published.keys, k)'
    BY DEF IdentityIInv, Withdrawn, Good
  <2>2. \A r \in Callers : \A k \in call'[r].kills : k \in taken' /\ Dead(tables.keys, k)'
    BY DEF Fits
  <2>3. \A b \in IdentityBuilders : reading'[b].at = "built" => \A k \in revoked' : Dead(reading[b].got.keys, k)'
    BY DEF IdentityIInv, Withdrawn
  <2>4. \A r \in Callers : reading'[r].at = "built" => \A k \in call'[r].kills : Dead(reading[r].got.keys, k)'
    BY DEF IdentityIInv, Withdrawn, Fits
  <2> QED
    BY <2>1, <2>2, <2>3, <2>4 DEF Withdrawn
<1>6. AuditTrail'
  BY DEF IdentityIInv, AuditTrail, Good, Known, TakenOnce
<1> QED
  BY <1>1, <1>2, <1>3, <1>4, <1>5, <1>6 DEF IdentityIInv

\* The tables as they are may follow themselves.
LEMMA SameGood == ASSUME IdentityIInv PROVE Good(tables, taken)
BY DEF IdentityIInv, IdentityTypeOK, TablesSound, TakenOnce, Good

\* A request that does not move may stay while the tables change.
LEMMA StaysFit ==
    ASSUME IdentityIInv, NEW d, NEW t, Good(d, t), NEW r \in Callers
    PROVE  Fits(call[r], r, d, t)
BY DEF IdentityIInv, IdentityTypeOK, TakenOnce, Withdrawn, Good, Fits

\* One request moves on: the others may stay.
LEMMA OneMoves ==
    ASSUME IdentityIInv, NEW r \in Callers, NEW c, Good(tables', taken'), Fits(c, r, tables', taken'),
           call' = With(call, r, c), calls' \in Nat, ticks' \in Nat,
           UNCHANGED <<PUBLISH, reading, published, revoked, answered, audited>>
    PROVE  IdentityIInv'
<1>1. call \in [Callers -> Calls] /\ c \in Calls
  BY DEF IdentityIInv, IdentityTypeOK, Fits
<1>2. /\ call' \in [Callers -> Calls] /\ call'[r] = c
      /\ \A q \in Callers : q # r => call'[q] = call[q]
  BY <1>1 DEF With
<1>3. \A q \in Callers : Fits(call'[q], q, tables', taken')
  BY <1>2, StaysFit
<1> QED
  BY <1>2, <1>3, StepKeeps

\* A handler at work is not at its refresh, and its actor's id was handed out.
LEMMA AtWork ==
    ASSUME IdentityIInv, NEW r \in Callers, call[r].at # "refresh"
    PROVE  /\ reading[r].at = "idle" /\ call[r] \in Calls
           /\ call[r].at # "idle" => call[r].actor \in taken
           /\ \A k \in call[r].kills : k \in taken /\ Dead(tables.keys, k)
BY DEF IdentityIInv, IdentityTypeOK, OneBuild, TakenOnce, Withdrawn

\* Refusing a request, whatever a statement has committed.
LEMMA RefusedKeeps ==
    ASSUME IdentityIInv, NEW r \in Callers, call[r].at # "refresh", Refused(r),
           Good(tables', taken'), RestKept
    PROVE  IdentityIInv'
<1>1. Fits(NoCall, r, tables', taken')
  BY AtWork DEF Fits, NoCall, Calls, HandlerPlaces
<1>2. call' = With(call, r, NoCall)
  BY DEF Refused, With
<1>3. calls' \in Nat /\ ticks' \in Nat
  BY DEF RestKept, IdentityIInv, IdentityTypeOK
<1> QED
  BY <1>1, <1>2, <1>3, OneMoves DEF RestKept

\* A handler going on to its next statement.
LEMMA StepOnKeeps ==
    ASSUME IdentityIInv, NEW r \in Callers, call[r].at \notin {"idle", "refresh"},
           NEW at \in HandlerPlaces, NEW arg \in Principals \cup RoleIds \cup AllRoleNames \cup {Nobody},
           Step(r, at, arg), Good(tables', taken'), RestKept
    PROVE  IdentityIInv'
<1> DEFINE c == [call[r] EXCEPT !.at = at, !.arg = arg]
<1>1. /\ reading[r].at = "idle" /\ call[r] \in Calls /\ call[r].actor \in taken
      /\ \A k \in call[r].kills : k \in taken /\ Dead(tables.keys, k)
  BY AtWork
<1>2. c \in Calls /\ c.actor = call[r].actor /\ c.kills = call[r].kills
  BY <1>1 DEF Calls
<1>3. call' = With(call, r, c)
  BY DEF Step, With, IdentityIInv, IdentityTypeOK
<1> HIDE DEF c
<1>4. Fits(c, r, tables', taken')
  BY <1>1, <1>2 DEF Fits, Good
<1>5. calls' \in Nat /\ ticks' \in Nat
  BY DEF RestKept, IdentityIInv, IdentityTypeOK
<1> QED
  BY <1>3, <1>4, <1>5, OneMoves DEF RestKept

\* A handler that has changed rows goes to its refresh.
LEMMA CommittedKeeps ==
    ASSUME IdentityIInv, NEW r \in Callers, call[r].at \notin {"idle", "refresh"},
           NEW rows, NEW kills \in SUBSET Keys, Committed(r, rows, kills),
           Good(rows, taken'), \A k \in kills : k \in taken' /\ Dead(rows.keys, k), RestKept
    PROVE  IdentityIInv'
<1> DEFINE c == [call[r] EXCEPT !.at = "refresh", !.arg = Nobody, !.kills = kills]
<1>1. /\ reading[r].at = "idle" /\ call[r] \in Calls /\ call[r].actor \in taken
  BY AtWork
<1>2. c \in Calls /\ c.actor = call[r].actor /\ c.kills = kills
  BY <1>1 DEF Calls, HandlerPlaces
<1>3. call' = With(call, r, c) /\ tables' = rows
  BY DEF Committed, With, IdentityIInv, IdentityTypeOK
<1> HIDE DEF c
<1>4. Fits(c, r, tables', taken')
  BY <1>1, <1>2, <1>3 DEF Fits, Good
<1>5. calls' \in Nat /\ ticks' \in Nat
  BY DEF RestKept, IdentityIInv, IdentityTypeOK
<1> QED
  BY <1>3, <1>4, <1>5, OneMoves DEF RestKept

\* The same for a statement that takes no key out of use.
LEMMA NothingKilled ==
    ASSUME IdentityIInv, NEW r \in Callers, call[r].at \notin {"idle", "refresh"},
           NEW rows, Committed(r, rows, {}), Good(rows, taken'), RestKept
    PROVE  IdentityIInv'
<1>1. {} \in SUBSET Keys /\ \A k \in {} : k \in taken' /\ Dead(rows.keys, k)
  OBVIOUS
<1> QED
  BY <1>1, CommittedKeeps, Zenon

-----------------------------------------------------------------------------
(***************************************************************************)
(* The statements: each leaves tables that may follow.                     *)
(***************************************************************************)

\* The tables, one by one.
LEMMA TablesTyped ==
    ASSUME IdentityIInv
    PROVE  /\ tables \in Tables /\ Referential(tables)
           /\ tables.principals \in Rows(Principals, PrincipalRows)
           /\ tables.roles \in Rows(RoleIds, AllRoleNames)
           /\ tables.members \in SUBSET (Principals \X RoleIds)
           /\ tables.holds \in SUBSET (RoleIds \X Permissions)
           /\ tables.keys \in Rows(Keys, KeyRows)
           /\ tables.sessions \in Rows(Sessions, Principals)
           /\ tables.limits \in SUBSET Principals /\ tables.budgets \in SUBSET Principals
<1>1. tables \in Tables /\ Referential(tables)
  BY DEF IdentityIInv, IdentityTypeOK, TablesSound
<1> QED
  BY <1>1 DEF Tables

\* post_key.
LEMMA CreateGood ==
    ASSUME IdentityIInv, NEW p \in DOMAIN tables.principals, NEW k \in Keys \ taken
    PROVE  Good(create_key(p, k), taken \cup {k})
<1> DEFINE row == [principal |-> p, disabled |-> FALSE]
           K == Put(tables.keys, k, row)
           d == [tables EXCEPT !.keys = K]
<1>1. p \in Principals
  BY TablesTyped, RowsElim
<1>2. row \in KeyRows /\ row.principal = p
  BY <1>1 DEF KeyRows
<1> HIDE DEF row
<1>3. /\ K \in Rows(Keys, KeyRows)
      /\ DOMAIN K = DOMAIN tables.keys \cup {k} /\ K[k] = row
      /\ \A y \in DOMAIN tables.keys : y # k => K[y] = tables.keys[y]
  <2>1. K \in Rows(Keys, KeyRows)
    BY <1>2, TablesTyped, PutRows
  <2> QED
    BY <2>1 DEF Put
<1> HIDE DEF K
<1>4. /\ d \in Tables /\ d.keys = K /\ d.principals = tables.principals /\ d.roles = tables.roles
      /\ d.members = tables.members /\ d.holds = tables.holds /\ d.sessions = tables.sessions
      /\ d.limits = tables.limits /\ d.budgets = tables.budgets
  BY <1>3, TablesTyped DEF Tables
<1>5. create_key(p, k) = d
  BY DEF create_key, K, row
<1> HIDE DEF d
<1>6. Referential(d)
  BY <1>2, <1>3, <1>4, TablesTyped DEF Referential
<1>7. \A x \in taken : Dead(tables.keys, x) => Dead(d.keys, x)
  BY <1>3, <1>4 DEF Dead
<1> QED
  BY <1>3, <1>4, <1>5, <1>6, <1>7 DEF Good, IdentityIInv, TakenOnce

\* revoke_key.
LEMMA DisableGood ==
    ASSUME IdentityIInv, NEW k \in DOMAIN tables.keys
    PROVE  /\ Good([tables EXCEPT !.keys[k].disabled = TRUE], taken)
           /\ Dead([tables EXCEPT !.keys[k].disabled = TRUE].keys, k)
<1> DEFINE row == [tables.keys[k] EXCEPT !.disabled = TRUE]
           K == With(tables.keys, k, row)
           d == [tables EXCEPT !.keys = K]
<1>1. tables.keys[k] \in KeyRows
  BY TablesTyped, RowsElim
<1>2. /\ row \in KeyRows
      /\ row.principal = tables.keys[k].principal /\ row.disabled
  BY <1>1 DEF KeyRows
<1> HIDE DEF row
<1>3. /\ K \in Rows(Keys, KeyRows)
      /\ DOMAIN K = DOMAIN tables.keys /\ K[k] = row
      /\ \A y \in DOMAIN tables.keys : y # k => K[y] = tables.keys[y]
  BY <1>2, TablesTyped, WithRows
<1>5. [tables EXCEPT !.keys[k].disabled = TRUE] = d
  BY DEF K, row, With
<1> HIDE DEF K
<1>4. /\ d \in Tables /\ d.keys = K /\ d.principals = tables.principals /\ d.roles = tables.roles
      /\ d.members = tables.members /\ d.holds = tables.holds /\ d.sessions = tables.sessions
      /\ d.limits = tables.limits /\ d.budgets = tables.budgets
  BY <1>3, TablesTyped DEF Tables
<1> HIDE DEF d
<1>6. Referential(d)
  BY <1>2, <1>3, <1>4, TablesTyped DEF Referential
<1>7. (\A x \in taken : Dead(tables.keys, x) => Dead(d.keys, x)) /\ Dead(d.keys, k)
  BY <1>2, <1>3, <1>4 DEF Dead
<1> QED
  BY <1>3, <1>4, <1>5, <1>6, <1>7 DEF Good, IdentityIInv, TakenOnce

\* post_principal.
LEMMA EnrolGood ==
    ASSUME IdentityIInv, NEW p \in Principals \ taken, NEW n \in PrincipalNames
    PROVE  Good([tables EXCEPT !.principals = Put(@, p, NewPrincipal(n, FALSE))], taken \cup {p})
<1> DEFINE row == NewPrincipal(n, FALSE)
           P == Put(tables.principals, p, row)
           d == [tables EXCEPT !.principals = P]
<1>2. row \in PrincipalRows
  BY DEF NewPrincipal, PrincipalRows
<1> HIDE DEF row
<1>3. /\ P \in Rows(Principals, PrincipalRows)
      /\ DOMAIN P = DOMAIN tables.principals \cup {p}
  <2>1. P \in Rows(Principals, PrincipalRows)
    BY <1>2, TablesTyped, PutRows
  <2> QED
    BY <2>1 DEF Put
<1>5. [tables EXCEPT !.principals = Put(@, p, NewPrincipal(n, FALSE))] = d
  BY DEF P, row
<1> HIDE DEF P
<1>4. /\ d \in Tables /\ d.keys = tables.keys /\ d.principals = P /\ d.roles = tables.roles
      /\ d.members = tables.members /\ d.holds = tables.holds /\ d.sessions = tables.sessions
      /\ d.limits = tables.limits /\ d.budgets = tables.budgets
  BY <1>3, TablesTyped DEF Tables
<1> HIDE DEF d
<1>6. Referential(d)
  BY <1>3, <1>4, TablesTyped DEF Referential
<1> QED
  BY <1>3, <1>4, <1>5, <1>6 DEF Good, IdentityIInv, TakenOnce

\* A statement that leaves the keys alone, and which principals there are.
LEMMA OtherGood ==
    ASSUME IdentityIInv, NEW d \in Tables, Referential(d), d.keys = tables.keys,
           DOMAIN d.principals = DOMAIN tables.principals,
           NEW t, taken \subseteq t, DOMAIN d.roles \subseteq t, DOMAIN d.sessions \subseteq t
    PROVE  Good(d, t)
BY DEF IdentityIInv, TakenOnce, Good

\* patch_principal, put_password: a row of a principal is changed.
LEMMA ChangedGood ==
    ASSUME IdentityIInv, NEW p \in DOMAIN tables.principals, NEW row \in PrincipalRows
    PROVE  Good([tables EXCEPT !.principals = With(@, p, row)], taken)
<1> DEFINE P == With(tables.principals, p, row)
           d == [tables EXCEPT !.principals = P]
<1>1. P \in Rows(Principals, PrincipalRows) /\ DOMAIN P = DOMAIN tables.principals
  BY TablesTyped, WithRows
<1> HIDE DEF P
<1>2. /\ d \in Tables /\ d.keys = tables.keys /\ d.principals = P /\ d.roles = tables.roles
      /\ d.members = tables.members /\ d.holds = tables.holds /\ d.sessions = tables.sessions
      /\ d.limits = tables.limits /\ d.budgets = tables.budgets
  BY <1>1, TablesTyped DEF Tables
<1>3. [tables EXCEPT !.principals = With(@, p, row)] = d
  BY DEF P
<1> HIDE DEF d
<1>4. Referential(d)
  BY <1>1, <1>2, TablesTyped DEF Referential
<1>5. DOMAIN d.roles \subseteq taken /\ DOMAIN d.sessions \subseteq taken
  BY <1>2 DEF IdentityIInv, TakenOnce
<1> QED
  BY <1>1, <1>2, <1>3, <1>4, <1>5, OtherGood

LEMMA RenameGood ==
    ASSUME IdentityIInv, NEW p \in DOMAIN tables.principals, NEW n \in PrincipalNames
    PROVE  Good([tables EXCEPT !.principals[p].name = n], taken)
<1> DEFINE row == [tables.principals[p] EXCEPT !.name = n]
<1>1. tables.principals[p] \in PrincipalRows
  BY TablesTyped, RowsElim
<1>2. row \in PrincipalRows
  BY <1>1 DEF PrincipalRows
<1>3. [tables EXCEPT !.principals[p].name = n] = [tables EXCEPT !.principals = With(@, p, row)]
  BY DEF With
<1> HIDE DEF row
<1> QED
  BY <1>2, <1>3, ChangedGood

LEMMA PasswordGood ==
    ASSUME IdentityIInv, NEW p \in DOMAIN tables.principals
    PROVE  Good([tables EXCEPT !.principals[p].user = TRUE, !.principals[p].password = TRUE], taken)
<1> DEFINE row == [tables.principals[p] EXCEPT !.user = TRUE, !.password = TRUE]
<1>1. tables.principals[p] \in PrincipalRows
  BY TablesTyped, RowsElim
<1>2. row \in PrincipalRows
  BY <1>1 DEF PrincipalRows
<1>3. tables.principals \in Rows(Principals, PrincipalRows) /\ tables \in Tables
  BY TablesTyped
<1>4. [tables EXCEPT !.principals[p].user = TRUE, !.principals[p].password = TRUE]
          = [tables EXCEPT !.principals = With(@, p, row)]
  BY <1>1, <1>3 DEF With, Tables
<1> HIDE DEF row
<1> QED
  BY <1>2, <1>4, ChangedGood

\* put_limits, delete_limits, put_budget, delete_budget.
LEMMA LimitsGood ==
    ASSUME IdentityIInv, NEW L \in SUBSET DOMAIN tables.principals
    PROVE  Good([tables EXCEPT !.limits = L], taken) /\ Good([tables EXCEPT !.budgets = L], taken)
<1> DEFINE d == [tables EXCEPT !.limits = L]
           e == [tables EXCEPT !.budgets = L]
<1>1. L \in SUBSET Principals
  BY TablesTyped, RowsElim
<1>2. /\ d \in Tables /\ d.keys = tables.keys /\ d.principals = tables.principals /\ d.roles = tables.roles
      /\ d.members = tables.members /\ d.holds = tables.holds /\ d.sessions = tables.sessions
      /\ d.limits = L /\ d.budgets = tables.budgets
  BY <1>1, TablesTyped DEF Tables
<1>3. /\ e \in Tables /\ e.keys = tables.keys /\ e.principals = tables.principals /\ e.roles = tables.roles
      /\ e.members = tables.members /\ e.holds = tables.holds /\ e.sessions = tables.sessions
      /\ e.limits = tables.limits /\ e.budgets = L
  BY <1>1, TablesTyped DEF Tables
<1> HIDE DEF d, e
<1>4. Referential(d) /\ Referential(e)
  BY <1>2, <1>3, TablesTyped DEF Referential
<1>5. DOMAIN tables.roles \subseteq taken /\ DOMAIN tables.sessions \subseteq taken
  BY DEF IdentityIInv, TakenOnce
<1> QED
  BY <1>2, <1>3, <1>4, <1>5, OtherGood DEF d, e

\* grant_role, revoke_role, and the half of bootstrap_admin_user about roles.
LEMMA MembersGood ==
    ASSUME IdentityIInv, NEW M \in SUBSET ((DOMAIN tables.principals) \X (DOMAIN tables.roles))
    PROVE  Good([tables EXCEPT !.members = M], taken)
<1> DEFINE d == [tables EXCEPT !.members = M]
<1>0. DOMAIN tables.principals \subseteq Principals /\ DOMAIN tables.roles \subseteq RoleIds
  BY TablesTyped, RowsElim
<1>1. M \in SUBSET (Principals \X RoleIds)
  BY <1>0
<1>5. \A m \in M : m[1] \in DOMAIN tables.principals /\ m[2] \in DOMAIN tables.roles
  OBVIOUS
<1>2. /\ d \in Tables /\ d.keys = tables.keys /\ d.principals = tables.principals /\ d.roles = tables.roles
      /\ d.members = M /\ d.holds = tables.holds /\ d.sessions = tables.sessions
      /\ d.limits = tables.limits /\ d.budgets = tables.budgets
  BY <1>1, TablesTyped DEF Tables
<1> HIDE DEF d
<1>3. Referential(d)
  BY <1>2, <1>5, TablesTyped DEF Referential
<1>4. DOMAIN tables.roles \subseteq taken /\ DOMAIN tables.sessions \subseteq taken
  BY DEF IdentityIInv, TakenOnce
<1> QED
  BY <1>2, <1>3, <1>4, OtherGood DEF d

\* grant_permission, revoke_permission.
LEMMA HoldsGood ==
    ASSUME IdentityIInv, NEW H \in SUBSET ((DOMAIN tables.roles) \X Permissions)
    PROVE  Good([tables EXCEPT !.holds = H], taken)
<1> DEFINE d == [tables EXCEPT !.holds = H]
<1>0. DOMAIN tables.roles \subseteq RoleIds
  BY TablesTyped, RowsElim
<1>1. H \in SUBSET (RoleIds \X Permissions)
  BY <1>0
<1>5. \A h \in H : h[1] \in DOMAIN tables.roles
  OBVIOUS
<1>2. /\ d \in Tables /\ d.keys = tables.keys /\ d.principals = tables.principals /\ d.roles = tables.roles
      /\ d.members = tables.members /\ d.holds = H /\ d.sessions = tables.sessions
      /\ d.limits = tables.limits /\ d.budgets = tables.budgets
  BY <1>1, TablesTyped DEF Tables
<1> HIDE DEF d
<1>3. Referential(d)
  BY <1>2, <1>5, TablesTyped DEF Referential
<1>4. DOMAIN tables.roles \subseteq taken /\ DOMAIN tables.sessions \subseteq taken
  BY DEF IdentityIInv, TakenOnce
<1> QED
  BY <1>2, <1>3, <1>4, OtherGood DEF d

\* login, logout, revoke_all_sessions.
LEMMA SessionsGood ==
    ASSUME IdentityIInv, NEW S \in Rows(Sessions, Principals), NEW t,
           taken \subseteq t, DOMAIN S \subseteq t, \A s \in DOMAIN S : S[s] \in DOMAIN tables.principals
    PROVE  Good([tables EXCEPT !.sessions = S], t)
<1> DEFINE d == [tables EXCEPT !.sessions = S]
<1>2. /\ d \in Tables /\ d.keys = tables.keys /\ d.principals = tables.principals /\ d.roles = tables.roles
      /\ d.members = tables.members /\ d.holds = tables.holds /\ d.sessions = S
      /\ d.limits = tables.limits /\ d.budgets = tables.budgets
  BY TablesTyped DEF Tables
<1> HIDE DEF d
<1>3. Referential(d)
  BY <1>2, TablesTyped DEF Referential
<1>4. DOMAIN tables.roles \subseteq taken
  BY DEF IdentityIInv, TakenOnce
<1> QED
  BY <1>2, <1>3, <1>4, OtherGood DEF d

\* post_role, patch_role: the names stay unique.
LEMMA RolesGood ==
    ASSUME IdentityIInv, NEW R \in Rows(RoleIds, AllRoleNames), NEW t, taken \subseteq t,
           DOMAIN tables.roles \subseteq DOMAIN R, DOMAIN R \subseteq t,
           \A x, y \in DOMAIN R : R[x] = R[y] => x = y
    PROVE  Good([tables EXCEPT !.roles = R], t)
<1> DEFINE d == [tables EXCEPT !.roles = R]
<1>2. /\ d \in Tables /\ d.keys = tables.keys /\ d.principals = tables.principals /\ d.roles = R
      /\ d.members = tables.members /\ d.holds = tables.holds /\ d.sessions = tables.sessions
      /\ d.limits = tables.limits /\ d.budgets = tables.budgets
  BY TablesTyped DEF Tables
<1> HIDE DEF d
<1>3. Referential(d)
  BY <1>2, TablesTyped DEF Referential
<1>4. DOMAIN tables.sessions \subseteq taken
  BY DEF IdentityIInv, TakenOnce
<1> QED
  BY <1>2, <1>3, <1>4, OtherGood DEF d

\* delete_principal: the cascade leaves nothing that names it.
LEMMA CascadeGood ==
    ASSUME IdentityIInv, NEW p \in DOMAIN tables.principals
    PROVE  /\ Good(WithoutPrincipal(p), taken)
           /\ \A k \in KeysOf(p) : k \in taken /\ k \in Keys /\ Dead(WithoutPrincipal(p).keys, k)
<1> DEFINE d == WithoutPrincipal(p)
           P == Without(tables.principals, {p})
           K == Without(tables.keys, KeysOf(p))
           S == Without(tables.sessions, {s \in DOMAIN tables.sessions : tables.sessions[s] = p})
           M == {m \in tables.members : m[1] # p}
<1>1. /\ P \in Rows(Principals, PrincipalRows) /\ DOMAIN P = DOMAIN tables.principals \ {p}
      /\ K \in Rows(Keys, KeyRows) /\ DOMAIN K = DOMAIN tables.keys \ KeysOf(p)
      /\ S \in Rows(Sessions, Principals)
      /\ DOMAIN S = DOMAIN tables.sessions \ {s \in DOMAIN tables.sessions : tables.sessions[s] = p}
  <2>1. P \in Rows(Principals, PrincipalRows) /\ K \in Rows(Keys, KeyRows) /\ S \in Rows(Sessions, Principals)
    BY TablesTyped, WithoutRows
  <2> QED
    BY <2>1 DEF Without
<1>2. /\ \A k \in DOMAIN K : K[k] = tables.keys[k] /\ k \in DOMAIN tables.keys /\ tables.keys[k].principal # p
      /\ \A s \in DOMAIN S : S[s] = tables.sessions[s] /\ s \in DOMAIN tables.sessions /\ tables.sessions[s] # p
  BY DEF Without, KeysOf
<1>3. M \in SUBSET (Principals \X RoleIds) /\ M \subseteq tables.members /\ \A m \in M : m[1] # p
  BY TablesTyped
<1>4. d = [tables EXCEPT !.principals = P, !.keys = K, !.sessions = S, !.members = M,
                         !.limits = tables.limits \ {p}, !.budgets = tables.budgets \ {p}]
  BY TablesTyped DEF WithoutPrincipal, Tables
<1> HIDE DEF P, K, S, M, d
<1>5. /\ d \in Tables /\ d.keys = K /\ d.principals = P /\ d.roles = tables.roles
      /\ d.members = M /\ d.holds = tables.holds /\ d.sessions = S
      /\ d.limits = tables.limits \ {p} /\ d.budgets = tables.budgets \ {p}
  BY <1>1, <1>3, <1>4, TablesTyped DEF Tables
<1>6. Referential(d)
  <2>1. /\ \A k \in DOMAIN tables.keys : tables.keys[k].principal \in DOMAIN tables.principals
        /\ \A s \in DOMAIN tables.sessions : tables.sessions[s] \in DOMAIN tables.principals
        /\ \A m \in tables.members : m[1] \in DOMAIN tables.principals /\ m[2] \in DOMAIN tables.roles
        /\ \A h \in tables.holds : h[1] \in DOMAIN tables.roles
        /\ tables.limits \subseteq DOMAIN tables.principals /\ tables.budgets \subseteq DOMAIN tables.principals
        /\ \A x, y \in DOMAIN tables.roles : tables.roles[x] = tables.roles[y] => x = y
    BY TablesTyped DEF Referential
  <2>2. \A k \in DOMAIN d.keys : d.keys[k].principal \in DOMAIN d.principals
    BY <1>1, <1>2, <1>5, <2>1
  <2>3. \A s \in DOMAIN d.sessions : d.sessions[s] \in DOMAIN d.principals
    BY <1>1, <1>2, <1>5, <2>1
  <2>4. \A m \in d.members : m[1] \in DOMAIN d.principals /\ m[2] \in DOMAIN d.roles
    BY <1>1, <1>3, <1>5, <2>1
  <2>5. d.limits \subseteq DOMAIN d.principals /\ d.budgets \subseteq DOMAIN d.principals
    BY <1>1, <1>5, <2>1
  <2> QED
    BY <1>5, <2>1, <2>2, <2>3, <2>4, <2>5 DEF Referential
<1>7. \A k \in taken : Dead(tables.keys, k) => Dead(d.keys, k)
  BY <1>1, <1>2, <1>5 DEF Dead
<1>8. /\ DOMAIN tables.principals \subseteq taken /\ DOMAIN tables.roles \subseteq taken
      /\ DOMAIN tables.keys \subseteq taken /\ DOMAIN tables.sessions \subseteq taken
  BY DEF IdentityIInv, TakenOnce
<1>9. Good(d, taken)
  BY <1>1, <1>5, <1>6, <1>7, <1>8 DEF Good
<1>10. \A k \in KeysOf(p) : k \in taken /\ k \in Keys /\ Dead(d.keys, k)
  <2>1. DOMAIN tables.keys \subseteq Keys
    BY TablesTyped, RowsElim
  <2> QED
    BY <1>1, <1>5, <1>8, <2>1 DEF Dead, KeysOf
<1> QED
  BY <1>9, <1>10 DEF d

\* delete_role, with whatever was granted to it and to whom.
WithoutRoles(gone) ==
    [tables EXCEPT !.roles = Without(@, gone),
                   !.members = {m \in @ : m[2] \notin gone},
                   !.holds = {h \in @ : h[1] \notin gone}]

LEMMA RolesGoneGood ==
    ASSUME IdentityIInv, NEW gone
    PROVE  Good(WithoutRoles(gone), taken)
<1> DEFINE d == WithoutRoles(gone)
           R == Without(tables.roles, gone)
           M == {m \in tables.members : m[2] \notin gone}
           H == {h \in tables.holds : h[1] \notin gone}
<1>1. R \in Rows(RoleIds, AllRoleNames) /\ DOMAIN R = DOMAIN tables.roles \ gone
  <2>1. R \in Rows(RoleIds, AllRoleNames)
    BY TablesTyped, WithoutRows
  <2> QED
    BY <2>1 DEF Without
<1>2. \A x \in DOMAIN R : R[x] = tables.roles[x] /\ x \in DOMAIN tables.roles
  BY DEF Without
<1>3. /\ M \in SUBSET (Principals \X RoleIds) /\ M \subseteq tables.members /\ \A m \in M : m[2] \notin gone
      /\ H \in SUBSET (RoleIds \X Permissions) /\ H \subseteq tables.holds /\ \A h \in H : h[1] \notin gone
  BY TablesTyped
<1>4. d = [tables EXCEPT !.roles = R, !.members = M, !.holds = H]
  BY TablesTyped DEF WithoutRoles, Tables
<1> HIDE DEF R, M, H, d
<1>5. /\ d \in Tables /\ d.keys = tables.keys /\ d.principals = tables.principals /\ d.roles = R
      /\ d.members = M /\ d.holds = H /\ d.sessions = tables.sessions
      /\ d.limits = tables.limits /\ d.budgets = tables.budgets
  BY <1>1, <1>3, <1>4, TablesTyped DEF Tables
<1>6. Referential(d)
  <2>1. /\ \A m \in tables.members : m[1] \in DOMAIN tables.principals /\ m[2] \in DOMAIN tables.roles
        /\ \A h \in tables.holds : h[1] \in DOMAIN tables.roles
        /\ \A x, y \in DOMAIN tables.roles : tables.roles[x] = tables.roles[y] => x = y
    BY TablesTyped DEF Referential
  <2>2. \A m \in d.members : m[1] \in DOMAIN d.principals /\ m[2] \in DOMAIN d.roles
    BY <1>1, <1>3, <1>5, <2>1
  <2>3. \A h \in d.holds : h[1] \in DOMAIN d.roles
    BY <1>1, <1>3, <1>5, <2>1
  <2>4. \A x, y \in DOMAIN d.roles : d.roles[x] = d.roles[y] => x = y
    BY <1>2, <1>5, <2>1
  <2> QED
    BY <1>5, <2>2, <2>3, <2>4, TablesTyped DEF Referential
<1>7. DOMAIN d.roles \subseteq taken /\ DOMAIN d.sessions \subseteq taken
  BY <1>1, <1>5 DEF IdentityIInv, TakenOnce
<1> QED
  BY <1>5, <1>6, <1>7, OtherGood DEF d

-----------------------------------------------------------------------------
(***************************************************************************)
(* The handlers, one by one.                                               *)
(***************************************************************************)

LEMMA KeyHandlers ==
    ASSUME IdentityIInv, NEW r \in Callers, post_key(r) \/ revoke_key(r)
    PROVE  IdentityIInv'
<1>1. CASE post_key(r)
  <2>1. call[r].at \notin {"idle", "refresh"} /\ RestKept
    BY <1>1 DEF post_key, KEY_CREATE
  <2>2. PICK p \in Principals, k \in Keys \ taken :
          IF Known(p) THEN Committed(r, create_key(p, k), {}) /\ taken' = taken \cup {k}
                      ELSE Refused(r) /\ TablesKept
    BY <1>1 DEF post_key
  <2>3. CASE Known(p)
    <3>1. Good(create_key(p, k), taken \cup {k})
      BY <2>3, CreateGood DEF Known
    <3>2. Good(create_key(p, k), taken') /\ Committed(r, create_key(p, k), {})
      BY <2>2, <2>3, <3>1
    <3> QED
      BY <2>1, <3>2, CommittedKeeps
  <2>4. CASE ~Known(p)
    <3>1. Good(tables', taken')
      BY <2>2, <2>4, SameGood DEF TablesKept
    <3> QED
      BY <2>1, <2>2, <2>4, <3>1, RefusedKeeps
  <2> QED
    BY <2>3, <2>4
<1>2. CASE revoke_key(r)
  <2>1. call[r].at \notin {"idle", "refresh"} /\ RestKept /\ taken' = taken
    BY <1>2 DEF revoke_key, KEY_REVOKE
  <2>2. PICK k \in Keys :
          IF k \in DOMAIN tables.keys
          THEN Committed(r, [tables EXCEPT !.keys[k].disabled = TRUE], {k})
          ELSE Refused(r) /\ UNCHANGED tables
    BY <1>2 DEF revoke_key
  <2>3. CASE k \in DOMAIN tables.keys
    <3> DEFINE d == [tables EXCEPT !.keys[k].disabled = TRUE]
    <3>1. Good(d, taken) /\ Dead(d.keys, k) /\ k \in taken
      BY <2>3, DisableGood DEF IdentityIInv, TakenOnce
    <3>2. Committed(r, d, {k})
      BY <2>2, <2>3
    <3> HIDE DEF d
    <3> QED
      BY <2>1, <3>1, <3>2, CommittedKeeps
  <2>4. CASE k \notin DOMAIN tables.keys
    <3>1. Good(tables', taken')
      BY <2>1, <2>2, <2>4, SameGood
    <3> QED
      BY <2>1, <2>2, <2>4, <3>1, RefusedKeeps
  <2> QED
    BY <2>3, <2>4
<1> QED
  BY <1>1, <1>2

LEMMA PrincipalHandlers ==
    ASSUME IdentityIInv, NEW r \in Callers, post_principal(r) \/ patch_principal(r) \/ delete_principal(r)
    PROVE  IdentityIInv'
<1>0. call[r].at \notin {"idle", "refresh"} /\ RestKept
  BY DEF post_principal, patch_principal, delete_principal, CONFIG_WRITE
<1>1. CASE post_principal(r)
  <2>2. PICK p \in Principals \ taken, n \in PrincipalNames :
          IF NameTaken(p, n) THEN Refused(r) /\ TablesKept
          ELSE /\ Committed(r, [tables EXCEPT !.principals = Put(@, p, NewPrincipal(n, FALSE))], {})
               /\ taken' = taken \cup {p}
    BY <1>1 DEF post_principal
  <2>3. CASE ~NameTaken(p, n)
    <3> DEFINE d == [tables EXCEPT !.principals = Put(@, p, NewPrincipal(n, FALSE))]
    <3>1. Good(d, taken \cup {p})
      BY EnrolGood
    <3>2. Committed(r, d, {}) /\ taken' = taken \cup {p}
      BY <2>2, <2>3
    <3> HIDE DEF d
    <3>3. Good(d, taken')
      BY <3>1, <3>2
    <3> QED
      BY <1>0, <3>2, <3>3, NothingKilled
  <2>4. CASE NameTaken(p, n)
    <3>1. Good(tables', taken')
      BY <2>2, <2>4, SameGood DEF TablesKept
    <3> QED
      BY <1>0, <2>2, <2>4, <3>1, RefusedKeeps
  <2> QED
    BY <2>3, <2>4
<1>2. CASE patch_principal(r)
  <2>1. taken' = taken
    BY <1>2 DEF patch_principal
  <2>2. PICK p \in Principals, n \in PrincipalNames, emailTaken \in BOOLEAN :
          IF ~Known(p) \/ NameTaken(p, n) THEN Refused(r) /\ UNCHANGED tables
          ELSE IF emailTaken
               THEN Refused(r) /\ tables' = [tables EXCEPT !.principals[p].name = n]
               ELSE Committed(r, [tables EXCEPT !.principals[p].name = n], {})
    BY <1>2 DEF patch_principal
  <2>3. CASE Known(p) /\ ~NameTaken(p, n)
    <3> DEFINE d == [tables EXCEPT !.principals[p].name = n]
    <3>1. Good(d, taken)
      BY <2>3, RenameGood DEF Known
    <3>2. (Refused(r) /\ tables' = d) \/ Committed(r, d, {})
      BY <2>2, <2>3
    <3> HIDE DEF d
    <3> QED
      BY <1>0, <2>1, <3>1, <3>2, CommittedKeeps, RefusedKeeps
  <2>4. CASE ~Known(p) \/ NameTaken(p, n)
    <3>1. Good(tables', taken')
      BY <2>1, <2>2, <2>4, SameGood
    <3> QED
      BY <1>0, <2>2, <2>4, <3>1, RefusedKeeps
  <2> QED
    BY <2>3, <2>4
<1>3. CASE delete_principal(r)
  <2>1. taken' = taken
    BY <1>3 DEF delete_principal
  <2>2. PICK p \in Principals :
          IF Known(p) THEN Committed(r, WithoutPrincipal(p), KeysOf(p)) ELSE Refused(r) /\ UNCHANGED tables
    BY <1>3 DEF delete_principal
  <2>3. CASE Known(p)
    <3>1. /\ Good(WithoutPrincipal(p), taken)
          /\ \A k \in KeysOf(p) : k \in taken /\ k \in Keys /\ Dead(WithoutPrincipal(p).keys, k)
      BY <2>3, CascadeGood DEF Known
    <3> QED
      BY <1>0, <2>1, <2>2, <2>3, <3>1, CommittedKeeps
  <2>4. CASE ~Known(p)
    <3>1. Good(tables', taken')
      BY <2>1, <2>2, <2>4, SameGood
    <3> QED
      BY <1>0, <2>2, <2>4, <3>1, RefusedKeeps
  <2> QED
    BY <2>3, <2>4
<1> QED
  BY <1>1, <1>2, <1>3

LEMMA LimitHandlers ==
    ASSUME IdentityIInv, NEW r \in Callers,
           put_limits(r) \/ delete_limits(r) \/ put_budget(r) \/ delete_budget(r)
    PROVE  IdentityIInv'
<1>0. call[r].at \notin {"idle", "refresh"} /\ RestKept /\ taken' = taken
  BY DEF put_limits, delete_limits, put_budget, delete_budget, CONFIG_WRITE
<1>1. tables.limits \subseteq DOMAIN tables.principals /\ tables.budgets \subseteq DOMAIN tables.principals
  BY TablesTyped DEF Referential
<1>2. PICK p \in Principals :
        \/ Known(p) /\ Committed(r, [tables EXCEPT !.limits = @ \cup {p}], {})
        \/ Committed(r, [tables EXCEPT !.limits = @ \ {p}], {})
        \/ Known(p) /\ Committed(r, [tables EXCEPT !.budgets = @ \cup {p}], {})
        \/ Committed(r, [tables EXCEPT !.budgets = @ \ {p}], {})
        \/ Refused(r) /\ UNCHANGED tables
  BY Zenon DEF put_limits, delete_limits, put_budget, delete_budget
<1>3. CASE Refused(r) /\ UNCHANGED tables
  <2>1. Good(tables', taken')
    BY <1>0, <1>3, SameGood
  <2> QED
    BY <1>0, <1>3, <2>1, RefusedKeeps
<1>4. CASE Known(p) /\ Committed(r, [tables EXCEPT !.limits = @ \cup {p}], {})
  <2> DEFINE d == [tables EXCEPT !.limits = tables.limits \cup {p}]
  <2>1. Good(d, taken)
    BY <1>1, <1>4, LimitsGood DEF Known
  <2>2. Committed(r, d, {})
    BY <1>4
  <2> HIDE DEF d
  <2> QED
    BY <1>0, <2>1, <2>2, CommittedKeeps
<1>5. CASE Committed(r, [tables EXCEPT !.limits = @ \ {p}], {})
  <2> DEFINE d == [tables EXCEPT !.limits = tables.limits \ {p}]
  <2>1. Good(d, taken)
    BY <1>1, LimitsGood
  <2>2. Committed(r, d, {})
    BY <1>5
  <2> HIDE DEF d
  <2> QED
    BY <1>0, <2>1, <2>2, CommittedKeeps
<1>6. CASE Known(p) /\ Committed(r, [tables EXCEPT !.budgets = @ \cup {p}], {})
  <2> DEFINE d == [tables EXCEPT !.budgets = tables.budgets \cup {p}]
  <2>1. Good(d, taken)
    BY <1>1, <1>6, LimitsGood DEF Known
  <2>2. Committed(r, d, {})
    BY <1>6
  <2> HIDE DEF d
  <2> QED
    BY <1>0, <2>1, <2>2, CommittedKeeps
<1>7. CASE Committed(r, [tables EXCEPT !.budgets = @ \ {p}], {})
  <2> DEFINE d == [tables EXCEPT !.budgets = tables.budgets \ {p}]
  <2>1. Good(d, taken)
    BY <1>1, LimitsGood
  <2>2. Committed(r, d, {})
    BY <1>7
  <2> HIDE DEF d
  <2> QED
    BY <1>0, <2>1, <2>2, CommittedKeeps
<1> QED
  BY <1>2, <1>3, <1>4, <1>5, <1>6, <1>7

\* A request that is refused, or goes on, with no row changed.
LEMMA NothingWritten ==
    ASSUME IdentityIInv, NEW r \in Callers, call[r].at \notin {"idle", "refresh"}, TablesKept, RestKept,
           \/ Refused(r)
           \/ \E at \in HandlerPlaces, arg \in Principals \cup RoleIds \cup AllRoleNames \cup {Nobody} : Step(r, at, arg)
    PROVE  IdentityIInv'
<1>1. Good(tables', taken')
  BY SameGood DEF TablesKept
<1> QED
  BY <1>1, RefusedKeeps, StepOnKeeps

\* What a role is found by, and what is found.
LEMMA RoleFound ==
    ASSUME IdentityIInv
    PROVE  /\ \A n : \A role \in RoleNamed(n) : role \in RoleIds /\ role \in DOMAIN tables.roles
           /\ RoleNames \subseteq AllRoleNames
<1>1. DOMAIN tables.roles \subseteq RoleIds
  BY TablesTyped, RowsElim
<1> QED
  BY <1>1 DEF RoleNamed, AllRoleNames

LEMMA RoleReaders ==
    ASSUME IdentityIInv, NEW r \in Callers,
           grant_role_read(r) \/ grant_permission_read(r) \/ patch_role_read(r) \/ delete_role_count(r)
    PROVE  IdentityIInv'
<1>1. call[r].at \notin {"idle", "refresh"} /\ TablesKept /\ RestKept
  BY DEF grant_role_read, grant_permission_read, patch_role_read, delete_role_count, ReadRole, CONFIG_WRITE
<1>2. {"grant_role", "grant_permission", "patch_role", "delete_role"} \subseteq HandlerPlaces
  BY DEF HandlerPlaces
<1>3. CASE delete_role_count(r)
  <2>1. PICK n \in RoleNames : Refused(r) \/ Step(r, "delete_role", n)
    BY <1>3 DEF delete_role_count
  <2>2. n \in AllRoleNames
    BY RoleFound
  <2> QED
    BY <1>1, <1>2, <2>1, <2>2, NothingWritten
<1>4. ASSUME NEW then \in {"grant_role", "grant_permission", "patch_role"}, ReadRole(r, then)
      PROVE  IdentityIInv'
  <2>1. PICK n \in RoleNames : Refused(r) \/ \E role \in RoleNamed(n) : Step(r, then, role)
    BY <1>4 DEF ReadRole
  <2> QED
    BY <1>1, <1>2, <1>4, <2>1, RoleFound, NothingWritten
<1> QED
  BY <1>3, <1>4 DEF grant_role_read, grant_permission_read, patch_role_read

LEMMA MembershipHandlers ==
    ASSUME IdentityIInv, NEW r \in Callers, grant_role(r) \/ revoke_role(r)
    PROVE  IdentityIInv'
<1>1. call[r].at \notin {"idle", "refresh"} /\ taken' = taken /\ RestKept
  BY DEF grant_role, revoke_role, CONFIG_WRITE
<1>2. \A m \in tables.members : m \in (DOMAIN tables.principals) \X (DOMAIN tables.roles)
  BY TablesTyped DEF Referential
<1>3. CASE Refused(r) /\ UNCHANGED tables
  BY <1>1, <1>3, NothingWritten DEF TablesKept
<1>4. CASE grant_role(r) /\ ~(Refused(r) /\ UNCHANGED tables)
  <2>1. PICK p \in Principals : /\ Known(p) /\ call[r].arg \in DOMAIN tables.roles
                                /\ Committed(r, [tables EXCEPT !.members = @ \cup {<<p, call[r].arg>>}], {})
    BY <1>4 DEF grant_role
  <2> DEFINE M == tables.members \cup {<<p, call[r].arg>>}
             d == [tables EXCEPT !.members = M]
  <2>2. M \in SUBSET ((DOMAIN tables.principals) \X (DOMAIN tables.roles))
    BY <1>2, <2>1 DEF Known
  <2>3. Committed(r, d, {})
    BY <2>1
  <2> HIDE DEF M
  <2>4. Good(d, taken)
    BY <2>2, MembersGood
  <2> HIDE DEF d
  <2> QED
    BY <1>1, <2>3, <2>4, NothingKilled
<1>5. CASE revoke_role(r) /\ ~(Refused(r) /\ UNCHANGED tables)
  <2>1. PICK p \in Principals, n \in RoleNames :
          Committed(r, [tables EXCEPT !.members = @ \ ({<<p, role>> : role \in RoleNamed(n)} \cap tables.members)], {})
    BY <1>5 DEF revoke_role
  <2> DEFINE gone == {<<p, role>> : role \in RoleNamed(n)} \cap tables.members
             M == tables.members \ gone
             d == [tables EXCEPT !.members = M]
  <2>3. Committed(r, d, {})
    BY <2>1
  <2> HIDE DEF gone
  <2>2. M \in SUBSET ((DOMAIN tables.principals) \X (DOMAIN tables.roles))
    BY <1>2
  <2> HIDE DEF M
  <2>4. Good(d, taken)
    BY <2>2, MembersGood
  <2> HIDE DEF d
  <2> QED
    BY <1>1, <2>3, <2>4, NothingKilled
<1> QED
  BY <1>3, <1>4, <1>5

LEMMA PermissionHandlers ==
    ASSUME IdentityIInv, NEW r \in Callers, grant_permission(r) \/ revoke_permission(r)
    PROVE  IdentityIInv'
<1>1. call[r].at \notin {"idle", "refresh"} /\ taken' = taken /\ RestKept
  BY DEF grant_permission, revoke_permission, CONFIG_WRITE
<1>2. \A h \in tables.holds : h \in (DOMAIN tables.roles) \X Permissions
  BY TablesTyped DEF Referential
<1>3. CASE (Refused(r) \/ Step(r, "audit", Nobody)) /\ UNCHANGED tables
  <2>1. "audit" \in HandlerPlaces
    BY DEF HandlerPlaces
  <2> QED
    BY <1>1, <1>3, <2>1, NothingWritten DEF TablesKept
<1>4. CASE grant_permission(r) /\ ~(Refused(r) /\ UNCHANGED tables)
  <2>1. PICK g \in Permissions : /\ call[r].arg \in DOMAIN tables.roles
                                 /\ Committed(r, [tables EXCEPT !.holds = @ \cup {<<call[r].arg, g>>}], {})
    BY <1>4 DEF grant_permission
  <2> DEFINE H == tables.holds \cup {<<call[r].arg, g>>}
             d == [tables EXCEPT !.holds = H]
  <2>2. H \in SUBSET ((DOMAIN tables.roles) \X Permissions)
    BY <1>2, <2>1
  <2>3. Committed(r, d, {})
    BY <2>1
  <2> HIDE DEF H
  <2>4. Good(d, taken)
    BY <2>2, HoldsGood
  <2> HIDE DEF d
  <2> QED
    BY <1>1, <2>3, <2>4, NothingKilled
<1>5. CASE revoke_permission(r) /\ ~(Step(r, "audit", Nobody) /\ UNCHANGED tables)
  <2>1. PICK n \in RoleNames, g \in Permissions :
          Committed(r, [tables EXCEPT !.holds = @ \ ({<<role, g>> : role \in RoleNamed(n)} \cap tables.holds)], {})
    BY <1>5 DEF revoke_permission
  <2> DEFINE gone == {<<role, g>> : role \in RoleNamed(n)} \cap tables.holds
             H == tables.holds \ gone
             d == [tables EXCEPT !.holds = H]
  <2>3. Committed(r, d, {})
    BY <2>1
  <2> HIDE DEF gone
  <2>2. H \in SUBSET ((DOMAIN tables.roles) \X Permissions)
    BY <1>2
  <2> HIDE DEF H
  <2>4. Good(d, taken)
    BY <2>2, HoldsGood
  <2> HIDE DEF d
  <2> QED
    BY <1>1, <2>3, <2>4, NothingKilled
<1> QED
  BY <1>3, <1>4, <1>5

LEMMA RoleHandlers ==
    ASSUME IdentityIInv, NEW r \in Callers, post_role(r) \/ patch_role(r) \/ delete_role(r)
    PROVE  IdentityIInv'
<1>1. call[r].at \notin {"idle", "refresh"} /\ RestKept
  BY DEF post_role, patch_role, delete_role, CONFIG_WRITE
<1>2. CASE Refused(r) /\ TablesKept
  BY <1>1, <1>2, NothingWritten
<1>3. /\ tables.roles \in Rows(RoleIds, AllRoleNames) /\ DOMAIN tables.roles \subseteq taken
      /\ \A x, y \in DOMAIN tables.roles : tables.roles[x] = tables.roles[y] => x = y
  BY TablesTyped DEF IdentityIInv, TakenOnce, Referential
<1>4. CASE post_role(r) /\ ~(Refused(r) /\ TablesKept)
  <2>1. PICK role \in RoleIds \ taken, n \in RoleNames :
          /\ RoleNamed(n) = {} /\ tables' = [tables EXCEPT !.roles = Put(@, role, n)]
          /\ taken' = taken \cup {role} /\ Step(r, "audit", Nobody)
    BY <1>4 DEF post_role
  <2> DEFINE R == Put(tables.roles, role, n)
  <2>2. R \in Rows(RoleIds, AllRoleNames)
    BY <1>3, RoleFound, PutRows
  <2>3. /\ DOMAIN R = DOMAIN tables.roles \cup {role} /\ R[role] = n
        /\ \A x \in DOMAIN tables.roles : x # role => R[x] = tables.roles[x]
    BY DEF Put
  <2>4. tables' = [tables EXCEPT !.roles = R]
    BY <2>1
  <2> HIDE DEF R
  <2>5. \A x \in DOMAIN tables.roles : tables.roles[x] # n
    BY <2>1 DEF RoleNamed
  <2>6. \A x, y \in DOMAIN R : R[x] = R[y] => x = y
    BY <1>3, <2>3, <2>5
  <2>7. Good([tables EXCEPT !.roles = R], taken \cup {role})
    BY <1>3, <2>2, <2>3, <2>6, RolesGood
  <2>8. "audit" \in HandlerPlaces /\ Good(tables', taken')
    BY <2>1, <2>4, <2>7 DEF HandlerPlaces
  <2> QED
    BY <1>1, <2>1, <2>8, StepOnKeeps
<1>5. CASE patch_role(r) /\ ~(Refused(r) /\ TablesKept)
  <2>1. taken' = taken
    BY <1>5 DEF patch_role
  <2>2. PICK n \in RoleNames : /\ call[r].arg \in DOMAIN tables.roles /\ RoleNamed(n) \ {call[r].arg} = {}
                               /\ Committed(r, [tables EXCEPT !.roles[call[r].arg] = n], {})
    BY <1>5 DEF patch_role, TablesKept
  <2> DEFINE role == call[r].arg
             R == With(tables.roles, role, n)
             d == [tables EXCEPT !.roles = R]
  <2>3. Committed(r, d, {})
    BY <2>2 DEF With
  <2>4. role \in DOMAIN tables.roles /\ \A x \in DOMAIN tables.roles : tables.roles[x] = n => x = role
    BY <2>2 DEF RoleNamed
  <2> HIDE DEF role
  <2>5. /\ R \in Rows(RoleIds, AllRoleNames) /\ DOMAIN R = DOMAIN tables.roles /\ R[role] = n
        /\ \A x \in DOMAIN tables.roles : x # role => R[x] = tables.roles[x]
    BY <1>3, <2>4, RoleFound, WithRows
  <2> HIDE DEF R
  <2>6. \A x, y \in DOMAIN R : R[x] = R[y] => x = y
    BY <1>3, <2>4, <2>5
  <2>7. Good(d, taken)
    BY <1>3, <2>5, <2>6, RolesGood
  <2> HIDE DEF d
  <2> QED
    BY <1>1, <2>1, <2>3, <2>7, NothingKilled
<1>6. CASE delete_role(r) /\ ~(Refused(r) /\ TablesKept)
  <2>1. taken' = taken
    BY <1>6 DEF delete_role
  <2>2. Committed(r, WithoutRoles(RoleNamed(call[r].arg)), {})
    BY <1>6 DEF delete_role, TablesKept, WithoutRoles
  <2> QED
    BY <1>1, <2>1, <2>2, RolesGoneGood, NothingKilled
<1> QED
  BY <1>2, <1>4, <1>5, <1>6

LEMMA PasswordHandlers ==
    ASSUME IdentityIInv, NEW r \in Callers, put_password_read(r) \/ put_password(r)
    PROVE  IdentityIInv'
<1>1. call[r].at \notin {"idle", "refresh"} /\ taken' = taken /\ RestKept
  BY DEF put_password_read, put_password, CONFIG_WRITE, TablesKept
<1>2. {"put_password", "audit"} \subseteq HandlerPlaces
  BY DEF HandlerPlaces
<1>3. CASE put_password_read(r)
  <2>1. TablesKept /\ \E p \in Principals : Refused(r) \/ Step(r, "put_password", p)
    BY <1>3 DEF put_password_read
  <2> QED
    BY <1>1, <1>2, <2>1, NothingWritten
<1>4. CASE put_password(r)
  <2> DEFINE p == call[r].arg
             d == [tables EXCEPT !.principals[p].user = TRUE, !.principals[p].password = TRUE]
  <2>1. Step(r, "audit", Nobody) /\ tables' = IF Known(p) THEN d ELSE tables
    BY <1>4 DEF put_password
  <2>2. Known(p) => Good(d, taken)
    BY PasswordGood DEF Known
  <2> HIDE DEF d
  <2>3. Good(tables', taken')
    BY <1>1, <2>1, <2>2, SameGood
  <2> QED
    BY <1>1, <1>2, <2>1, <2>3, StepOnKeeps
<1> QED
  BY <1>3, <1>4

LEMMA OtherHandlers ==
    ASSUME IdentityIInv, NEW r \in Callers, revoke_all_sessions(r) \/ rebuild_snapshot(r)
    PROVE  IdentityIInv'
<1>1. call[r].at \notin {"idle", "refresh"} /\ taken' = taken /\ RestKept
  BY DEF revoke_all_sessions, rebuild_snapshot, CONFIG_WRITE
<1>2. CASE revoke_all_sessions(r)
  <2>1. NoRows \in Rows(Sessions, Principals) /\ DOMAIN NoRows = {}
    BY EmptyRows
  <2>2. Good([tables EXCEPT !.sessions = NoRows], taken)
    BY <2>1, SessionsGood
  <2>3. Good(tables', taken') /\ Step(r, "audit", Nobody) /\ "audit" \in HandlerPlaces
    BY <1>1, <1>2, <2>2 DEF revoke_all_sessions, HandlerPlaces
  <2> QED
    BY <1>1, <2>3, StepOnKeeps
<1>3. CASE rebuild_snapshot(r)
  <2>1. Committed(r, tables, {}) /\ Good(tables, taken')
    BY <1>1, <1>3, SameGood DEF rebuild_snapshot
  <2> QED
    BY <1>1, <2>1, NothingKilled
<1> QED
  BY <1>2, <1>3

\* require_session, check_permission, ReadOnly.
LEMMA AuthKeeps ==
    ASSUME IdentityIInv, NEW r \in Callers, require_session(r) \/ check_permission(r) \/ ReadOnly(r)
    PROVE  IdentityIInv'
<1>1. CASE require_session(r)
  <2>1. PICK p : /\ \/ \E s \in DOMAIN tables.sessions : p = tables.sessions[s]
                    \/ \E k \in DOMAIN tables.keys : p = tables.keys[k].principal
                 /\ call' = [call EXCEPT ![r] = [NoCall EXCEPT !.at = "authed", !.actor = p, !.n = calls + 1]]
    BY <1>1 DEF require_session, authenticate_session, AuthenticateKey
  <2>2. p \in DOMAIN tables.principals
    BY <2>1, TablesTyped DEF Referential
  <2>3. p \in Principals /\ p \in taken
    <3>1. DOMAIN tables.principals \subseteq Principals
      BY TablesTyped, RowsElim
    <3> QED
      BY <2>2, <3>1 DEF IdentityIInv, TakenOnce
  <2> DEFINE c == [NoCall EXCEPT !.at = "authed", !.actor = p, !.n = calls + 1]
  <2>4. calls' = calls + 1 /\ calls \in Nat /\ ticks' \in Nat /\ call[r].at # "refresh"
    BY <1>1 DEF require_session, IdentityIInv, IdentityTypeOK
  <2>5. c \in Calls /\ c.actor = p /\ c.kills = {}
    <3>1. NoCall \in Calls /\ NoCall.kills = {}
      BY DEF NoCall, Calls, HandlerPlaces
    <3>2. "authed" \in HandlerPlaces /\ calls + 1 \in Nat
      BY <2>4 DEF HandlerPlaces
    <3> QED
      BY <2>3, <3>1, <3>2 DEF Calls
  <2>6. call' = With(call, r, c)
    BY <2>1 DEF With
  <2> HIDE DEF c
  <2>7. Good(tables', taken') /\ UNCHANGED <<tables, taken, PUBLISH, reading, published, revoked, answered, audited>>
    BY <1>1, SameGood DEF require_session
  <2>8. Fits(c, r, tables', taken')
    BY <2>3, <2>4, <2>5, <2>7, AtWork DEF Fits
  <2> QED
    BY <2>4, <2>6, <2>7, <2>8, OneMoves
<1>2. CASE check_permission(r)
  <2>1. /\ call[r].at \notin {"idle", "refresh"} /\ TablesKept /\ RestKept
        /\ \E verb \in AdminVerbs : Refused(r) \/ Step(r, verb, Nobody)
    BY <1>2 DEF check_permission
  <2>2. AdminVerbs \subseteq HandlerPlaces
    BY DEF HandlerPlaces
  <2> QED
    BY <2>1, <2>2, NothingWritten
<1>3. CASE ReadOnly(r)
  BY <1>3, NothingWritten DEF ReadOnly, READ
<1> QED
  BY <1>1, <1>2, <1>3

LEMMA AuditKeeps ==
    ASSUME IdentityIInv, NEW r \in Callers, audit_changes(r)
    PROVE  IdentityIInv'
<1> DEFINE change == [n |-> call[r].n, actor |-> call[r].actor]
<1>1. /\ call[r].at = "audit" /\ call' = With(call, r, NoCall)
      /\ answered' = answered \cup {change}
      /\ audited' = IF Known(call[r].actor) THEN audited \cup {change} ELSE audited
      /\ UNCHANGED <<tables, taken, calls, ticks, PUBLISH, reading, published, revoked>>
  BY DEF audit_changes, Refused, With, TablesKept
<1>2. change.actor = call[r].actor /\ call[r].actor \in taken /\ reading[r].at = "idle"
  BY <1>1, AtWork
<1> HIDE DEF change
<1>3. /\ NoCall \in Calls /\ NoCall.at = "idle" /\ NoCall.kills = {}
  BY DEF NoCall, Calls, HandlerPlaces
<1>4. /\ call' \in [Callers -> Calls] /\ call'[r] = NoCall
      /\ \A q \in Callers : q # r => call'[q] = call[q]
  BY <1>1, <1>3 DEF With, IdentityIInv, IdentityTypeOK
<1>5. IdentityTypeOK' /\ TablesSound'
  BY <1>1, <1>4 DEF IdentityIInv, IdentityTypeOK, TablesSound
<1>6. TakenOnce'
  BY <1>1, <1>2, <1>3, <1>4 DEF IdentityIInv, TakenOnce
<1>7. OneBuild' /\ Withdrawn'
  BY <1>1, <1>2, <1>3, <1>4 DEF IdentityIInv, OneBuild, Withdrawn
<1>8. AuditTrail'
  BY <1>1, <1>2 DEF IdentityIInv, AuditTrail, Known
<1> QED
  BY <1>5, <1>6, <1>7, <1>8 DEF IdentityIInv

-----------------------------------------------------------------------------
(***************************************************************************)
(* The builds.                                                             *)
(***************************************************************************)

\* A builder that holds PUBLISH reads on; the keys, once read, are the tables'.
LEMMA ReadsOn ==
    ASSUME IdentityIInv, NEW b \in IdentityBuilders, NEW q \in [at : {"idle", "grants", "keys", "built"}, got : Snapshots],
           reading' = With(reading, b, q), ticks' \in Nat, PUBLISH' = b,
           b \in Callers => call[b].at = "refresh",
           \A c \in IdentityBuilders : c # b => reading[c].at = "idle",
           q.at = "built" => q.got.keys = tables.keys,
           UNCHANGED <<tables, taken, call, calls, published, revoked, answered, audited>>
    PROVE  IdentityIInv'
<1>1. /\ reading' \in [IdentityBuilders -> [at : {"idle", "grants", "keys", "built"}, got : Snapshots]]
      /\ reading'[b] = q /\ \A c \in IdentityBuilders : c # b => reading'[c] = reading[c]
  BY DEF With, IdentityIInv, IdentityTypeOK
<1>2. Callers \subseteq IdentityBuilders
  BY DEF IdentityBuilders
<1>3. IdentityTypeOK' /\ TablesSound' /\ TakenOnce' /\ AuditTrail'
  BY <1>1 DEF IdentityIInv, IdentityTypeOK, TablesSound, TakenOnce, AuditTrail, Known
<1>4. OneBuild'
  BY <1>1, <1>2 DEF OneBuild
<1>5. Withdrawn'
  BY <1>1, <1>2 DEF IdentityIInv, Withdrawn
<1> QED
  BY <1>3, <1>4, <1>5 DEF IdentityIInv

\* Whoever builds is alone, and a handler among them is at its refresh.
LEMMA Alone ==
    ASSUME IdentityIInv, NEW b \in IdentityBuilders, reading[b].at # "idle"
    PROVE  /\ PUBLISH = b
           /\ b \in Callers => call[b].at = "refresh"
           /\ \A c \in IdentityBuilders : c # b => reading[c].at = "idle"
           /\ reading[b] \in [at : {"idle", "grants", "keys", "built"}, got : Snapshots]
BY DEF IdentityIInv, IdentityTypeOK, OneBuild

LEMMA BuildKeeps ==
    ASSUME IdentityIInv, NEW b \in IdentityBuilders, BuildPrincipals(b) \/ BuildGrants(b) \/ BuildApiKeys(b)
    PROVE  IdentityIInv'
<1>1. DOMAIN tables.principals \in SUBSET Principals /\ tables.limits \in SUBSET Principals
      /\ tables.budgets \in SUBSET Principals /\ tables.keys \in Rows(Keys, KeyRows)
  BY TablesTyped, RowsElim
<1>2. ticks \in Nat /\ reading \in [IdentityBuilders -> [at : {"idle", "grants", "keys", "built"}, got : Snapshots]]
  BY DEF IdentityIInv, IdentityTypeOK
<1>3. CASE BuildPrincipals(b)
  <2> DEFINE got == [Unread EXCEPT !.principals = DOMAIN tables.principals, !.limits = tables.limits]
             q == [at |-> "grants", got |-> got]
  <2>1. Unread \in Snapshots
    BY EmptyRows DEF Unread, Snapshots
  <2>2. got \in Snapshots
    BY <1>1, <2>1 DEF Snapshots
  <2>3. PUBLISH = Nobody /\ PUBLISH' = b /\ reading' = With(reading, b, q)
    BY <1>3 DEF BuildPrincipals, With
  <2> HIDE DEF got
  <2>4. q \in [at : {"idle", "grants", "keys", "built"}, got : Snapshots] /\ q.at = "grants"
    BY <2>2
  <2> HIDE DEF q
  <2>5. \A c \in IdentityBuilders : reading[c].at = "idle"
    BY <2>3, IdentityAssumption DEF IdentityIInv, OneBuild
  <2>6. ticks' \in Nat /\ (b \in Callers => call[b].at = "refresh")
    BY <1>2, <1>3 DEF BuildPrincipals, BuildWanted, Event
  <2>7. UNCHANGED <<tables, taken, call, calls, published, revoked, answered, audited>>
    BY <1>3 DEF BuildPrincipals, TablesKept
  <2> QED
    BY <2>3, <2>4, <2>5, <2>6, <2>7, ReadsOn
<1>4. CASE BuildGrants(b)
  <2> DEFINE grants == [p \in reading[b].got.principals |-> GrantsOf(p)]
             q == [reading[b] EXCEPT !.at = "keys", !.got.budgets = tables.budgets, !.got.grants = grants]
  <2>1. /\ reading[b].at = "grants"
        /\ UNCHANGED <<tables, taken, call, calls, ticks, PUBLISH, published, revoked, answered, audited>>
    BY <1>4 DEF BuildGrants, TablesKept
  <2>2. reading[b].got \in Snapshots
    BY <1>2
  <2>3. grants \in Rows(Principals, SUBSET Permissions)
    <3>1. /\ DOMAIN grants = reading[b].got.principals
          /\ reading[b].got.principals \subseteq Principals
          /\ grants = [p \in DOMAIN grants |-> grants[p]]
          /\ \A p \in DOMAIN grants : grants[p] \in SUBSET Permissions
      BY <2>2 DEF Snapshots, GrantsOf
    <3> HIDE DEF grants
    <3> QED
      BY <3>1, RowsIntro
  <2>4. reading' = With(reading, b, q)
    BY <1>2, <1>4 DEF BuildGrants, With
  <2> HIDE DEF grants
  <2>5. q \in [at : {"idle", "grants", "keys", "built"}, got : Snapshots] /\ q.at = "keys"
    BY <1>1, <1>2, <2>2, <2>3 DEF Snapshots
  <2> HIDE DEF q
  <2> QED
    BY <1>2, <2>1, <2>4, <2>5, Alone, ReadsOn
<1>5. CASE BuildApiKeys(b)
  <2> DEFINE q == [reading[b] EXCEPT !.at = "built", !.got.keys = tables.keys]
  <2>1. /\ reading[b].at = "keys"
        /\ UNCHANGED <<tables, taken, call, calls, ticks, PUBLISH, published, revoked, answered, audited>>
    BY <1>5 DEF BuildApiKeys, TablesKept
  <2>2. reading[b].got \in Snapshots
    BY <1>2
  <2>4. reading' = With(reading, b, q)
    BY <1>2, <1>5 DEF BuildApiKeys, With
  <2>5. q \in [at : {"idle", "grants", "keys", "built"}, got : Snapshots] /\ q.got.keys = tables.keys
    BY <1>1, <1>2, <2>2 DEF Snapshots
  <2> HIDE DEF q
  <2> QED
    BY <1>2, <2>1, <2>4, <2>5, Alone, ReadsOn
<1> QED
  BY <1>3, <1>4, <1>5

\* A build ends: what is published and what counts as withdrawn may only go together.
LEMMA ReleasedKeeps ==
    ASSUME IdentityIInv, NEW b \in IdentityBuilders, reading[b].at # "idle", PublishReleased(b), ticks' \in Nat,
           published' \in Snapshots, revoked' \in SUBSET Keys,
           \A k \in revoked' : k \in taken /\ Dead(tables.keys, k) /\ Dead(published'.keys, k)
    PROVE  IdentityIInv'
<1>1. /\ PUBLISH' = Nobody /\ reading' = With(reading, b, [at |-> "idle", got |-> Unread])
      /\ UNCHANGED <<tables, taken, calls, answered, audited>>
  BY DEF PublishReleased, TablesKept, With
<1>2. Unread \in Snapshots
  BY EmptyRows DEF Unread, Snapshots
<1>3. /\ reading' \in [IdentityBuilders -> [at : {"idle", "grants", "keys", "built"}, got : Snapshots]]
      /\ \A c \in IdentityBuilders : reading'[c].at = "idle"
  BY <1>1, <1>2, Alone DEF With, IdentityIInv, IdentityTypeOK
<1>4. /\ call' \in [Callers -> Calls]
      /\ \A r \in Callers : /\ call'[r].kills \subseteq call[r].kills /\ call'[r].actor = call[r].actor
                            /\ call'[r].at # "idle" => call[r].at # "idle"
  <2>1. CASE b \in Callers
    <3> DEFINE c == [call[b] EXCEPT !.at = "audit", !.kills = {}]
    <3>1. call \in [Callers -> Calls] /\ call[b] \in Calls /\ call[b].at = "refresh"
      BY <2>1, Alone DEF IdentityIInv, IdentityTypeOK
    <3>2. "audit" \in HandlerPlaces
      BY DEF HandlerPlaces
    <3>3. c \in Calls /\ c.kills = {} /\ c.actor = call[b].actor
      BY <3>1, <3>2 DEF Calls
    <3>4. call' = With(call, b, c)
      BY <2>1, <3>1 DEF PublishReleased, With
    <3> HIDE DEF c
    <3> QED
      BY <2>1, <3>1, <3>3, <3>4 DEF With
  <2>2. CASE b \notin Callers
    BY <2>2 DEF PublishReleased, IdentityIInv, IdentityTypeOK
  <2> QED
    BY <2>1, <2>2
<1>5. IdentityTypeOK' /\ TablesSound' /\ AuditTrail'
  BY <1>1, <1>3, <1>4 DEF IdentityIInv, IdentityTypeOK, TablesSound, AuditTrail, Known
<1>6. TakenOnce'
  BY <1>1, <1>4 DEF IdentityIInv, TakenOnce
<1>7. OneBuild'
  BY <1>3 DEF OneBuild, IdentityBuilders
<1>8. Withdrawn'
  BY <1>1, <1>3, <1>4 DEF IdentityIInv, Withdrawn, IdentityBuilders
<1> QED
  BY <1>5, <1>6, <1>7, <1>8 DEF IdentityIInv

LEMMA EndOfBuildKeeps ==
    ASSUME IdentityIInv, NEW b \in IdentityBuilders, PublishIdentities(b) \/ BuildGivesUp(b)
    PROVE  IdentityIInv'
<1>1. /\ ticks \in Nat /\ revoked \in SUBSET Keys /\ published \in Snapshots
      /\ reading[b].got \in Snapshots /\ (b \in Callers => call[b].kills \in SUBSET Keys)
  BY DEF IdentityIInv, IdentityTypeOK, Calls
<1>2. CASE PublishIdentities(b)
  <2>1. /\ reading[b].at = "built" /\ published' = reading[b].got /\ PublishReleased(b) /\ ticks' = ticks
        /\ revoked' = IF b \in Callers THEN revoked \cup call[b].kills ELSE revoked
    BY <1>2 DEF PublishIdentities
  <2>2. \A k \in revoked' : k \in taken /\ Dead(tables.keys, k) /\ Dead(published'.keys, k)
    BY <2>1 DEF IdentityIInv, Withdrawn
  <2>3. revoked' \in SUBSET Keys /\ published' \in Snapshots /\ ticks' \in Nat
    BY <1>1, <2>1
  <2> QED
    BY <2>1, <2>2, <2>3, ReleasedKeeps
<1>3. CASE BuildGivesUp(b)
  <2>1. /\ reading[b].at # "idle" /\ PublishReleased(b) /\ published' = published /\ revoked' = revoked
        /\ ticks' = ticks + 1
    BY <1>3 DEF BuildGivesUp, Event
  <2>2. \A k \in revoked' : k \in taken /\ Dead(tables.keys, k) /\ Dead(published'.keys, k)
    BY <2>1 DEF IdentityIInv, Withdrawn
  <2>3. revoked' \in SUBSET Keys /\ published' \in Snapshots /\ ticks' \in Nat
    BY <1>1, <2>1
  <2> QED
    BY <2>1, <2>2, <2>3, ReleasedKeeps
<1> QED
  BY <1>2, <1>3

-----------------------------------------------------------------------------
(***************************************************************************)
(* Sessions, the clock and the processes beside the pod.                   *)
(***************************************************************************)

\* A step that leaves every request where it is.
LEMMA EventKeeps ==
    ASSUME IdentityIInv, Good(tables', taken'), Event,
           UNCHANGED <<call, calls, PUBLISH, reading, published, revoked, answered, audited>>
    PROVE  IdentityIInv'
<1>1. call' \in [Callers -> Calls] /\ calls' \in Nat /\ ticks' \in Nat
  BY DEF IdentityIInv, IdentityTypeOK, Event
<1>2. \A r \in Callers : Fits(call'[r], r, tables', taken')
  BY StaysFit
<1> QED
  BY <1>1, <1>2, StepKeeps

LEMMA SessionKeeps ==
    ASSUME IdentityIInv, NEW s \in Sessions, login(s) \/ logout(s)
    PROVE  IdentityIInv'
<1>1. /\ tables.sessions \in Rows(Sessions, Principals) /\ DOMAIN tables.sessions \subseteq taken
      /\ \A x \in DOMAIN tables.sessions : tables.sessions[x] \in DOMAIN tables.principals
      /\ DOMAIN tables.principals \subseteq Principals
  BY TablesTyped, RowsElim DEF Referential, IdentityIInv, TakenOnce
<1>2. Event /\ Quiet
  BY DEF login, logout
<1>3. CASE login(s)
  <2>1. PICK p \in DOMAIN tables.principals : tables' = [tables EXCEPT !.sessions = Put(@, s, p)]
    BY <1>3 DEF login
  <2> DEFINE S == Put(tables.sessions, s, p)
  <2>2. S \in Rows(Sessions, Principals)
    BY <1>1, PutRows
  <2>3. /\ DOMAIN S = DOMAIN tables.sessions \cup {s}
        /\ \A x \in DOMAIN S : S[x] = p \/ (x \in DOMAIN tables.sessions /\ S[x] = tables.sessions[x])
    BY DEF Put
  <2>4. tables' = [tables EXCEPT !.sessions = S] /\ taken' = taken \cup {s}
    BY <1>3, <2>1 DEF login
  <2> HIDE DEF S
  <2>5. Good([tables EXCEPT !.sessions = S], taken \cup {s})
    BY <1>1, <2>2, <2>3, SessionsGood
  <2> QED
    BY <1>2, <2>4, <2>5, EventKeeps DEF Quiet
<1>4. CASE logout(s)
  <2> DEFINE S == Without(tables.sessions, {s})
  <2>2. S \in Rows(Sessions, Principals)
    BY <1>1, WithoutRows
  <2>3. DOMAIN S \subseteq DOMAIN tables.sessions /\ \A x \in DOMAIN S : S[x] = tables.sessions[x]
    BY DEF Without
  <2>4. tables' = [tables EXCEPT !.sessions = S] /\ taken' = taken
    BY <1>4 DEF logout
  <2> HIDE DEF S
  <2>5. Good([tables EXCEPT !.sessions = S], taken)
    BY <1>1, <2>2, <2>3, SessionsGood
  <2> QED
    BY <1>2, <2>4, <2>5, EventKeeps DEF Quiet
<1> QED
  BY <1>3, <1>4

LEMMA ExpireKeeps ==
    ASSUME IdentityIInv, NEW x, Expire(x)
    PROVE  IdentityIInv'
<1>1. Good(tables', taken')
  BY SameGood DEF Expire
<1> QED
  BY <1>1, EventKeeps DEF Expire

LEMMA BootstrapKeeps ==
    ASSUME IdentityIInv, bootstrap_admin_user
    PROVE  IdentityIInv'
<1>1. PICK p \in DOMAIN tables.principals :
        tables' = [tables EXCEPT !.principals[p].user = TRUE, !.principals[p].password = TRUE,
                         !.members = IF principal_has_permission(p, CONFIG_WRITE) THEN @
                                     ELSE @ \cup {<<p, role>> : role \in RoleNamed(Admin)}]
  BY DEF bootstrap_admin_user
<1> DEFINE row == [tables.principals[p] EXCEPT !.user = TRUE, !.password = TRUE]
           P == With(tables.principals, p, row)
           M == IF principal_has_permission(p, CONFIG_WRITE) THEN tables.members
                ELSE tables.members \cup {<<p, role>> : role \in RoleNamed(Admin)}
           d == [tables EXCEPT !.principals = P, !.members = M]
<1>2. tables.principals[p] \in PrincipalRows
  BY TablesTyped, RowsElim
<1>3. row \in PrincipalRows
  BY <1>2 DEF PrincipalRows
<1>4. tables' = d
  BY <1>1, <1>2, TablesTyped DEF With, Tables
<1> HIDE DEF row
<1>5. P \in Rows(Principals, PrincipalRows) /\ DOMAIN P = DOMAIN tables.principals
  BY <1>3, TablesTyped, WithRows
<1> HIDE DEF P
<1>6. /\ M \in SUBSET (Principals \X RoleIds)
      /\ \A m \in M : m[1] \in DOMAIN tables.principals /\ m[2] \in DOMAIN tables.roles
  <2>1. DOMAIN tables.principals \subseteq Principals /\ DOMAIN tables.roles \subseteq RoleIds
    BY TablesTyped, RowsElim
  <2>2. \A m \in {<<p, role>> : role \in RoleNamed(Admin)} : m \in (DOMAIN tables.principals) \X (DOMAIN tables.roles)
    BY DEF RoleNamed
  <2>3. \A m \in tables.members : m \in (DOMAIN tables.principals) \X (DOMAIN tables.roles)
    BY TablesTyped DEF Referential
  <2>4. M \in SUBSET ((DOMAIN tables.principals) \X (DOMAIN tables.roles))
    BY <2>2, <2>3
  <2> HIDE DEF M
  <2> QED
    BY <2>1, <2>4
<1> HIDE DEF M
<1>7. /\ d \in Tables /\ d.keys = tables.keys /\ d.principals = P /\ d.roles = tables.roles
      /\ d.members = M /\ d.holds = tables.holds /\ d.sessions = tables.sessions
      /\ d.limits = tables.limits /\ d.budgets = tables.budgets
  BY <1>5, <1>6, TablesTyped DEF Tables
<1> HIDE DEF d
<1>8. Referential(d)
  BY <1>5, <1>6, <1>7, TablesTyped DEF Referential
<1>9. DOMAIN d.roles \subseteq taken /\ DOMAIN d.sessions \subseteq taken
  BY <1>7 DEF IdentityIInv, TakenOnce
<1>10. Good(d, taken)
  BY <1>5, <1>7, <1>8, <1>9, OtherGood
<1>11. Good(tables', taken') /\ Event /\ Quiet
  BY <1>4, <1>10 DEF bootstrap_admin_user
<1> QED
  BY <1>11, EventKeeps DEF Quiet

\* import_key: all that Good asks, but for the one key that comes back.
LEMMA ImportGood ==
    ASSUME IdentityIInv, NEW e \in AuthKeys,
           NEW p \in UpsertId(PrincipalNamed(e.name), Principals),
           NEW role \in UpsertId(RoleNamed(import_role_name(e.name)), RoleIds)
    PROVE  LET d == import_key(e, p, role)
               t == taken \cup {p, role, e.key}
           IN  /\ d \in Tables /\ Referential(d)
               /\ DOMAIN d.principals \subseteq t /\ DOMAIN d.roles \subseteq t
               /\ DOMAIN d.keys \subseteq t /\ DOMAIN d.sessions \subseteq t
               /\ \A x \in DOMAIN d.principals : x \in DOMAIN tables.principals \/ x \notin taken
               /\ \A k \in taken \ {e.key} : Dead(tables.keys, k) => Dead(d.keys, k)
<1> DEFINE name == import_role_name(e.name)
           row == NewPrincipal(e.name, TRUE)
           key == [principal |-> p, disabled |-> FALSE]
           P == IF Known(p) THEN tables.principals ELSE Put(tables.principals, p, row)
           R == Put(tables.roles, role, name)
           M == tables.members \cup {<<p, role>>}
           H == {h \in tables.holds : h[1] # role} \cup {<<role, <<INVOKE, m>>>> : m \in e.models}
           K == Put(tables.keys, e.key, key)
           L == IF e.limits THEN tables.limits \cup {p} ELSE tables.limits
           B == IF e.budget THEN tables.budgets \cup {p} ELSE tables.budgets
           d == import_key(e, p, role)
<1>1. /\ e.key \in Keys /\ e.models \in SUBSET {"model/*", "model/m"} /\ e.name \in {x.name : x \in AuthKeys}
  BY IdentityAssumption
<1>2. /\ p \in Principals /\ (p \in DOMAIN tables.principals \/ p \notin taken)
      /\ role \in RoleIds /\ (\A x \in DOMAIN tables.roles : tables.roles[x] = name => x = role)
      /\ (role \in DOMAIN tables.roles => tables.roles[role] = name)
  <2>1. /\ DOMAIN tables.principals \subseteq Principals
        /\ DOMAIN tables.roles \subseteq RoleIds /\ DOMAIN tables.roles \subseteq taken
    BY TablesTyped, RowsElim DEF IdentityIInv, TakenOnce
  <2>2. p \in Principals /\ (p \in DOMAIN tables.principals \/ p \notin taken)
    BY <2>1 DEF UpsertId, PrincipalNamed
  <2>3. role \in RoleNamed(name) \/ (RoleNamed(name) = {} /\ role \in RoleIds \ taken)
    BY DEF UpsertId
  <2>4. \A x, y \in DOMAIN tables.roles : tables.roles[x] = tables.roles[y] => x = y
    BY TablesTyped DEF Referential
  <2> QED
    BY <2>1, <2>2, <2>3, <2>4 DEF RoleNamed
<1>3. name \in AllRoleNames
  BY DEF AllRoleNames
<1> HIDE DEF name
<1>4. row \in PrincipalRows /\ key \in KeyRows /\ key.principal = p
  BY <1>1, <1>2 DEF NewPrincipal, PrincipalRows, KeyRows
<1> HIDE DEF row, key
<1>5. /\ P \in Rows(Principals, PrincipalRows) /\ DOMAIN P = DOMAIN tables.principals \cup {p}
  <2>1. P \in Rows(Principals, PrincipalRows)
    BY <1>2, <1>4, TablesTyped, PutRows
  <2> QED
    BY <2>1 DEF Put, Known
<1>6. /\ R \in Rows(RoleIds, AllRoleNames) /\ DOMAIN R = DOMAIN tables.roles \cup {role} /\ R[role] = name
      /\ \A x \in DOMAIN tables.roles : x # role => R[x] = tables.roles[x]
  <2>1. R \in Rows(RoleIds, AllRoleNames)
    BY <1>2, <1>3, TablesTyped, PutRows
  <2> QED
    BY <2>1 DEF Put
<1>7. /\ K \in Rows(Keys, KeyRows) /\ DOMAIN K = DOMAIN tables.keys \cup {e.key} /\ K[e.key] = key
      /\ \A x \in DOMAIN tables.keys : x # e.key => K[x] = tables.keys[x]
  <2>1. K \in Rows(Keys, KeyRows)
    BY <1>1, <1>4, TablesTyped, PutRows
  <2> QED
    BY <2>1 DEF Put
<1>8. M \in SUBSET (Principals \X RoleIds)
  BY <1>2, TablesTyped
<1>9. H \in SUBSET (RoleIds \X Permissions) /\ \A h \in H : h \in tables.holds \/ h[1] = role
  <2>1. \A m \in e.models : <<INVOKE, m>> \in Permissions
    BY <1>1 DEF Permissions, validate_grant, INVOKE, Resources, AdminVerbs, READ, KEY_CREATE, KEY_REVOKE, CONFIG_WRITE
  <2> QED
    BY <1>2, <2>1, TablesTyped
<1>10. /\ L \in SUBSET Principals /\ L \subseteq tables.limits \cup {p}
       /\ B \in SUBSET Principals /\ B \subseteq tables.budgets \cup {p}
  BY <1>2, TablesTyped
<1>11. d = [tables EXCEPT !.principals = P, !.roles = R, !.members = M, !.holds = H, !.keys = K,
                          !.limits = L, !.budgets = B]
  BY TablesTyped DEF import_key, import_entry, name, row, key, Tables
<1> HIDE DEF P, R, H, K, L, B, d
<1>12. /\ d \in Tables /\ d.keys = K /\ d.principals = P /\ d.roles = R
       /\ d.members = M /\ d.holds = H /\ d.sessions = tables.sessions
       /\ d.limits = L /\ d.budgets = B
  BY <1>5, <1>6, <1>7, <1>8, <1>9, <1>10, <1>11, TablesTyped DEF Tables
<1>13. Referential(d)
  <2>1. /\ \A k \in DOMAIN tables.keys : tables.keys[k].principal \in DOMAIN tables.principals
        /\ \A s \in DOMAIN tables.sessions : tables.sessions[s] \in DOMAIN tables.principals
        /\ \A m \in tables.members : m[1] \in DOMAIN tables.principals /\ m[2] \in DOMAIN tables.roles
        /\ \A h \in tables.holds : h[1] \in DOMAIN tables.roles
        /\ tables.limits \subseteq DOMAIN tables.principals /\ tables.budgets \subseteq DOMAIN tables.principals
        /\ \A x, y \in DOMAIN tables.roles : tables.roles[x] = tables.roles[y] => x = y
    BY TablesTyped DEF Referential
  <2>2. \A k \in DOMAIN d.keys : d.keys[k].principal \in DOMAIN d.principals
    BY <1>4, <1>5, <1>7, <1>12, <2>1
  <2>3. \A s \in DOMAIN d.sessions : d.sessions[s] \in DOMAIN d.principals
    BY <1>5, <1>12, <2>1
  <2>4. \A m \in d.members : m[1] \in DOMAIN d.principals /\ m[2] \in DOMAIN d.roles
    BY <1>5, <1>6, <1>12, <2>1
  <2>5. \A h \in d.holds : h[1] \in DOMAIN d.roles
    BY <1>6, <1>9, <1>12, <2>1
  <2>6. d.limits \subseteq DOMAIN d.principals /\ d.budgets \subseteq DOMAIN d.principals
    BY <1>5, <1>10, <1>12, <2>1
  <2>7. \A x, y \in DOMAIN d.roles : d.roles[x] = d.roles[y] => x = y
    BY <1>2, <1>6, <1>12, <2>1
  <2> QED
    BY <2>2, <2>3, <2>4, <2>5, <2>6, <2>7 DEF Referential
<1>14. \A k \in taken \ {e.key} : Dead(tables.keys, k) => Dead(d.keys, k)
  BY <1>7, <1>12 DEF Dead
<1>15. /\ DOMAIN tables.principals \subseteq taken /\ DOMAIN tables.roles \subseteq taken
       /\ DOMAIN tables.keys \subseteq taken /\ DOMAIN tables.sessions \subseteq taken
  BY DEF IdentityIInv, TakenOnce
<1> QED
  BY <1>2, <1>5, <1>6, <1>7, <1>12, <1>13, <1>14, <1>15 DEF d

LEMMA ImportKeeps ==
    ASSUME IdentityIInv, import_auth_keys
    PROVE  IdentityIInv'
<1>0. PICK e \in AuthKeys :
        \E p \in UpsertId(PrincipalNamed(e.name), Principals), role \in UpsertId(RoleNamed(import_role_name(e.name)), RoleIds) :
          /\ tables' = import_key(e, p, role) /\ taken' = taken \cup {p, role, e.key}
          /\ revoked' = revoked \ {e.key}
          /\ call' = [r \in Callers |-> [call[r] EXCEPT !.kills = @ \ {e.key}]]
  BY Zenon DEF import_auth_keys
<1>1. PICK p \in UpsertId(PrincipalNamed(e.name), Principals), role \in UpsertId(RoleNamed(import_role_name(e.name)), RoleIds) :
        /\ tables' = import_key(e, p, role) /\ taken' = taken \cup {p, role, e.key}
        /\ revoked' = revoked \ {e.key}
        /\ call' = [r \in Callers |-> [call[r] EXCEPT !.kills = @ \ {e.key}]]
  BY <1>0
<1>2. calls' = calls + 1 /\ UNCHANGED <<ticks, PUBLISH, reading, published, answered, audited>>
  BY DEF import_auth_keys
<1>3. /\ tables' \in Tables /\ Referential(tables')
      /\ DOMAIN tables'.principals \subseteq taken' /\ DOMAIN tables'.roles \subseteq taken'
      /\ DOMAIN tables'.keys \subseteq taken' /\ DOMAIN tables'.sessions \subseteq taken'
      /\ \A x \in DOMAIN tables'.principals : x \in DOMAIN tables.principals \/ x \notin taken
      /\ \A k \in taken \ {e.key} : Dead(tables.keys, k) => Dead(tables'.keys, k)
  <2> DEFINE d == import_key(e, p, role)
  <2>1. /\ d \in Tables /\ Referential(d)
        /\ DOMAIN d.principals \subseteq taken \cup {p, role, e.key} /\ DOMAIN d.roles \subseteq taken \cup {p, role, e.key}
        /\ DOMAIN d.keys \subseteq taken \cup {p, role, e.key} /\ DOMAIN d.sessions \subseteq taken \cup {p, role, e.key}
        /\ \A x \in DOMAIN d.principals : x \in DOMAIN tables.principals \/ x \notin taken
        /\ \A k \in taken \ {e.key} : Dead(tables.keys, k) => Dead(d.keys, k)
    BY ImportGood, Zenon
  <2> HIDE DEF d
  <2>2. tables' = d
    BY <1>1 DEF d
  <2> QED
    BY <1>1, <2>1, <2>2
<1>4. /\ call' \in [Callers -> Calls]
      /\ \A r \in Callers : /\ call'[r].kills = call[r].kills \ {e.key}
                            /\ call'[r].at = call[r].at /\ call'[r].actor = call[r].actor
  <2>1. ASSUME NEW r \in Callers
        PROVE  /\ call'[r] \in Calls /\ call'[r].kills = call[r].kills \ {e.key}
               /\ call'[r].at = call[r].at /\ call'[r].actor = call[r].actor
    <3>1. call[r] \in Calls /\ call'[r] = [call[r] EXCEPT !.kills = call[r].kills \ {e.key}]
      BY <1>1 DEF IdentityIInv, IdentityTypeOK
    <3> QED
      BY <3>1 DEF Calls
  <2>2. call' = [r \in Callers |-> call'[r]]
    BY <1>1
  <2> QED
    BY <2>1, <2>2
<1>5. IdentityTypeOK' /\ TablesSound'
  BY <1>1, <1>2, <1>3, <1>4 DEF IdentityIInv, IdentityTypeOK, TablesSound
<1>6. TakenOnce'
  <2>1. taken \subseteq taken'
    BY <1>1
  <2>2. /\ \A r \in Callers : call'[r].at # "idle" => call'[r].actor \in taken'
        /\ \A c \in answered' : c.actor \in taken'
    BY <1>2, <1>4, <2>1 DEF IdentityIInv, TakenOnce
  <2> QED
    BY <1>3, <2>2 DEF TakenOnce
<1>7. OneBuild'
  BY <1>2, <1>4 DEF IdentityIInv, OneBuild, IdentityBuilders
<1>8. Withdrawn'
  <2>1. \A k \in revoked' : k \in taken' /\ Dead(tables.keys, k)' /\ Dead(published.keys, k)'
    BY <1>1, <1>2, <1>3 DEF IdentityIInv, Withdrawn
  <2>2. \A r \in Callers : \A k \in call'[r].kills : k \in taken' /\ Dead(tables.keys, k)'
    BY <1>1, <1>3, <1>4 DEF IdentityIInv, Withdrawn
  <2>3. \A b \in IdentityBuilders : reading'[b].at = "built" => \A k \in revoked' : Dead(reading[b].got.keys, k)'
    BY <1>1, <1>2 DEF IdentityIInv, Withdrawn
  <2>4. \A r \in Callers : reading'[r].at = "built" => \A k \in call'[r].kills : Dead(reading[r].got.keys, k)'
    BY <1>2, <1>4 DEF IdentityIInv, Withdrawn
  <2> QED
    BY <2>1, <2>2, <2>3, <2>4 DEF Withdrawn
<1>9. AuditTrail'
  BY <1>2, <1>3 DEF IdentityIInv, AuditTrail, TakenOnce, Known
<1> QED
  BY <1>5, <1>6, <1>7, <1>8, <1>9 DEF IdentityIInv

-----------------------------------------------------------------------------
(***************************************************************************)
(* The theorems.                                                           *)
(***************************************************************************)

LEMMA IdentityStarts == IdentityInit => IdentityIInv
<1> SUFFICES ASSUME IdentityInit PROVE IdentityIInv
  OBVIOUS
<1>1. tables \in Tables /\ Referential(tables)
  BY IdentityAssumption DEF IdentityInit
<1>2. /\ tables.principals \in Rows(Principals, PrincipalRows) /\ tables.keys \in Rows(Keys, KeyRows)
      /\ tables.limits \in SUBSET Principals /\ tables.budgets \in SUBSET Principals
  BY <1>1 DEF Tables
<1>3. DOMAIN tables.principals \in SUBSET Principals
  BY <1>2, RowsElim
<1> DEFINE grants == [p \in DOMAIN tables.principals |-> GrantsOf(p)]
<1>4. grants \in Rows(Principals, SUBSET Permissions)
  <2>1. /\ DOMAIN grants = DOMAIN tables.principals /\ grants = [p \in DOMAIN grants |-> grants[p]]
        /\ \A p \in DOMAIN grants : grants[p] \in SUBSET Permissions
    BY DEF GrantsOf
  <2> HIDE DEF grants
  <2> QED
    BY <1>3, <2>1, RowsIntro
<1>5. published = [principals |-> DOMAIN tables.principals, limits |-> tables.limits, budgets |-> tables.budgets,
                   grants |-> grants, keys |-> tables.keys]
  BY DEF IdentityInit
<1> HIDE DEF grants
<1>6. published \in Snapshots
  BY <1>2, <1>3, <1>4, <1>5 DEF Snapshots
<1>7. Unread \in Snapshots
  BY EmptyRows DEF Unread, Snapshots
<1>8. NoCall \in Calls /\ NoCall.at = "idle" /\ NoCall.kills = {}
  BY DEF NoCall, Calls, HandlerPlaces
<1>9. /\ call = [r \in Callers |-> NoCall] /\ calls = 0 /\ ticks = 0 /\ PUBLISH = Nobody
      /\ reading = [b \in IdentityBuilders |-> [at |-> "idle", got |-> Unread]]
      /\ revoked = {} /\ answered = {} /\ audited = {}
      /\ taken = UNION {DOMAIN tables.principals, DOMAIN tables.roles, DOMAIN tables.keys, DOMAIN tables.sessions}
  BY DEF IdentityInit
<1>10. IdentityTypeOK
  <2>1. call \in [Callers -> Calls] /\ calls \in Nat /\ ticks \in Nat /\ PUBLISH \in IdentityBuilders \cup {Nobody}
    BY <1>8, <1>9
  <2>2. reading \in [IdentityBuilders -> [at : {"idle", "grants", "keys", "built"}, got : Snapshots]]
    BY <1>7, <1>9
  <2> QED
    BY <1>1, <1>6, <1>9, <2>1, <2>2 DEF IdentityTypeOK
<1>11. TablesSound /\ OneBuild /\ AuditTrail
  BY <1>1, <1>9 DEF TablesSound, OneBuild, AuditTrail, IdentityBuilders
<1>12. TakenOnce
  BY <1>8, <1>9 DEF TakenOnce
<1>13. Withdrawn
  BY <1>8, <1>9 DEF Withdrawn, IdentityBuilders
<1> QED
  BY <1>10, <1>11, <1>12, <1>13 DEF IdentityIInv

LEMMA IdentityStutters == IdentityIInv /\ UNCHANGED identities => IdentityIInv'
<1> SUFFICES ASSUME IdentityIInv, UNCHANGED identities PROVE IdentityIInv'
  OBVIOUS
<1>1. UNCHANGED <<tables, taken, call, calls, ticks, PUBLISH, reading, published, revoked, answered, audited>>
  BY DEF identities
<1>2. Good(tables', taken')
  BY <1>1, SameGood
<1>3. call' \in [Callers -> Calls] /\ calls' \in Nat /\ ticks' \in Nat
  BY <1>1 DEF IdentityIInv, IdentityTypeOK
<1>4. \A r \in Callers : Fits(call'[r], r, tables', taken')
  BY <1>1, <1>2, StaysFit
<1> QED
  BY <1>1, <1>2, <1>3, <1>4, StepKeeps

\* The tables stay sound between any two statements, every id is handed out
\* once, one build runs at a time, and a key that was withdrawn stays out of use
\* in whatever is read and published after it.
THEOREM IdentityInvariant == IdentitySpec => []IdentityIInv
<1>1. IdentityIInv /\ [IdentityNext]_identities => IdentityIInv'
  <2> SUFFICES ASSUME IdentityIInv, [IdentityNext]_identities PROVE IdentityIInv'
    OBVIOUS
  <2>1. ASSUME NEW r \in Callers,
               require_session(r) \/ check_permission(r) \/ ReadOnly(r) \/ Handler(r) \/ audit_changes(r)
        PROVE  IdentityIInv'
    <3>1. CASE require_session(r) \/ check_permission(r) \/ ReadOnly(r)
      BY <3>1, AuthKeeps
    <3>2. CASE Handler(r)
      BY <3>2, KeyHandlers, PrincipalHandlers, LimitHandlers, RoleReaders, MembershipHandlers, PermissionHandlers,
         RoleHandlers, PasswordHandlers, OtherHandlers DEF Handler
    <3>3. CASE audit_changes(r)
      BY <3>3, AuditKeeps
    <3> QED
      BY <2>1, <3>1, <3>2, <3>3
  <2>2. ASSUME NEW b \in IdentityBuilders,
               BuildPrincipals(b) \/ BuildGrants(b) \/ BuildApiKeys(b) \/ PublishIdentities(b) \/ BuildGivesUp(b)
        PROVE  IdentityIInv'
    BY <2>2, BuildKeeps, EndOfBuildKeeps
  <2>3. ASSUME NEW s \in Sessions, login(s) \/ logout(s) PROVE IdentityIInv'
    BY <2>3, SessionKeeps
  <2>4. ASSUME NEW x \in Keys \cup Sessions, Expire(x) PROVE IdentityIInv'
    BY <2>4, ExpireKeeps
  <2>5. CASE bootstrap_admin_user
    BY <2>5, BootstrapKeeps
  <2>6. CASE import_auth_keys
    BY <2>6, ImportKeeps
  <2>7. CASE UNCHANGED identities
    BY <2>7, IdentityStutters
  <2> QED
    BY <2>1, <2>2, <2>3, <2>4, <2>5, <2>6, <2>7 DEF IdentityNext
<1> QED
  BY <1>1, IdentityStarts, PTL DEF IdentitySpec

\* A key whose revocation, or whose principal's deletion, has been answered and
\* published is accepted by no snapshot published since, however the builds,
\* the handlers and the import of other keys interleave (refresh, PUBLISH).
THEOREM RevokedStaysRefused == IdentitySpec => []RevokedKeyRefused
<1>1. IdentityIInv => RevokedKeyRefused
  BY DEF IdentityIInv, Withdrawn, Dead, RevokedKeyRefused, authenticate_key
<1> QED
  BY <1>1, IdentityInvariant, PTL

\* A function that is one to one and onto keeps the count.
LEMMA SameCount ==
    ASSUME NEW S, NEW T, NEW f \in [S -> T], IsFiniteSet(S),
           \A x, y \in S : f[x] = f[y] => x = y, \A t \in T : \E x \in S : f[x] = t
    PROVE  Cardinality(T) = Cardinality(S)
<1>1. f \in Bijection(S, T)
  BY DEF Bijection, Injection, IsInjective, Surjection
<1>2. ExistsBijection(S, T)
  BY <1>1 DEF ExistsBijection
<1> QED
  BY <1>2, FS_Bijection

\* The listings of keys, limits, budgets, principals and roles show every row,
\* and every change answered with success is in the audit trail while its actor
\* exists (list_keys and the other joins, audit_changes).
THEOREM RecordsAreComplete == IdentitySpec => []RecordsComplete
<1>1. ASSUME IdentityIInv PROVE RecordsComplete
  <2>1. /\ \A k \in DOMAIN tables.keys : Known(tables.keys[k].principal)
        /\ \A m \in tables.members : m[1] \in DOMAIN tables.principals /\ m[2] \in DOMAIN tables.roles
        /\ \A h \in tables.holds : h[1] \in DOMAIN tables.roles
        /\ tables.limits \subseteq DOMAIN tables.principals /\ tables.budgets \subseteq DOMAIN tables.principals
        /\ \A x, y \in DOMAIN tables.roles : tables.roles[x] = tables.roles[y] => x = y
    BY <1>1, TablesTyped DEF Referential, Known
  <2>2. IsFiniteSet(DOMAIN tables.keys) /\ IsFiniteSet(DOMAIN tables.roles)
    <3>1. DOMAIN tables.keys \in SUBSET Keys /\ DOMAIN tables.roles \in SUBSET RoleIds
      BY <1>1, TablesTyped, RowsElim
    <3> QED
      BY <3>1, IdentityAssumption, FS_Subset
  <2>3. Cardinality(list_keys) = Cardinality(DOMAIN tables.keys)
    <3> DEFINE f == [k \in DOMAIN tables.keys |-> <<k, tables.principals[tables.keys[k].principal].name>>]
    <3>1. \A k \in DOMAIN tables.keys : f[k] \in list_keys
      BY <2>1 DEF list_keys
    <3>2. \A x \in list_keys : \E k \in DOMAIN tables.keys : f[k] = x
      BY DEF list_keys
    <3>3. \A x, y \in DOMAIN tables.keys : f[x] = f[y] => x = y
      OBVIOUS
    <3>4. f \in [DOMAIN tables.keys -> list_keys]
      BY <3>1
    <3> HIDE DEF f
    <3> QED
      BY <2>2, <3>2, <3>3, <3>4, SameCount
  <2>4. Cardinality(list_roles) = Cardinality(DOMAIN tables.roles)
    <3> DEFINE f == [x \in DOMAIN tables.roles |-> <<tables.roles[x], {g \in Permissions : <<x, g>> \in tables.holds}>>]
    <3>1. \A x \in DOMAIN tables.roles : f[x] \in list_roles
      BY DEF list_roles
    <3>2. \A l \in list_roles : \E x \in DOMAIN tables.roles : f[x] = l
      BY DEF list_roles
    <3>3. \A x, y \in DOMAIN tables.roles : f[x] = f[y] => x = y
      BY <2>1
    <3>4. f \in [DOMAIN tables.roles -> list_roles]
      BY <3>1
    <3> HIDE DEF f
    <3> QED
      BY <2>2, <3>2, <3>3, <3>4, SameCount
  <2>5. list_limits = tables.limits /\ list_budgets = tables.budgets
    BY <2>1 DEF list_limits, list_budgets, Known
  <2>6. UNION {{<<p, n>> : n \in list_principals[p]} : p \in DOMAIN list_principals}
          = {<<m[1], tables.roles[m[2]]>> : m \in tables.members}
    <3> DEFINE shown == UNION {{<<p, n>> : n \in list_principals[p]} : p \in DOMAIN list_principals}
               there == {<<m[1], tables.roles[m[2]]>> : m \in tables.members}
    <3>1. /\ DOMAIN list_principals = DOMAIN tables.principals
          /\ \A p \in DOMAIN tables.principals : list_principals[p] = {tables.roles[x] : x \in RolesOf(p)}
      BY DEF list_principals
    <3>2. \A x \in shown : x \in there
      <4> TAKE x \in shown
      <4>1. PICK p \in DOMAIN tables.principals : \E n \in list_principals[p] : x = <<p, n>>
        BY <3>1
      <4>2. PICK role \in RolesOf(p) : x = <<p, tables.roles[role]>>
        BY <3>1, <4>1
      <4>3. <<p, role>> \in tables.members /\ x = <<<<p, role>>[1], tables.roles[<<p, role>>[2]]>>
        BY <4>2 DEF RolesOf
      <4> QED
        BY <4>3
    <3>3. \A x \in there : x \in shown
      <4> TAKE x \in there
      <4>1. PICK m \in tables.members : x = <<m[1], tables.roles[m[2]]>>
        OBVIOUS
      <4>2. m = <<m[1], m[2]>> /\ m[1] \in DOMAIN tables.principals /\ m[2] \in DOMAIN tables.roles
        BY <1>1, <2>1, TablesTyped
      <4>3. m[2] \in RolesOf(m[1])
        BY <4>2 DEF RolesOf
      <4>4. tables.roles[m[2]] \in list_principals[m[1]]
        BY <3>1, <4>2, <4>3
      <4> QED
        BY <3>1, <4>1, <4>2, <4>4
    <3> HIDE DEF shown, there
    <3>4. shown = there
      BY <3>2, <3>3, Zenon
    <3> QED
      BY <3>4 DEF shown, there
  <2> QED
    BY <1>1, <2>1, <2>3, <2>4, <2>5, <2>6 DEF RecordsComplete, ListingsComplete, IdentityIInv
<1> QED
  BY <1>1, IdentityInvariant, PTL
=============================================================================
