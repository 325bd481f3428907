------------------------ MODULE AdminCatalogueProofs ------------------------
(***************************************************************************)
(* Theorems about the catalogue: for any providers, models, rules, pools,  *)
(* requests and replicas, and for any interleaving of the handlers'        *)
(* statements with registrations, the sweep, the import and the builds,    *)
(* the tables keep their references, what was answered is published, and   *)
(* the sweep removes only what has been gone for long enough.              *)
(***************************************************************************)
EXTENDS AdminCatalogue, TLAPS

-----------------------------------------------------------------------------
(***************************************************************************)
(* What the snapshot and the relinking look at.                            *)
(***************************************************************************)

\* Two states of the tables that the snapshot does not tell apart: they differ
\* in what a lease, a probe or a grant changes.
SameView(d, e) ==
    /\ e.models = d.models /\ e.backends = d.backends /\ e.frontends = d.frontends /\ e.rules = d.rules
    /\ e.targets = d.targets /\ e.pools = d.pools /\ e.members = d.members
    /\ e.tools = d.tools /\ e.classes = d.classes
    /\ DOMAIN e.providers = DOMAIN d.providers
    /\ \A p \in DOMAIN d.providers :
          /\ e.providers[p].base = d.providers[p].base /\ e.providers[p].name = d.providers[p].name
          /\ e.providers[p].cred = d.providers[p].cred

BackendView(d, b) == <<b, UpstreamOf(d, b), d.providers[b[2]].base, d.backends[b].priced, d.backends[b].gate>>

ModelView(d, unusable, m) ==
    [name |-> d.models[m].name, fallback |-> d.models[m].fallback,
     backends |-> {BackendView(d, b) : b \in {b \in DOMAIN d.backends : b[1] = m /\ b[2] \notin unusable}}]

LEMMA BuildModelsView ==
    ASSUME NEW d, NEW unusable
    PROVE  BuildModels(d, unusable) = {ModelView(d, unusable, m) : m \in DOMAIN d.models}
BY DEF BuildModels, ModelView, BackendView

LEMMA SameBackendView ==
    ASSUME NEW d, NEW e, BackendsLinked(d), SameView(d, e), NEW b \in DOMAIN d.backends
    PROVE  BackendView(e, b) = BackendView(d, b)
<1>1. UpstreamOf(e, b) = UpstreamOf(d, b)
  BY DEF UpstreamOf, SameView
<1>2. e.providers[b[2]].base = d.providers[b[2]].base
  BY DEF BackendsLinked, SameView
<1> QED
  BY <1>1, <1>2 DEF BackendView, SameView

LEMMA SameModelView ==
    ASSUME NEW d, NEW e, BackendsLinked(d), SameView(d, e), NEW unusable, NEW m
    PROVE  ModelView(e, unusable, m) = ModelView(d, unusable, m)
<1> DEFINE B == {b \in DOMAIN d.backends : b[1] = m /\ b[2] \notin unusable}
<1>1. {b \in DOMAIN e.backends : b[1] = m /\ b[2] \notin unusable} = B
  BY DEF SameView
<1>2. \A b \in B : BackendView(e, b) = BackendView(d, b)
  BY SameBackendView
<1>3. {BackendView(e, b) : b \in B} = {BackendView(d, b) : b \in B}
  <2> HIDE DEF B
  <2> QED BY <1>2
<1>4. e.models = d.models
  BY DEF SameView
<1>5. {BackendView(e, b) : b \in {b \in DOMAIN e.backends : b[1] = m /\ b[2] \notin unusable}}
        = {BackendView(d, b) : b \in B}
  <2> HIDE DEF B
  <2> QED BY <1>1, <1>3
<1> QED
  BY <1>4, <1>5 DEF ModelView

LEMMA SameModels ==
    ASSUME NEW d, NEW e, BackendsLinked(d), SameView(d, e), NEW unusable
    PROVE  BuildModels(e, unusable) = BuildModels(d, unusable)
<1>1. \A m \in DOMAIN d.models : ModelView(e, unusable, m) = ModelView(d, unusable, m)
  BY SameModelView
<1>2. e.models = d.models
  BY DEF SameView
<1>3. {ModelView(e, unusable, m) : m \in DOMAIN d.models} = {ModelView(d, unusable, m) : m \in DOMAIN d.models}
  BY <1>1
<1> QED
  BY <1>2, <1>3, BuildModelsView

LEMMA SameTools ==
    ASSUME NEW d, NEW e, SameView(d, e)
    PROVE  BuildTools(e) = BuildTools(d)
BY DEF BuildTools, SameView

LEMMA SameRouting ==
    ASSUME NEW d, NEW e, SameView(d, e), NEW models
    PROVE  /\ build_virtual_models(e) = build_virtual_models(d)
           /\ PoolModels(e, models) = PoolModels(d, models)
           /\ build_prompt_classes(e) = build_prompt_classes(d)
<1>1. \A t : TargetName(e, t) = TargetName(d, t)
  BY DEF TargetName, SameView
<1>2. \A g : BackendScoped(e, g) = BackendScoped(d, g)
  BY DEF BackendScoped, SameView
<1>3. \A o : TargetsOf(e, o) = TargetsOf(d, o)
  BY <1>1, <1>2 DEF TargetsOf, SameView
<1>4. build_virtual_models(e) = build_virtual_models(d)
  BY <1>3 DEF build_virtual_models, SameView
<1>5. PoolModels(e, models) = PoolModels(d, models)
  BY DEF PoolModels, SameView
<1>6. build_prompt_classes(e) = build_prompt_classes(d)
  BY DEF build_prompt_classes, SameView
<1> QED
  BY <1>4, <1>5, <1>6

LEMMA SameSnapshot ==
    ASSUME NEW d, NEW e, SameView(d, e), NEW models, NEW tools
    PROVE  Snapshot(models, tools, e) = Snapshot(models, tools, d)
BY SameRouting DEF Snapshot

LEMMA SameVain ==
    ASSUME NEW d, NEW e, SameView(d, e), NothingVain(d)
    PROVE  NothingVain(e)
<1>1. TargetsLinked(e)
  BY DEF NothingVain, TargetsLinked, Named, SameView
<1>2. \A n : Named(e.providers, n) = Named(d.providers, n)
  BY DEF Named, SameView
<1>3. MembersPinned(e)
  BY <1>2 DEF NothingVain, MembersPinned, SameView
<1> QED
  BY <1>1, <1>3 DEF NothingVain

LEMMA CurrentKept ==
    ASSUME Sound(db), SameView(db, db'), pub' = pub, Current(pub)
    PROVE  Current(pub)'
<1>1. Minting' = Minting
  BY DEF Minting, SameView
<1>2. PICK unusable \in SUBSET Minting : pub = Snapshot(BuildModels(db, unusable), BuildTools(db), db)
  BY DEF Current
<1>3. BuildModels(db', unusable) = BuildModels(db, unusable)
  BY SameModels DEF Sound
<1>4. BuildTools(db') = BuildTools(db)
  BY SameTools
<1>5. pub' = Snapshot(BuildModels(db', unusable), BuildTools(db'), db')
  BY <1>2, <1>3, <1>4, SameSnapshot
<1> QED
  BY <1>1, <1>5 DEF Current

LEMMA ReadKept ==
    ASSUME Sound(db), SameView(db, db'), build'.models = build.models, build'.tools = build.tools, ReadCurrent
    PROVE  ReadCurrent'
<1>1. Minting' = Minting
  BY DEF Minting, SameView
<1>2. PICK unusable \in SUBSET Minting : build.models = BuildModels(db, unusable) /\ build.tools = BuildTools(db)
  BY DEF ReadCurrent
<1>3. BuildModels(db', unusable) = BuildModels(db, unusable)
  BY SameModels DEF Sound
<1>4. BuildTools(db') = BuildTools(db)
  BY SameTools
<1> QED
  BY <1>1, <1>2, <1>3, <1>4 DEF ReadCurrent

-----------------------------------------------------------------------------
(***************************************************************************)
(* The steps, by what they owe.                                            *)
(***************************************************************************)

\* Nobody is past its grace who was not, and nobody who still is stops being
\* absent.
GraceKept == PastGrace(db') \subseteq PastGrace(db) /\ absent \cap PastGrace(db') \subseteq absent'

LEMMA SweepKeptSound ==
    ASSUME SweepProgress, GraceKept, sweep' = sweep
    PROVE  SweepProgress'
<1> USE DEF SweepProgress, GraceKept
<1>1. DOMAIN sweep' = DOMAIN NoSweep'
  BY DEF NoSweep
<1>2. (sweep.at \in {"probe", "learn", "mark", "delete"} => PastGrace(db) \subseteq absent \cup DOMAIN sweep.todo)'
  OBVIOUS
<1>3. (sweep.at \in {"learn", "mark"} /\ ~sweep.ok => sweep.cur \notin PastGrace(db) \ absent)'
  OBVIOUS
<1> QED
  BY <1>1, <1>2, <1>3

\* A request goes on to another statement: it keeps what the snapshot shows, or
\* it has its refresh ahead.
LEMMA RequestStep ==
    ASSUME CatalogueIInv, NEW r \in Requests, NEW q,
           req[r].at # "build", req' = [req EXCEPT ![r] = q], q.at # "build", CarriesSound(q),
           Sound(db'), GraceKept, UNCHANGED <<sweep, lock, build, pub, owed>>,
           HasRefreshAhead(q) \/ (SameView(db, db') /\ ~HasRefreshAhead(req[r]))
    PROVE  CatalogueIInv'
<1> USE DEF CatalogueIInv
<1>1. RequestsSound'
  BY DEF RequestsSound
<1>2. LockHeld'
  BY DEF LockHeld, RequestsSound, NoBuild
<1>3. ASSUME NoRefreshAhead' PROVE SameView(db, db') /\ NoRefreshAhead
  BY <1>3 DEF NoRefreshAhead, RequestsSound
<1>4. PublishOrOwe'
  <2>1. (NoRefreshAhead /\ lock = Null /\ "publish" \notin owed => Current(pub))'
    BY <1>3, CurrentKept DEF PublishOrOwe
  <2>2. (NoRefreshAhead /\ build.models # Null /\ build.clean => ReadCurrent)'
    BY <1>3, ReadKept DEF PublishOrOwe
  <2>3. (build.models # Null /\ ~build.clean => "publish" \in owed)'
    BY DEF PublishOrOwe
  <2> QED
    BY <2>1, <2>2, <2>3 DEF PublishOrOwe
<1>5. RelinkOrOwe'
  BY <1>3, SameVain DEF RelinkOrOwe
<1>6. SweepProgress'
  BY SweepKeptSound
<1> QED
  BY <1>1, <1>2, <1>4, <1>5, <1>6

\* A change that nobody will refresh for is owed.
LEMMA StrandStep ==
    ASSUME CatalogueIInv, NEW r \in Requests, NEW q,
           req[r].at # "build", req' = [req EXCEPT ![r] = q], q.at # "build", CarriesSound(q),
           Sound(db'), GraceKept, UNCHANGED <<sweep, lock, pub>>,
           owed' = {"publish", "relink"}, build' = [build EXCEPT !.clean = FALSE]
    PROVE  CatalogueIInv'
<1> USE DEF CatalogueIInv
<1>1. RequestsSound'
  BY DEF RequestsSound
<1>2. build'.models = build.models /\ DOMAIN build' = DOMAIN build /\ build'.clean = FALSE
  BY DEF LockHeld, NoBuild
<1>3. LockHeld'
  BY <1>2 DEF LockHeld, RequestsSound, NoBuild
<1>4. PublishOrOwe'
  BY <1>2 DEF PublishOrOwe
<1>5. RelinkOrOwe'
  BY DEF RelinkOrOwe
<1>6. SweepProgress'
  BY SweepKeptSound
<1> QED
  BY <1>1, <1>3, <1>4, <1>5, <1>6

\* Strand, by whether it changed anything.
LEMMA StrandOwes ==
    ASSUME LockHeld, NEW rows, Strand(rows)
    PROVE  /\ db' = rows /\ DOMAIN build' = DOMAIN NoBuild /\ build'.clean \in BOOLEAN
           /\ build'.models = build.models /\ build'.tools = build.tools
           /\ \/ owed' = {"publish", "relink"} /\ build'.clean = FALSE
              \/ db' = db /\ owed' = owed /\ build'.clean = build.clean
<1>1. DOMAIN build = {"models", "tools", "clean"} /\ build.clean \in BOOLEAN
  BY DEF LockHeld, NoBuild
<1>2. DOMAIN build' = DOMAIN build /\ build'.models = build.models /\ build'.tools = build.tools
  BY <1>1 DEF Strand
<1>3. build'.clean = (build.clean /\ rows = db)
  BY <1>1 DEF Strand
<1>4. CASE rows = db
  <2>1. build'.clean = build.clean
    BY <1>1, <1>3, <1>4
  <2> QED
    BY <1>1, <1>2, <1>4, <2>1 DEF Strand, LockHeld
<1>5. CASE rows # db
  <2>1. build'.clean = FALSE
    BY <1>3, <1>5
  <2> QED
    BY <1>1, <1>2, <1>5, <2>1 DEF Strand, LockHeld
<1> QED
  BY <1>4, <1>5

\* What is changed without a refresh ahead is owed.
OwedOrSame ==
    /\ DOMAIN build' = DOMAIN NoBuild /\ build'.clean \in BOOLEAN
    /\ build'.models = build.models /\ build'.tools = build.tools
    /\ \/ owed' = {"publish", "relink"} /\ build'.clean = FALSE
       \/ db' = db /\ owed' = owed /\ build'.clean = build.clean /\ (NoRefreshAhead' => NoRefreshAhead)

LEMMA OwedKeeps ==
    ASSUME CatalogueIInv, Sound(db'), SweepProgress', RequestsSound',
           \A r \in Requests : req'[r].at = "build" <=> req[r].at = "build",
           OwedOrSame, UNCHANGED <<lock, pub>>
    PROVE  CatalogueIInv'
<1> USE DEF CatalogueIInv
<1>1. LockHeld'
  BY DEF LockHeld, NoBuild, OwedOrSame
<1>2. CASE owed' = {"publish", "relink"} /\ build'.clean = FALSE
  <2>1. PublishOrOwe'
    BY <1>2 DEF PublishOrOwe
  <2>2. RelinkOrOwe'
    BY <1>2 DEF RelinkOrOwe
  <2> QED
    BY <1>1, <2>1, <2>2
<1>3. CASE db' = db /\ owed' = owed /\ build'.clean = build.clean /\ (NoRefreshAhead' => NoRefreshAhead)
  <2>1. SameView(db, db')
    BY <1>3 DEF SameView
  <2>2. (NoRefreshAhead /\ lock = Null /\ "publish" \notin owed => Current(pub))'
    BY <2>1, <1>3, CurrentKept DEF PublishOrOwe
  <2>3. (NoRefreshAhead /\ build.models # Null /\ build.clean => ReadCurrent)'
    BY <2>1, <1>3, ReadKept DEF PublishOrOwe, OwedOrSame
  <2>4. (build.models # Null /\ ~build.clean => "publish" \in owed)'
    BY <1>3 DEF PublishOrOwe, OwedOrSame
  <2>5. RelinkOrOwe'
    BY <1>3 DEF RelinkOrOwe
  <2> QED
    BY <1>1, <2>2, <2>3, <2>4, <2>5 DEF PublishOrOwe
<1> QED
  BY <1>2, <1>3 DEF OwedOrSame

LEMMA StrandKeeps ==
    ASSUME CatalogueIInv, NEW rows, Strand(rows), Sound(rows), SweepProgress', RequestsSound',
           \A r \in Requests : req'[r].at = "build" <=> req[r].at = "build",
           NoRefreshAhead' => NoRefreshAhead, UNCHANGED <<lock, pub>>
    PROVE  CatalogueIInv'
<1>1. db' = rows /\ OwedOrSame
  BY StrandOwes DEF OwedOrSame, CatalogueIInv
<1> QED
  BY <1>1, OwedKeeps

\* The sweep and the import, which are no requests.
LEMMA BackgroundStrand ==
    ASSUME CatalogueIInv, NEW rows, Strand(rows), Sound(rows), SweepProgress', UNCHANGED <<req, lock, pub>>
    PROVE  CatalogueIInv'
<1>1. RequestsSound'
  BY DEF CatalogueIInv, RequestsSound
<1>2. NoRefreshAhead' => NoRefreshAhead
  BY DEF NoRefreshAhead
<1> QED
  BY <1>1, <1>2, StrandKeeps

\* A request that refuses after its first change.
LEMMA RequestStrand ==
    ASSUME CatalogueIInv, NEW r \in Requests, NEW rows, req[r].at = "idle", Go(r, "idle", Null),
           Strand(rows), Sound(rows), PastGrace(rows) \subseteq PastGrace(db), UNCHANGED <<sweep, absent, lock, pub>>
    PROVE  CatalogueIInv'
<1> USE DEF CatalogueIInv
<1>1. RequestsSound'
  BY DEF RequestsSound, Go, CarriesSound
<1>2. \A x \in Requests : req'[x].at = "build" <=> req[x].at = "build"
  BY DEF RequestsSound, Go
<1>3. NoRefreshAhead' => NoRefreshAhead
  BY DEF NoRefreshAhead, RequestsSound, Go, HasRefreshAhead
<1>4. GraceKept
  BY DEF GraceKept, Strand
<1>5. SweepProgress'
  BY <1>4, SweepKeptSound
<1> QED
  BY <1>1, <1>2, <1>3, <1>5, StrandKeeps

-----------------------------------------------------------------------------
(***************************************************************************)
(* relink_targets.                                                         *)
(***************************************************************************)

\* The columns a table row keeps.
SameButTargets(d, e) ==
    /\ DOMAIN e = TableNames
    /\ e.providers = d.providers /\ e.models = d.models /\ e.backends = d.backends /\ e.members = d.members

SameButMembers(d, e) ==
    /\ DOMAIN e = TableNames
    /\ e.providers = d.providers /\ e.models = d.models /\ e.backends = d.backends /\ e.targets = d.targets

LEMMA TargetsSound ==
    ASSUME NEW d, NEW e, Sound(d), SameButTargets(d, e), \A t \in DOMAIN e.targets : IsTarget(e.targets[t])
    PROVE  Sound(e)
BY DEF Sound, SameButTargets, Shaped, BackendsLinked, MembersLinked, ModelNamesUnique

LEMMA MembersSound ==
    ASSUME NEW d, NEW e, Sound(d), SameButMembers(d, e), \A x \in e.members : IsMember(x), MembersLinked(e)
    PROVE  Sound(e)
BY DEF Sound, SameButMembers, Shaped, BackendsLinked, ModelNamesUnique

LEMMA RelinkTargetsSound ==
    ASSUME NEW d, Sound(d)
    PROVE  Sound(RelinkTargets(d)) /\ SameButTargets(d, RelinkTargets(d)) /\ TargetsLinked(RelinkTargets(d))
<1> DEFINE e == RelinkTargets(d)
           new(t) == IF d.targets[t].model = Null /\ Named(d.models, d.targets[t].name) # {}
                     THEN [d.targets[t] EXCEPT !.model = CHOOSE m \in Named(d.models, d.targets[t].name) : TRUE]
                     ELSE d.targets[t]
<1>1. SameButTargets(d, e) /\ e.targets = [t \in DOMAIN d.targets |-> new(t)]
  BY DEF RelinkTargets, SameButTargets, Sound, Shaped, TableNames
<1>2. ASSUME NEW t \in DOMAIN d.targets
      PROVE  /\ IsTarget(new(t)) /\ new(t).name = d.targets[t].name
             /\ new(t).model = Null => Named(d.models, d.targets[t].name) = {}
  <2> DEFINE m == CHOOSE m \in Named(d.models, d.targets[t].name) : TRUE
  <2>1. DOMAIN d.targets[t] = {"owner", "model", "pool", "name"}
    BY DEF Sound, Shaped, IsTarget
  <2>2. CASE d.targets[t].model = Null /\ Named(d.models, d.targets[t].name) # {}
    <3>1. m \in DOMAIN d.models
      BY <2>2 DEF Named
    <3>2. m # Null
      BY <3>1, CatalogueAssumption DEF Sound, Shaped
    <3>3. new(t) = [d.targets[t] EXCEPT !.model = m]
      BY <2>2
    <3> HIDE DEF m, new
    <3> QED
      BY <2>1, <3>2, <3>3 DEF IsTarget
  <2>3. CASE ~(d.targets[t].model = Null /\ Named(d.models, d.targets[t].name) # {})
    BY <2>1, <2>3 DEF IsTarget
  <2> QED
    BY <2>2, <2>3
<1> HIDE DEF new, e
<1>3. \A t \in DOMAIN e.targets : IsTarget(e.targets[t])
  BY <1>1, <1>2
<1>4. TargetsLinked(e)
  BY <1>1, <1>2 DEF TargetsLinked, SameButTargets
<1>5. Sound(e)
  BY <1>1, <1>3, TargetsSound
<1> QED
  BY <1>1, <1>4, <1>5 DEF e

LEMMA RelinkNamesSound ==
    ASSUME NEW d, Sound(d)
    PROVE  Sound(RelinkNames(d)) /\ SameButMembers(d, RelinkNames(d))
<1> DEFINE e == RelinkNames(d)
           taken(x) == \E o \in d.members : o.pool = x.pool /\ o.model = x.model /\ o.pinName = d.providers[x.pin].name
           new(x) == IF x.pin # Null /\ ~taken(x) THEN [x EXCEPT !.pinName = d.providers[x.pin].name] ELSE x
<1>1. SameButMembers(d, e) /\ e.members = {new(x) : x \in d.members}
  BY DEF RelinkNames, SameButMembers, Sound, Shaped, TableNames
<1>2. ASSUME NEW x \in d.members
      PROVE  IsMember(new(x)) /\ new(x).model = x.model /\ new(x).pin = x.pin
  <2> HIDE DEF taken
  <2> QED
    BY DEF Sound, Shaped, IsMember
<1> HIDE DEF new, e
<1>3. \A x \in e.members : IsMember(x)
  BY <1>1, <1>2
<1>4. MembersLinked(e)
  BY <1>1, <1>2 DEF MembersLinked, SameButMembers, Sound
<1>5. Sound(e)
  BY <1>1, <1>3, <1>4, MembersSound
<1> QED
  BY <1>1, <1>5 DEF e

LEMMA RelinkMembersSound ==
    ASSUME NEW d, Sound(d)
    PROVE  Sound(RelinkMembers(d)) /\ SameButMembers(d, RelinkMembers(d)) /\ MembersPinned(RelinkMembers(d))
<1> DEFINE e == RelinkMembers(d)
           back(x) == {p \in Named(d.providers, x.pinName) : <<x.model, p>> \in DOMAIN d.backends}
           new(x) == IF x.pin = Null /\ back(x) # {} THEN [x EXCEPT !.pin = CHOOSE p \in back(x) : TRUE] ELSE x
<1>1. SameButMembers(d, e) /\ e.members = {new(x) : x \in d.members}
  BY DEF RelinkMembers, SameButMembers, Sound, Shaped, TableNames
<1>2. ASSUME NEW x \in d.members
      PROVE  /\ IsMember(new(x)) /\ new(x).model = x.model /\ new(x).pinName = x.pinName
             /\ new(x).pin # Null => <<x.model, new(x).pin>> \in DOMAIN d.backends
             /\ new(x).pin = Null => back(x) = {}
  <2> DEFINE p == CHOOSE p \in back(x) : TRUE
  <2>1. DOMAIN x = {"pool", "model", "pin", "pinName"}
    BY DEF Sound, Shaped, IsMember
  <2>2. CASE x.pin = Null /\ back(x) # {}
    <3>1. p \in back(x)
      <4> HIDE DEF back
      <4> QED BY <2>2
    <3>2. p \in DOMAIN d.providers /\ <<x.model, p>> \in DOMAIN d.backends
      BY <3>1 DEF Named
    <3>3. p # Null
      BY <3>2, CatalogueAssumption DEF Sound, Shaped
    <3>4. new(x) = [x EXCEPT !.pin = p]
      BY <2>2
    <3> HIDE DEF p, new, back
    <3> QED
      BY <2>1, <3>2, <3>3, <3>4 DEF IsMember
  <2>3. CASE x.pin # Null
    BY <2>1, <2>3 DEF IsMember, Sound, MembersLinked
  <2>4. CASE x.pin = Null /\ back(x) = {}
    BY <2>1, <2>4 DEF IsMember
  <2> QED
    BY <2>2, <2>3, <2>4
<1> HIDE DEF new, e
<1>3. \A x \in e.members : IsMember(x)
  BY <1>1, <1>2
<1>4. MembersLinked(e)
  <2>1. e.models = d.models /\ e.backends = d.backends
    BY <1>1 DEF SameButMembers
  <2>2. ASSUME NEW y \in e.members
        PROVE  y.model \in DOMAIN d.models /\ (y.pin # Null => <<y.model, y.pin>> \in DOMAIN d.backends)
    <3>1. PICK x \in d.members : y = new(x)
      BY <1>1
    <3>2. x.model \in DOMAIN d.models
      BY DEF Sound, MembersLinked
    <3> QED
      BY <1>2, <3>1, <3>2
  <2> QED
    BY <2>1, <2>2 DEF MembersLinked
<1>5. MembersPinned(e)
  BY <1>1, <1>2 DEF MembersPinned, SameButMembers
<1>6. Sound(e)
  BY <1>1, <1>3, <1>4, MembersSound
<1> QED
  BY <1>1, <1>5, <1>6 DEF e

\* Nothing waits in vain once relink_targets has run, and no provider, model or
\* attachment has changed.
LEMMA RelinkSound ==
    ASSUME NEW d, Sound(d)
    PROVE  Sound(relink_targets(d)) /\ NothingVain(relink_targets(d)) /\ relink_targets(d).providers = d.providers
<1> DEFINE t == RelinkTargets(d)
           n == RelinkNames(t)
           e == RelinkMembers(n)
<1>1. Sound(t) /\ SameButTargets(d, t) /\ TargetsLinked(t)
  BY RelinkTargetsSound
<1> HIDE DEF t
<1>2. Sound(n) /\ SameButMembers(t, n)
  BY <1>1, RelinkNamesSound
<1> HIDE DEF n
<1>3. Sound(e) /\ SameButMembers(n, e) /\ MembersPinned(e)
  BY <1>2, RelinkMembersSound
<1> HIDE DEF e
<1>4. TargetsLinked(e) /\ e.providers = d.providers
  BY <1>1, <1>2, <1>3 DEF TargetsLinked, SameButTargets, SameButMembers
<1> QED
  BY <1>3, <1>4 DEF e, n, t, relink_targets, NothingVain

-----------------------------------------------------------------------------
(***************************************************************************)
(* What one statement does to the tables.                                  *)
(***************************************************************************)

\* A statement that takes d to e keeps the tables sound, and degrades nobody
\* past its grace.
Fine(d, e) == Sound(e) /\ PastGrace(e) \subseteq PastGrace(d)

SameLinks(d, e) == SameButTargets(d, e) /\ e.targets = d.targets

LEMMA FineOther ==
    ASSUME NEW d, NEW e, Sound(d), SameLinks(d, e)
    PROVE  Fine(d, e)
<1>1. Sound(e)
  BY TargetsSound DEF SameLinks, Sound, Shaped
<1> QED
  BY <1>1 DEF Fine, PastGrace, SameLinks, SameButTargets

LEMMA FineTargets ==
    ASSUME NEW d, NEW e, Sound(d), SameButTargets(d, e), \A t \in DOMAIN e.targets : IsTarget(e.targets[t])
    PROVE  Fine(d, e)
BY TargetsSound DEF Fine, PastGrace, SameButTargets

LEMMA FineMembers ==
    ASSUME NEW d, NEW e, Sound(d), SameButMembers(d, e), \A x \in e.members : IsMember(x), MembersLinked(e)
    PROVE  Fine(d, e)
BY MembersSound DEF Fine, PastGrace, SameButMembers

SameButProviders(d, e) ==
    /\ DOMAIN e = TableNames
    /\ e.models = d.models /\ e.backends = d.backends /\ e.targets = d.targets /\ e.members = d.members

LEMMA FineProviders ==
    ASSUME NEW d, NEW e, Sound(d), SameButProviders(d, e),
           DOMAIN d.providers \subseteq DOMAIN e.providers, DOMAIN e.providers \subseteq Providers,
           \A p \in DOMAIN e.providers :
              /\ IsProvider(e.providers[p])
              /\ e.providers[p].degraded = "past grace" => p \in PastGrace(d)
    PROVE  Fine(d, e)
<1>1. Shaped(e)
  BY DEF Sound, Shaped, SameButProviders
<1>2. BackendsLinked(e)
  BY DEF Sound, BackendsLinked, SameButProviders
<1>3. MembersLinked(e) /\ ModelNamesUnique(e)
  BY DEF Sound, MembersLinked, ModelNamesUnique, SameButProviders
<1>4. PastGrace(e) \subseteq PastGrace(d)
  BY DEF PastGrace
<1> QED
  BY <1>1, <1>2, <1>3, <1>4 DEF Fine, Sound

LEMMA PlacedProvider ==
    ASSUME NEW d, Sound(d), NEW p \in Providers, NEW row, IsProvider(row),
           row.degraded = "past grace" => p \in PastGrace(d)
    PROVE  Fine(d, [d EXCEPT !.providers = Placed(@, p, row)])
<1> DEFINE e == [d EXCEPT !.providers = Placed(@, p, row)]
<1>1. SameButProviders(d, e) /\ e.providers = Placed(d.providers, p, row)
  BY DEF SameButProviders, Sound, Shaped, TableNames
<1> HIDE DEF e
<1>2. DOMAIN e.providers = DOMAIN d.providers \cup {p}
  BY <1>1 DEF Placed
<1>3. DOMAIN e.providers \subseteq Providers
  BY <1>2 DEF Sound, Shaped
<1>4. \A x \in DOMAIN e.providers :
         /\ IsProvider(e.providers[x])
         /\ e.providers[x].degraded = "past grace" => x \in PastGrace(d)
  BY <1>1 DEF Placed, PastGrace, Sound, Shaped
<1> QED
  BY <1>1, <1>2, <1>3, <1>4, FineProviders DEF e

\* One row of a table of providers, another column.
LEMMA ChangedProvider ==
    ASSUME NEW d, Sound(d), NEW p \in DOMAIN d.providers, NEW row, IsProvider(row),
           row.degraded = "past grace" => d.providers[p].degraded = "past grace"
    PROVE  Fine(d, [d EXCEPT !.providers[p] = row])
<1> DEFINE e == [d EXCEPT !.providers[p] = row]
<1>1. SameButProviders(d, e) /\ e.providers = [d.providers EXCEPT ![p] = row]
  BY DEF SameButProviders, Sound, Shaped, TableNames
<1> HIDE DEF e
<1>2. DOMAIN e.providers = DOMAIN d.providers
  BY <1>1
<1>3. DOMAIN e.providers \subseteq Providers
  BY <1>2 DEF Sound, Shaped
<1>4. \A x \in DOMAIN e.providers :
         /\ IsProvider(e.providers[x])
         /\ e.providers[x].degraded = "past grace" => x \in PastGrace(d)
  BY <1>1 DEF PastGrace, Sound, Shaped
<1> QED
  BY <1>1, <1>2, <1>3, <1>4, FineProviders DEF e

LEMMA RenamedProvider ==
    ASSUME NEW d, Sound(d), NEW p \in DOMAIN d.providers, NEW n
    PROVE  Fine(d, [d EXCEPT !.providers[p].name = n])
<1> DEFINE row == [d.providers[p] EXCEPT !.name = n]
<1>1. IsProvider(row) /\ row.degraded = d.providers[p].degraded
  BY DEF Sound, Shaped, IsProvider
<1>2. [d EXCEPT !.providers[p].name = n] = [d EXCEPT !.providers[p] = row]
  OBVIOUS
<1> HIDE DEF row
<1> QED
  BY <1>1, <1>2, ChangedProvider

SameButBackends(d, e) ==
    /\ DOMAIN e = TableNames
    /\ e.providers = d.providers /\ e.models = d.models /\ e.targets = d.targets /\ e.members = d.members

LEMMA FineBackends ==
    ASSUME NEW d, NEW e, Sound(d), SameButBackends(d, e), DOMAIN d.backends \subseteq DOMAIN e.backends, BackendsLinked(e)
    PROVE  Fine(d, e)
<1>1. Shaped(e)
  BY DEF Sound, Shaped, SameButBackends
<1>2. MembersLinked(e) /\ ModelNamesUnique(e)
  BY DEF Sound, MembersLinked, ModelNamesUnique, SameButBackends
<1>3. PastGrace(e) \subseteq PastGrace(d)
  BY DEF PastGrace, SameButBackends
<1> QED
  BY <1>1, <1>2, <1>3 DEF Fine, Sound

LEMMA PlacedBackend ==
    ASSUME NEW d, Sound(d), NEW b, b = <<b[1], b[2]>>, b[1] \in DOMAIN d.models, b[2] \in DOMAIN d.providers, NEW row
    PROVE  Fine(d, [d EXCEPT !.backends = Placed(@, b, row)])
<1> DEFINE e == [d EXCEPT !.backends = Placed(@, b, row)]
<1>1. SameButBackends(d, e) /\ e.backends = Placed(d.backends, b, row)
  BY DEF SameButBackends, Sound, Shaped, TableNames
<1> HIDE DEF e
<1>2. DOMAIN e.backends = DOMAIN d.backends \cup {b}
  BY <1>1 DEF Placed
<1>3. BackendsLinked(e)
  BY <1>1, <1>2 DEF SameButBackends, BackendsLinked, Sound
<1> QED
  BY <1>1, <1>2, <1>3, FineBackends DEF e

LEMMA ChangedBackends ==
    ASSUME NEW d, Sound(d), NEW e, SameButBackends(d, e), DOMAIN e.backends = DOMAIN d.backends
    PROVE  Fine(d, e)
<1>1. BackendsLinked(e)
  BY DEF Sound, BackendsLinked, SameButBackends
<1> QED
  BY <1>1, FineBackends

SameButModels(d, e) ==
    /\ DOMAIN e = TableNames
    /\ e.providers = d.providers /\ e.backends = d.backends /\ e.members = d.members

LEMMA FineModels ==
    ASSUME NEW d, NEW e, Sound(d), SameButModels(d, e),
           DOMAIN d.models \subseteq DOMAIN e.models, DOMAIN e.models \subseteq Models,
           \A m \in DOMAIN e.models : IsModel(e.models[m]),
           \A t \in DOMAIN e.targets : IsTarget(e.targets[t]), ModelNamesUnique(e)
    PROVE  Fine(d, e)
<1>1. Shaped(e)
  BY DEF Sound, Shaped, SameButModels
<1>2. BackendsLinked(e)
  BY DEF Sound, BackendsLinked, SameButModels
<1>3. MembersLinked(e)
  BY DEF Sound, MembersLinked, SameButModels
<1>4. PastGrace(e) \subseteq PastGrace(d)
  BY DEF PastGrace, SameButModels
<1> QED
  BY <1>1, <1>2, <1>3, <1>4 DEF Fine, Sound

\* A new model's name is nobody's.
LEMMA PlacedModel ==
    ASSUME NEW d, Sound(d), NEW m \in Models, NEW row, IsModel(row), Named(d.models, row.name) = {}
    PROVE  Fine(d, [d EXCEPT !.models = Placed(@, m, row)])
<1> DEFINE e == [d EXCEPT !.models = Placed(@, m, row)]
<1>1. SameButModels(d, e) /\ e.targets = d.targets /\ e.models = Placed(d.models, m, row)
  BY DEF SameButModels, Sound, Shaped, TableNames
<1> HIDE DEF e
<1>2. DOMAIN e.models = DOMAIN d.models \cup {m}
  BY <1>1 DEF Placed
<1>3. DOMAIN e.models \subseteq Models /\ \A t \in DOMAIN e.targets : IsTarget(e.targets[t])
  BY <1>1, <1>2 DEF Sound, Shaped
<1>4. \A x \in DOMAIN e.models : e.models[x] = IF x = m THEN row ELSE d.models[x]
  BY <1>1, <1>2 DEF Placed
<1>5. \A x \in DOMAIN e.models : IsModel(e.models[x])
  BY <1>2, <1>4 DEF Sound, Shaped
<1>6. ModelNamesUnique(e)
  BY <1>2, <1>4 DEF Sound, ModelNamesUnique, Named
<1> QED
  BY <1>1, <1>2, <1>3, <1>5, <1>6, FineModels DEF e

LEMMA MovedGrant ==
    ASSUME NEW d, DOMAIN d = TableNames, NEW kind, NEW old, NEW new
    PROVE  /\ DOMAIN move_grant(d, kind, old, new) = TableNames
           /\ \A f \in TableNames \ {"perms", "holds"} : move_grant(d, kind, old, new)[f] = d[f]
BY DEF move_grant, TableNames

LEMMA RenamedModel ==
    ASSUME NEW d, Sound(d), NEW m \in DOMAIN d.models, NEW n, Named(d.models, n) = {}
    PROVE  Fine(d, rename_provider_model(d, m, n))
<1> DEFINE old == d.models[m].name
           c == [d EXCEPT !.models[m].name = n,
                          !.targets = [t \in DOMAIN @ |-> IF @[t].model = m \/ @[t].name = old
                                                          THEN [@[t] EXCEPT !.name = n] ELSE @[t]]]
           e == move_grant(c, "model", old, n)
<1>0. e = rename_provider_model(d, m, n)
  BY DEF rename_provider_model
<1>1. /\ SameButModels(d, c) /\ c.models = [d.models EXCEPT ![m].name = n]
      /\ c.targets = [t \in DOMAIN d.targets |-> IF d.targets[t].model = m \/ d.targets[t].name = old
                                                 THEN [d.targets[t] EXCEPT !.name = n] ELSE d.targets[t]]
  BY DEF SameButModels, Sound, Shaped, TableNames
<1> HIDE DEF c
<1>2. SameButModels(d, e) /\ e.models = c.models /\ e.targets = c.targets
  <2>1. DOMAIN e = TableNames /\ \A f \in TableNames \ {"perms", "holds"} : e[f] = c[f]
    BY <1>1, MovedGrant DEF SameButModels
  <2> HIDE DEF e
  <2> QED
    BY <1>1, <2>1 DEF SameButModels, TableNames
<1> HIDE DEF e
<1>3. DOMAIN e.models = DOMAIN d.models
  BY <1>1, <1>2
<1>4. \A x \in DOMAIN d.models : IsModel(e.models[x]) /\ e.models[x].name = IF x = m THEN n ELSE d.models[x].name
  BY <1>1, <1>2 DEF Sound, Shaped, IsModel
<1>5. \A t \in DOMAIN e.targets : IsTarget(e.targets[t])
  BY <1>1, <1>2 DEF Sound, Shaped, IsTarget
<1>6. ModelNamesUnique(e)
  BY <1>3, <1>4 DEF Sound, ModelNamesUnique, Named
<1>7. DOMAIN e.models \subseteq Models
  BY <1>3 DEF Sound, Shaped
<1> QED
  BY <1>0, <1>2, <1>3, <1>4, <1>5, <1>6, <1>7, FineModels

\* Cascades.
LEMMA BackendsGone ==
    ASSUME NEW d, Sound(d), NEW gone
    PROVE  /\ Fine(d, WithoutBackends(d, gone))
           /\ WithoutBackends(d, gone).providers = d.providers /\ WithoutBackends(d, gone).models = d.models
           /\ WithoutBackends(d, gone).targets = d.targets
           /\ DOMAIN WithoutBackends(d, gone).backends = DOMAIN d.backends \ gone
<1> DEFINE e == WithoutBackends(d, gone)
           new(x) == IF <<x.model, x.pin>> \in gone THEN [x EXCEPT !.pin = Null] ELSE x
<1>1. /\ DOMAIN e = TableNames /\ e.providers = d.providers /\ e.models = d.models /\ e.targets = d.targets
      /\ e.backends = Drop(d.backends, gone) /\ e.members = {new(x) : x \in d.members}
  BY DEF WithoutBackends, Sound, Shaped, TableNames
<1> HIDE DEF e
<1>2. DOMAIN e.backends = DOMAIN d.backends \ gone
  BY <1>1 DEF Drop
<1>3. ASSUME NEW x \in d.members
      PROVE  /\ IsMember(new(x)) /\ new(x).model \in DOMAIN d.models
             /\ new(x).pin # Null => <<new(x).model, new(x).pin>> \in DOMAIN d.backends \ gone
  BY DEF Sound, Shaped, MembersLinked, IsMember
<1> HIDE DEF new
<1>4. Shaped(e)
  BY <1>1, <1>3 DEF Sound, Shaped
<1>5. BackendsLinked(e) /\ ModelNamesUnique(e)
  BY <1>1, <1>2 DEF Sound, BackendsLinked, ModelNamesUnique
<1>6. MembersLinked(e)
  BY <1>1, <1>2, <1>3 DEF MembersLinked
<1> QED
  BY <1>1, <1>2, <1>4, <1>5, <1>6 DEF e, Fine, Sound, PastGrace

LEMMA ProvidersGone ==
    ASSUME NEW d, Sound(d), NEW ps
    PROVE  /\ Fine(d, WithoutProviders(d, ps))
           /\ DOMAIN WithoutProviders(d, ps).providers = DOMAIN d.providers \ ps
<1> DEFINE gone == {b \in DOMAIN d.backends : b[2] \in ps}
           c == WithoutBackends(d, gone)
           e == WithoutProviders(d, ps)
<1>1. e = [c EXCEPT !.providers = Drop(@, ps)]
  BY DEF WithoutProviders
<1>2. /\ Fine(d, c) /\ c.providers = d.providers /\ c.models = d.models
      /\ DOMAIN c.backends = DOMAIN d.backends \ gone
  BY BackendsGone
<1> HIDE DEF c, e
<1>3. SameButProviders(c, e) /\ e.providers = Drop(d.providers, ps)
  BY <1>1, <1>2 DEF SameButProviders, Fine, Sound, Shaped, TableNames
<1>4. DOMAIN e.providers = DOMAIN d.providers \ ps /\ \A p \in DOMAIN e.providers : e.providers[p] = d.providers[p]
  BY <1>3 DEF Drop
<1>5. Shaped(e)
  BY <1>2, <1>3, <1>4 DEF SameButProviders, Fine, Sound, Shaped
<1>6. BackendsLinked(e)
  <2>1. \A b \in DOMAIN e.backends : b \in DOMAIN d.backends /\ b[2] \notin ps
    BY <1>2, <1>3 DEF SameButProviders
  <2> QED
    BY <1>2, <1>3, <1>4, <2>1 DEF SameButProviders, Fine, Sound, BackendsLinked
<1>7. MembersLinked(e) /\ ModelNamesUnique(e)
  BY <1>2, <1>3 DEF SameButProviders, Fine, Sound, MembersLinked, ModelNamesUnique
<1> QED
  BY <1>4, <1>5, <1>6, <1>7 DEF e, Fine, Sound, PastGrace

LEMMA ModelGone ==
    ASSUME NEW d, Sound(d), NEW m
    PROVE  Fine(d, WithoutModel(d, m))
<1> DEFINE gone == {b \in DOMAIN d.backends : b[1] = m}
           c == WithoutBackends(d, gone)
           e == WithoutModel(d, m)
<1>1. e = [c EXCEPT !.models = Drop(@, {m}), !.members = {x \in @ : x.model # m},
                    !.targets = [t \in DOMAIN @ |-> IF @[t].model = m THEN [@[t] EXCEPT !.model = Null] ELSE @[t]]]
  BY DEF WithoutModel
<1>2. /\ Fine(d, c) /\ c.providers = d.providers /\ c.models = d.models /\ c.targets = d.targets
      /\ DOMAIN c.backends = DOMAIN d.backends \ gone
  BY BackendsGone
<1> HIDE DEF c, e
<1>3. DOMAIN c = TableNames
  BY <1>2 DEF Fine, Sound, Shaped
<1>4. /\ DOMAIN e = TableNames /\ e.providers = d.providers /\ e.backends = c.backends
      /\ e.models = Drop(d.models, {m}) /\ e.members = {x \in c.members : x.model # m}
      /\ e.targets = [t \in DOMAIN d.targets |->
                        IF d.targets[t].model = m THEN [d.targets[t] EXCEPT !.model = Null] ELSE d.targets[t]]
  BY <1>1, <1>2, <1>3 DEF TableNames
<1>5. DOMAIN e.models = DOMAIN d.models \ {m} /\ \A x \in DOMAIN e.models : e.models[x] = d.models[x]
  BY <1>4 DEF Drop
<1>6. \A t \in DOMAIN e.targets : IsTarget(e.targets[t])
  BY <1>4 DEF Sound, Shaped, IsTarget
<1>7. Shaped(e)
  BY <1>2, <1>4, <1>5, <1>6 DEF Fine, Sound, Shaped
<1>8. BackendsLinked(e)
  <2>1. \A b \in DOMAIN e.backends : b \in DOMAIN d.backends /\ b[1] # m
    BY <1>2, <1>4
  <2> QED
    BY <1>4, <1>5, <2>1 DEF Sound, BackendsLinked
<1>9. MembersLinked(e)
  BY <1>2, <1>4, <1>5 DEF Fine, Sound, MembersLinked
<1>10. ModelNamesUnique(e)
  BY <1>5 DEF Sound, ModelNamesUnique
<1> QED
  BY <1>4, <1>7, <1>8, <1>9, <1>10 DEF e, Fine, Sound, PastGrace

LEMMA FineTwice ==
    ASSUME NEW d, NEW c, NEW e, Fine(d, c), Fine(c, e)
    PROVE  Fine(d, e)
BY DEF Fine

LEMMA ImportedModel ==
    ASSUME NEW d, Sound(d), NEW m \in Models, NEW p \in DOMAIN d.providers, NEW entry,
           m \notin DOMAIN d.models => Named(d.models, entry.name) = {}
    PROVE  Fine(d, import_model(d, <<m, p>>, entry))
<1> DEFINE b == <<m, p>>
           row == IF b \in DOMAIN d.backends THEN [d.backends[b] EXCEPT !.upstream = entry.upstream]
                  ELSE NewBackend(entry.upstream)
           c == [d EXCEPT !.models = Placed(@, m, [name |-> entry.name, fallback |-> FALSE])]
           e == import_model(d, b, entry)
<1>1. CASE m \in DOMAIN d.models
  <2>1. /\ SameButBackends(d, e) /\ e.backends = Placed(d.backends, b, row)
    BY <1>1 DEF import_model, SameButBackends, Sound, Shaped, TableNames
  <2> HIDE DEF e, row
  <2>2. DOMAIN e.backends = DOMAIN d.backends \cup {b}
    BY <2>1 DEF Placed
  <2>3. BackendsLinked(e)
    BY <1>1, <2>1, <2>2 DEF SameButBackends, BackendsLinked, Sound
  <2> QED
    BY <2>1, <2>2, <2>3, FineBackends DEF e
<1>2. CASE m \notin DOMAIN d.models
  <2>1. Fine(d, c)
    <3> DEFINE new == [name |-> entry.name, fallback |-> FALSE]
    <3>1. IsModel(new) /\ new.name = entry.name
      BY DEF IsModel
    <3> HIDE DEF new
    <3> QED
      BY <1>2, <3>1, PlacedModel DEF new
  <2>2. /\ DOMAIN c = TableNames /\ c.providers = d.providers /\ c.backends = d.backends /\ c.targets = d.targets
        /\ c.members = d.members /\ c.models = Placed(d.models, m, [name |-> entry.name, fallback |-> FALSE])
    BY DEF Sound, Shaped, TableNames
  <2>3. /\ DOMAIN e = TableNames /\ e.providers = d.providers /\ e.targets = d.targets
        /\ e.members = d.members /\ e.models = Placed(d.models, m, [name |-> entry.name, fallback |-> FALSE])
        /\ e.backends = Placed(d.backends, b, row)
    BY <1>2 DEF import_model, Sound, Shaped, TableNames
  <2> HIDE DEF c, e, row
  <2>4. SameButBackends(c, e) /\ m \in DOMAIN c.models
    BY <2>2, <2>3 DEF SameButBackends, Placed
  <2>5. DOMAIN e.backends = DOMAIN c.backends \cup {b}
    BY <2>2, <2>3 DEF Placed
  <2>6. BackendsLinked(e)
    <3>1. e.models = c.models /\ e.providers = c.providers /\ BackendsLinked(c)
      BY <2>1, <2>4 DEF SameButBackends, Sound, Fine
    <3>2. b = <<b[1], b[2]>> /\ b[1] \in DOMAIN c.models /\ b[2] \in DOMAIN c.providers
      BY <2>2, <2>4
    <3> HIDE DEF b
    <3> QED
      BY <2>5, <3>1, <3>2 DEF BackendsLinked
  <2>7. Fine(c, e)
    BY <2>1, <2>4, <2>5, <2>6, FineBackends DEF Fine
  <2> QED
    BY <2>1, <2>7, FineTwice DEF e
<1> QED
  BY <1>1, <1>2

-----------------------------------------------------------------------------
(***************************************************************************)
(* A request's statement.                                                  *)
(***************************************************************************)

\* It commits a change, and has its refresh ahead.
LEMMA WriteStep ==
    ASSUME CatalogueIInv, NEW r \in Requests, req[r].at # "build", UNCHANGED <<sweep, absent>>, PublishingKept,
           NEW at \in {"refresh", "patch_provider", "patch_provider_base", "patch_provider_verify", "patch_pool"},
           NEW arg, Go(r, at, arg), Fine(db, db')
    PROVE  CatalogueIInv'
<1> DEFINE q == [at |-> at, arg |-> arg]
<1>1. CarriesSound(q) /\ HasRefreshAhead(q) /\ q.at # "build"
  BY DEF CarriesSound, HasRefreshAhead
<1>2. req' = [req EXCEPT ![r] = q]
  BY DEF Go
<1> HIDE DEF q
<1> QED
  BY <1>1, <1>2, RequestStep DEF Fine, GraceKept, PublishingKept

\* It changes nothing.
LEMMA ReadStep ==
    ASSUME CatalogueIInv, NEW r \in Requests, req[r].at # "build", UNCHANGED <<sweep, absent>>, PublishingKept,
           NEW at, NEW arg, at # "build", CarriesSound([at |-> at, arg |-> arg]), ~HasRefreshAhead(req[r]),
           Go(r, at, arg), UNCHANGED db
    PROVE  CatalogueIInv'
<1> DEFINE q == [at |-> at, arg |-> arg]
<1>1. q.at # "build" /\ CarriesSound(q) /\ req' = [req EXCEPT ![r] = q]
  BY DEF Go
<1>2. SameView(db, db')
  BY DEF SameView
<1>3. Sound(db') /\ GraceKept
  BY DEF CatalogueIInv, GraceKept
<1> HIDE DEF q
<1> QED
  BY <1>1, <1>2, <1>3, RequestStep DEF PublishingKept

LEMMA RefuseStep ==
    ASSUME CatalogueIInv, NEW r \in Requests, req[r].at # "build", UNCHANGED <<sweep, absent>>, PublishingKept,
           ~HasRefreshAhead(req[r]), Refuse(r)
    PROVE  CatalogueIInv'
<1>1. CarriesSound([at |-> "idle", arg |-> Null])
  BY DEF CarriesSound
<1> QED
  BY <1>1, ReadStep DEF Refuse

\* Where a request is when it has changed nothing yet, or has refreshed.
LEMMA Beginning ==
    ASSUME NEW r, Begin(r)
    PROVE  req[r].at # "build" /\ ~HasRefreshAhead(req[r]) /\ UNCHANGED <<sweep, absent>> /\ PublishingKept
BY DEF Begin, Kept, HasRefreshAhead

LEMMA Continuing ==
    ASSUME NEW r, NEW at, Cont(r, at), at # "build"
    PROVE  /\ req[r].at = at /\ req[r].at # "build" /\ UNCHANGED <<sweep, absent>> /\ PublishingKept
           /\ at \in {"register", "post_provider", "delete_provider", "post_rule", "patch_rule", "target", "post_pool",
                      "delete_pool", "member"} => ~HasRefreshAhead(req[r])
BY DEF Cont, Kept, HasRefreshAhead

LEMMA NewProviderSound ==
    ASSUME NEW n, NEW kind, NEW base, NEW auth, NEW cred
    PROVE  IsProvider(NewProvider(n, kind, base, auth, cred)) /\ NewProvider(n, kind, base, auth, cred).degraded = "no"
BY DEF IsProvider, NewProvider

LEMMA RegisterNewKeeps ==
    ASSUME CatalogueIInv, NEW r \in Requests, register_new(r)
    PROVE  CatalogueIInv'
<1>1. PICK base \in Bases, n \in FreeNames, p \in Fresh(Providers) :
        Mint(r, p, [db EXCEPT !.providers = Placed(@, p, NewProvider(n, "dynamic", base, "default", "static"))])
  BY DEF register_new
<1>2. Fine(db, db')
  BY <1>1, NewProviderSound, PlacedProvider DEF Mint, Fresh, CatalogueIInv
<1> QED
  BY <1>1, <1>2, Beginning, WriteStep DEF register_new, Mint

LEMMA RegisterRenewKeeps ==
    ASSUME CatalogueIInv, NEW r \in Requests, register_renew(r)
    PROVE  CatalogueIInv'
<1>1. PICK base \in Bases : \E p \in AtBase(base) :
          IF db.providers[p].kind = "dynamic"
          THEN /\ db' = [db EXCEPT !.providers[p] = [@ EXCEPT !.lapsed = FALSE, !.degraded = "no"]]
               /\ absent' = absent \ {p}
               /\ Go(r, "register", [p |-> p, changed |-> db.providers[p].degraded # "no"])
          ELSE /\ Go(r, IF db.providers[p].degraded # "no" THEN "refresh" ELSE "idle", Null)
               /\ UNCHANGED <<db, absent>>
  BY DEF register_renew
<1>2. PICK p \in AtBase(base) :
          IF db.providers[p].kind = "dynamic"
          THEN /\ db' = [db EXCEPT !.providers[p] = [@ EXCEPT !.lapsed = FALSE, !.degraded = "no"]]
               /\ absent' = absent \ {p}
               /\ Go(r, "register", [p |-> p, changed |-> db.providers[p].degraded # "no"])
          ELSE /\ Go(r, IF db.providers[p].degraded # "no" THEN "refresh" ELSE "idle", Null)
               /\ UNCHANGED <<db, absent>>
  BY <1>1
<1>3. p \in DOMAIN db.providers
  BY DEF AtBase
<1>4. /\ req[r].at # "build" /\ ~HasRefreshAhead(req[r]) /\ UNCHANGED sweep /\ PublishingKept
  BY DEF register_renew, HasRefreshAhead
<1>5. CASE db.providers[p].kind = "dynamic"
  <2> DEFINE row == [db.providers[p] EXCEPT !.lapsed = FALSE, !.degraded = "no"]
             q == [at |-> "register", arg |-> [p |-> p, changed |-> db.providers[p].degraded # "no"]]
  <2>1. IsProvider(db.providers[p])
    BY <1>3 DEF CatalogueIInv, Sound, Shaped
  <2>2. /\ IsProvider(row) /\ row.degraded = "no" /\ row.base = db.providers[p].base
        /\ row.name = db.providers[p].name /\ row.cred = db.providers[p].cred
    BY <2>1 DEF IsProvider
  <2>3. db' = [db EXCEPT !.providers[p] = row]
    BY <1>2, <1>5
  <2> HIDE DEF row
  <2>4. Fine(db, db')
    BY <1>3, <2>2, <2>3, ChangedProvider DEF CatalogueIInv
  <2>5. /\ SameView(db, db') /\ db'.providers = [db.providers EXCEPT ![p] = row]
    BY <1>3, <2>2, <2>3 DEF CatalogueIInv, Sound, Shaped, TableNames, SameView
  <2>6. p \notin PastGrace(db')
    BY <1>3, <2>2, <2>5 DEF PastGrace
  <2>7. GraceKept
    BY <1>2, <1>5, <2>4, <2>6 DEF GraceKept, Fine
  <2>8. CarriesSound(q) /\ q.at # "build"
    BY DEF CarriesSound
  <2>9. req' = [req EXCEPT ![r] = q]
    BY <1>2, <1>5 DEF Go
  <2> HIDE DEF q
  <2> QED
    BY <1>4, <2>4, <2>5, <2>7, <2>8, <2>9, RequestStep DEF Fine, PublishingKept
<1>6. CASE db.providers[p].kind # "dynamic"
  <2>1. UNCHANGED <<db, absent>>
    BY <1>2, <1>6
  <2>2. PICK at \in {"refresh", "idle"} : Go(r, at, Null)
    BY <1>2, <1>6
  <2>3. CarriesSound([at |-> at, arg |-> Null])
    BY DEF CarriesSound
  <2> QED
    BY <1>4, <2>1, <2>2, <2>3, ReadStep
<1> QED
  BY <1>5, <1>6

LEMMA RegisterRenameKeeps ==
    ASSUME CatalogueIInv, NEW r \in Requests, register_rename(r)
    PROVE  CatalogueIInv'
<1> DEFINE p == req[r].arg.p
<1>1. PICK n \in ProviderNames :
          IF p \in DOMAIN db.providers /\ n \in FreeNames
          THEN Write(r, [db EXCEPT !.providers[p].name = n])
          ELSE Read(r, IF req[r].arg.changed THEN "refresh" ELSE "idle", Null)
  BY DEF register_rename
<1>2. Cont(r, "register")
  BY DEF register_rename
<1>3. CASE p \in DOMAIN db.providers /\ n \in FreeNames
  BY <1>1, <1>2, <1>3, RenamedProvider, Continuing, WriteStep DEF Write, CatalogueIInv
<1>4. CASE ~(p \in DOMAIN db.providers /\ n \in FreeNames)
  <2>1. PICK at \in {"refresh", "idle"} : Go(r, at, Null) /\ UNCHANGED db
    BY <1>1, <1>4 DEF Read
  <2>2. CarriesSound([at |-> at, arg |-> Null])
    BY DEF CarriesSound
  <2> QED
    BY <1>2, <2>1, <2>2, Continuing, ReadStep
<1> QED
  BY <1>3, <1>4

LEMMA FineSame ==
    ASSUME CatalogueIInv, db' = db
    PROVE  Fine(db, db')
BY DEF CatalogueIInv, Fine

LEMMA PostProviderCheckKeeps ==
    ASSUME CatalogueIInv, NEW r \in Requests, post_provider_check(r)
    PROVE  CatalogueIInv'
<1>1. Refuse(r) \/ \E base, auth, n, cred : Read(r, "post_provider", NewProvider(n, "static", base, auth, cred))
  BY DEF post_provider_check
<1>2. CASE Refuse(r)
  BY <1>2, Beginning, RefuseStep DEF post_provider_check
<1>3. ASSUME NEW base, NEW auth, NEW n, NEW cred, Read(r, "post_provider", NewProvider(n, "static", base, auth, cred))
      PROVE  CatalogueIInv'
  <2> DEFINE row == NewProvider(n, "static", base, auth, cred)
  <2>1. IsProvider(row) /\ row.degraded = "no"
    BY NewProviderSound
  <2> HIDE DEF row
  <2>2. CarriesSound([at |-> "post_provider", arg |-> row])
    BY <2>1 DEF CarriesSound
  <2>3. Go(r, "post_provider", row) /\ UNCHANGED db
    BY <1>3 DEF Read, row
  <2> QED
    BY <2>2, <2>3, Beginning, ReadStep DEF post_provider_check
<1> QED
  BY <1>1, <1>2, <1>3

LEMMA PostProviderKeeps ==
    ASSUME CatalogueIInv, NEW r \in Requests, post_provider(r)
    PROVE  CatalogueIInv'
<1> DEFINE row == req[r].arg
<1>1. \/ Refuse(r)
      \/ \E p \in Fresh(Providers) : Mint(r, p, [db EXCEPT !.providers = Placed(@, p, row)])
  BY DEF post_provider
<1>2. Cont(r, "post_provider")
  BY DEF post_provider
<1>3. IsProvider(row) /\ row.degraded # "past grace"
  BY <1>2 DEF Cont, CatalogueIInv, RequestsSound, CarriesSound
<1> HIDE DEF row
<1>4. CASE Refuse(r)
  BY <1>2, <1>4, Continuing, RefuseStep
<1>5. ASSUME NEW p \in Fresh(Providers), Mint(r, p, [db EXCEPT !.providers = Placed(@, p, row)])
      PROVE  CatalogueIInv'
  <2>1. Fine(db, db')
    BY <1>3, <1>5, PlacedProvider DEF Mint, Fresh, CatalogueIInv
  <2> QED
    BY <1>2, <1>5, <2>1, Continuing, WriteStep DEF Mint
<1> QED
  BY <1>1, <1>4, <1>5

LEMMA PatchProviderNameKeeps ==
    ASSUME CatalogueIInv, NEW r \in Requests, patch_provider_name(r)
    PROVE  CatalogueIInv'
<1>1. \/ Refuse(r)
      \/ \E p \in DOMAIN db.providers, n \in ProviderNames :
            db' = [db EXCEPT !.providers[p].name = n] /\ Go(r, "patch_provider", p)
  BY DEF patch_provider_name
<1>2. CASE Refuse(r)
  BY <1>2, Beginning, RefuseStep DEF patch_provider_name
<1>3. ASSUME NEW p \in DOMAIN db.providers, NEW n, db' = [db EXCEPT !.providers[p].name = n], Go(r, "patch_provider", p)
      PROVE  CatalogueIInv'
  <2>1. Fine(db, db')
    BY <1>3, RenamedProvider DEF CatalogueIInv
  <2> QED
    BY <1>3, <2>1, Beginning, WriteStep DEF patch_provider_name
<1> QED
  BY <1>1, <1>2, <1>3

LEMMA PatchProviderKindKeeps ==
    ASSUME CatalogueIInv, NEW r \in Requests, patch_provider_kind(r)
    PROVE  CatalogueIInv'
<1> DEFINE p == req[r].arg
<1>1. PICK kind : /\ db' = IF p \in DOMAIN db.providers /\ kind # Null
                          THEN [db EXCEPT !.providers[p] = OfKind(@, kind)] ELSE db
                  /\ Go(r, "patch_provider_base", p)
  BY DEF patch_provider_kind
<1>2. Fine(db, db')
  <2>1. CASE p \in DOMAIN db.providers /\ kind # Null
    <3> DEFINE row == OfKind(db.providers[p], kind)
    <3>1. IsProvider(row) /\ row.degraded \in {db.providers[p].degraded, "no"}
      BY <2>1 DEF CatalogueIInv, Sound, Shaped, IsProvider, OfKind
    <3>2. db' = [db EXCEPT !.providers[p] = row]
      BY <1>1, <2>1
    <3> HIDE DEF row
    <3> QED
      BY <2>1, <3>1, <3>2, ChangedProvider DEF CatalogueIInv
  <2>2. CASE ~(p \in DOMAIN db.providers /\ kind # Null)
    BY <1>1, <2>2, FineSame
  <2> QED
    BY <2>1, <2>2
<1> QED
  BY <1>1, <1>2, Continuing, WriteStep DEF patch_provider_kind

LEMMA PatchProviderBaseKeeps ==
    ASSUME CatalogueIInv, NEW r \in Requests, patch_provider_base(r)
    PROVE  CatalogueIInv'
<1> DEFINE p == req[r].arg
<1>1. PICK base, auth, cred :
        /\ db' = IF p \in DOMAIN db.providers
                 THEN [db EXCEPT !.providers[p] = [@ EXCEPT !.base = base, !.auth = auth, !.cred = cred]] ELSE db
        /\ Go(r, "patch_provider_verify", p)
  BY DEF patch_provider_base
<1>2. Fine(db, db')
  <2>1. CASE p \in DOMAIN db.providers
    <3> DEFINE row == [db.providers[p] EXCEPT !.base = base, !.auth = auth, !.cred = cred]
    <3>1. IsProvider(row) /\ row.degraded = db.providers[p].degraded
      BY <2>1 DEF CatalogueIInv, Sound, Shaped, IsProvider
    <3>2. db' = [db EXCEPT !.providers[p] = row]
      BY <1>1, <2>1
    <3> HIDE DEF row
    <3> QED
      BY <2>1, <3>1, <3>2, ChangedProvider DEF CatalogueIInv
  <2>2. CASE p \notin DOMAIN db.providers
    BY <1>1, <2>2, FineSame
  <2> QED
    BY <2>1, <2>2
<1> QED
  BY <1>1, <1>2, Continuing, WriteStep DEF patch_provider_base

LEMMA PatchProviderRefusedKeeps ==
    ASSUME CatalogueIInv, NEW r \in Requests, patch_provider_refused(r)
    PROVE  CatalogueIInv'
<1> DEFINE q == [at |-> "idle", arg |-> Null]
<1>1. CarriesSound(q) /\ q.at # "build"
  BY DEF CarriesSound
<1>2. req' = [req EXCEPT ![r] = q] /\ req[r].at # "build"
  BY DEF patch_provider_refused, Go
<1> HIDE DEF q
<1>3. Sound(db') /\ GraceKept
  BY DEF patch_provider_refused, CatalogueIInv, GraceKept
<1> QED
  BY <1>1, <1>2, <1>3, StrandStep DEF patch_provider_refused

LEMMA PatchProviderDoneKeeps ==
    ASSUME CatalogueIInv, NEW r \in Requests, patch_provider_done(r)
    PROVE  CatalogueIInv'
BY FineSame, Continuing, WriteStep DEF patch_provider_done, Read

LEMMA DeleteProviderCheckKeeps ==
    ASSUME CatalogueIInv, NEW r \in Requests, delete_provider_check(r)
    PROVE  CatalogueIInv'
<1>1. Refuse(r) \/ \E p : Read(r, "delete_provider", p)
  BY DEF delete_provider_check
<1>2. CASE Refuse(r)
  BY <1>2, Beginning, RefuseStep DEF delete_provider_check
<1>3. ASSUME NEW p, Read(r, "delete_provider", p) PROVE CatalogueIInv'
  <2>1. CarriesSound([at |-> "delete_provider", arg |-> p])
    BY DEF CarriesSound
  <2> QED
    BY <1>3, <2>1, Beginning, ReadStep DEF delete_provider_check, Read
<1> QED
  BY <1>1, <1>2, <1>3

LEMMA DeleteProviderKeeps ==
    ASSUME CatalogueIInv, NEW r \in Requests, delete_provider(r)
    PROVE  CatalogueIInv'
<1>1. Refuse(r) \/ Write(r, WithoutProviders(db, {req[r].arg}))
  BY DEF delete_provider
<1>2. CASE Refuse(r)
  BY <1>2, Continuing, RefuseStep DEF delete_provider
<1>3. CASE Write(r, WithoutProviders(db, {req[r].arg}))
  <2>1. Fine(db, db')
    BY <1>3, ProvidersGone DEF Write, CatalogueIInv
  <2> QED
    BY <1>3, <2>1, Continuing, WriteStep DEF delete_provider, Write
<1> QED
  BY <1>1, <1>2, <1>3

LEMMA ProviderRequestKeeps ==
    ASSUME CatalogueIInv, NEW r \in Requests, ProviderRequest(r)
    PROVE  CatalogueIInv'
BY RegisterNewKeeps, RegisterRenewKeeps, RegisterRenameKeeps, PostProviderCheckKeeps, PostProviderKeeps,
   PatchProviderNameKeeps, PatchProviderKindKeeps, PatchProviderBaseKeeps, PatchProviderRefusedKeeps,
   PatchProviderDoneKeeps, DeleteProviderCheckKeeps, DeleteProviderKeeps DEF ProviderRequest

LEMMA PostModelKeeps ==
    ASSUME CatalogueIInv, NEW r \in Requests, post_model(r)
    PROVE  CatalogueIInv'
<1>1. PICK m \in Fresh(Models), n \in Names :
          IF Named(db.models, n) # {} THEN Refuse(r)
          ELSE Mint(r, m, [db EXCEPT !.models = Placed(@, m, [name |-> n, fallback |-> FALSE])])
  BY DEF post_model
<1>2. CASE Refuse(r)
  BY <1>2, Beginning, RefuseStep DEF post_model
<1>3. CASE Named(db.models, n) = {}
  <2> DEFINE row == [name |-> n, fallback |-> FALSE]
  <2>1. IsModel(row) /\ row.name = n
    BY DEF IsModel
  <2>2. Mint(r, m, [db EXCEPT !.models = Placed(@, m, row)])
    BY <1>1, <1>3
  <2> HIDE DEF row
  <2>3. Fine(db, db')
    BY <1>3, <2>1, <2>2, PlacedModel DEF Mint, Fresh, CatalogueIInv
  <2> QED
    BY <2>2, <2>3, Beginning, WriteStep DEF post_model, Mint
<1> QED
  BY <1>1, <1>2, <1>3

LEMMA PatchModelKeeps ==
    ASSUME CatalogueIInv, NEW r \in Requests, patch_model(r)
    PROVE  CatalogueIInv'
<1> DEFINE rows(m, n) == IF n = db.models[m].name THEN db ELSE rename_provider_model(db, m, n)
<1>1. PICK m \in DOMAIN db.models, n \in Names, badField \in BOOLEAN :
          IF Named(db.models, n) # {} /\ n # db.models[m].name
          THEN Refuse(r) /\ UNCHANGED <<build, owed>>
          ELSE IF badField THEN Go(r, "idle", Null) /\ Strand(rows(m, n)) /\ UNCHANGED minted
               ELSE Write(r, rows(m, n)) /\ UNCHANGED <<build, owed>>
  BY DEF patch_model
<1>2. req[r].at = "idle" /\ req[r].at # "build" /\ ~HasRefreshAhead(req[r]) /\ UNCHANGED <<sweep, absent, lock, pub>>
  BY DEF patch_model, HasRefreshAhead
<1>3. CASE Named(db.models, n) # {} /\ n # db.models[m].name
  BY <1>1, <1>2, <1>3, RefuseStep DEF PublishingKept
<1>4. CASE ~(Named(db.models, n) # {} /\ n # db.models[m].name)
  <2>1. Fine(db, rows(m, n))
    BY <1>4, RenamedModel DEF CatalogueIInv, Fine
  <2> HIDE DEF rows
  <2>2. CASE badField
    BY <1>1, <1>2, <1>4, <2>1, <2>2, RequestStrand DEF Fine
  <2>3. CASE ~badField
    <3>1. Write(r, rows(m, n)) /\ UNCHANGED <<build, owed>>
      BY <1>1, <1>4, <2>3
    <3> QED
      BY <1>2, <2>1, <3>1, WriteStep DEF Write, PublishingKept
  <2> QED
    BY <2>2, <2>3
<1> QED
  BY <1>3, <1>4

LEMMA DeleteModelKeeps ==
    ASSUME CatalogueIInv, NEW r \in Requests, delete_model(r)
    PROVE  CatalogueIInv'
<1>1. PICK m : Write(r, WithoutModel(db, m))
  BY DEF delete_model
<1>2. Fine(db, db')
  BY <1>1, ModelGone DEF Write, CatalogueIInv
<1> QED
  BY <1>1, <1>2, Beginning, WriteStep DEF delete_model, Write

LEMMA PutFallbackModelKeeps ==
    ASSUME CatalogueIInv, NEW r \in Requests, put_fallback_model(r)
    PROVE  CatalogueIInv'
<1>1. PICK m : Write(r, [db EXCEPT !.models = [x \in DOMAIN @ |-> [@[x] EXCEPT !.fallback = x = m]]])
  BY DEF put_fallback_model
<1>2. Sound(db)
  BY DEF CatalogueIInv
<1>3. /\ SameButModels(db, db') /\ db'.targets = db.targets
      /\ db'.models = [x \in DOMAIN db.models |-> [db.models[x] EXCEPT !.fallback = x = m]]
  BY <1>1, <1>2 DEF Write, SameButModels, Sound, Shaped, TableNames
<1>4. /\ DOMAIN db'.models = DOMAIN db.models
      /\ \A x \in DOMAIN db.models : IsModel(db'.models[x]) /\ db'.models[x].name = db.models[x].name
  BY <1>2, <1>3 DEF Sound, Shaped, IsModel
<1>5. ModelNamesUnique(db')
  BY <1>2, <1>4 DEF Sound, ModelNamesUnique
<1>6. DOMAIN db'.models \subseteq Models /\ \A t \in DOMAIN db'.targets : IsTarget(db'.targets[t])
  BY <1>2, <1>3, <1>4 DEF Sound, Shaped
<1>7. Fine(db, db')
  BY <1>2, <1>3, <1>4, <1>5, <1>6, FineModels
<1> QED
  BY <1>1, <1>7, Beginning, WriteStep DEF put_fallback_model, Write

LEMMA PostBackendReadKeeps ==
    ASSUME CatalogueIInv, NEW r \in Requests, post_backend_read(r)
    PROVE  CatalogueIInv'
<1> DEFINE arg(m, p, made) == [b |-> <<m, p>>, name |-> db.models[m].name, made |-> made]
<1>1. \/ \E m, p : Read(r, "post_backend", arg(m, p, FALSE))
      \/ \E m, base, auth, n : \E p \in Fresh(Providers) :
            /\ db' = [db EXCEPT !.providers = Placed(@, p, NewProvider(n, "static", base, auth, "static"))]
            /\ Go(r, "post_backend", arg(m, p, TRUE))
  BY DEF post_backend_read
<1>2. ASSUME NEW m, NEW p, NEW made \in BOOLEAN
      PROVE  /\ CarriesSound([at |-> "post_backend", arg |-> arg(m, p, made)])
             /\ made => HasRefreshAhead([at |-> "post_backend", arg |-> arg(m, p, made)])
  BY DEF CarriesSound, HasRefreshAhead
<1> HIDE DEF arg
<1>3. ASSUME NEW m, NEW p, Read(r, "post_backend", arg(m, p, FALSE)) PROVE CatalogueIInv'
  BY <1>2, <1>3, Beginning, ReadStep DEF post_backend_read, Read
<1>4. ASSUME NEW m, NEW base, NEW auth, NEW n, NEW p \in Fresh(Providers),
             db' = [db EXCEPT !.providers = Placed(@, p, NewProvider(n, "static", base, auth, "static"))],
             Go(r, "post_backend", arg(m, p, TRUE))
      PROVE  CatalogueIInv'
  <2> DEFINE q == [at |-> "post_backend", arg |-> arg(m, p, TRUE)]
  <2>1. Fine(db, db')
    BY <1>4, NewProviderSound, PlacedProvider DEF Fresh, CatalogueIInv
  <2>2. CarriesSound(q) /\ HasRefreshAhead(q) /\ q.at # "build"
    BY <1>2
  <2>3. req' = [req EXCEPT ![r] = q]
    BY <1>4 DEF Go
  <2> HIDE DEF q
  <2>4. req[r].at # "build" /\ UNCHANGED <<sweep, absent, lock, build, pub, owed>>
    BY Beginning DEF post_backend_read, PublishingKept
  <2> QED
    BY <2>1, <2>2, <2>3, <2>4, RequestStep DEF Fine, GraceKept
<1> QED
  BY <1>1, <1>3, <1>4

LEMMA PostBackendRefusedKeeps ==
    ASSUME CatalogueIInv, NEW r \in Requests, post_backend_refused(r)
    PROVE  CatalogueIInv'
<1> USE DEF CatalogueIInv
<1>1. RequestsSound'
  BY DEF post_backend_refused, RequestsSound, Go, CarriesSound
<1>2. \A x \in Requests : req'[x].at = "build" <=> req[x].at = "build"
  BY DEF post_backend_refused, RequestsSound, Go
<1>3. DOMAIN build = {"models", "tools", "clean"} /\ build.clean \in BOOLEAN
  BY DEF LockHeld, NoBuild
<1>4. DOMAIN build' = DOMAIN build /\ build'.models = build.models /\ build'.tools = build.tools
  BY <1>3 DEF post_backend_refused
<1>5. build'.clean = (build.clean /\ ~req[r].arg.made)
  BY <1>3 DEF post_backend_refused
<1>6. ASSUME req[r].arg.made PROVE OwedOrSame
  <2>1. build'.clean = FALSE /\ owed' = {"publish", "relink"}
    BY <1>5, <1>6 DEF post_backend_refused
  <2> QED
    BY <1>3, <1>4, <2>1 DEF OwedOrSame, NoBuild
<1>7. SweepProgress' /\ Sound(db')
  BY SweepKeptSound DEF GraceKept, post_backend_refused
<1>8. ASSUME ~req[r].arg.made PROVE OwedOrSame
  <2>1. build'.clean = build.clean
    BY <1>3, <1>5, <1>8
  <2>2. owed' = owed /\ db' = db
    BY <1>8 DEF post_backend_refused
  <2>3. NoRefreshAhead' => NoRefreshAhead
    BY <1>8 DEF NoRefreshAhead, HasRefreshAhead, post_backend_refused, RequestsSound, Go
  <2> QED
    BY <1>3, <1>4, <2>1, <2>2, <2>3 DEF OwedOrSame, NoBuild
<1>9. OwedOrSame
  BY <1>6, <1>8
<1> QED
  BY <1>1, <1>2, <1>7, <1>9, OwedKeeps DEF post_backend_refused

LEMMA PostBackendKeeps ==
    ASSUME CatalogueIInv, NEW r \in Requests, post_backend(r)
    PROVE  CatalogueIInv'
<1> DEFINE b == req[r].arg.b
           row == NewBackend(req[r].arg.name)
<1>1. /\ b[1] \in DOMAIN db.models /\ b[2] \in DOMAIN db.providers
      /\ Write(r, [db EXCEPT !.backends = Placed(@, b, row)]) /\ Cont(r, "post_backend")
  BY DEF post_backend
<1>2. b = <<b[1], b[2]>>
  BY <1>1 DEF Cont, CatalogueIInv, RequestsSound, CarriesSound
<1> HIDE DEF b, row
<1>3. Fine(db, db')
  BY <1>1, <1>2, PlacedBackend DEF Write, CatalogueIInv
<1> QED
  BY <1>1, <1>3, Continuing, WriteStep DEF Write

LEMMA PatchBackendKeeps ==
    ASSUME CatalogueIInv, NEW r \in Requests, patch_backend(r)
    PROVE  CatalogueIInv'
<1>1. \/ Refuse(r)
      \/ \E b, up, mode : Write(r, [db EXCEPT !.backends[b] = [@ EXCEPT !.upstream = up, !.gate = mode]])
  BY DEF patch_backend
<1>2. CASE Refuse(r)
  BY <1>2, Beginning, RefuseStep DEF patch_backend
<1>3. ASSUME NEW b, NEW up, NEW mode, Write(r, [db EXCEPT !.backends[b] = [@ EXCEPT !.upstream = up, !.gate = mode]])
      PROVE  CatalogueIInv'
  <2>1. SameButBackends(db, db') /\ DOMAIN db'.backends = DOMAIN db.backends
    BY <1>3 DEF Write, SameButBackends, CatalogueIInv, Sound, Shaped, TableNames
  <2>2. Fine(db, db')
    BY <2>1, ChangedBackends DEF CatalogueIInv
  <2> QED
    BY <1>3, <2>2, Beginning, WriteStep DEF patch_backend, Write
<1> QED
  BY <1>1, <1>2, <1>3

LEMMA DeleteBackendKeeps ==
    ASSUME CatalogueIInv, NEW r \in Requests, delete_backend(r)
    PROVE  CatalogueIInv'
<1>1. PICK b : Write(r, WithoutBackends(db, {b}))
  BY DEF delete_backend
<1>2. Fine(db, db')
  BY <1>1, BackendsGone DEF Write, CatalogueIInv
<1> QED
  BY <1>1, <1>2, Beginning, WriteStep DEF delete_backend, Write

LEMMA SyncPricesKeeps ==
    ASSUME CatalogueIInv, NEW r \in Requests, sync_prices(r)
    PROVE  CatalogueIInv'
<1>1. \/ Refuse(r)
      \/ \E hit : Write(r, [db EXCEPT !.backends = [b \in DOMAIN @ |->
                              IF b \in hit THEN [@[b] EXCEPT !.priced = TRUE] ELSE @[b]]])
  BY DEF sync_prices
<1>2. CASE Refuse(r)
  BY <1>2, Beginning, RefuseStep DEF sync_prices
<1>3. ASSUME NEW hit, Write(r, [db EXCEPT !.backends = [b \in DOMAIN @ |->
                                 IF b \in hit THEN [@[b] EXCEPT !.priced = TRUE] ELSE @[b]]])
      PROVE  CatalogueIInv'
  <2>1. SameButBackends(db, db') /\ DOMAIN db'.backends = DOMAIN db.backends
    BY <1>3 DEF Write, SameButBackends, CatalogueIInv, Sound, Shaped, TableNames
  <2>2. Fine(db, db')
    BY <2>1, ChangedBackends DEF CatalogueIInv
  <2> QED
    BY <1>3, <2>2, Beginning, WriteStep DEF sync_prices, Write
<1> QED
  BY <1>1, <1>2, <1>3

LEMMA ModelRequestKeeps ==
    ASSUME CatalogueIInv, NEW r \in Requests, ModelRequest(r)
    PROVE  CatalogueIInv'
BY PostModelKeeps, PatchModelKeeps, DeleteModelKeeps, PutFallbackModelKeeps, PostBackendReadKeeps,
   PostBackendRefusedKeeps, PostBackendKeeps, PatchBackendKeeps, DeleteBackendKeeps, SyncPricesKeeps DEF ModelRequest

\* A statement on a table no link is made of.
LEMMA OtherTables ==
    ASSUME NEW d, Sound(d), NEW v
    PROVE  /\ Fine(d, [d EXCEPT !.frontends = v]) /\ Fine(d, [d EXCEPT !.rules = v]) /\ Fine(d, [d EXCEPT !.pools = v])
           /\ Fine(d, [d EXCEPT !.tools = v]) /\ Fine(d, [d EXCEPT !.classes = v])
<1>0. DOMAIN d = TableNames
  BY DEF Sound, Shaped
<1>1. SameLinks(d, [d EXCEPT !.frontends = v])
  BY <1>0 DEF SameLinks, SameButTargets, TableNames
<1>2. SameLinks(d, [d EXCEPT !.rules = v])
  BY <1>0 DEF SameLinks, SameButTargets, TableNames
<1>3. SameLinks(d, [d EXCEPT !.pools = v])
  BY <1>0 DEF SameLinks, SameButTargets, TableNames
<1>4. SameLinks(d, [d EXCEPT !.tools = v])
  BY <1>0 DEF SameLinks, SameButTargets, TableNames
<1>5. SameLinks(d, [d EXCEPT !.classes = v])
  BY <1>0 DEF SameLinks, SameButTargets, TableNames
<1> QED
  BY <1>1, <1>2, <1>3, <1>4, <1>5, FineOther

LEMMA GrantMoved ==
    ASSUME NEW d, Sound(d), NEW kind, NEW old, NEW new
    PROVE  Fine(d, move_grant(d, kind, old, new))
<1> DEFINE e == move_grant(d, kind, old, new)
<1>1. DOMAIN e = TableNames /\ \A f \in TableNames \ {"perms", "holds"} : e[f] = d[f]
  BY MovedGrant DEF Sound, Shaped
<1> HIDE DEF e
<1>2. SameLinks(d, e)
  BY <1>1 DEF SameLinks, SameButTargets, TableNames
<1> QED
  BY <1>2, FineOther DEF e

LEMMA PlacedTarget ==
    ASSUME NEW d, Sound(d), NEW t, NEW row, IsTarget(row)
    PROVE  Fine(d, [d EXCEPT !.targets = Placed(@, t, row)])
<1> DEFINE e == [d EXCEPT !.targets = Placed(@, t, row)]
<1>1. SameButTargets(d, e) /\ e.targets = Placed(d.targets, t, row)
  BY DEF SameButTargets, Sound, Shaped, TableNames
<1> HIDE DEF e
<1>2. \A x \in DOMAIN e.targets : IsTarget(e.targets[x])
  BY <1>1 DEF Placed, Sound, Shaped
<1> QED
  BY <1>1, <1>2, FineTargets DEF e

LEMMA TargetsGone ==
    ASSUME NEW d, Sound(d), NEW gone
    PROVE  Fine(d, [d EXCEPT !.targets = Drop(@, gone)])
<1> DEFINE e == [d EXCEPT !.targets = Drop(@, gone)]
<1>1. SameButTargets(d, e) /\ e.targets = Drop(d.targets, gone)
  BY DEF SameButTargets, Sound, Shaped, TableNames
<1> HIDE DEF e
<1>2. \A x \in DOMAIN e.targets : IsTarget(e.targets[x])
  BY <1>1 DEF Drop, Sound, Shaped
<1> QED
  BY <1>1, <1>2, FineTargets DEF e

LEMMA OwnersGone ==
    ASSUME NEW d, Sound(d), NEW owners
    PROVE  Fine(d, WithoutOwners(d, owners))
<1> DEFINE e == WithoutOwners(d, owners)
           gone == {t \in DOMAIN d.targets : d.targets[t].owner \in owners}
<1>1. SameButTargets(d, e) /\ e.targets = Drop(d.targets, gone)
  BY DEF WithoutOwners, SameButTargets, Sound, Shaped, TableNames
<1> HIDE DEF e, gone
<1>2. \A x \in DOMAIN e.targets : IsTarget(e.targets[x])
  BY <1>1 DEF Drop, Sound, Shaped
<1> QED
  BY <1>1, <1>2, FineTargets DEF e

LEMMA FrontendGone ==
    ASSUME NEW d, Sound(d), NEW f
    PROVE  Fine(d, WithoutFrontend(d, f))
<1> DEFINE c == WithoutOwners(d, {f} \cup {r \in DOMAIN d.rules : d.rules[r].fm = f})
           e == WithoutFrontend(d, f)
<1>1. e = [c EXCEPT !.frontends = Drop(@, {f}),
                    !.rules = [r \in DOMAIN @ |-> IF @[r].jump = f THEN [@[r] EXCEPT !.jump = Null] ELSE @[r]]]
  BY DEF WithoutFrontend
<1>2. Fine(d, c)
  BY OwnersGone
<1> HIDE DEF c, e
<1>3. SameLinks(c, e)
  BY <1>1, <1>2 DEF Fine, Sound, Shaped, SameLinks, SameButTargets, TableNames
<1>4. Fine(c, e)
  BY <1>2, <1>3, FineOther DEF Fine
<1> QED
  BY <1>2, <1>4, FineTwice DEF e

LEMMA PoolGone ==
    ASSUME NEW d, Sound(d), NEW g
    PROVE  Fine(d, WithoutPool(d, g))
<1> DEFINE e == WithoutPool(d, g)
<1>1. /\ DOMAIN e = TableNames /\ e.providers = d.providers /\ e.models = d.models /\ e.backends = d.backends
      /\ e.members = {x \in d.members : x.pool # g}
      /\ e.targets = [t \in DOMAIN d.targets |->
                        IF d.targets[t].pool = g THEN [d.targets[t] EXCEPT !.pool = Null] ELSE d.targets[t]]
  BY DEF WithoutPool, Sound, Shaped, TableNames
<1> HIDE DEF e
<1>2. \A t \in DOMAIN e.targets : IsTarget(e.targets[t])
  BY <1>1 DEF Sound, Shaped, IsTarget
<1>3. Shaped(e)
  BY <1>1, <1>2 DEF Sound, Shaped
<1>4. BackendsLinked(e) /\ MembersLinked(e) /\ ModelNamesUnique(e)
  BY <1>1 DEF Sound, BackendsLinked, MembersLinked, ModelNamesUnique
<1> QED
  BY <1>1, <1>3, <1>4 DEF e, Fine, Sound, PastGrace

LEMMA PostFrontendModelKeeps ==
    ASSUME CatalogueIInv, NEW r \in Requests, post_frontend_model(r)
    PROVE  CatalogueIInv'
<1>1. Refuse(r) \/ \E f, n : Mint(r, f, [db EXCEPT !.frontends = Placed(@, f, [name |-> n])])
  BY DEF post_frontend_model
<1>2. CASE Refuse(r)
  BY <1>2, Beginning, RefuseStep DEF post_frontend_model
<1>3. ASSUME NEW f, NEW n, Mint(r, f, [db EXCEPT !.frontends = Placed(@, f, [name |-> n])]) PROVE CatalogueIInv'
  <2>1. Fine(db, db')
    BY <1>3, OtherTables DEF Mint, CatalogueIInv
  <2> QED
    BY <1>3, <2>1, Beginning, WriteStep DEF post_frontend_model, Mint
<1> QED
  BY <1>1, <1>2, <1>3

LEMMA PatchFrontendModelKeeps ==
    ASSUME CatalogueIInv, NEW r \in Requests, patch_frontend_model(r)
    PROVE  CatalogueIInv'
<1> DEFINE renamed(f, n) == [db EXCEPT !.frontends[f].name = n]
<1>1. PICK f, n : \/ Refuse(r) \/ Write(r, db)
                  \/ Write(r, move_grant(renamed(f, n), "model", db.frontends[f].name, n))
  BY DEF patch_frontend_model
<1>2. CASE Refuse(r)
  BY <1>2, Beginning, RefuseStep DEF patch_frontend_model
<1>3. CASE Write(r, db)
  BY <1>3, FineSame, Beginning, WriteStep DEF patch_frontend_model, Write
<1>4. CASE Write(r, move_grant(renamed(f, n), "model", db.frontends[f].name, n))
  <2>1. SameLinks(db, renamed(f, n))
    BY DEF CatalogueIInv, Sound, Shaped, SameLinks, SameButTargets, TableNames
  <2>2. Fine(db, renamed(f, n))
    BY <2>1, FineOther DEF CatalogueIInv
  <2> HIDE DEF renamed
  <2>3. Fine(renamed(f, n), db')
    BY <1>4, <2>2, GrantMoved DEF Write, Fine
  <2>4. Fine(db, db')
    BY <2>2, <2>3, FineTwice
  <2> QED
    BY <1>4, <2>4, Beginning, WriteStep DEF patch_frontend_model, Write
<1> QED
  BY <1>1, <1>2, <1>3, <1>4

LEMMA DeleteVirtualModelKeeps ==
    ASSUME CatalogueIInv, NEW r \in Requests, delete_virtual_model(r)
    PROVE  CatalogueIInv'
<1>1. PICK f : Write(r, WithoutFrontend(db, f))
  BY DEF delete_virtual_model
<1>2. Fine(db, db')
  BY <1>1, FrontendGone DEF Write, CatalogueIInv
<1> QED
  BY <1>1, <1>2, Beginning, WriteStep DEF delete_virtual_model, Write

LEMMA PostRuleCheckKeeps ==
    ASSUME CatalogueIInv, NEW r \in Requests, post_rule_check(r)
    PROVE  CatalogueIInv'
<1>1. Refuse(r) \/ \E rule : Read(r, "post_rule", rule)
  BY DEF post_rule_check
<1>2. CASE Refuse(r)
  BY <1>2, Beginning, RefuseStep DEF post_rule_check
<1>3. ASSUME NEW rule, Read(r, "post_rule", rule) PROVE CatalogueIInv'
  <2>1. CarriesSound([at |-> "post_rule", arg |-> rule])
    BY DEF CarriesSound
  <2> QED
    BY <1>3, <2>1, Beginning, ReadStep DEF post_rule_check, Read
<1> QED
  BY <1>1, <1>2, <1>3

LEMMA PostRuleKeeps ==
    ASSUME CatalogueIInv, NEW r \in Requests, post_rule(r)
    PROVE  CatalogueIInv'
<1>1. Refuse(r) \/ \E x : Mint(r, x, [db EXCEPT !.rules = Placed(@, x, req[r].arg)])
  BY DEF post_rule
<1>2. CASE Refuse(r)
  BY <1>2, Continuing, RefuseStep DEF post_rule
<1>3. ASSUME NEW x, Mint(r, x, [db EXCEPT !.rules = Placed(@, x, req[r].arg)]) PROVE CatalogueIInv'
  <2>1. Fine(db, db')
    BY <1>3, OtherTables DEF Mint, CatalogueIInv
  <2> QED
    BY <1>3, <2>1, Continuing, WriteStep DEF post_rule, Mint
<1> QED
  BY <1>1, <1>2, <1>3

LEMMA PatchRuleCheckKeeps ==
    ASSUME CatalogueIInv, NEW r \in Requests, patch_rule_check(r)
    PROVE  CatalogueIInv'
<1>1. Refuse(r) \/ \E a : Read(r, "patch_rule", a)
  BY DEF patch_rule_check
<1>2. CASE Refuse(r)
  BY <1>2, Beginning, RefuseStep DEF patch_rule_check
<1>3. ASSUME NEW a, Read(r, "patch_rule", a) PROVE CatalogueIInv'
  <2>1. CarriesSound([at |-> "patch_rule", arg |-> a])
    BY DEF CarriesSound
  <2> QED
    BY <1>3, <2>1, Beginning, ReadStep DEF patch_rule_check, Read
<1> QED
  BY <1>1, <1>2, <1>3

LEMMA PatchRuleKeeps ==
    ASSUME CatalogueIInv, NEW r \in Requests, patch_rule(r)
    PROVE  CatalogueIInv'
<1> DEFINE a == req[r].arg
<1>1. Refuse(r) \/ Write(r, [db EXCEPT !.rules[a.x] = [@ EXCEPT !.act = a.act, !.jump = a.jump]])
  BY DEF patch_rule
<1>2. CASE Refuse(r)
  BY <1>2, Continuing, RefuseStep DEF patch_rule
<1>3. CASE Write(r, [db EXCEPT !.rules[a.x] = [@ EXCEPT !.act = a.act, !.jump = a.jump]])
  <2>1. SameLinks(db, db')
    BY <1>3 DEF Write, CatalogueIInv, Sound, Shaped, SameLinks, SameButTargets, TableNames
  <2>2. Fine(db, db')
    BY <2>1, FineOther DEF CatalogueIInv
  <2> QED
    BY <1>3, <2>2, Continuing, WriteStep DEF patch_rule, Write
<1> QED
  BY <1>1, <1>2, <1>3

LEMMA DeleteRuleKeeps ==
    ASSUME CatalogueIInv, NEW r \in Requests, delete_rule(r)
    PROVE  CatalogueIInv'
<1>1. PICK x : Write(r, WithoutOwners(db, {x}))
  BY DEF delete_rule
<1>2. Fine(db, db')
  BY <1>1, OwnersGone DEF Write, CatalogueIInv
<1> QED
  BY <1>1, <1>2, Beginning, WriteStep DEF delete_rule, Write

LEMMA ResolveTargetKeeps ==
    ASSUME CatalogueIInv, NEW r \in Requests, resolve_target(r)
    PROVE  CatalogueIInv'
<1>1. PICK o, m, g, n : Read(r, "target", [owner |-> o, model |-> m, pool |-> g, name |-> n])
  BY DEF resolve_target
<1>2. CarriesSound([at |-> "target", arg |-> [owner |-> o, model |-> m, pool |-> g, name |-> n]])
  BY DEF CarriesSound, IsTarget
<1> QED
  BY <1>1, <1>2, Beginning, ReadStep DEF resolve_target, Read

LEMMA PostTargetKeeps ==
    ASSUME CatalogueIInv, NEW r \in Requests, post_target(r)
    PROVE  CatalogueIInv'
<1> DEFINE a == req[r].arg
<1>1. Refuse(r) \/ \E t : Mint(r, t, [db EXCEPT !.targets = Placed(@, t, a)])
  BY DEF post_target
<1>2. Cont(r, "target")
  BY DEF post_target
<1>3. IsTarget(a)
  BY <1>2 DEF Cont, CatalogueIInv, RequestsSound, CarriesSound
<1> HIDE DEF a
<1>4. CASE Refuse(r)
  BY <1>2, <1>4, Continuing, RefuseStep
<1>5. ASSUME NEW t, Mint(r, t, [db EXCEPT !.targets = Placed(@, t, a)]) PROVE CatalogueIInv'
  <2>1. Fine(db, db')
    BY <1>3, <1>5, PlacedTarget DEF Mint, CatalogueIInv
  <2> QED
    BY <1>2, <1>5, <2>1, Continuing, WriteStep DEF Mint
<1> QED
  BY <1>1, <1>4, <1>5

LEMMA DeleteTargetKeeps ==
    ASSUME CatalogueIInv, NEW r \in Requests, delete_target(r)
    PROVE  CatalogueIInv'
<1>1. PICK t : Write(r, [db EXCEPT !.targets = Drop(@, {t})])
  BY DEF delete_target
<1>2. Fine(db, db')
  BY <1>1, TargetsGone DEF Write, CatalogueIInv
<1> QED
  BY <1>1, <1>2, Beginning, WriteStep DEF delete_target, Write

LEMMA RoutingRequestKeeps ==
    ASSUME CatalogueIInv, NEW r \in Requests, RoutingRequest(r)
    PROVE  CatalogueIInv'
BY PostFrontendModelKeeps, PatchFrontendModelKeeps, DeleteVirtualModelKeeps, PostRuleCheckKeeps, PostRuleKeeps,
   PatchRuleCheckKeeps, PatchRuleKeeps, DeleteRuleKeeps, ResolveTargetKeeps, PostTargetKeeps, DeleteTargetKeeps
   DEF RoutingRequest

LEMMA PostPoolCheckKeeps ==
    ASSUME CatalogueIInv, NEW r \in Requests, post_pool_check(r)
    PROVE  CatalogueIInv'
<1>1. Refuse(r) \/ \E n : Read(r, "post_pool", n)
  BY DEF post_pool_check
<1>2. CASE Refuse(r)
  BY <1>2, Beginning, RefuseStep DEF post_pool_check
<1>3. ASSUME NEW n, Read(r, "post_pool", n) PROVE CatalogueIInv'
  <2>1. CarriesSound([at |-> "post_pool", arg |-> n])
    BY DEF CarriesSound
  <2> QED
    BY <1>3, <2>1, Beginning, ReadStep DEF post_pool_check, Read
<1> QED
  BY <1>1, <1>2, <1>3

LEMMA PostPoolKeeps ==
    ASSUME CatalogueIInv, NEW r \in Requests, post_pool(r)
    PROVE  CatalogueIInv'
<1>1. Refuse(r) \/ \E g : Mint(r, g, [db EXCEPT !.pools = Placed(@, g, [name |-> req[r].arg])])
  BY DEF post_pool
<1>2. CASE Refuse(r)
  BY <1>2, Continuing, RefuseStep DEF post_pool
<1>3. ASSUME NEW g, Mint(r, g, [db EXCEPT !.pools = Placed(@, g, [name |-> req[r].arg])]) PROVE CatalogueIInv'
  <2>1. Fine(db, db')
    BY <1>3, OtherTables DEF Mint, CatalogueIInv
  <2> QED
    BY <1>3, <2>1, Continuing, WriteStep DEF post_pool, Mint
<1> QED
  BY <1>1, <1>2, <1>3

LEMMA PatchPoolNameKeeps ==
    ASSUME CatalogueIInv, NEW r \in Requests, patch_pool_name(r)
    PROVE  CatalogueIInv'
<1>1. Refuse(r) \/ \E g, n : db' = [db EXCEPT !.pools[g].name = n] /\ Go(r, "patch_pool", g)
  BY DEF patch_pool_name
<1>2. CASE Refuse(r)
  BY <1>2, Beginning, RefuseStep DEF patch_pool_name
<1>3. ASSUME NEW g, NEW n, db' = [db EXCEPT !.pools[g].name = n], Go(r, "patch_pool", g) PROVE CatalogueIInv'
  <2>1. SameLinks(db, db')
    BY <1>3 DEF CatalogueIInv, Sound, Shaped, SameLinks, SameButTargets, TableNames
  <2>2. Fine(db, db')
    BY <2>1, FineOther DEF CatalogueIInv
  <2> QED
    BY <1>3, <2>2, Beginning, WriteStep DEF patch_pool_name
<1> QED
  BY <1>1, <1>2, <1>3

LEMMA PatchPoolTargetsKeeps ==
    ASSUME CatalogueIInv, NEW r \in Requests, patch_pool_targets(r)
    PROVE  CatalogueIInv'
<1> DEFINE g == req[r].arg
           n == db.pools[g].name
<1>1. Write(r, [db EXCEPT !.targets = [t \in DOMAIN @ |-> IF @[t].pool = g THEN [@[t] EXCEPT !.name = n] ELSE @[t]]])
  BY DEF patch_pool_targets
<1>2. /\ SameButTargets(db, db')
      /\ db'.targets = [t \in DOMAIN db.targets |->
                          IF db.targets[t].pool = g THEN [db.targets[t] EXCEPT !.name = n] ELSE db.targets[t]]
  BY <1>1 DEF Write, SameButTargets, CatalogueIInv, Sound, Shaped, TableNames
<1> HIDE DEF n, g
<1>3. \A t \in DOMAIN db'.targets : IsTarget(db'.targets[t])
  BY <1>2 DEF CatalogueIInv, Sound, Shaped, IsTarget
<1>4. Fine(db, db')
  BY <1>2, <1>3, FineTargets DEF CatalogueIInv
<1> QED
  BY <1>1, <1>4, Continuing, WriteStep DEF patch_pool_targets, Write

LEMMA DeletePoolCheckKeeps ==
    ASSUME CatalogueIInv, NEW r \in Requests, delete_pool_check(r)
    PROVE  CatalogueIInv'
<1>1. Refuse(r) \/ \E g : Read(r, "delete_pool", g)
  BY DEF delete_pool_check
<1>2. CASE Refuse(r)
  BY <1>2, Beginning, RefuseStep DEF delete_pool_check
<1>3. ASSUME NEW g, Read(r, "delete_pool", g) PROVE CatalogueIInv'
  <2>1. CarriesSound([at |-> "delete_pool", arg |-> g])
    BY DEF CarriesSound
  <2> QED
    BY <1>3, <2>1, Beginning, ReadStep DEF delete_pool_check, Read
<1> QED
  BY <1>1, <1>2, <1>3

LEMMA DeletePoolKeeps ==
    ASSUME CatalogueIInv, NEW r \in Requests, delete_pool(r)
    PROVE  CatalogueIInv'
<1>1. Refuse(r) \/ Write(r, WithoutPool(db, req[r].arg))
  BY DEF delete_pool
<1>2. CASE Refuse(r)
  BY <1>2, Continuing, RefuseStep DEF delete_pool
<1>3. CASE Write(r, WithoutPool(db, req[r].arg))
  <2>1. Fine(db, db')
    BY <1>3, PoolGone DEF Write, CatalogueIInv
  <2> QED
    BY <1>3, <2>1, Continuing, WriteStep DEF delete_pool, Write
<1> QED
  BY <1>1, <1>2, <1>3

LEMMA PostPoolMemberReadKeeps ==
    ASSUME CatalogueIInv, NEW r \in Requests, post_pool_member_read(r)
    PROVE  CatalogueIInv'
<1>1. PICK g, m, p, n : Read(r, "member", [pool |-> g, model |-> m, pin |-> p, pinName |-> n])
  BY DEF post_pool_member_read
<1>2. CarriesSound([at |-> "member", arg |-> [pool |-> g, model |-> m, pin |-> p, pinName |-> n]])
  BY DEF CarriesSound, IsMember
<1> QED
  BY <1>1, <1>2, Beginning, ReadStep DEF post_pool_member_read, Read

LEMMA PostPoolMemberKeeps ==
    ASSUME CatalogueIInv, NEW r \in Requests, post_pool_member(r)
    PROVE  CatalogueIInv'
<1> DEFINE a == req[r].arg
<1>1. \/ Refuse(r)
      \/ /\ a.model \in DOMAIN db.models
         /\ a.pin # Null => <<a.model, a.pin>> \in DOMAIN db.backends
         /\ Write(r, [db EXCEPT !.members = @ \cup {a}])
  BY DEF post_pool_member
<1>2. Cont(r, "member")
  BY DEF post_pool_member
<1>3. IsMember(a)
  BY <1>2 DEF Cont, CatalogueIInv, RequestsSound, CarriesSound
<1> HIDE DEF a
<1>4. CASE Refuse(r)
  BY <1>2, <1>4, Continuing, RefuseStep
<1>5. ASSUME a.model \in DOMAIN db.models, a.pin # Null => <<a.model, a.pin>> \in DOMAIN db.backends,
             Write(r, [db EXCEPT !.members = @ \cup {a}])
      PROVE  CatalogueIInv'
  <2>1. SameButMembers(db, db') /\ db'.members = db.members \cup {a}
    BY <1>5 DEF Write, SameButMembers, CatalogueIInv, Sound, Shaped, TableNames
  <2>2. \A x \in db'.members : IsMember(x)
    BY <1>3, <2>1 DEF CatalogueIInv, Sound, Shaped
  <2>3. MembersLinked(db')
    BY <1>5, <2>1 DEF SameButMembers, MembersLinked, CatalogueIInv, Sound
  <2>4. Fine(db, db')
    BY <2>1, <2>2, <2>3, FineMembers DEF CatalogueIInv
  <2> QED
    BY <1>2, <1>5, <2>4, Continuing, WriteStep DEF Write
<1> QED
  BY <1>1, <1>4, <1>5

LEMMA DeletePoolMemberKeeps ==
    ASSUME CatalogueIInv, NEW r \in Requests, delete_pool_member(r)
    PROVE  CatalogueIInv'
<1>1. PICK x : Write(r, [db EXCEPT !.members = @ \ {x}])
  BY DEF delete_pool_member
<1>2. SameButMembers(db, db') /\ db'.members = db.members \ {x}
  BY <1>1 DEF Write, SameButMembers, CatalogueIInv, Sound, Shaped, TableNames
<1>3. (\A y \in db'.members : IsMember(y)) /\ MembersLinked(db')
  BY <1>2 DEF SameButMembers, MembersLinked, CatalogueIInv, Sound, Shaped
<1>4. Fine(db, db')
  BY <1>2, <1>3, FineMembers DEF CatalogueIInv
<1> QED
  BY <1>1, <1>4, Beginning, WriteStep DEF delete_pool_member, Write

LEMMA PoolRequestKeeps ==
    ASSUME CatalogueIInv, NEW r \in Requests, PoolRequest(r)
    PROVE  CatalogueIInv'
BY PostPoolCheckKeeps, PostPoolKeeps, PatchPoolNameKeeps, PatchPoolTargetsKeeps, DeletePoolCheckKeeps,
   DeletePoolKeeps, PostPoolMemberReadKeeps, PostPoolMemberKeeps, DeletePoolMemberKeeps DEF PoolRequest

LEMMA PostToolKeeps ==
    ASSUME CatalogueIInv, NEW r \in Requests, post_tool(r)
    PROVE  CatalogueIInv'
<1>1. Refuse(r) \/ \E s, row : Mint(r, s, [db EXCEPT !.tools = Placed(@, s, row)])
  BY DEF post_tool
<1>2. CASE Refuse(r)
  BY <1>2, Beginning, RefuseStep DEF post_tool
<1>3. ASSUME NEW s, NEW row, Mint(r, s, [db EXCEPT !.tools = Placed(@, s, row)]) PROVE CatalogueIInv'
  <2>1. Fine(db, db')
    BY <1>3, OtherTables DEF Mint, CatalogueIInv
  <2> QED
    BY <1>3, <2>1, Beginning, WriteStep DEF post_tool, Mint
<1> QED
  BY <1>1, <1>2, <1>3

LEMMA PatchToolKeeps ==
    ASSUME CatalogueIInv, NEW r \in Requests, patch_tool(r)
    PROVE  CatalogueIInv'
<1> DEFINE renamed(s, n) == [db EXCEPT !.tools[s].name = n]
           named(s, n) == IF n = db.tools[s].name THEN db
                          ELSE move_grant(renamed(s, n), db.tools[s].kind, db.tools[s].name, n)
<1>1. PICK s, n, on : \/ Refuse(r) /\ UNCHANGED <<build, owed>>
                      \/ Go(r, "idle", Null) /\ Strand(named(s, n)) /\ UNCHANGED minted
                      \/ Write(r, [named(s, n) EXCEPT !.tools[s].enabled = on]) /\ UNCHANGED <<build, owed>>
  BY DEF patch_tool
<1>2. req[r].at = "idle" /\ req[r].at # "build" /\ ~HasRefreshAhead(req[r]) /\ UNCHANGED <<sweep, absent, lock, pub>>
  BY DEF patch_tool, HasRefreshAhead
<1>3. Fine(db, named(s, n))
  <2>1. SameLinks(db, renamed(s, n))
    BY DEF CatalogueIInv, Sound, Shaped, SameLinks, SameButTargets, TableNames
  <2>2. Fine(db, renamed(s, n))
    BY <2>1, FineOther DEF CatalogueIInv
  <2> HIDE DEF renamed
  <2>3. Fine(renamed(s, n), move_grant(renamed(s, n), db.tools[s].kind, db.tools[s].name, n))
    BY <2>2, GrantMoved DEF Fine
  <2>4. Fine(db, db)
    BY DEF CatalogueIInv, Fine
  <2> QED
    BY <2>2, <2>3, <2>4, FineTwice
<1> HIDE DEF named
<1>4. CASE Refuse(r) /\ UNCHANGED <<build, owed>>
  BY <1>2, <1>4, RefuseStep DEF PublishingKept
<1>5. CASE Go(r, "idle", Null) /\ Strand(named(s, n)) /\ UNCHANGED minted
  BY <1>2, <1>3, <1>5, RequestStrand DEF Fine
<1>6. CASE Write(r, [named(s, n) EXCEPT !.tools[s].enabled = on]) /\ UNCHANGED <<build, owed>>
  <2>1. SameLinks(named(s, n), db')
    BY <1>3, <1>6 DEF Write, Fine, Sound, Shaped, SameLinks, SameButTargets, TableNames
  <2>2. Fine(db, db')
    BY <1>3, <2>1, FineOther, FineTwice DEF Fine
  <2> QED
    BY <1>2, <1>6, <2>2, WriteStep DEF Write, PublishingKept
<1> QED
  BY <1>1, <1>4, <1>5, <1>6

LEMMA DeleteToolKeeps ==
    ASSUME CatalogueIInv, NEW r \in Requests, delete_tool(r)
    PROVE  CatalogueIInv'
<1>1. PICK s : Write(r, [db EXCEPT !.tools = Drop(@, {s})])
  BY DEF delete_tool
<1>2. Fine(db, db')
  BY <1>1, OtherTables DEF Write, CatalogueIInv
<1> QED
  BY <1>1, <1>2, Beginning, WriteStep DEF delete_tool, Write

LEMMA PromptClassKeeps ==
    ASSUME CatalogueIInv, NEW r \in Requests,
           post_prompt_class(r) \/ post_prompt_class_example(r) \/ delete_prompt_class(r)
    PROVE  CatalogueIInv'
<1>1. \/ \E c, examples : Mint(r, c, [db EXCEPT !.classes = Placed(@, c, examples)])
      \/ \E c : Write(r, [db EXCEPT !.classes[c] = TRUE])
      \/ \E c : Write(r, [db EXCEPT !.classes = Drop(@, {c})])
  BY DEF post_prompt_class, post_prompt_class_example, delete_prompt_class
<1>2. PICK v : db' = [db EXCEPT !.classes = v]
  BY <1>1 DEF Mint, Write
<1>3. Go(r, "refresh", Null)
  BY <1>1 DEF Mint, Write
<1>4. Fine(db, db')
  BY <1>2, OtherTables DEF CatalogueIInv
<1> QED
  BY <1>3, <1>4, Beginning, WriteStep DEF post_prompt_class, post_prompt_class_example, delete_prompt_class

LEMMA ToolRequestKeeps ==
    ASSUME CatalogueIInv, NEW r \in Requests, ToolRequest(r)
    PROVE  CatalogueIInv'
BY PostToolKeeps, PatchToolKeeps, DeleteToolKeeps, PromptClassKeeps DEF ToolRequest

-----------------------------------------------------------------------------
(***************************************************************************)
(* Publishing.                                                             *)
(***************************************************************************)

LEMMA RefreshKeeps ==
    ASSUME CatalogueIInv, NEW r \in Requests, refresh(r)
    PROVE  CatalogueIInv'
<1> USE DEF CatalogueIInv
<1>1. req' = [req EXCEPT ![r] = [at |-> "build", arg |-> Null]] /\ lock = Null /\ lock' = r /\ r # Null
  BY CatalogueAssumption DEF refresh, Go
<1>2. Sound(db') /\ NothingVain(db') /\ db'.providers = db.providers
  BY RelinkSound DEF refresh
<1>3. RequestsSound'
  BY <1>1 DEF RequestsSound, CarriesSound
<1>4. LockHeld'
  <2>1. \A x \in Requests : x # r => req'[x] = req[x]
    BY <1>1 DEF RequestsSound
  <2>2. req'[r].at = "build"
    BY <1>1 DEF RequestsSound
  <2>3. \A x \in Requests : req[x].at # "build"
    BY <1>1, CatalogueAssumption DEF LockHeld
  <2> QED
    BY <1>1, <2>1, <2>2, <2>3 DEF LockHeld, NoBuild, refresh
<1>5. build' = build /\ build.models = Null
  BY <1>1 DEF LockHeld, refresh
<1>6. PublishOrOwe'
  BY <1>1, <1>5 DEF PublishOrOwe
<1>7. RelinkOrOwe'
  BY <1>2 DEF RelinkOrOwe
<1>8. SweepProgress'
  BY <1>2, SweepKeptSound DEF refresh, GraceKept, PastGrace
<1> QED
  BY <1>2, <1>3, <1>4, <1>6, <1>7, <1>8

LEMMA TickKeeps ==
    ASSUME CatalogueIInv, Tick
    PROVE  CatalogueIInv'
<1> USE DEF CatalogueIInv
<1>1. RequestsSound' /\ Sound(db') /\ RelinkOrOwe'
  BY DEF Tick, RequestsSound, RelinkOrOwe, NoRefreshAhead
<1>2. lock = Null /\ lock' = Ticker /\ build' = build /\ build.models = Null
  BY DEF Tick, LockHeld
<1>3. \A r \in Requests : req'[r].at # "build"
  BY <1>2, CatalogueAssumption DEF Tick, LockHeld
<1>4. LockHeld'
  BY <1>2, <1>3, CatalogueAssumption DEF LockHeld, NoBuild, Ticker
<1>5. PublishOrOwe'
  <2>1. (NoRefreshAhead /\ lock = Null /\ "publish" \notin owed => Current(pub))'
    BY <1>2 DEF PublishOrOwe, Tick, NoRefreshAhead, Current, Minting
  <2> QED
    BY <1>2, <2>1 DEF PublishOrOwe
<1>6. SweepProgress'
  BY SweepKeptSound DEF Tick, GraceKept
<1> QED
  BY <1>1, <1>4, <1>5, <1>6

LEMMA BuildReadKeeps ==
    ASSUME CatalogueIInv, BuildRead
    PROVE  CatalogueIInv'
<1> USE DEF CatalogueIInv
<1>1. RequestsSound' /\ Sound(db') /\ RelinkOrOwe'
  BY DEF BuildRead, RequestsSound, RelinkOrOwe, NoRefreshAhead
<1>2. PICK unusable \in SUBSET Minting :
         build' = [models |-> BuildModels(db, unusable), tools |-> BuildTools(db), clean |-> TRUE]
  BY DEF BuildRead
<1>3. DOMAIN build' = DOMAIN NoBuild /\ build'.clean = TRUE
  BY <1>2 DEF NoBuild
<1>4. LockHeld'
  BY <1>3 DEF LockHeld, BuildRead, NoBuild
<1>5. PublishOrOwe'
  <2>1. (NoRefreshAhead /\ lock = Null /\ "publish" \notin owed => Current(pub))'
    BY DEF BuildRead
  <2>2. ReadCurrent'
    BY <1>2 DEF ReadCurrent, BuildRead, Minting
  <2> QED
    BY <1>3, <2>1, <2>2 DEF PublishOrOwe
<1>6. SweepProgress'
  BY SweepKeptSound DEF BuildRead, GraceKept
<1> QED
  BY <1>1, <1>4, <1>5, <1>6

\* The builder gives PUBLISH back, and its request is answered.
LEMMA ReleasedKeeps ==
    ASSUME CatalogueIInv, lock # Null, Released
    PROVE  RequestsSound' /\ LockHeld' /\ (NoRefreshAhead' => NoRefreshAhead)
<1> USE DEF CatalogueIInv
<1>1. lock' = Null /\ build'.models = Null /\ DOMAIN build' = DOMAIN NoBuild /\ build'.clean = FALSE
  BY DEF Released, NoBuild
<1>2. CASE lock = Ticker
  <2>1. req' = req /\ \A r \in Requests : req[r].at # "build"
    BY <1>2, CatalogueAssumption DEF Released, LockHeld
  <2> QED
    BY <1>1, <2>1, CatalogueAssumption DEF RequestsSound, LockHeld, NoRefreshAhead, NoBuild
<1>3. CASE lock # Ticker
  <2>1. lock \in Requests /\ req' = [req EXCEPT ![lock] = Idle]
    BY <1>3 DEF Released, LockHeld
  <2>2. /\ DOMAIN req' = Requests /\ req'[lock] = Idle
        /\ \A r \in Requests : r # lock => req'[r] = req[r] /\ req[r].at # "build"
    BY <2>1 DEF RequestsSound, LockHeld
  <2>3. CarriesSound(Idle) /\ Idle.at # "build"
    BY DEF CarriesSound, Idle
  <2>4. ~HasRefreshAhead(req[lock])
    BY <2>1 DEF LockHeld, HasRefreshAhead
  <2> QED
    BY <1>1, <2>1, <2>2, <2>3, <2>4, CatalogueAssumption DEF RequestsSound, LockHeld, NoRefreshAhead, NoBuild
<1> QED
  BY <1>2, <1>3

LEMMA PublishKeeps ==
    ASSUME CatalogueIInv, Publish
    PROVE  CatalogueIInv'
<1> USE DEF CatalogueIInv
<1>1. RequestsSound' /\ LockHeld' /\ (NoRefreshAhead' => NoRefreshAhead)
  BY ReleasedKeeps DEF Publish
<1>2. build'.models = Null
  BY DEF Publish, Released, NoBuild
<1>3. (NoRefreshAhead /\ lock = Null /\ "publish" \notin owed => Current(pub))'
  <2>1. SUFFICES ASSUME NoRefreshAhead, "publish" \notin owed' PROVE Current(pub)'
    BY <1>1
  <2>2. build.clean
    BY <2>1 DEF Publish, PublishOrOwe, LockHeld
  <2>3. PICK unusable \in SUBSET Minting : build.models = BuildModels(db, unusable) /\ build.tools = BuildTools(db)
    BY <2>1, <2>2 DEF Publish, PublishOrOwe, ReadCurrent
  <2> QED
    BY <2>3 DEF Publish, Current, Minting
<1>4. PublishOrOwe'
  BY <1>2, <1>3 DEF PublishOrOwe
<1>5. RelinkOrOwe'
  BY <1>1 DEF Publish, RelinkOrOwe
<1>6. SweepProgress'
  BY SweepKeptSound DEF Publish, GraceKept
<1> QED
  BY <1>1, <1>4, <1>5, <1>6 DEF Publish

LEMMA BuildFailsKeeps ==
    ASSUME CatalogueIInv, BuildFails
    PROVE  CatalogueIInv'
<1> USE DEF CatalogueIInv
<1>1. RequestsSound' /\ LockHeld' /\ (NoRefreshAhead' => NoRefreshAhead)
  BY ReleasedKeeps DEF BuildFails
<1>2. build'.models = Null /\ "publish" \in owed'
  BY DEF BuildFails, Released, NoBuild
<1>3. PublishOrOwe'
  BY <1>2 DEF PublishOrOwe
<1>4. RelinkOrOwe'
  BY <1>1 DEF BuildFails, RelinkOrOwe
<1>5. SweepProgress'
  BY SweepKeptSound DEF BuildFails, GraceKept
<1> QED
  BY <1>1, <1>3, <1>4, <1>5 DEF BuildFails

-----------------------------------------------------------------------------
(***************************************************************************)
(* The sweep, time, and the import.                                        *)
(***************************************************************************)

\* What changes no more than a lease or a probe does.
LEMMA UnseenKeeps ==
    ASSUME CatalogueIInv, Sound(db'), SameView(db, db'), SweepProgress', UNCHANGED <<req, lock, build, pub, owed>>
    PROVE  CatalogueIInv'
<1> USE DEF CatalogueIInv
<1>1. RequestsSound' /\ LockHeld' /\ (NoRefreshAhead' <=> NoRefreshAhead)
  BY DEF RequestsSound, LockHeld, NoBuild, NoRefreshAhead
<1>2. (NoRefreshAhead /\ lock = Null /\ "publish" \notin owed => Current(pub))'
  BY <1>1, CurrentKept DEF PublishOrOwe
<1>3. (NoRefreshAhead /\ build.models # Null /\ build.clean => ReadCurrent)'
  BY <1>1, ReadKept DEF PublishOrOwe
<1>4. (build.models # Null /\ ~build.clean => "publish" \in owed)'
  BY DEF PublishOrOwe
<1>5. RelinkOrOwe'
  BY <1>1, SameVain DEF RelinkOrOwe
<1> QED
  BY <1>1, <1>2, <1>3, <1>4, <1>5 DEF PublishOrOwe

LEMMA SweepListKeeps ==
    ASSUME CatalogueIInv, SweepList
    PROVE  CatalogueIInv'
<1>1. sweep' = [NoSweep EXCEPT !.at = "probe", !.todo = db.providers] /\ db' = db
  BY DEF SweepList
<1>2. DOMAIN sweep' = DOMAIN NoSweep /\ sweep'.at = "probe" /\ sweep'.todo = db.providers
  BY <1>1 DEF NoSweep
<1>3. SweepProgress'
  BY <1>1, <1>2 DEF SweepProgress, PastGrace, NoSweep
<1> QED
  BY <1>1, <1>3, UnseenKeeps DEF SweepList, SweepKept, SameView, CatalogueIInv

LEMMA SweepProbeKeeps ==
    ASSUME CatalogueIInv, sweep_probe
    PROVE  CatalogueIInv'
<1> DEFINE found(p, reached, serves) == probe(reached /\ ~sweep.todo[p].lapsed, Registered(db, p), serves)
           ok(p, reached, serves) ==
               found(p, reached, serves) = "Healthy" \/ (found(p, reached, serves) = "Mismatch" /\ sweep.todo[p].kind = "dynamic")
           learn(p, reached, serves, listed) == ok(p, reached, serves) /\ sweep.todo[p].kind = "dynamic" /\ listed
<1>1. PICK p \in DOMAIN sweep.todo, reached \in BOOLEAN, listed \in BOOLEAN, served_names \in SUBSET Names :
          /\ sweep' = [sweep EXCEPT !.at = IF learn(p, reached, served_names, listed) THEN "learn" ELSE "mark",
                                    !.cur = p, !.ok = ok(p, reached, served_names),
                                    !.serves = IF learn(p, reached, served_names, listed) THEN served_names ELSE {},
                                    !.left = IF learn(p, reached, served_names, listed)
                                             THEN served_names \ Registered(db, p) ELSE {}]
          /\ absent' = IF ok(p, reached, served_names) THEN absent ELSE absent \cup {p}
  BY Zenon DEF sweep_probe
<1> HIDE DEF found, ok, learn
<1>2. sweep.at = "probe" /\ db' = db
  BY DEF sweep_probe
<1>3. /\ DOMAIN sweep' = DOMAIN NoSweep /\ sweep'.at \in {"learn", "mark"} /\ sweep'.cur = p
      /\ sweep'.ok = ok(p, reached, served_names) /\ sweep'.todo = sweep.todo
  BY <1>1 DEF CatalogueIInv, SweepProgress, NoSweep
<1>4. absent \subseteq absent' /\ (~ok(p, reached, served_names) => p \in absent')
  BY <1>1
<1>5. SweepProgress'
  BY <1>2, <1>3, <1>4 DEF CatalogueIInv, SweepProgress, NoSweep
<1> QED
  BY <1>2, <1>5, UnseenKeeps DEF sweep_probe, SweepKept, SameView, CatalogueIInv

LEMMA AdoptedFine ==
    ASSUME CatalogueIInv, NEW p, NEW u, NEW a \in Adopted(p, u)
    PROVE  Fine(db, a.d)
<1> DEFINE own == Named(db.models, u)
           name == IF own = {} THEN u ELSE <<u[1], sweep.todo[p].name>>
           with(d, m) == IF p \in DOMAIN db.providers /\ <<m, p>> \notin DOMAIN d.backends
                         THEN [d EXCEPT !.backends = Placed(@, <<m, p>>, NewBackend(u))] ELSE d
           new(m) == [db EXCEPT !.models = Placed(@, m, [name |-> name, fallback |-> FALSE])]
<1>0. a \in IF \E m \in own : AllDynamic(m) THEN {[d |-> with(db, m), ids |-> {}] : m \in own}
           ELSE IF Named(db.models, name) # {} \/ Fresh(Models) = {} THEN {[d |-> db, ids |-> {}]}
           ELSE {[d |-> with(new(m), m), ids |-> {m}] : m \in Fresh(Models)}
  BY Zenon DEF Adopted
<1>1. \/ \E m \in own : a.d = with(db, m)
      \/ a.d = db
      \/ Named(db.models, name) = {} /\ \E m \in Fresh(Models) : a.d = with(new(m), m)
  <2> HIDE DEF own, name, with, new
  <2> QED BY <1>0
<1>2. ASSUME NEW d, Sound(d), d.providers = db.providers, NEW m \in DOMAIN d.models PROVE Fine(d, with(d, m))
  <2> DEFINE b == <<m, p>>
  <2>1. b = <<b[1], b[2]>> /\ b[1] = m /\ b[2] = p
    OBVIOUS
  <2>2. with(d, m) = IF p \in DOMAIN db.providers /\ b \notin DOMAIN d.backends
                     THEN [d EXCEPT !.backends = Placed(@, b, NewBackend(u))] ELSE d
    OBVIOUS
  <2> HIDE DEF b, with
  <2>3. CASE p \in DOMAIN db.providers /\ b \notin DOMAIN d.backends
    BY <1>2, <2>1, <2>2, <2>3, PlacedBackend
  <2>4. CASE ~(p \in DOMAIN db.providers /\ b \notin DOMAIN d.backends)
    BY <1>2, <2>2, <2>4 DEF Fine
  <2> QED
    BY <2>3, <2>4
<1>3. ASSUME NEW m \in Fresh(Models), Named(db.models, name) = {}
      PROVE  Fine(db, new(m)) /\ new(m).providers = db.providers /\ m \in DOMAIN new(m).models
  <2> DEFINE row == [name |-> name, fallback |-> FALSE]
  <2>1. IsModel(row) /\ row.name = name
    BY DEF IsModel
  <2>2. new(m) = [db EXCEPT !.models = Placed(@, m, row)]
    OBVIOUS
  <2> HIDE DEF row, name
  <2>3. Fine(db, new(m))
    BY <1>3, <2>1, <2>2, PlacedModel DEF Fresh, CatalogueIInv
  <2>4. new(m).providers = db.providers /\ new(m).models = Placed(db.models, m, row)
    BY <2>2 DEF CatalogueIInv, Sound, Shaped, TableNames
  <2> QED
    BY <2>3, <2>4 DEF Placed
<1> HIDE DEF new, with
<1>4. ASSUME NEW m \in own, a.d = with(db, m) PROVE Fine(db, a.d)
  BY <1>2, <1>4 DEF Named, CatalogueIInv
<1>5. ASSUME NEW m \in Fresh(Models), Named(db.models, name) = {}, a.d = with(new(m), m) PROVE Fine(db, a.d)
  <2>1. Fine(db, new(m)) /\ new(m).providers = db.providers /\ m \in DOMAIN new(m).models
    BY <1>3, <1>5
  <2>2. Fine(new(m), with(new(m), m))
    BY <1>2, <2>1 DEF Fine
  <2> QED
    BY <1>5, <2>1, <2>2, FineTwice
<1>6. Fine(db, db)
  BY DEF CatalogueIInv, Fine
<1> HIDE DEF own, name
<1> QED
  BY <1>1, <1>4, <1>5, <1>6

LEMMA SweepAdoptKeeps ==
    ASSUME CatalogueIInv, sweep_adopt
    PROVE  CatalogueIInv'
<1>1. PICK u \in sweep.left : \E a \in Adopted(sweep.cur, u) :
          /\ Strand(a.d)
          /\ sweep' = [sweep EXCEPT !.left = @ \ {u},
                                    !.at = IF sweep.cur \in DOMAIN db.providers THEN @ ELSE "relink"]
  BY DEF sweep_adopt
<1>2. PICK a \in Adopted(sweep.cur, u) :
          /\ Strand(a.d)
          /\ sweep' = [sweep EXCEPT !.left = @ \ {u},
                                    !.at = IF sweep.cur \in DOMAIN db.providers THEN @ ELSE "relink"]
  BY <1>1
<1>3. Fine(db, a.d)
  BY AdoptedFine
<1>4. db' = a.d /\ sweep.at = "learn" /\ absent' = absent
  BY <1>2 DEF Strand, sweep_adopt
<1>5. /\ DOMAIN sweep' = DOMAIN NoSweep /\ sweep'.at \in {"learn", "relink"}
      /\ sweep'.todo = sweep.todo /\ sweep'.cur = sweep.cur /\ sweep'.ok = sweep.ok
  BY <1>2, <1>4 DEF CatalogueIInv, SweepProgress, NoSweep
<1>6. SweepProgress'
  BY <1>3, <1>4, <1>5 DEF CatalogueIInv, SweepProgress, NoSweep, Fine
<1> QED
  BY <1>2, <1>3, <1>6, BackgroundStrand DEF sweep_adopt, Fine

LEMMA SweepDetachKeeps ==
    ASSUME CatalogueIInv, sweep_detach
    PROVE  CatalogueIInv'
<1>1. PICK gone : Strand(WithoutBackends(db, gone))
  BY DEF sweep_detach
<1>2. Fine(db, WithoutBackends(db, gone)) /\ db' = WithoutBackends(db, gone)
  BY <1>1, BackendsGone DEF CatalogueIInv, Strand
<1>3. sweep.at = "learn" /\ absent' = absent /\ sweep' = [sweep EXCEPT !.at = "mark"]
  BY DEF sweep_detach
<1>4. /\ DOMAIN sweep' = DOMAIN NoSweep /\ sweep'.at = "mark"
      /\ sweep'.todo = sweep.todo /\ sweep'.cur = sweep.cur /\ sweep'.ok = sweep.ok
  BY <1>3 DEF CatalogueIInv, SweepProgress, NoSweep
<1>5. SweepProgress'
  BY <1>2, <1>3, <1>4 DEF CatalogueIInv, SweepProgress, NoSweep, Fine
<1> QED
  BY <1>1, <1>2, <1>5, BackgroundStrand DEF sweep_detach, SweepKept, Fine

\* One provider's row, in the columns the snapshot does not show.
LEMMA UnseenProvider ==
    ASSUME NEW d, Sound(d), NEW p \in DOMAIN d.providers, NEW row, IsProvider(row),
           row.base = d.providers[p].base, row.name = d.providers[p].name, row.cred = d.providers[p].cred
    PROVE  /\ Sound([d EXCEPT !.providers[p] = row]) /\ SameView(d, [d EXCEPT !.providers[p] = row])
           /\ [d EXCEPT !.providers[p] = row].providers = [d.providers EXCEPT ![p] = row]
<1> DEFINE e == [d EXCEPT !.providers[p] = row]
<1>1. /\ SameButProviders(d, e) /\ e.providers = [d.providers EXCEPT ![p] = row] /\ e.frontends = d.frontends
      /\ e.rules = d.rules /\ e.pools = d.pools /\ e.tools = d.tools /\ e.classes = d.classes
  BY DEF SameButProviders, Sound, Shaped, TableNames
<1> HIDE DEF e
<1>2. DOMAIN e.providers = DOMAIN d.providers /\ \A x \in DOMAIN d.providers : IsProvider(e.providers[x])
  BY <1>1 DEF Sound, Shaped
<1>3. Shaped(e)
  BY <1>1, <1>2 DEF Sound, Shaped, SameButProviders
<1>4. BackendsLinked(e)
  BY <1>1, <1>2 DEF Sound, BackendsLinked, SameButProviders
<1>5. MembersLinked(e) /\ ModelNamesUnique(e)
  BY <1>1 DEF Sound, MembersLinked, ModelNamesUnique, SameButProviders
<1>6. SameView(d, e)
  BY <1>1, <1>2 DEF SameView, SameButProviders
<1> QED
  BY <1>1, <1>3, <1>4, <1>5, <1>6 DEF e, Sound

LEMMA SweepMarkKeeps ==
    ASSUME CatalogueIInv, sweep_mark
    PROVE  CatalogueIInv'
<1> DEFINE p == sweep.cur
           rest == Drop(sweep.todo, {p})
           mark == IF sweep.ok THEN "no" ELSE IF db.providers[p].degraded = "no" THEN "recently"
                   ELSE db.providers[p].degraded
           row == [db.providers[p] EXCEPT !.degraded = mark]
<1>1. sweep.at = "mark" /\ absent' = absent
  BY DEF sweep_mark
<1>2. db' = IF p \in DOMAIN db.providers THEN [db EXCEPT !.providers[p] = row] ELSE db
  BY DEF sweep_mark
<1>3. /\ DOMAIN sweep' = DOMAIN NoSweep /\ sweep'.todo = rest /\ sweep'.at \in {"probe", "delete"}
      /\ sweep'.at = "delete" => DOMAIN rest = {}
  BY DEF sweep_mark, NoSweep
<1>4. DOMAIN rest = DOMAIN sweep.todo \ {p}
  BY DEF Drop
<1> HIDE DEF rest
<1>5. /\ Sound(db') /\ SameView(db, db')
      /\ PastGrace(db') \subseteq PastGrace(db) /\ (p \in PastGrace(db') => ~sweep.ok)
  <2>1. CASE p \notin DOMAIN db.providers
    BY <1>2, <2>1 DEF CatalogueIInv, SameView, PastGrace
  <2>2. CASE p \in DOMAIN db.providers
    <3>1. DOMAIN db.providers[p] = {"name", "kind", "base", "auth", "cred", "degraded", "lapsed"}
      BY <2>2 DEF CatalogueIInv, Sound, Shaped, IsProvider
    <3>2. /\ mark = "past grace" => ~sweep.ok /\ db.providers[p].degraded = "past grace"
      OBVIOUS
    <3> HIDE DEF mark
    <3>3. /\ IsProvider(row) /\ row.base = db.providers[p].base /\ row.name = db.providers[p].name
          /\ row.cred = db.providers[p].cred /\ row.degraded = mark
      BY <3>1 DEF IsProvider
    <3>4. db' = [db EXCEPT !.providers[p] = row]
      BY <1>2, <2>2
    <3> HIDE DEF row
    <3>5. Sound(db') /\ SameView(db, db') /\ db'.providers = [db.providers EXCEPT ![p] = row]
      BY <2>2, <3>3, <3>4, UnseenProvider DEF CatalogueIInv
    <3> QED
      BY <2>2, <3>2, <3>3, <3>5 DEF PastGrace
  <2> QED
    BY <2>1, <2>2
<1>6. SweepProgress'
  <2>1. PastGrace(db) \subseteq absent \cup DOMAIN sweep.todo /\ (~sweep.ok => p \notin PastGrace(db) \ absent)
    BY <1>1 DEF CatalogueIInv, SweepProgress
  <2>2. PastGrace(db') \subseteq absent \cup DOMAIN rest
    BY <1>4, <1>5, <2>1
  <2> QED
    BY <1>1, <1>3, <2>2 DEF SweepProgress, NoSweep
<1> QED
  BY <1>5, <1>6, UnseenKeeps DEF sweep_mark, SweepKept

LEMMA SweepDeleteKeeps ==
    ASSUME CatalogueIInv, sweep_delete
    PROVE  CatalogueIInv'
<1>1. Strand(WithoutProviders(db, Overdue)) /\ sweep' = [sweep EXCEPT !.at = "relink"]
  BY DEF sweep_delete
<1>2. Sound(WithoutProviders(db, Overdue))
  BY ProvidersGone DEF CatalogueIInv, Fine
<1>3. DOMAIN sweep' = DOMAIN NoSweep /\ sweep'.at = "relink"
  BY <1>1 DEF CatalogueIInv, SweepProgress, NoSweep
<1>4. SweepProgress'
  BY <1>3 DEF SweepProgress, NoSweep
<1> QED
  BY <1>1, <1>2, <1>4, BackgroundStrand DEF sweep_delete, SweepKept

LEMMA SweepRelinkKeeps ==
    ASSUME CatalogueIInv, sweep_relink
    PROVE  CatalogueIInv'
<1> USE DEF CatalogueIInv
<1>1. Sound(db') /\ NothingVain(db')
  BY RelinkSound DEF sweep_relink
<1>2. DOMAIN build = {"models", "tools", "clean"}
  BY DEF LockHeld, NoBuild
<1>3. DOMAIN build' = DOMAIN NoBuild /\ build'.models = build.models /\ build'.clean = FALSE
  BY <1>2 DEF sweep_relink, NoBuild
<1>4. RequestsSound' /\ LockHeld'
  BY <1>3 DEF sweep_relink, SweepKept, RequestsSound, LockHeld, NoBuild
<1>5. PublishOrOwe' /\ RelinkOrOwe'
  BY <1>1, <1>3 DEF sweep_relink, PublishOrOwe, RelinkOrOwe
<1>6. SweepProgress'
  BY DEF sweep_relink, SweepProgress, NoSweep
<1> QED
  BY <1>1, <1>4, <1>5, <1>6

LEMMA LeaseLapsesKeeps ==
    ASSUME CatalogueIInv, LeaseLapses
    PROVE  CatalogueIInv'
<1>1. PICK p \in DOMAIN db.providers : db' = [db EXCEPT !.providers[p].lapsed = TRUE]
  BY DEF LeaseLapses
<1> DEFINE row == [db.providers[p] EXCEPT !.lapsed = TRUE]
<1>2. /\ IsProvider(row) /\ row.base = db.providers[p].base /\ row.name = db.providers[p].name
      /\ row.cred = db.providers[p].cred /\ row.degraded = db.providers[p].degraded
  BY DEF CatalogueIInv, Sound, Shaped, IsProvider
<1>3. db' = [db EXCEPT !.providers[p] = row]
  BY <1>1
<1> HIDE DEF row
<1>4. Sound(db') /\ SameView(db, db') /\ db'.providers = [db.providers EXCEPT ![p] = row]
  BY <1>2, <1>3, UnseenProvider DEF CatalogueIInv
<1>5. PastGrace(db') \subseteq PastGrace(db)
  BY <1>2, <1>4 DEF PastGrace
<1>6. SweepProgress'
  BY <1>5, SweepKeptSound DEF CatalogueIInv, GraceKept, LeaseLapses, TimeKept
<1> QED
  BY <1>4, <1>6, UnseenKeeps DEF LeaseLapses, TimeKept, PublishingKept

LEMMA GracePassesKeeps ==
    ASSUME CatalogueIInv, GracePasses
    PROVE  CatalogueIInv'
<1>1. sweep.at = "idle" /\ sweep' = sweep
  BY DEF GracePasses, TimeKept
<1>2. DOMAIN db = TableNames /\ \A p \in DOMAIN db.providers : IsProvider(db.providers[p])
  BY DEF CatalogueIInv, Sound, Shaped
<1>3. /\ SameButProviders(db, db') /\ db'.frontends = db.frontends
      /\ db'.rules = db.rules /\ db'.pools = db.pools /\ db'.tools = db.tools /\ db'.classes = db.classes
      /\ db'.providers = [p \in DOMAIN db.providers |->
                            IF db.providers[p].degraded = "recently"
                            THEN [db.providers[p] EXCEPT !.degraded = "past grace"] ELSE db.providers[p]]
  BY <1>2 DEF GracePasses, SameButProviders, TableNames
<1>4. /\ DOMAIN db'.providers = DOMAIN db.providers
      /\ \A p \in DOMAIN db.providers :
            /\ IsProvider(db'.providers[p]) /\ db'.providers[p].base = db.providers[p].base
            /\ db'.providers[p].name = db.providers[p].name /\ db'.providers[p].cred = db.providers[p].cred
  BY <1>2, <1>3 DEF IsProvider
<1>5. Shaped(db')
  BY <1>3, <1>4 DEF CatalogueIInv, Sound, Shaped, SameButProviders
<1>6. BackendsLinked(db')
  BY <1>3, <1>4 DEF CatalogueIInv, Sound, BackendsLinked, SameButProviders
<1>7. MembersLinked(db') /\ ModelNamesUnique(db')
  BY <1>3 DEF CatalogueIInv, Sound, MembersLinked, ModelNamesUnique, SameButProviders
<1>8. SameView(db, db')
  BY <1>3, <1>4 DEF SameView, SameButProviders
<1>9. SweepProgress'
  BY <1>1 DEF CatalogueIInv, SweepProgress, NoSweep
<1> QED
  BY <1>5, <1>6, <1>7, <1>8, <1>9, UnseenKeeps DEF Sound, GracePasses, TimeKept, PublishingKept

LEMMA ImportKeeps ==
    ASSUME CatalogueIInv, import
    PROVE  CatalogueIInv'
<1> DEFINE row(e, p, free) == IF p \in DOMAIN db.providers THEN [db.providers[p] EXCEPT !.auth = e.auth]
                              ELSE NewProvider(free, "static", e.base, e.auth, "static")
           provided(e, p, free) == [db EXCEPT !.providers = Placed(@, p, row(e, p, free))]
<1>1. PICK e \in ModelList : \E p \in FoundOr(AtBase(e.base), Providers), m \in FoundOr(Named(db.models, e.name), Models),
                                free \in FreeNames \cup {Null} : Strand(import_model(provided(e, p, free), <<m, p>>, e))
  BY DEF import
<1>2. PICK p \in FoundOr(AtBase(e.base), Providers), m \in FoundOr(Named(db.models, e.name), Models),
           free \in FreeNames \cup {Null} :
         Strand(import_model(provided(e, p, free), <<m, p>>, e))
  BY <1>1
<1>3. p \in Providers /\ m \in Models
  BY DEF FoundOr, AtBase, Named, Fresh, CatalogueIInv, Sound, Shaped
<1>4. m \notin DOMAIN db.models => Named(db.models, e.name) = {}
  BY DEF FoundOr, Named
<1>5. IsProvider(row(e, p, free)) /\ (row(e, p, free).degraded = "past grace" => p \in PastGrace(db))
  <2>1. CASE p \in DOMAIN db.providers
    BY <2>1 DEF CatalogueIInv, Sound, Shaped, IsProvider, PastGrace
  <2>2. CASE p \notin DOMAIN db.providers
    BY <2>2, NewProviderSound
  <2> QED
    BY <2>1, <2>2
<1> HIDE DEF row
<1>6. Fine(db, provided(e, p, free))
  BY <1>3, <1>5, PlacedProvider DEF CatalogueIInv
<1>7. /\ provided(e, p, free).models = db.models
      /\ provided(e, p, free).providers = Placed(db.providers, p, row(e, p, free))
  BY DEF CatalogueIInv, Sound, Shaped, TableNames
<1>8. p \in DOMAIN provided(e, p, free).providers
  BY <1>7 DEF Placed
<1> HIDE DEF provided
<1>9. Fine(provided(e, p, free), import_model(provided(e, p, free), <<m, p>>, e))
  BY <1>3, <1>4, <1>6, <1>7, <1>8, ImportedModel DEF Fine
<1>10. Fine(db, import_model(provided(e, p, free), <<m, p>>, e))
  BY <1>6, <1>9, FineTwice
<1>11. GraceKept
  BY <1>2, <1>10 DEF GraceKept, Fine, Strand, import
<1>12. SweepProgress'
  BY <1>11, SweepKeptSound DEF CatalogueIInv, import
<1> QED
  BY <1>2, <1>10, <1>12, BackgroundStrand DEF Fine, import

-----------------------------------------------------------------------------
(***************************************************************************)
(* The theorems.                                                           *)
(***************************************************************************)

LEMMA CatalogueInitial == Init => CatalogueIInv
<1> SUFFICES ASSUME Init PROVE CatalogueIInv
  OBVIOUS
<1> USE DEF Init
<1>1. Sound(db) /\ NothingVain(db)
  BY CatalogueAssumption
<1>2. RequestsSound /\ \A r \in Requests : req[r].at = "idle"
  BY DEF RequestsSound, CarriesSound, Idle
<1>3. LockHeld
  BY <1>2, CatalogueAssumption DEF LockHeld, NoBuild
<1>4. PublishOrOwe
  <2>1. Current(pub)
    BY DEF Current
  <2>2. build.models = Null
    BY DEF NoBuild
  <2> QED
    BY <2>1, <2>2 DEF PublishOrOwe
<1>5. RelinkOrOwe /\ SweepProgress
  BY <1>1 DEF RelinkOrOwe, SweepProgress, NoSweep
<1> QED
  BY <1>1, <1>2, <1>3, <1>4, <1>5 DEF CatalogueIInv

LEMMA SweepKeeps ==
    ASSUME CatalogueIInv, Sweep
    PROVE  CatalogueIInv'
BY SweepListKeeps, SweepProbeKeeps, SweepAdoptKeeps, SweepDetachKeeps, SweepMarkKeeps, SweepDeleteKeeps,
   SweepRelinkKeeps DEF Sweep

LEMMA CatalogueNextKeeps == CatalogueIInv /\ [Next]_vars => CatalogueIInv'
<1> SUFFICES ASSUME CatalogueIInv, [Next]_vars PROVE CatalogueIInv'
  OBVIOUS
<1>1. ASSUME NEW r \in Requests,
             \/ ProviderRequest(r) \/ ModelRequest(r) \/ RoutingRequest(r) \/ PoolRequest(r) \/ ToolRequest(r)
             \/ refresh(r)
      PROVE  CatalogueIInv'
  BY <1>1, ProviderRequestKeeps, ModelRequestKeeps, RoutingRequestKeeps, PoolRequestKeeps, ToolRequestKeeps,
     RefreshKeeps
<1>2. CASE Tick \/ BuildRead \/ Publish \/ BuildFails
  BY <1>2, TickKeeps, BuildReadKeeps, PublishKeeps, BuildFailsKeeps
<1>3. CASE Sweep \/ LeaseLapses \/ GracePasses \/ import
  BY <1>3, SweepKeeps, LeaseLapsesKeeps, GracePassesKeeps, ImportKeeps
<1>4. CASE UNCHANGED vars
  <2>1. db' = db /\ sweep' = sweep /\ absent' = absent /\ UNCHANGED <<req, lock, build, pub, owed>>
    BY <1>4 DEF vars
  <2>2. Sound(db') /\ SameView(db, db') /\ SweepProgress'
    BY <2>1, SweepKeptSound DEF CatalogueIInv, SameView, GraceKept
  <2> QED
    BY <2>1, <2>2, UnseenKeeps
<1> QED
  BY <1>1, <1>2, <1>3, <1>4 DEF Next

\* In every reachable state of the control plane the tables' links are sound,
\* PUBLISH is held by one builder, whoever changed what the snapshot shows will
\* build again or has left it owed, and the sweep has probed, or will, whoever
\* it may delete (api.rs, build.rs, registry_agent.rs, import.rs).
THEOREM CatalogueInvariant == Spec => []CatalogueIInv
<1>1. Init => CatalogueIInv
  BY CatalogueInitial
<1>2. CatalogueIInv /\ [Next]_vars => CatalogueIInv'
  BY CatalogueNextKeeps
<1> QED
  BY <1>1, <1>2, PTL DEF Spec

LEMMA SettledRefreshed ==
    ASSUME Settled
    PROVE  NoRefreshAhead /\ lock = Null
BY DEF Settled, NoRefreshAhead, HasRefreshAhead, Idle

\* A model is listed as it is published.
LEMMA ModelsListed ==
    ASSUME NEW unusable \in SUBSET Minting, NEW v \in list_models(db)
    PROVE  \E m \in BuildModels(db, unusable) :
              /\ m.name = v.name /\ m.backends \subseteq v.backends
              /\ \A b \in v.backends \ m.backends : b[1][2] \in Minting
<1>1. PICK x \in DOMAIN db.models :
         v = [name |-> db.models[x].name,
              backends |-> {BackendView(db, b) : b \in {b \in DOMAIN db.backends : b[1] = x}}]
  BY DEF list_models, BackendView
<1> DEFINE m == ModelView(db, unusable, x)
<1>2. m \in BuildModels(db, unusable)
  BY BuildModelsView
<1>3. /\ m.name = db.models[x].name
      /\ m.backends = {BackendView(db, b) : b \in {b \in DOMAIN db.backends : b[1] = x /\ b[2] \notin unusable}}
  BY DEF ModelView
<1>4. \A b : BackendView(db, b)[1] = b
  BY DEF BackendView
<1> HIDE DEF m
<1>5. m.name = v.name /\ m.backends \subseteq v.backends
  BY <1>1, <1>3
<1>6. ASSUME NEW w \in v.backends \ m.backends PROVE w[1][2] \in Minting
  <2>1. PICK b \in DOMAIN db.backends : b[1] = x /\ w = BackendView(db, b)
    BY <1>1, <1>6
  <2>2. b[2] \in unusable
    BY <1>3, <1>6, <2>1
  <2> QED
    BY <1>4, <2>1, <2>2
<1> QED
  BY <1>2, <1>5, <1>6

\* A pool of attachments is published with every one that is.
LEMMA PoolsListed ==
    ASSUME Sound(db), NEW unusable \in SUBSET Minting, NEW g \in list_pools(db), NEW x \in g.members, x.base # Null
    PROVE  \/ \E q \in PoolModels(db, BuildModels(db, unusable)) : q.name = g.name /\ \E b \in q.backends : b[3] = x.base
           \/ \E p \in Minting : db.providers[p].base = x.base
<1>1. PICK i \in DOMAIN db.pools : \E y \in db.members :
         /\ g.name = db.pools[i].name /\ y.pool = i
         /\ x.base = IF y.pin = Null THEN Null ELSE db.providers[y.pin].base
  BY DEF list_pools
<1>2. PICK y \in db.members :
         /\ g.name = db.pools[i].name /\ y.pool = i
         /\ x.base = IF y.pin = Null THEN Null ELSE db.providers[y.pin].base
  BY <1>1
<1> DEFINE b == <<y.model, y.pin>>
<1>3. y.pin # Null /\ x.base = db.providers[y.pin].base /\ y.model \in DOMAIN db.models /\ b \in DOMAIN db.backends
  BY <1>2 DEF Sound, MembersLinked
<1>4. CASE y.pin \in unusable
  BY <1>3, <1>4
<1>5. CASE y.pin \notin unusable
  <2> DEFINE w == BackendView(db, b)
             m == ModelView(db, unusable, y.model)
             chosen(n) == {c \in n.backends : \E z \in db.members : z.pool = i /\ z.pin # Null /\ c[1] = <<z.model, z.pin>>}
             q == [name |-> db.pools[i].name, backends |-> UNION {chosen(n) : n \in BuildModels(db, unusable)}]
  <2>1. b[1] = y.model /\ b[2] = y.pin
    OBVIOUS
  <2>2. w[1] = b /\ w[3] = x.base
    BY <1>3 DEF BackendView
  <2>3. m \in BuildModels(db, unusable)
    BY <1>3, BuildModelsView
  <2>4. m.backends = {BackendView(db, c) : c \in {c \in DOMAIN db.backends : c[1] = y.model /\ c[2] \notin unusable}}
    BY DEF ModelView
  <2>5. w \in m.backends
    <3> HIDE DEF m
    <3>1. b \in {c \in DOMAIN db.backends : c[1] = y.model /\ c[2] \notin unusable}
      BY <1>3, <1>5, <2>1
    <3> HIDE DEF b
    <3> QED
      BY <2>4, <3>1
  <2> HIDE DEF w, m
  <2>6. w \in chosen(m)
    BY <1>2, <1>3, <2>2, <2>5
  <2> HIDE DEF chosen
  <2>7. w \in q.backends /\ q.name = g.name
    BY <1>2, <2>3, <2>6
  <2>8. q \in PoolModels(db, BuildModels(db, unusable))
    <3> DEFINE pool(h) == [name |-> db.pools[h].name,
                           backends |-> UNION {{c \in n.backends : \E z \in db.members :
                                                  z.pool = h /\ z.pin # Null /\ c[1] = <<z.model, z.pin>>} :
                                                n \in BuildModels(db, unusable)}]
    <3>1. PoolModels(db, BuildModels(db, unusable)) = {h \in {pool(h) : h \in DOMAIN db.pools} : h.backends # {}}
      BY DEF PoolModels
    <3>2. q = pool(i)
      BY DEF chosen
    <3> HIDE DEF q, pool
    <3> QED
      BY <2>7, <3>1, <3>2
  <2> HIDE DEF q
  <2> QED
    BY <2>2, <2>7, <2>8
<1> QED
  BY <1>4, <1>5

LEMMA CurrentInvariant == CatalogueIInv => PublishedCurrent
<1> SUFFICES ASSUME CatalogueIInv, Settled, "publish" \notin owed
             PROVE  /\ Current(pub)
                    /\ \A v \in list_models(db) : \E m \in pub.models :
                          /\ m.name = v.name /\ m.backends \subseteq v.backends
                          /\ \A b \in v.backends \ m.backends : b[1][2] \in Minting
                    /\ \A g \in list_pools(db) : \A x \in g.members :
                          x.base # Null => \/ \E q \in pub.pools : q.name = g.name /\ \E b \in q.backends : b[3] = x.base
                                          \/ \E p \in Minting : db.providers[p].base = x.base
  BY DEF PublishedCurrent, LastBuildCurrent, ListedAsPublished, Current
<1>1. Current(pub)
  BY SettledRefreshed DEF CatalogueIInv, PublishOrOwe
<1>2. PICK unusable \in SUBSET Minting : pub = Snapshot(BuildModels(db, unusable), BuildTools(db), db)
  BY <1>1 DEF Current
<1>3. pub.models = BuildModels(db, unusable) /\ pub.pools = PoolModels(db, BuildModels(db, unusable))
  BY <1>2 DEF Snapshot
<1>4. Sound(db)
  BY DEF CatalogueIInv
<1> QED
  BY <1>1, <1>3, <1>4, ModelsListed, PoolsListed

\* However many requests, builds, sweeps and imports interleave: once every
\* request is answered and nothing is owed, the snapshot is what the tables say
\* and what the operator is shown is what the proxies run (refresh, PUBLISH).
THEOREM PublishedCurrentHolds == Spec => []PublishedCurrent
BY CatalogueInvariant, CurrentInvariant, PTL

LEMMA VainInvariant == CatalogueIInv => NothingWaitsInVain
<1> SUFFICES ASSUME CatalogueIInv, Settled, "relink" \notin owed
             PROVE  /\ \A v \in list_virtual_models(db) :
                          \A t \in v.default \cup UNION {x.targets : x \in v.rules} :
                             {t.model, t.pool} = {Null} => Named(db.models, t.name) = {}
                    /\ \A g \in list_pools(db) : \A x \in g.members :
                          x.waiting => ~\E b \in DOMAIN db.backends :
                                          db.models[b[1]].name = x.model /\ db.providers[b[2]].name = x.provider
  BY DEF NothingWaitsInVain
<1>1. NothingVain(db) /\ Sound(db)
  BY SettledRefreshed DEF CatalogueIInv, RelinkOrOwe
<1>2. ASSUME NEW o, NEW t \in TargetViews(db, o), t.model = Null PROVE Named(db.models, t.name) = {}
  BY <1>1, <1>2 DEF TargetViews, NothingVain, TargetsLinked
<1>3. ASSUME NEW v \in list_virtual_models(db), NEW t \in v.default \cup UNION {x.targets : x \in v.rules}
      PROVE  \E o : t \in TargetViews(db, o)
  <2>1. PICK f \in DOMAIN db.frontends :
           /\ v.default = TargetViews(db, f)
           /\ v.rules = {[action |-> db.rules[x].act, jump |-> db.rules[x].jump, targets |-> TargetViews(db, x)] :
                           x \in {x \in DOMAIN db.rules : db.rules[x].fm = f}}
    BY DEF list_virtual_models
  <2> QED
    BY <1>3, <2>1
<1>4. \A v \in list_virtual_models(db) :
         \A t \in v.default \cup UNION {x.targets : x \in v.rules} :
            {t.model, t.pool} = {Null} => Named(db.models, t.name) = {}
  BY <1>2, <1>3
<1>5. ASSUME NEW g \in list_pools(db), NEW x \in g.members, x.waiting, NEW b \in DOMAIN db.backends,
             db.models[b[1]].name = x.model, db.providers[b[2]].name = x.provider
      PROVE  FALSE
  <2>1. PICK i \in DOMAIN db.pools :
           g.members = {[model |-> db.models[y.model].name, provider |-> y.pinName,
                         base |-> IF y.pin = Null THEN Null ELSE db.providers[y.pin].base,
                         waiting |-> y.pinName # Null /\ y.pin = Null] : y \in {y \in db.members : y.pool = i}}
    BY DEF list_pools
  <2>2. PICK y \in db.members : /\ x.model = db.models[y.model].name /\ x.provider = y.pinName
                                /\ x.waiting = (y.pinName # Null /\ y.pin = Null)
    BY <2>1
  <2>3. y.pin = Null /\ y.pinName # Null
    BY <1>5, <2>2
  <2>4. y.model = b[1] /\ b = <<b[1], b[2]>> /\ b[2] \in DOMAIN db.providers
    <3>1. b = <<b[1], b[2]>> /\ b[1] \in DOMAIN db.models /\ b[2] \in DOMAIN db.providers
      BY <1>1 DEF Sound, BackendsLinked
    <3>2. y.model \in DOMAIN db.models
      BY <1>1 DEF Sound, MembersLinked
    <3> QED
      BY <1>1, <1>5, <2>2, <3>1, <3>2 DEF Sound, ModelNamesUnique
  <2>5. b[2] \in Named(db.providers, y.pinName)
    BY <1>5, <2>2, <2>4 DEF Named
  <2> QED
    BY <1>1, <2>3, <2>4, <2>5 DEF NothingVain, MembersPinned
<1> QED
  BY <1>4, <1>5

\* However they interleave: no listed target is without its model while one
\* bears its name, and no listed pool member waits for an attachment that is
\* there, once every request is answered and no relink is owed (relink_targets).
THEOREM NothingWaits == Spec => []NothingWaitsInVain
BY CatalogueInvariant, VainInvariant, PTL

LEMMA RemovedStep ==
    ASSUME CatalogueIInv, [Next]_vars, sweep.at = "delete", sweep'.at = "relink",
           NEW p \in DOMAIN db.providers \ DOMAIN db'.providers
    PROVE  p \in absent /\ db.providers[p].kind = "dynamic"
<1>1. sweep_delete
  <2>1. ~UNCHANGED sweep
    OBVIOUS
  <2>2. ASSUME NEW r \in Requests PROVE ~(ProviderRequest(r) \/ ModelRequest(r))
    BY <2>1 DEF ProviderRequest, ModelRequest, register_new, register_renew, register_rename, post_provider_check,
       post_provider, patch_provider_name, patch_provider_kind, patch_provider_base, patch_provider_refused,
       patch_provider_done, delete_provider_check, delete_provider, post_model, patch_model, delete_model,
       put_fallback_model, post_backend_read, post_backend_refused, post_backend, patch_backend, delete_backend,
       sync_prices, Begin, Cont, Kept
  <2>3. ASSUME NEW r \in Requests PROVE ~(RoutingRequest(r) \/ PoolRequest(r) \/ ToolRequest(r) \/ refresh(r))
    BY <2>1 DEF RoutingRequest, PoolRequest, ToolRequest, refresh, post_frontend_model, patch_frontend_model,
       delete_virtual_model, post_rule_check, post_rule, patch_rule_check, patch_rule, delete_rule, resolve_target,
       post_target, delete_target, post_pool_check, post_pool, patch_pool_name, patch_pool_targets,
       delete_pool_check, delete_pool, post_pool_member_read, post_pool_member, delete_pool_member,
       post_tool, patch_tool, delete_tool, post_prompt_class, post_prompt_class_example, delete_prompt_class,
       Begin, Cont, Kept
  <2>4. ~(Tick \/ BuildRead \/ Publish \/ BuildFails \/ LeaseLapses \/ GracePasses \/ import \/ UNCHANGED vars)
    BY <2>1 DEF Tick, BuildRead, Publish, BuildFails, LeaseLapses, GracePasses, import, TimeKept, vars
  <2>5. ~(SweepList \/ sweep_probe \/ sweep_adopt \/ sweep_detach \/ sweep_mark \/ sweep_relink)
    BY DEF SweepList, sweep_probe, sweep_adopt, sweep_detach, sweep_mark, sweep_relink
  <2> QED
    BY <2>2, <2>3, <2>4, <2>5 DEF Next, Sweep
<1>2. db' = WithoutProviders(db, Overdue)
  BY <1>1 DEF sweep_delete, Strand
<1>3. p \in Overdue
  BY <1>2, ProvidersGone DEF CatalogueIInv
<1> QED
  BY <1>3 DEF Overdue, CatalogueIInv, SweepProgress, PastGrace

\* The sweep removes a provider only if that very pass found it absent and its
\* host has not registered since, whatever else runs between the probe and the
\* deletion (sweep, register).
THEOREM RemovedAbsent == Spec => RemovedOnlyAbsent
<1>1. CatalogueIInv /\ [Next]_vars
        => [sweep.at = "delete" /\ sweep'.at = "relink"
              => \A p \in DOMAIN db.providers \ DOMAIN db'.providers :
                    p \in absent /\ db.providers[p].kind = "dynamic"]_vars
  BY RemovedStep
<1> QED
  BY <1>1, CatalogueInvariant, PTL DEF Spec, RemovedOnlyAbsent
=============================================================================
