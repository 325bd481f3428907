---------------------------- MODULE AdminCatalogue ----------------------------
(***************************************************************************)
(* What there is to route to: providers, models, their attachments,        *)
(* frontend models with rules and targets, pools, tool servers and prompt  *)
(* classes, as the admin API (src/control/api.rs), the node agents and the *)
(* provider sweep (src/control/registry_agent.rs) and the import command   *)
(* (src/control/import.rs) change them, and the routing half of the        *)
(* snapshot (src/control/build.rs).                                        *)
(*                                                                         *)
(* A handler runs one SQL statement, or one transaction, at a time; its    *)
(* arguments are chosen where it first uses them, and a refused argument   *)
(* that is only malformed is a request that does nothing.  Every request   *)
(* here is authorised (AdminIdentity).  A name is a tuple, so that         *)
(* "model@provider" is one too.                                            *)
(***************************************************************************)
EXTENDS Naturals, FiniteSets

CONSTANTS
    Providers, Models, Frontends, Rules, Targets, Pools, Tools, Classes, Roles,   \* ids
    Names,          \* names an operator or an engine gives a model, frontend, pool or tool
    ProviderNames,
    Bases, Auths,   \* an address, and how it is authenticated
    ModelList,      \* model_list entries an operator imports, one to a file
    Requests,
    MaxWork,        \* bound: requests and imports, counted twice, and events (sweeps, lapses, grace windows, ticks, failed builds)
    Initial,        \* the catalogue at the start
    Null

VARIABLES
    db,        \* the tables
    minted,    \* ids handed out
    req,       \* each request: the next statement, and what it has read
    sweep,     \* the provider sweep
    absent,    \* providers this pass found absent, not heard from since
    lock, build, pub,    \* PUBLISH; what its holder has read; the snapshot
    owed,                \* what no request in progress will do for a change: "publish", "relink"
    served, events

vars == <<db, minted, req, sweep, absent, lock, build, pub, owed, served, events>>

Idle      == [at |-> "idle", arg |-> Null]
NoSweep   == [at |-> "idle", todo |-> <<>>, cur |-> Null, ok |-> FALSE, serves |-> {}, left |-> {}]
NoBuild   == [models |-> Null, tools |-> {}, clean |-> FALSE]
Ticker    == "rebuild_snapshot"

-----------------------------------------------------------------------------
(***************************************************************************)
(* The tables.                                                             *)
(***************************************************************************)

Drop(f, gone) == [x \in DOMAIN f \ gone |-> f[x]]

Placed(f, x, v) == [y \in DOMAIN f \cup {x} |-> IF y = x THEN v ELSE f[y]]

Named(table, n) == {x \in DOMAIN table : table[x].name = n}

\* COALESCE(upstream_model, name): what an attachment asks its provider for.
UpstreamOf(d, b) == IF d.backends[b].upstream # Null THEN d.backends[b].upstream ELSE d.models[b[1]].name

Registered(d, p) == {UpstreamOf(d, b) : b \in {b \in DOMAIN d.backends : b[2] = p}}

\* Cascades: an attachment goes with its model or provider, and a pool member
\* pinned to it waits by its provider's name.
WithoutBackends(d, gone) ==
    [d EXCEPT !.backends = Drop(@, gone),
              !.members = {IF <<x.model, x.pin>> \in gone THEN [x EXCEPT !.pin = Null] ELSE x : x \in @}]

WithoutProviders(d, ps) ==
    [WithoutBackends(d, {b \in DOMAIN d.backends : b[2] \in ps}) EXCEPT !.providers = Drop(@, ps)]

WithoutModel(d, m) ==
    [WithoutBackends(d, {b \in DOMAIN d.backends : b[1] = m}) EXCEPT
        !.models = Drop(@, {m}), !.members = {x \in @ : x.model # m},
        !.targets = [t \in DOMAIN @ |-> IF @[t].model = m THEN [@[t] EXCEPT !.model = Null] ELSE @[t]]]

WithoutOwners(d, owners) ==
    [d EXCEPT !.rules = Drop(@, owners), !.targets = Drop(@, {t \in DOMAIN @ : @[t].owner \in owners})]

WithoutFrontend(d, f) ==
    [WithoutOwners(d, {f} \cup {r \in DOMAIN d.rules : d.rules[r].fm = f}) EXCEPT
        !.frontends = Drop(@, {f}),
        !.rules = [r \in DOMAIN @ |-> IF @[r].jump = f THEN [@[r] EXCEPT !.jump = Null] ELSE @[r]]]

WithoutPool(d, g) ==
    [d EXCEPT !.pools = Drop(@, {g}), !.members = {x \in @ : x.pool # g},
              !.targets = [t \in DOMAIN @ |-> IF @[t].pool = g THEN [@[t] EXCEPT !.pool = Null] ELSE @[t]]]

\* The permission row is shared by the roles that hold it; when the new name
\* has one already, the old row stays.
move_grant(d, kind, old, new) ==
    IF <<kind, new>> \in d.perms THEN d
    ELSE [d EXCEPT !.perms = {IF g = <<kind, old>> THEN <<kind, new>> ELSE g : g \in @},
                   !.holds = {IF h[2] = <<kind, old>> THEN <<h[1], <<kind, new>>>> ELSE h : h \in @}]

\* Mutant of RelinkTargets: the rules' targets only, not the defaults.
RelinkRuleTargets(d) ==
    [d EXCEPT !.targets = [t \in DOMAIN @ |->
        IF @[t].model = Null /\ Named(d.models, @[t].name) # {} /\ @[t].owner \in DOMAIN d.rules
        THEN [@[t] EXCEPT !.model = CHOOSE m \in Named(d.models, d.targets[t].name) : TRUE] ELSE @[t]]]

\* A target without a model takes the one that now bears its name.
RelinkTargets(d) ==
    [d EXCEPT !.targets = [t \in DOMAIN @ |->
        IF @[t].model = Null /\ Named(d.models, @[t].name) # {}
        THEN [@[t] EXCEPT !.model = CHOOSE m \in Named(d.models, d.targets[t].name) : TRUE] ELSE @[t]]]

\* A pinned member keeps its provider's current name, unless a sibling has it.
RelinkNames(d) ==
    [d EXCEPT !.members = {
        IF x.pin # Null /\ ~\E o \in @ : o.pool = x.pool /\ o.model = x.model /\ o.pinName = d.providers[x.pin].name
        THEN [x EXCEPT !.pinName = d.providers[x.pin].name] ELSE x : x \in @}]

\* A waiting member takes the attachment that came back under its name.
RelinkMembers(d) ==
    [d EXCEPT !.members = {
        LET back == {p \in Named(d.providers, x.pinName) : <<x.model, p>> \in DOMAIN d.backends}
        IN IF x.pin = Null /\ back # {} THEN [x EXCEPT !.pin = CHOOSE p \in back : TRUE] ELSE x : x \in @}]

relink_targets(d) == RelinkMembers(RelinkNames(RelinkTargets(d)))

-----------------------------------------------------------------------------
(***************************************************************************)
(* The shape of a request.                                                 *)
(***************************************************************************)

Go(r, at, arg) == req' = [req EXCEPT ![r] = [at |-> at, arg |-> arg]]

CanServe  == 2 * served + events + 2 <= MaxWork
CanHappen == 2 * served + events + 1 <= MaxWork

PublishingKept == UNCHANGED <<lock, build, pub, owed>>
Kept  == UNCHANGED <<sweep, absent, events>> /\ PublishingKept
Begin(r) == req[r].at = "idle" /\ CanServe /\ served' = served + 1 /\ Kept
Cont(r, at) == req[r].at = at /\ UNCHANGED served /\ Kept

\* The statement commits and the handler goes on to refresh.
Write(r, rows) == db' = rows /\ UNCHANGED minted /\ Go(r, "refresh", Null)
Mint(r, id, rows) == db' = rows /\ minted' = minted \cup {id} /\ Go(r, "refresh", Null)
Refuse(r) == UNCHANGED <<db, minted>> /\ Go(r, "idle", Null)
Read(r, at, arg) == UNCHANGED <<db, minted>> /\ Go(r, at, arg)

\* A change committed by a handler that then refuses, without a refresh.
Strand(rows) == /\ db' = rows /\ owed' = IF rows = db THEN owed ELSE {"publish", "relink"}
                /\ build' = [build EXCEPT !.clean = @ /\ rows = db]

Fresh(ids) == ids \ minted

\* The row an upsert finds, or a new one.
FoundOr(found, ids) == IF found # {} THEN found ELSE Fresh(ids)

-----------------------------------------------------------------------------
(***************************************************************************)
(* Providers.                                                              *)
(***************************************************************************)

NewProvider(n, kind, base, auth, cred) ==
    [name |-> n, kind |-> kind, base |-> base, auth |-> auth, cred |-> cred,
     degraded |-> "no", lapsed |-> FALSE]

AtBase(base) == {p \in DOMAIN db.providers : db.providers[p].base = base}

\* unique_provider_name, and the agent's: the first name nobody has.
FreeNames == {n \in ProviderNames : Named(db.providers, n) = {}}

\* An agent's first registration of an address makes a dynamic provider.
register_new(r) ==
    /\ Begin(r)
    /\ \E base \in Bases, n \in FreeNames, p \in Fresh(Providers) :
          /\ AtBase(base) = {}
          /\ Mint(r, p, [db EXCEPT !.providers = Placed(@, p, NewProvider(n, "dynamic", base, "default", "static"))])

\* A later one renews the lease and clears the degradation; only a degraded
\* provider, or a renamed one, is worth a refresh.
register_renew(r) ==
    /\ req[r].at = "idle" /\ CanServe /\ served' = served + 1
    /\ \E base \in Bases : \E p \in AtBase(base) :
          IF db.providers[p].kind = "dynamic"
          THEN /\ db' = [db EXCEPT !.providers[p] = [@ EXCEPT !.lapsed = FALSE, !.degraded = "no"]]
               /\ absent' = absent \ {p}
               /\ Go(r, "register", [p |-> p, changed |-> db.providers[p].degraded # "no"])
          ELSE /\ Go(r, IF db.providers[p].degraded # "no" THEN "refresh" ELSE "idle", Null)
               /\ UNCHANGED <<db, absent>>
    /\ UNCHANGED <<minted, sweep, events>> /\ PublishingKept

\* The agent's name for it, unless another provider holds that name.
register_rename(r) ==
    /\ Cont(r, "register")
    /\ LET p == req[r].arg.p IN
       \E n \in ProviderNames :
          IF p \in DOMAIN db.providers /\ n \in FreeNames
          THEN Write(r, [db EXCEPT !.providers[p].name = n])
          ELSE Read(r, IF req[r].arg.changed THEN "refresh" ELSE "idle", Null)

\* The address must be new with that authentication, the name free, and a
\* static credential must work; the insert has the name's uniqueness to fear.
post_provider_check(r) ==
    /\ Begin(r)
    /\ \E base \in Bases, auth \in Auths, n \in ProviderNames, cred \in {"static", "minted"}, verified \in BOOLEAN :
          IF \/ \E p \in AtBase(base) : db.providers[p].auth = auth
             \/ n \notin FreeNames
             \/ cred = "static" /\ ~verified
          THEN Refuse(r)
          ELSE Read(r, "post_provider", NewProvider(n, "static", base, auth, cred))

post_provider(r) ==
    /\ Cont(r, "post_provider")
    /\ IF req[r].arg.name \notin FreeNames \/ Fresh(Providers) = {} THEN Refuse(r)
       ELSE \E p \in Fresh(Providers) : Mint(r, p, [db EXCEPT !.providers = Placed(@, p, req[r].arg)])

\* A PATCH is one UPDATE for each field it names, and a refusal half-way keeps
\* what came before: the name first, then the kind, then the address and the
\* credential it takes, stored before they are verified.
patch_provider_name(r) ==
    /\ Begin(r)
    /\ \E p \in DOMAIN db.providers, n \in ProviderNames :
          IF n # db.providers[p].name /\ n \notin FreeNames THEN Refuse(r)
          ELSE /\ db' = [db EXCEPT !.providers[p].name = n]
               /\ UNCHANGED minted
               /\ Go(r, "patch_provider", p)

\* Leaving dynamic clears the lease and the degradation with it.
OfKind(row, kind) ==
    IF kind = "dynamic" THEN [row EXCEPT !.kind = kind]
    ELSE [row EXCEPT !.kind = kind, !.lapsed = FALSE, !.degraded = "no"]

patch_provider_kind(r) ==
    /\ Cont(r, "patch_provider")
    /\ LET p == req[r].arg IN
       \E kind \in {"static", "cloud", "dynamic", Null} :
          /\ db' = IF p \in DOMAIN db.providers /\ kind # Null
                   THEN [db EXCEPT !.providers[p] = OfKind(@, kind)] ELSE db
          /\ UNCHANGED minted
          /\ Go(r, "patch_provider_base", req[r].arg)

patch_provider_base(r) ==
    /\ Cont(r, "patch_provider_base")
    /\ LET p == req[r].arg IN
       \E base \in Bases, auth \in Auths, cred \in {"static", "minted"} :
          /\ db' = IF p \in DOMAIN db.providers
                   THEN [db EXCEPT !.providers[p] = [@ EXCEPT !.base = base, !.auth = auth, !.cred = cred]] ELSE db
          /\ UNCHANGED minted
          /\ Go(r, "patch_provider_verify", req[r].arg)

\* A field the handler refuses, an address that does not answer, a provider
\* that is gone: an error, and no refresh.
patch_provider_refused(r) ==
    /\ req[r].at \in {"patch_provider", "patch_provider_base", "patch_provider_verify"}
    /\ owed' = {"publish", "relink"}
    /\ build' = [build EXCEPT !.clean = FALSE]
    /\ Go(r, "idle", Null)
    /\ UNCHANGED <<db, minted, sweep, absent, lock, pub, served, events>>

patch_provider_done(r) ==
    /\ Cont(r, "patch_provider_verify")
    /\ Read(r, "refresh", Null)

\* delete_provider asks for the attached models first, and deletes second.
delete_provider_check(r) ==
    /\ Begin(r)
    /\ \E p \in DOMAIN db.providers :
          IF \E b \in DOMAIN db.backends : b[2] = p THEN Refuse(r) ELSE Read(r, "delete_provider", p)

delete_provider(r) ==
    /\ Cont(r, "delete_provider")
    /\ IF req[r].arg \in DOMAIN db.providers THEN Write(r, WithoutProviders(db, {req[r].arg})) ELSE Refuse(r)

-----------------------------------------------------------------------------
(***************************************************************************)
(* Models and their attachments.                                           *)
(***************************************************************************)

post_model(r) ==
    /\ Begin(r)
    /\ \E m \in Fresh(Models), n \in Names :
          IF Named(db.models, n) # {} THEN Refuse(r)
          ELSE Mint(r, m, [db EXCEPT !.models = Placed(@, m, [name |-> n, fallback |-> FALSE])])

\* rename_provider_model, one transaction: the targets that hold the model or
\* its old name, then the grants.
rename_provider_model(d, m, n) ==
    LET old == d.models[m].name IN
    move_grant([d EXCEPT !.models[m].name = n,
                         !.targets = [t \in DOMAIN @ |-> IF @[t].model = m \/ @[t].name = old
                                                         THEN [@[t] EXCEPT !.name = n] ELSE @[t]]],
               "model", old, n)

\* The rename commits before the other fields are looked at.
patch_model(r) ==
    /\ req[r].at = "idle" /\ CanServe /\ served' = served + 1
    /\ \E m \in DOMAIN db.models, n \in Names, badField \in BOOLEAN :
          IF Named(db.models, n) # {} /\ n # db.models[m].name
          THEN Refuse(r) /\ UNCHANGED <<build, owed>>
          ELSE LET rows == IF n = db.models[m].name THEN db ELSE rename_provider_model(db, m, n) IN
               IF badField THEN Go(r, "idle", Null) /\ Strand(rows) /\ UNCHANGED minted
               ELSE Write(r, rows) /\ UNCHANGED <<build, owed>>
    /\ UNCHANGED <<sweep, absent, events, lock, pub>>

delete_model(r) ==
    /\ Begin(r)
    /\ \E m \in DOMAIN db.models : Write(r, WithoutModel(db, m))

\* One transaction; the unique index would refuse a second fallback.
put_fallback_model(r) ==
    /\ Begin(r)
    /\ \E m \in DOMAIN db.models \cup {Null} :
          Write(r, [db EXCEPT !.models = [x \in DOMAIN @ |-> [@[x] EXCEPT !.fallback = x = m]]])

NewBackend(n) == [upstream |-> n, priced |-> FALSE, gate |-> "auto"]

\* post_backend reads the model and the provider, by id or by address;
\* attach_by_address makes the provider when there is none.
post_backend_read(r) ==
    /\ Begin(r)
    /\ \E m \in DOMAIN db.models, base \in Bases, auth \in Auths :
          LET there == {p \in AtBase(base) : db.providers[p].auth = auth}
              arg(p, made) == [b |-> <<m, p>>, name |-> db.models[m].name, made |-> made] IN
          IF there # {} THEN \E p \in there : Read(r, "post_backend", arg(p, FALSE))
          ELSE \E p \in Fresh(Providers), n \in FreeNames :
                  /\ db' = [db EXCEPT !.providers = Placed(@, p, NewProvider(n, "static", base, auth, "static"))]
                  /\ minted' = minted \cup {p}
                  /\ Go(r, "post_backend", arg(p, TRUE))

\* A negative price is only refused now, after attach_by_address.
post_backend_refused(r) ==
    /\ req[r].at = "post_backend"
    /\ owed' = IF req[r].arg.made THEN {"publish", "relink"} ELSE owed
    /\ build' = [build EXCEPT !.clean = @ /\ ~req[r].arg.made]
    /\ Go(r, "idle", Null)
    /\ UNCHANGED <<db, minted, sweep, absent, lock, pub, served, events>>

post_backend(r) ==
    /\ Cont(r, "post_backend")
    /\ LET b == req[r].arg.b IN
       /\ b \notin DOMAIN db.backends /\ b[1] \in DOMAIN db.models /\ b[2] \in DOMAIN db.providers
       /\ Write(r, [db EXCEPT !.backends = Placed(@, b, NewBackend(req[r].arg.name))])

\* One UPDATE: a NULL upstream_model means the model's own name again, and the
\* admission mode follows the limit when it is not named itself.
patch_backend(r) ==
    /\ Begin(r)
    /\ \E b \in DOMAIN db.backends, up \in Names \cup {Null}, mode \in {"auto", "explicit", "off"}, limit \in BOOLEAN :
          IF mode = "explicit" /\ ~limit THEN Refuse(r)
          ELSE Write(r, [db EXCEPT !.backends[b] = [@ EXCEPT !.upstream = up, !.gate = mode]])

delete_backend(r) ==
    /\ Begin(r)
    /\ \E b \in DOMAIN db.backends : Write(r, WithoutBackends(db, {b}))

\* pricing::sync reads every attachment, then updates those without a price,
\* or all of them, that the catalogues know.
sync_prices(r) ==
    /\ Begin(r)
    /\ \E known \in SUBSET Names, overwrite \in BOOLEAN, dry \in BOOLEAN :
          LET hit == {b \in DOMAIN db.backends : UpstreamOf(db, b) \in known /\ (overwrite \/ ~db.backends[b].priced)}
          IN IF dry \/ hit = {} THEN Refuse(r)
             ELSE Write(r, [db EXCEPT !.backends = [b \in DOMAIN @ |->
                                IF b \in hit THEN [@[b] EXCEPT !.priced = TRUE] ELSE @[b]]])

\* The model an entry names, if there is none yet, and its attachment: one that
\* is there already only changes its upstream name.
import_model(d, b, e) ==
    [d EXCEPT !.models   = IF b[1] \in DOMAIN @ THEN @ ELSE Placed(@, b[1], [name |-> e.name, fallback |-> FALSE]),
              !.backends = Placed(@, b, IF b \in DOMAIN @ THEN [@[b] EXCEPT !.upstream = e.upstream]
                                 ELSE NewBackend(e.upstream))]

\* import, the model_list of a file with one entry: a process of its own, one
\* transaction, and no refresh.  The provider is found by its address alone, the
\* model by its name.
import ==
    /\ CanServe /\ served' = served + 1
    /\ \E e \in ModelList :
       \E p \in FoundOr(AtBase(e.base), Providers), m \in FoundOr(Named(db.models, e.name), Models), free \in FreeNames \cup {Null} :
          LET known == p \in DOMAIN db.providers
              provided == [db EXCEPT !.providers =
                             Placed(@, p, IF known THEN [@[p] EXCEPT !.auth = e.auth]
                                   ELSE NewProvider(free, "static", e.base, e.auth, "static"))] IN
          /\ known = (free = Null)
          /\ Strand(import_model(provided, <<m, p>>, e))
          /\ minted' = minted \cup {p, m}
    /\ UNCHANGED <<req, sweep, absent, lock, pub, events>>

-----------------------------------------------------------------------------
(***************************************************************************)
(* Frontend models, rules and targets.                                     *)
(***************************************************************************)

post_frontend_model(r) ==
    /\ Begin(r)
    /\ \E f \in Fresh(Frontends), n \in Names :
          IF Named(db.frontends, n) # {} THEN Refuse(r)
          ELSE Mint(r, f, [db EXCEPT !.frontends = Placed(@, f, [name |-> n])])

\* rename_frontend_model: the name and its grants, one transaction.
patch_frontend_model(r) ==
    /\ Begin(r)
    /\ \E f \in DOMAIN db.frontends, n \in Names :
          IF Named(db.frontends, n) # {} /\ n # db.frontends[f].name THEN Refuse(r)
          ELSE Write(r, IF n = db.frontends[f].name THEN db
                        ELSE move_grant([db EXCEPT !.frontends[f].name = n], "model", db.frontends[f].name, n))

delete_virtual_model(r) ==
    /\ Begin(r)
    /\ \E f \in DOMAIN db.frontends : Write(r, WithoutFrontend(db, f))

Jumps(d) == {<<d.rules[x].fm, d.rules[x].jump>> : x \in {x \in DOMAIN d.rules : d.rules[x].jump # Null}}

\* The frontend models a walk along the jumps comes to: each step of the
\* worklist takes one unseen id further, and there are that many ids.
ReachFrom(d, f) ==
    LET reach[n \in 0 .. Cardinality(Frontends)] ==
            IF n = 0 THEN {f} ELSE reach[n - 1] \cup {j[2] : j \in {j \in Jumps(d) : j[1] \in reach[n - 1]}}
    IN reach[Cardinality(Frontends)]

\* validated_action: a jump that leads back to its owner is refused.
validated_action(owner, act, to) == act = "jump" => to # Null /\ owner \notin ReachFrom(db, to)

\* The loop is looked for before the rule is written.
post_rule_check(r) ==
    /\ Begin(r)
    /\ \E f \in DOMAIN db.frontends, act \in {"route", "deny", "jump"}, to \in DOMAIN db.frontends \cup {Null} :
          IF (act # "jump" /\ to # Null) \/ ~validated_action(f, act, to) THEN Refuse(r)
          ELSE Read(r, "post_rule", [fm |-> f, act |-> act, jump |-> to])

\* Foreign keys want both frontend models to be there still.
post_rule(r) ==
    /\ Cont(r, "post_rule")
    /\ LET rule == req[r].arg IN
       \E x \in Fresh(Rules) :
          IF {rule.fm, rule.jump} \ {Null} \subseteq DOMAIN db.frontends
          THEN Mint(r, x, [db EXCEPT !.rules = Placed(@, x, rule)])
          ELSE Refuse(r)

\* Without an action in the body the rule keeps its action and destination.
patch_rule_check(r) ==
    /\ Begin(r)
    /\ \E x \in DOMAIN db.rules, act \in {"route", "deny", "jump"}, to \in DOMAIN db.frontends \cup {Null} :
          IF (act # "jump" /\ to # Null) \/ ~validated_action(db.rules[x].fm, act, to) THEN Refuse(r)
          ELSE Read(r, "patch_rule", [x |-> x, act |-> act, jump |-> to])

patch_rule(r) ==
    /\ Cont(r, "patch_rule")
    /\ LET a == req[r].arg IN
       IF a.x \in DOMAIN db.rules /\ {a.jump} \ {Null} \subseteq DOMAIN db.frontends
       THEN Write(r, [db EXCEPT !.rules[a.x] = [@ EXCEPT !.act = a.act, !.jump = a.jump]])
       ELSE Refuse(r)

delete_rule(r) ==
    /\ Begin(r)
    /\ \E x \in DOMAIN db.rules : Write(r, WithoutOwners(db, {x}))

\* resolve_target reads the name the target will fall back on.
resolve_target(r) ==
    /\ Begin(r)
    /\ \E o \in DOMAIN db.rules \cup DOMAIN db.frontends :
          \/ \E m \in DOMAIN db.models :
                Read(r, "target", [owner |-> o, model |-> m, pool |-> Null, name |-> db.models[m].name])
          \/ \E g \in DOMAIN db.pools :
                Read(r, "target", [owner |-> o, model |-> Null, pool |-> g, name |-> db.pools[g].name])

\* post_rule_target, post_default_target.
post_target(r) ==
    /\ Cont(r, "target")
    /\ LET a == req[r].arg IN
       \E t \in Fresh(Targets) :
          IF /\ a.owner \in DOMAIN db.rules \cup DOMAIN db.frontends
             /\ {a.model} \ {Null} \subseteq DOMAIN db.models /\ {a.pool} \ {Null} \subseteq DOMAIN db.pools
          THEN Mint(r, t, [db EXCEPT !.targets = Placed(@, t, a)])
          ELSE Refuse(r)

\* delete_rule_target, delete_default_target.
delete_target(r) ==
    /\ Begin(r)
    /\ \E t \in DOMAIN db.targets : Write(r, [db EXCEPT !.targets = Drop(@, {t})])

-----------------------------------------------------------------------------
(***************************************************************************)
(* Pools, tool servers, prompt classes.                                    *)
(***************************************************************************)

post_pool_check(r) ==
    /\ Begin(r)
    /\ \E n \in Names :
          IF Named(db.models, n) \cup Named(db.frontends, n) # {} THEN Refuse(r) ELSE Read(r, "post_pool", n)

post_pool(r) ==
    /\ Cont(r, "post_pool")
    /\ \E g \in Fresh(Pools) :
          IF Named(db.pools, req[r].arg) # {} THEN Refuse(r)
          ELSE Mint(r, g, [db EXCEPT !.pools = Placed(@, g, [name |-> req[r].arg])])

\* The new name is checked against pools alone; the targets follow in
\* statements of their own.
patch_pool_name(r) ==
    /\ Begin(r)
    /\ \E g \in DOMAIN db.pools, n \in Names :
          IF Named(db.pools, n) \ {g} # {} THEN Refuse(r)
          ELSE db' = [db EXCEPT !.pools[g].name = n] /\ UNCHANGED minted /\ Go(r, "patch_pool", g)

patch_pool_targets(r) ==
    /\ Cont(r, "patch_pool")
    /\ Write(r, [db EXCEPT !.targets = [t \in DOMAIN @ |->
           IF @[t].pool = req[r].arg THEN [@[t] EXCEPT !.name = db.pools[req[r].arg].name] ELSE @[t]]])

delete_pool_check(r) ==
    /\ Begin(r)
    /\ \E g \in DOMAIN db.pools :
          IF \E t \in DOMAIN db.targets : db.targets[t].pool = g THEN Refuse(r) ELSE Read(r, "delete_pool", g)

delete_pool(r) ==
    /\ Cont(r, "delete_pool")
    /\ IF req[r].arg \in DOMAIN db.pools THEN Write(r, WithoutPool(db, req[r].arg)) ELSE Refuse(r)

\* A member is a model, or one attachment of it, remembered by its provider's name.
post_pool_member_read(r) ==
    /\ Begin(r)
    /\ \E g \in DOMAIN db.pools, m \in DOMAIN db.models :
          \/ Read(r, "member", [pool |-> g, model |-> m, pin |-> Null, pinName |-> Null])
          \/ \E b \in {b \in DOMAIN db.backends : b[1] = m} :
                Read(r, "member", [pool |-> g, model |-> m, pin |-> b[2], pinName |-> db.providers[b[2]].name])

post_pool_member(r) ==
    /\ Cont(r, "member")
    /\ LET a == req[r].arg IN
       IF /\ a.pool \in DOMAIN db.pools /\ a.model \in DOMAIN db.models
          /\ a.pin # Null => <<a.model, a.pin>> \in DOMAIN db.backends
          /\ ~\E x \in db.members : x.pool = a.pool /\ x.model = a.model /\ x.pinName = a.pinName
       THEN Write(r, [db EXCEPT !.members = @ \cup {a}])
       ELSE Refuse(r)

delete_pool_member(r) ==
    /\ Begin(r)
    /\ \E x \in db.members : Write(r, [db EXCEPT !.members = @ \ {x}])

\* MCP servers and A2A agents: a name unique in its kind, granted as <kind>/<name>.
post_tool(r) ==
    /\ Begin(r)
    /\ \E s \in Fresh(Tools), kind \in {"mcp", "agent"}, n \in Names :
          IF \E o \in Named(db.tools, n) : db.tools[o].kind = kind THEN Refuse(r)
          ELSE Mint(r, s, [db EXCEPT !.tools = Placed(@, s, [kind |-> kind, name |-> n, enabled |-> TRUE])])

\* rename_named_row commits, and then a bad URL is refused without a refresh.
patch_tool(r) ==
    /\ req[r].at = "idle" /\ CanServe /\ served' = served + 1
    /\ \E s \in DOMAIN db.tools, n \in Names, on \in BOOLEAN, badUrl \in BOOLEAN :
          LET old   == db.tools[s].name
              named == IF n = old THEN db ELSE move_grant([db EXCEPT !.tools[s].name = n], db.tools[s].kind, old, n) IN
          IF \E o \in Named(db.tools, n) \ {s} : db.tools[o].kind = db.tools[s].kind
          THEN Refuse(r) /\ UNCHANGED <<build, owed>>
          ELSE IF badUrl THEN Go(r, "idle", Null) /\ Strand(named) /\ UNCHANGED minted
               ELSE Write(r, [named EXCEPT !.tools[s].enabled = on]) /\ UNCHANGED <<build, owed>>
    /\ UNCHANGED <<sweep, absent, events, lock, pub>>

delete_tool(r) ==
    /\ Begin(r)
    /\ \E s \in DOMAIN db.tools : Write(r, [db EXCEPT !.tools = Drop(@, {s})])

\* A class can match once it has an example to take a centroid of.
post_prompt_class(r) ==
    /\ Begin(r)
    /\ \E c \in Fresh(Classes), examples \in BOOLEAN : Mint(r, c, [db EXCEPT !.classes = Placed(@, c, examples)])

post_prompt_class_example(r) ==
    /\ Begin(r)
    /\ \E c \in DOMAIN db.classes : Write(r, [db EXCEPT !.classes[c] = TRUE])

delete_prompt_class(r) ==
    /\ Begin(r)
    /\ \E c \in DOMAIN db.classes : Write(r, [db EXCEPT !.classes = Drop(@, {c})])

-----------------------------------------------------------------------------
(***************************************************************************)
(* Publishing.  Reading takes many statements: the models and their        *)
(* attachments first, the routing after.                                   *)
(***************************************************************************)

\* A backend whose credential cannot be decrypted or minted is left out.
BuildModels(d, unusable) ==
    {[name |-> d.models[m].name, fallback |-> d.models[m].fallback,
      backends |-> {<<b, UpstreamOf(d, b), d.providers[b[2]].base, d.backends[b].priced, d.backends[b].gate>> :
                      b \in {b \in DOMAIN d.backends : b[1] = m /\ b[2] \notin unusable}}] : m \in DOMAIN d.models}

BuildTools(d) == {<<d.tools[s].kind, d.tools[s].name>> : s \in {s \in DOMAIN d.tools : d.tools[s].enabled}}

\* A target's published name: its pool's, its model's, or the one it remembers.
TargetName(d, t) ==
    CASE d.targets[t].pool # Null  -> d.pools[d.targets[t].pool].name
      [] d.targets[t].pool = Null /\ d.targets[t].model # Null -> d.models[d.targets[t].model].name
      [] OTHER -> d.targets[t].name

\* A pool that names attachments is published as a model made of them.
BackendScoped(d, g) == \E x \in d.members : x.pool = g /\ x.pinName # Null

TargetsOf(d, owner) ==
    {[name |-> TargetName(d, t),
      members |-> IF d.targets[t].pool = Null \/ BackendScoped(d, d.targets[t].pool) THEN {}
                  ELSE {d.models[x.model].name : x \in {x \in d.members : x.pool = d.targets[t].pool}}] :
        t \in {t \in DOMAIN d.targets : d.targets[t].owner = owner}}

\* A jump whose destination is gone drops its rule.
build_virtual_models(d) ==
    {[name |-> d.frontends[f].name, default |-> TargetsOf(d, f),
      rules |-> {<<d.rules[x].act, IF d.rules[x].jump = Null THEN Null ELSE d.frontends[d.rules[x].jump].name, TargetsOf(d, x)>> :
                   x \in {x \in DOMAIN d.rules : d.rules[x].fm = f /\ (d.rules[x].act = "jump" => d.rules[x].jump # Null)}}] :
        f \in DOMAIN d.frontends}

\* A pool none of whose attachments is there, or was published, is left out.
PoolModels(d, models) ==
    {g \in {[name |-> d.pools[g].name,
             backends |-> UNION {{b \in m.backends : \E x \in d.members :
                                    x.pool = g /\ x.pin # Null /\ b[1] = <<x.model, x.pin>>} : m \in models}] :
              g \in DOMAIN d.pools} : g.backends # {}}

build_prompt_classes(d) == {<<c, d.classes[c]>> : c \in DOMAIN d.classes}

Snapshot(models, tools, d) ==
    [models |-> models, tools |-> tools, frontends |-> build_virtual_models(d),
     pools |-> PoolModels(d, models), classes |-> build_prompt_classes(d)]

Minting == {p \in DOMAIN db.providers : db.providers[p].cred = "minted"}

\* Mutant of refresh: a request that finds a build running leaves it to that one.
refresh_coalesced(r) ==
    /\ req[r].at = "refresh"
    /\ IF lock # Null THEN Go(r, "idle", Null) /\ UNCHANGED <<lock, db, owed>>
       ELSE lock' = r /\ Go(r, "build", Null) /\ db' = relink_targets(db) /\ owed' = owed \ {"relink"}
    /\ UNCHANGED <<minted, sweep, absent, build, pub, served, events>>

\* refresh takes PUBLISH and relinks, outside any transaction of its own.
refresh(r) ==
    /\ req[r].at = "refresh" /\ lock = Null
    /\ lock' = r /\ Go(r, "build", Null)
    /\ db' = relink_targets(db) /\ owed' = owed \ {"relink"}
    /\ UNCHANGED <<minted, sweep, absent, build, pub, served, events>>

Tick ==
    /\ lock = Null /\ CanHappen /\ events' = events + 1
    /\ lock' = Ticker
    /\ UNCHANGED <<db, minted, req, sweep, absent, build, pub, owed, served>>

BuildRead ==
    /\ lock # Null /\ build.models = Null
    /\ \E unusable \in SUBSET Minting :
          build' = [models |-> BuildModels(db, unusable), tools |-> BuildTools(db), clean |-> TRUE]
    /\ UNCHANGED <<db, minted, req, sweep, absent, lock, pub, owed, served, events>>

Released == /\ lock' = Null /\ build' = NoBuild
            /\ req' = IF lock = Ticker THEN req ELSE [req EXCEPT ![lock] = Idle]

Publish ==
    /\ lock # Null /\ build.models # Null
    /\ pub' = Snapshot(build.models, build.tools, db)
    /\ owed' = IF build.clean THEN owed \ {"publish"} ELSE owed
    /\ Released
    /\ UNCHANGED <<db, minted, sweep, absent, served, events>>

\* A build that fails is logged and counted; the old snapshot stays.
BuildFails ==
    /\ lock # Null /\ CanHappen /\ events' = events + 1
    /\ owed' = owed \cup {"publish"}
    /\ Released
    /\ UNCHANGED <<db, minted, sweep, absent, pub, served>>

-----------------------------------------------------------------------------
(***************************************************************************)
(* The provider sweep: probe each provider, learn what a dynamic one       *)
(* serves, mark it, and at the end remove the dynamic ones degraded for    *)
(* longer than the grace window.  An advisory lock makes it one at a time. *)
(***************************************************************************)

\* What the sweep changes is published by the next tick, not by the sweep.
SweepKept == UNCHANGED <<minted, req, lock, pub, served>>

SweepList ==
    /\ sweep.at = "idle" /\ CanHappen /\ events' = events + 1
    /\ sweep' = [NoSweep EXCEPT !.at = "probe", !.todo = db.providers]
    /\ absent' = {}
    /\ UNCHANGED <<db, build, owed>> /\ SweepKept

missing_from(registered, serves) == registered \ serves

probe(reached, registered, serves) ==
    IF ~reached THEN "Unreachable" ELSE IF missing_from(registered, serves) = {} THEN "Healthy" ELSE "Mismatch"

\* A lapsed lease is an absence without a call.  A dynamic provider that serves
\* something else is re-learned, when its list can be read; another is degraded.
sweep_probe ==
    /\ sweep.at = "probe"
    /\ \E p \in DOMAIN sweep.todo, reached \in BOOLEAN, listed \in BOOLEAN, serves \in SUBSET Names :
          LET row   == sweep.todo[p]
              found == probe(reached /\ ~row.lapsed, Registered(db, p), serves)
              ok    == found = "Healthy" \/ (found = "Mismatch" /\ row.kind = "dynamic")
              learn == ok /\ row.kind = "dynamic" /\ listed IN
          /\ sweep' = [sweep EXCEPT !.at = IF learn THEN "learn" ELSE "mark", !.cur = p, !.ok = ok,
                                    !.serves = IF learn THEN serves ELSE {},
                                    !.left = IF learn THEN serves \ Registered(db, p) ELSE {}]
          /\ absent' = IF ok THEN absent ELSE absent \cup {p}
    /\ UNCHANGED <<db, build, owed, events>> /\ SweepKept

AllDynamic(m) == \A b \in DOMAIN db.backends : b[1] = m => db.providers[b[2]].kind = "dynamic"

\* reconcile_models, one served name: a model that only dynamic providers serve
\* is joined; a name another kind of provider serves is qualified; a qualified
\* name that is taken too is skipped.
Adopted(p, u) ==
    LET own  == Named(db.models, u)
        name == IF own = {} THEN u ELSE <<u[1], sweep.todo[p].name>>
        with(d, m) == IF p \in DOMAIN db.providers /\ <<m, p>> \notin DOMAIN d.backends
                      THEN [d EXCEPT !.backends = Placed(@, <<m, p>>, NewBackend(u))] ELSE d IN
    IF \E m \in own : AllDynamic(m) THEN {[d |-> with(db, m), ids |-> {}] : m \in own}
    ELSE IF Named(db.models, name) # {} \/ Fresh(Models) = {} THEN {[d |-> db, ids |-> {}]}
    ELSE {[d |-> with([db EXCEPT !.models = Placed(@, m, [name |-> name, fallback |-> FALSE])], m),
           ids |-> {m}] : m \in Fresh(Models)}

\* To attach a provider that was deleted meanwhile fails the pass.
sweep_adopt ==
    /\ sweep.at = "learn" /\ sweep.left # {}
    /\ \E u \in sweep.left : \E a \in Adopted(sweep.cur, u) :
          /\ Strand(a.d) /\ minted' = minted \cup a.ids
          /\ sweep' = [sweep EXCEPT !.left = @ \ {u},
                                    !.at = IF sweep.cur \in DOMAIN db.providers THEN @ ELSE "relink"]
    /\ UNCHANGED <<req, absent, lock, pub, served, events>>

\* What the provider no longer serves is detached from it.
sweep_detach ==
    /\ sweep.at = "learn" /\ sweep.left = {}
    /\ Strand(WithoutBackends(db, {b \in DOMAIN db.backends :
                                     b[2] = sweep.cur /\ UpstreamOf(db, b) \notin sweep.serves}))
    /\ sweep' = [sweep EXCEPT !.at = "mark"]
    /\ UNCHANGED <<absent, events>> /\ SweepKept

sweep_mark ==
    /\ sweep.at = "mark"
    /\ LET p == sweep.cur
           rest == Drop(sweep.todo, {p}) IN
       /\ db' = IF p \in DOMAIN db.providers
                THEN [db EXCEPT !.providers[p].degraded = IF sweep.ok THEN "no" ELSE IF @ = "no" THEN "recently" ELSE @]
                ELSE db
       /\ sweep' = [NoSweep EXCEPT !.at = IF DOMAIN rest = {} THEN "delete" ELSE "probe", !.todo = rest]
    /\ UNCHANGED <<absent, build, owed, events>> /\ SweepKept

\* Mutant of Overdue: a provider an operator keeps by hand is removed as well.
OverdueOfAnyKind == {p \in DOMAIN db.providers : db.providers[p].degraded # "no"}

Overdue == {p \in DOMAIN db.providers : db.providers[p].kind = "dynamic" /\ db.providers[p].degraded = "past grace"}

sweep_delete ==
    /\ sweep.at = "delete"
    /\ Strand(WithoutProviders(db, Overdue))
    /\ sweep' = [sweep EXCEPT !.at = "relink"]
    /\ UNCHANGED <<absent, events>> /\ SweepKept

sweep_relink ==
    /\ sweep.at = "relink"
    /\ db' = relink_targets(db) /\ owed' = {"publish"}
    /\ sweep' = NoSweep
    /\ build' = [build EXCEPT !.clean = FALSE]
    /\ UNCHANGED <<absent, events>> /\ SweepKept

-----------------------------------------------------------------------------
(***************************************************************************)
(* What the admin API lists.                                               *)
(***************************************************************************)

list_models(d) ==
    {[name |-> d.models[m].name,
      backends |-> {<<b, UpstreamOf(d, b), d.providers[b[2]].base, d.backends[b].priced, d.backends[b].gate>> :
                      b \in {b \in DOMAIN d.backends : b[1] = m}}] : m \in DOMAIN d.models}

\* A target is listed with its links and the name it remembers.
TargetViews(d, owner) ==
    {[model |-> d.targets[t].model, pool |-> d.targets[t].pool, name |-> d.targets[t].name] :
        t \in {t \in DOMAIN d.targets : d.targets[t].owner = owner}}

list_virtual_models(d) ==
    {[name |-> d.frontends[f].name, default |-> TargetViews(d, f),
      rules |-> {[action |-> d.rules[x].act, jump |-> d.rules[x].jump, targets |-> TargetViews(d, x)] :
                   x \in {x \in DOMAIN d.rules : d.rules[x].fm = f}}] : f \in DOMAIN d.frontends}

\* A member that names a provider and is attached to none waits for it.
list_pools(d) ==
    {[name |-> d.pools[g].name,
      members |-> {[model |-> d.models[x.model].name, provider |-> x.pinName,
                    base |-> IF x.pin = Null THEN Null ELSE d.providers[x.pin].base,
                    waiting |-> x.pinName # Null /\ x.pin = Null] : x \in {x \in d.members : x.pool = g}}] :
        g \in DOMAIN d.pools}

-----------------------------------------------------------------------------
(***************************************************************************)
(* Time.                                                                   *)
(***************************************************************************)

TimeKept == UNCHANGED <<minted, req, sweep, absent, served>> /\ PublishingKept

LeaseLapses ==
    /\ CanHappen /\ events' = events + 1
    /\ \E p \in DOMAIN db.providers :
          db.providers[p].kind = "dynamic" /\ ~db.providers[p].lapsed /\ db' = [db EXCEPT !.providers[p].lapsed = TRUE]
    /\ TimeKept

\* The grace window is half an hour; a pass, of a few ten-second calls, fits in
\* it, so it ends between passes.
GracePasses ==
    /\ CanHappen /\ events' = events + 1 /\ sweep.at = "idle"
    /\ \E p \in DOMAIN db.providers : db.providers[p].degraded = "recently"
    /\ db' = [db EXCEPT !.providers = [p \in DOMAIN @ |->
                  IF @[p].degraded = "recently" THEN [@[p] EXCEPT !.degraded = "past grace"] ELSE @[p]]]
    /\ TimeKept

-----------------------------------------------------------------------------
Init ==
    /\ db = Initial.db /\ minted = Initial.minted
    /\ req = [r \in Requests |-> Idle]
    /\ sweep = NoSweep /\ absent = {}
    /\ lock = Null /\ build = NoBuild
    /\ pub = Snapshot(BuildModels(db, {}), BuildTools(db), db)
    /\ owed = {} /\ served = 0 /\ events = 0

ProviderRequest(r) ==
    \/ register_new(r) \/ register_renew(r) \/ register_rename(r)
    \/ post_provider_check(r) \/ post_provider(r)
    \/ patch_provider_name(r) \/ patch_provider_kind(r) \/ patch_provider_base(r)
    \/ patch_provider_refused(r) \/ patch_provider_done(r)
    \/ delete_provider_check(r) \/ delete_provider(r)

ModelRequest(r) ==
    \/ post_model(r) \/ patch_model(r) \/ delete_model(r) \/ put_fallback_model(r)
    \/ post_backend_read(r) \/ post_backend_refused(r) \/ post_backend(r)
    \/ patch_backend(r) \/ delete_backend(r) \/ sync_prices(r)

RoutingRequest(r) ==
    \/ post_frontend_model(r) \/ patch_frontend_model(r) \/ delete_virtual_model(r)
    \/ post_rule_check(r) \/ post_rule(r) \/ patch_rule_check(r) \/ patch_rule(r) \/ delete_rule(r)
    \/ resolve_target(r) \/ post_target(r) \/ delete_target(r)

PoolRequest(r) ==
    \/ post_pool_check(r) \/ post_pool(r) \/ patch_pool_name(r) \/ patch_pool_targets(r)
    \/ delete_pool_check(r) \/ delete_pool(r)
    \/ post_pool_member_read(r) \/ post_pool_member(r) \/ delete_pool_member(r)

ToolRequest(r) ==
    \/ post_tool(r) \/ patch_tool(r) \/ delete_tool(r)
    \/ post_prompt_class(r) \/ post_prompt_class_example(r) \/ delete_prompt_class(r)

Sweep ==
    \/ SweepList \/ sweep_probe \/ sweep_adopt \/ sweep_detach \/ sweep_mark
    \/ sweep_delete \/ sweep_relink

Next ==
    \/ \E r \in Requests :
          \/ ProviderRequest(r) \/ ModelRequest(r) \/ RoutingRequest(r) \/ PoolRequest(r) \/ ToolRequest(r)
          \/ refresh(r)
    \/ Tick \/ BuildRead \/ Publish \/ BuildFails
    \/ Sweep \/ LeaseLapses \/ GracePasses \/ import

Spec == Init /\ [][Next]_vars

-----------------------------------------------------------------------------
(***************************************************************************)
(* Properties.                                                             *)
(***************************************************************************)

Settled == (\A r \in Requests : req[r] = Idle) /\ sweep.at = "idle" /\ lock = Null

\* A build that began before somebody's write never has the last word, however
\* the two interleave (refresh, PUBLISH).
LastBuildCurrent ==
    Settled /\ "publish" \notin owed => \E unusable \in SUBSET Minting : pub = Snapshot(BuildModels(db, unusable), BuildTools(db), db)

\* What the operator is shown is what the proxies run: every listed model is
\* published with the attachments listed for it, as they are listed, but for
\* those whose credential could not be had; so is every pool of attachments.
ListedAsPublished ==
    Settled /\ "publish" \notin owed =>
        /\ \A v \in list_models(db) : \E m \in pub.models :
              /\ m.name = v.name /\ m.backends \subseteq v.backends
              /\ \A b \in v.backends \ m.backends : b[1][2] \in Minting
        /\ \A g \in list_pools(db) : \A x \in g.members :
              x.base # Null => \/ \E q \in pub.pools : q.name = g.name /\ \E b \in q.backends : b[3] = x.base
                              \/ \E p \in Minting : db.providers[p].base = x.base

\* Once every request that committed a change has been answered, and no build
\* failed and no sweep or half-refused request left a change behind, the
\* snapshot is what the tables say, and what the operator is shown of them is
\* what the proxies run (refresh, build_snapshot, list_models, list_pools).
PublishedCurrent == LastBuildCurrent /\ ListedAsPublished

\* By the time the request that made or renamed a model or attached a provider
\* is answered, what waited for it has it (relink_targets in refresh): no
\* listed target is without its model while a model bears the name, and no
\* listed pool member waits for an attachment that is there.
NothingWaitsInVain ==
    Settled /\ "relink" \notin owed =>
        /\ \A v \in list_virtual_models(db) :
              \A t \in v.default \cup UNION {x.targets : x \in v.rules} :
                 {t.model, t.pool} = {Null} => Named(db.models, t.name) = {}
        /\ \A g \in list_pools(db) : \A x \in g.members :
              x.waiting => ~\E b \in DOMAIN db.backends :
                              db.models[b[1]].name = x.model /\ db.providers[b[2]].name = x.provider

\* The sweep removes a provider only if that very pass found it absent and its
\* host has not registered since: a host that is up is never removed for what
\* an earlier pass saw (sweep: probe all, then delete).
RemovedOnlyAbsent ==
    [][sweep.at = "delete" /\ sweep'.at = "relink"
         => \A p \in DOMAIN db.providers \ DOMAIN db'.providers :
               p \in absent /\ db.providers[p].kind = "dynamic"]_vars

-----------------------------------------------------------------------------
(***************************************************************************)
(* The inductive invariant.                                                *)
(***************************************************************************)

\* The columns of the rows the links are made of.
TableNames == {"providers", "models", "backends", "frontends", "rules", "targets", "pools", "members",
               "tools", "classes", "perms", "holds"}
IsProvider(x) == DOMAIN x = {"name", "kind", "base", "auth", "cred", "degraded", "lapsed"}
IsModel(x)    == DOMAIN x = {"name", "fallback"}
IsTarget(x)   == DOMAIN x = {"owner", "model", "pool", "name"}
IsMember(x)   == DOMAIN x = {"pool", "model", "pin", "pinName"}

Shaped(d) ==
    /\ DOMAIN d = TableNames
    /\ DOMAIN d.providers \subseteq Providers /\ DOMAIN d.models \subseteq Models
    /\ \A p \in DOMAIN d.providers : IsProvider(d.providers[p])
    /\ \A m \in DOMAIN d.models : IsModel(d.models[m])
    /\ \A t \in DOMAIN d.targets : IsTarget(d.targets[t])
    /\ \A x \in d.members : IsMember(x)

\* The foreign keys of attachments and pool members.
BackendsLinked(d) ==
    \A b \in DOMAIN d.backends : b = <<b[1], b[2]>> /\ b[1] \in DOMAIN d.models /\ b[2] \in DOMAIN d.providers

MembersLinked(d) ==
    \A x \in d.members : x.model \in DOMAIN d.models /\ (x.pin # Null => <<x.model, x.pin>> \in DOMAIN d.backends)

ModelNamesUnique(d) ==
    \A m, o \in DOMAIN d.models : d.models[m].name = d.models[o].name => m = o

Sound(d) == Shaped(d) /\ BackendsLinked(d) /\ MembersLinked(d) /\ ModelNamesUnique(d)

\* What relink_targets leaves behind.
TargetsLinked(d) ==
    \A t \in DOMAIN d.targets : d.targets[t].model = Null => Named(d.models, d.targets[t].name) = {}

MembersPinned(d) ==
    \A x \in d.members : x.pin = Null /\ x.pinName # Null =>
        ~\E p \in Named(d.providers, x.pinName) : <<x.model, p>> \in DOMAIN d.backends

NothingVain(d) == TargetsLinked(d) /\ MembersPinned(d)

\* What a request carries from one statement to the next.
CarriesSound(q) ==
    /\ q.at = "post_provider" => IsProvider(q.arg) /\ q.arg.degraded # "past grace"
    /\ q.at = "post_backend" => q.arg.b = <<q.arg.b[1], q.arg.b[2]>>
    /\ q.at = "target" => IsTarget(q.arg)
    /\ q.at = "member" => IsMember(q.arg)

\* A request that has changed something the snapshot shows, or a target waits
\* for, and has its refresh before it.
HasRefreshAhead(q) ==
    \/ q.at \in {"refresh", "patch_provider", "patch_provider_base", "patch_provider_verify", "patch_pool"}
    \/ q.at = "post_backend" /\ q.arg.made

NoRefreshAhead == \A r \in Requests : ~HasRefreshAhead(req[r])

RequestsSound == DOMAIN req = Requests /\ \A r \in Requests : CarriesSound(req[r])

\* PUBLISH is held by the ticker or by the request that builds.
LockHeld ==
    /\ lock \in Requests \cup {Ticker, Null}
    /\ \A r \in Requests : req[r].at = "build" <=> lock = r
    /\ lock = Null => build.models = Null
    /\ DOMAIN build = DOMAIN NoBuild /\ build.clean \in BOOLEAN

\* The snapshot, and the models and tools a builder has read, are what the
\* tables say, unless somebody who changed them will build again.
Current(s) == \E unusable \in SUBSET Minting : s = Snapshot(BuildModels(db, unusable), BuildTools(db), db)

ReadCurrent == \E unusable \in SUBSET Minting : build.models = BuildModels(db, unusable) /\ build.tools = BuildTools(db)

PublishOrOwe ==
    /\ NoRefreshAhead /\ lock = Null /\ "publish" \notin owed => Current(pub)
    /\ NoRefreshAhead /\ build.models # Null /\ build.clean => ReadCurrent
    /\ build.models # Null /\ ~build.clean => "publish" \in owed

RelinkOrOwe == NoRefreshAhead /\ "relink" \notin owed => NothingVain(db)

\* A provider past its grace is one this pass has still to probe, or has found
\* absent.
PastGrace(d) == {p \in DOMAIN d.providers : d.providers[p].degraded = "past grace"}

SweepProgress ==
    /\ DOMAIN sweep = DOMAIN NoSweep
    /\ sweep.at \in {"probe", "learn", "mark", "delete"} => PastGrace(db) \subseteq absent \cup DOMAIN sweep.todo
    /\ sweep.at \in {"learn", "mark"} /\ ~sweep.ok => sweep.cur \notin PastGrace(db) \ absent
    /\ sweep.at = "delete" => DOMAIN sweep.todo = {}

CatalogueIInv == Sound(db) /\ RequestsSound /\ LockHeld /\ PublishOrOwe /\ RelinkOrOwe /\ SweepProgress

\* Null is no id and no request, the ticker is no request, and the catalogue at
\* the start is one that a refresh has left.
ASSUME CatalogueAssumption ==
    /\ Null \notin Providers \cup Models \cup Requests
    /\ Ticker \notin Requests
    /\ Sound(Initial.db) /\ NothingVain(Initial.db)
=============================================================================
