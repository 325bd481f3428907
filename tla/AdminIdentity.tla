---------------------------- MODULE AdminIdentity ----------------------------
(***************************************************************************)
(* Who may do what: the principals, keys, roles, grants, limits, budgets   *)
(* and sessions the admin API keeps in Postgres (src/control/api.rs,       *)
(* src/control/auth.rs), and the half of the snapshot that is built from   *)
(* them (src/control/build.rs).  `fastllm-proxy import` writes the same    *)
(* tables from a process of its own (src/control/import.rs).               *)
(*                                                                         *)
(* A request is authenticated, then authorised, then runs its handler one  *)
(* SQL statement at a time, for a statement is what Postgres makes atomic; *)
(* refresh rebuilds the snapshot under PUBLISH, and the audit layer writes *)
(* its row last.  A request's arguments are chosen where the handler first *)
(* uses them.  Ids are UUIDs: one is never handed out twice.               *)
(***************************************************************************)
EXTENDS Naturals, Sequences, FiniteSets

CONSTANTS
    Principals, RoleIds, Keys, Sessions,  \* ids
    PrincipalNames, RoleNames,
    Callers,       \* requests the pod can be handling at once
    MaxRequests,   \* bound: requests served, and imports
    MaxEvents,     \* bound: builds by the ticker, builds that fail, logins, logouts, expiries, bootstraps
    AuthKeys,      \* auth.keys entries an operator imports, one to a file
    Seeded,        \* the tables at the start
    Nobody

Admin        == "admin"
READ         == "usage:read"
KEY_CREATE   == "key:create"
KEY_REVOKE   == "key:revoke"
CONFIG_WRITE == "config:write"
INVOKE       == "model:invoke"
AdminVerbs   == {READ, KEY_CREATE, KEY_REVOKE, CONFIG_WRITE}
Resources    == {"*", "model/*", "model/m"}

\* validate_grant: an admin verb is granted on everything, a model by name.
validate_grant(verb, resource) ==
    IF verb = INVOKE THEN resource # "*" ELSE verb \in AdminVerbs /\ resource = "*"

Permissions == {g \in (AdminVerbs \cup {INVOKE}) \X Resources : validate_grant(g[1], g[2])}

VARIABLES
    tables,
    taken,      \* ids handed out so far
    expired,    \* keys and sessions past their expires_at
    call,       \* each request: where it is, who sent it, what its handler holds
    calls, ticks,
    PUBLISH,    \* the builder that holds it, or Nobody
    reading,    \* what that builder has read
    published,  \* the snapshot this pod publishes
    revoked,    \* keys whose withdrawal has been answered with success, and published
    answered, audited   \* changes answered with success; audit_events

identities == <<tables, taken, expired, call, calls, ticks, PUBLISH, reading, published, revoked, answered, audited>>

\* A table is a function from its ids.
NoRows          == [x \in {} |-> {}]
Put(f, x, v)    == [y \in DOMAIN f \cup {x} |-> IF y = x THEN v ELSE f[y]]
Without(f, gone) == [x \in DOMAIN f \ gone |-> f[x]]

IdentityBuilders == Callers \cup {"rebuilder"}

import_role_name(n) == "import:" \o n

AllRoleNames == RoleNames \cup {import_role_name(e.name) : e \in AuthKeys}

Rows(Ids, Row) == UNION {[S -> Row] : S \in SUBSET Ids}
PrincipalRows  == [name : PrincipalNames \cup {e.name : e \in AuthKeys}, user : BOOLEAN, password : BOOLEAN, imported : BOOLEAN]
KeyRows        == [principal : Principals, disabled : BOOLEAN]

Tables ==
    [principals : Rows(Principals, PrincipalRows), roles : Rows(RoleIds, AllRoleNames),
     members : SUBSET (Principals \X RoleIds), holds : SUBSET (RoleIds \X Permissions),
     keys : Rows(Keys, KeyRows), sessions : Rows(Sessions, Principals),
     limits : SUBSET Principals, budgets : SUBSET Principals]

\* The foreign keys of the tables, and the unique names of roles.
Referential(d) ==
    /\ \A k \in DOMAIN d.keys : d.keys[k].principal \in DOMAIN d.principals
    /\ \A s \in DOMAIN d.sessions : d.sessions[s] \in DOMAIN d.principals
    /\ \A m \in d.members : m[1] \in DOMAIN d.principals /\ m[2] \in DOMAIN d.roles
    /\ \A h \in d.holds : h[1] \in DOMAIN d.roles
    /\ d.limits \subseteq DOMAIN d.principals /\ d.budgets \subseteq DOMAIN d.principals
    /\ \A x, y \in DOMAIN d.roles : d.roles[x] = d.roles[y] => x = y

ASSUME IdentityAssumption ==
    /\ Nobody \notin IdentityBuilders /\ "rebuilder" \notin Callers
    /\ IsFiniteSet(Keys) /\ IsFiniteSet(RoleIds)
    /\ AuthKeys \subseteq [name : {e.name : e \in AuthKeys}, key : Keys, models : SUBSET {"model/*", "model/m"},
                          limits : BOOLEAN, budget : BOOLEAN]
    /\ Seeded \in Tables /\ Referential(Seeded)

NoCall  == [at |-> "idle", actor |-> Nobody, n |-> 0, arg |-> Nobody, kills |-> {}]
Unread  == [principals |-> {}, limits |-> {}, grants |-> NoRows, budgets |-> {}, keys |-> NoRows]

-----------------------------------------------------------------------------
(***************************************************************************)
(* Reading the tables.                                                     *)
(***************************************************************************)

Known(p)    == p \in DOMAIN tables.principals
RoleNamed(n) == {r \in DOMAIN tables.roles : tables.roles[r] = n}
PrincipalNamed(n) == {p \in DOMAIN tables.principals : tables.principals[p].name = n}
RolesOf(p)  == {r \in DOMAIN tables.roles : <<p, r>> \in tables.members}
Holders(r)  == {p \in DOMAIN tables.principals : <<p, r>> \in tables.members}

\* The permissions of every role of a principal.
GrantsOf(p) == {g \in Permissions : \E r \in RolesOf(p) : <<r, g>> \in tables.holds}

\* Any grant of the verb will do: the resource is not looked at.
principal_has_permission(p, verb) == \E g \in GrantsOf(p) : g[1] = verb

authenticate_session(s) == s \in DOMAIN tables.sessions /\ s \notin expired

\* A bearer key is looked up by its hash and its expiry.
AuthenticateKey(k) == k \in DOMAIN tables.keys /\ k \notin expired

\* The listings join each row with its principal: a row without one is not shown.
list_keys       == {<<k, tables.principals[tables.keys[k].principal].name>> :
                       k \in {k \in DOMAIN tables.keys : Known(tables.keys[k].principal)}}
list_limits     == {p \in tables.limits : Known(p)}
list_budgets    == {p \in tables.budgets : Known(p)}
list_principals == [p \in DOMAIN tables.principals |-> {tables.roles[r] : r \in RolesOf(p)}]
list_roles      == {<<tables.roles[r], {g \in Permissions : <<r, g>> \in tables.holds}>> : r \in DOMAIN tables.roles}
list_audit      == {<<a, IF a.actor \in DOMAIN tables.principals THEN a.actor ELSE Nobody>> : a \in audited}

\* The row an upsert by name finds, or a new id.
UpsertId(found, all) == IF found # {} THEN found ELSE all \ taken

\* What a proxy holding the snapshot makes of a key.
authenticate_key(snap, k) ==
    /\ k \in DOMAIN snap.keys /\ ~snap.keys[k].disabled /\ k \notin expired
    /\ snap.keys[k].principal \in snap.principals

-----------------------------------------------------------------------------
(***************************************************************************)
(* The shape of a request.                                                 *)
(***************************************************************************)

Step(r, at, arg) == call' = [call EXCEPT ![r].at = at, ![r].arg = arg]
Refused(r)        == call' = [call EXCEPT ![r] = NoCall]

TablesKept == UNCHANGED <<tables, taken>>
Event      == ticks < MaxEvents /\ ticks' = ticks + 1
RestKept   == UNCHANGED <<expired, calls, ticks, PUBLISH, reading, published, revoked, answered, audited>>
Quiet      == UNCHANGED <<expired, call, calls, PUBLISH, reading, published, revoked, answered, audited>>

\* A statement that changes rows, after which the handler refreshes; kills are
\* the keys it takes out of use.
Committed(r, rows, kills) ==
    /\ tables' = rows
    /\ call' = [call EXCEPT ![r].at = "refresh", ![r].arg = Nobody, ![r].kills = kills]

\* Cookie or bearer key: either names a principal.
require_session(r) ==
    /\ call[r].at = "idle" /\ calls < MaxRequests
    /\ \E p \in {tables.sessions[s] : s \in {s \in Sessions : authenticate_session(s)}}
               \cup {tables.keys[k].principal : k \in {k \in Keys : AuthenticateKey(k)}} :
          call' = [call EXCEPT ![r] = [NoCall EXCEPT !.at = "authed", !.actor = p, !.n = calls + 1]]
    /\ calls' = calls + 1
    /\ UNCHANGED <<tables, taken, expired, ticks, PUBLISH, reading, published, revoked, answered, audited>>

\* RequireRead, RequireKeyCreate, RequireKeyRevoke, RequireConfigWrite: the
\* verb the route's handler asks for, or a 403.
check_permission(r) ==
    /\ call[r].at = "authed"
    /\ \E verb \in AdminVerbs :
          IF principal_has_permission(call[r].actor, verb) THEN Step(r, verb, Nobody) ELSE Refused(r)
    /\ TablesKept /\ RestKept

\* A read answers with a listing and is not audited.
ReadOnly(r) ==
    /\ call[r].at = READ
    /\ Refused(r)
    /\ TablesKept /\ RestKept

-----------------------------------------------------------------------------
(***************************************************************************)
(* Keys and principals.                                                    *)
(***************************************************************************)

create_key(p, k) == [tables EXCEPT !.keys = Put(@, k, [principal |-> p, disabled |-> FALSE])]

\* The foreign key refuses a principal that does not exist.
post_key(r) ==
    /\ call[r].at = KEY_CREATE
    /\ \E p \in Principals, k \in Keys \ taken :
          IF Known(p)
          THEN /\ Committed(r, create_key(p, k), {})
               /\ taken' = taken \cup {k}
          ELSE Refused(r) /\ TablesKept
    /\ RestKept

revoke_key(r) ==
    /\ call[r].at = KEY_REVOKE
    /\ \E k \in Keys :
          IF k \in DOMAIN tables.keys
          THEN Committed(r, [tables EXCEPT !.keys[k].disabled = TRUE], {k})
          ELSE Refused(r) /\ UNCHANGED tables
    /\ UNCHANGED taken /\ RestKept

NameTaken(p, n) == \E q \in DOMAIN tables.principals \ {p} : tables.principals[q].name = n

NewPrincipal(n, imported) == [name |-> n, user |-> FALSE, password |-> FALSE, imported |-> imported]

post_principal(r) ==
    /\ call[r].at = CONFIG_WRITE
    /\ \E p \in Principals \ taken, n \in PrincipalNames :
          IF NameTaken(p, n) THEN Refused(r) /\ TablesKept
          ELSE /\ Committed(r, [tables EXCEPT !.principals = Put(@, p, NewPrincipal(n, FALSE))], {})
               /\ taken' = taken \cup {p}
    /\ RestKept

\* rename_named_row commits on its own; the e-mail is a second statement, and
\* when that is refused the handler returns before refresh.
patch_principal(r) ==
    /\ call[r].at = CONFIG_WRITE
    /\ \E p \in Principals, n \in PrincipalNames, emailTaken \in BOOLEAN :
          IF ~Known(p) \/ NameTaken(p, n) THEN Refused(r) /\ UNCHANGED tables
          ELSE IF emailTaken
               THEN Refused(r) /\ tables' = [tables EXCEPT !.principals[p].name = n]
               ELSE Committed(r, [tables EXCEPT !.principals[p].name = n], {})
    /\ UNCHANGED taken /\ RestKept

KeysOf(p) == {k \in DOMAIN tables.keys : tables.keys[k].principal = p}

\* ON DELETE CASCADE takes all that is the principal's.
WithoutPrincipal(p) ==
    [tables EXCEPT !.principals = Without(@, {p}), !.keys = Without(@, KeysOf(p)),
               !.sessions = Without(@, {s \in DOMAIN @ : @[s] = p}),
               !.members = {m \in @ : m[1] # p}, !.limits = @ \ {p}, !.budgets = @ \ {p}]

delete_principal(r) ==
    /\ call[r].at = CONFIG_WRITE
    /\ \E p \in Principals :
          IF Known(p) THEN Committed(r, WithoutPrincipal(p), KeysOf(p)) ELSE Refused(r) /\ UNCHANGED tables
    /\ UNCHANGED taken /\ RestKept

\* Upserts: limits and budgets belong to a principal that exists.
put_limits(r) ==
    /\ call[r].at = CONFIG_WRITE
    /\ \E p \in Principals :
          IF Known(p) THEN Committed(r, [tables EXCEPT !.limits = @ \cup {p}], {}) ELSE Refused(r) /\ UNCHANGED tables
    /\ UNCHANGED taken /\ RestKept

delete_limits(r) ==
    /\ call[r].at = CONFIG_WRITE
    /\ \E p \in Principals :
          IF p \in tables.limits THEN Committed(r, [tables EXCEPT !.limits = @ \ {p}], {}) ELSE Refused(r) /\ UNCHANGED tables
    /\ UNCHANGED taken /\ RestKept

put_budget(r) ==
    /\ call[r].at = CONFIG_WRITE
    /\ \E p \in Principals :
          IF Known(p) THEN Committed(r, [tables EXCEPT !.budgets = @ \cup {p}], {}) ELSE Refused(r) /\ UNCHANGED tables
    /\ UNCHANGED taken /\ RestKept

delete_budget(r) ==
    /\ call[r].at = CONFIG_WRITE
    /\ \E p \in Principals :
          IF p \in tables.budgets THEN Committed(r, [tables EXCEPT !.budgets = @ \ {p}], {}) ELSE Refused(r) /\ UNCHANGED tables
    /\ UNCHANGED taken /\ RestKept

-----------------------------------------------------------------------------
(***************************************************************************)
(* Roles, addressed by name and stored by id, and their permissions.       *)
(***************************************************************************)

\* The role's id is read first; what was read is used whatever happens next.
ReadRole(r, then) ==
    /\ call[r].at = CONFIG_WRITE
    /\ \E n \in RoleNames :
          IF RoleNamed(n) = {} THEN Refused(r) ELSE \E role \in RoleNamed(n) : Step(r, then, role)
    /\ TablesKept /\ RestKept

grant_role_read(r) == ReadRole(r, "grant_role")

\* Idempotent, and refused by a foreign key when either side has gone.
grant_role(r) ==
    /\ call[r].at = "grant_role"
    /\ \E p \in Principals :
          IF Known(p) /\ call[r].arg \in DOMAIN tables.roles
          THEN Committed(r, [tables EXCEPT !.members = @ \cup {<<p, call[r].arg>>}], {})
          ELSE Refused(r) /\ UNCHANGED tables
    /\ UNCHANGED taken /\ RestKept

revoke_role(r) ==
    /\ call[r].at = CONFIG_WRITE
    /\ \E p \in Principals, n \in RoleNames :
          LET gone == {<<p, role>> : role \in RoleNamed(n)} \cap tables.members IN
          IF gone # {} THEN Committed(r, [tables EXCEPT !.members = @ \ gone], {}) ELSE Refused(r) /\ UNCHANGED tables
    /\ UNCHANGED taken /\ RestKept

grant_permission_read(r) == ReadRole(r, "grant_permission")

\* The permission row is upserted, then tied to the role, which may have gone.
grant_permission(r) ==
    /\ call[r].at = "grant_permission"
    /\ \E g \in Permissions :
          IF call[r].arg \in DOMAIN tables.roles
          THEN Committed(r, [tables EXCEPT !.holds = @ \cup {<<call[r].arg, g>>}], {})
          ELSE Refused(r) /\ UNCHANGED tables
    /\ UNCHANGED taken /\ RestKept

\* 204 whether or not there was anything to revoke, but no refresh for nothing.
revoke_permission(r) ==
    /\ call[r].at = CONFIG_WRITE
    /\ \E n \in RoleNames, g \in Permissions :
          LET gone == {<<role, g>> : role \in RoleNamed(n)} \cap tables.holds IN
          IF gone # {} THEN Committed(r, [tables EXCEPT !.holds = @ \ gone], {})
                       ELSE Step(r, "audit", Nobody) /\ UNCHANGED tables
    /\ UNCHANGED taken /\ RestKept

\* A role nobody holds is in no snapshot: there is no refresh.
post_role(r) ==
    /\ call[r].at = CONFIG_WRITE
    /\ \E role \in RoleIds \ taken, n \in RoleNames :
          IF RoleNamed(n) # {} THEN Refused(r) /\ TablesKept
          ELSE /\ tables' = [tables EXCEPT !.roles = Put(@, role, n)]
               /\ taken' = taken \cup {role}
               /\ Step(r, "audit", Nobody)
    /\ RestKept

patch_role_read(r) == ReadRole(r, "patch_role")

patch_role(r) ==
    /\ call[r].at = "patch_role"
    /\ \E n \in RoleNames :
          IF call[r].arg \notin DOMAIN tables.roles \/ RoleNamed(n) \ {call[r].arg} # {}
          THEN Refused(r) /\ UNCHANGED tables
          ELSE Committed(r, [tables EXCEPT !.roles[call[r].arg] = n], {})
    /\ UNCHANGED taken /\ RestKept

\* The holders are counted by one statement and the role deleted, by name, by
\* the next.
delete_role_count(r) ==
    /\ call[r].at = CONFIG_WRITE
    /\ \E n \in RoleNames :
          IF \E role \in RoleNamed(n) : Holders(role) # {} THEN Refused(r) ELSE Step(r, "delete_role", n)
    /\ TablesKept /\ RestKept

delete_role(r) ==
    /\ call[r].at = "delete_role"
    /\ LET gone == RoleNamed(call[r].arg) IN
          IF gone = {} THEN Refused(r) /\ UNCHANGED tables
          ELSE Committed(r, [tables EXCEPT !.roles = Without(@, gone),
                                       !.members = {m \in @ : m[2] \notin gone},
                                       !.holds = {h \in @ : h[1] \notin gone}], {})
    /\ UNCHANGED taken /\ RestKept

-----------------------------------------------------------------------------
(***************************************************************************)
(* Passwords and sessions.  Nothing here is in the snapshot.               *)
(***************************************************************************)

put_password_read(r) ==
    /\ call[r].at = CONFIG_WRITE
    /\ \E p \in Principals : IF Known(p) THEN Step(r, "put_password", p) ELSE Refused(r)
    /\ TablesKept /\ RestKept

\* set_password: an UPDATE of a principal deleted since changes nothing.
put_password(r) ==
    /\ call[r].at = "put_password"
    /\ LET p == call[r].arg IN
          tables' = IF Known(p) THEN [tables EXCEPT !.principals[p].user = TRUE, !.principals[p].password = TRUE] ELSE tables
    /\ Step(r, "audit", Nobody)
    /\ UNCHANGED taken /\ RestKept

revoke_all_sessions(r) ==
    /\ call[r].at = CONFIG_WRITE
    /\ tables' = [tables EXCEPT !.sessions = NoRows]
    /\ Step(r, "audit", Nobody)
    /\ UNCHANGED taken /\ RestKept

\* verify_login and decide_login, then create_session; a principal deleted in
\* between is refused by the foreign key, so the two are one step here.
login(s) ==
    /\ s \notin taken
    /\ \E p \in DOMAIN tables.principals :
          /\ tables.principals[p].user /\ tables.principals[p].password
          /\ tables' = [tables EXCEPT !.sessions = Put(@, s, p)]
    /\ taken' = taken \cup {s}
    /\ Event /\ Quiet

logout(s) ==
    /\ s \in DOMAIN tables.sessions
    /\ tables' = [tables EXCEPT !.sessions = Without(@, {s})]
    /\ Event /\ UNCHANGED taken /\ Quiet

\* The clock passes the expires_at of a key or a session.
Expire(x) ==
    /\ x \in DOMAIN tables.keys \cup DOMAIN tables.sessions /\ x \notin expired
    /\ expired' = expired \cup {x}
    /\ Event
    /\ UNCHANGED <<tables, taken, call, calls, PUBLISH, reading, published, revoked, answered, audited>>

\* `fastllm-proxy` with --admin-user: one transaction of a process of its own.
\* It grants the admin role to a principal that cannot administer already.
bootstrap_admin_user ==
    /\ \E p \in DOMAIN tables.principals :
          tables' = [tables EXCEPT !.principals[p].user = TRUE, !.principals[p].password = TRUE,
                           !.members = IF principal_has_permission(p, CONFIG_WRITE) THEN @
                                       ELSE @ \cup {<<p, role>> : role \in RoleNamed(Admin)}]
    /\ tables' # tables
    /\ Event /\ UNCHANGED taken /\ Quiet

-----------------------------------------------------------------------------
(***************************************************************************)
(* import: one transaction, which no refresh follows.                      *)
(***************************************************************************)

\* The key, found by its hash, is put back in use whatever had become of it;
\* limits and a budget where the file has them.
import_entry(d, e, p) ==
    [d EXCEPT !.keys    = Put(@, e.key, [principal |-> p, disabled |-> FALSE]),
              !.limits  = IF e.limits THEN @ \cup {p} ELSE @,
              !.budgets = IF e.budget THEN @ \cup {p} ELSE @]

\* A principal of the entry's name, if import made it, or a new one; its role,
\* with exactly the grants the file names; and the entry's key.
import_key(e, p, role) ==
    import_entry([tables EXCEPT !.principals = IF Known(p) THEN @ ELSE Put(@, p, NewPrincipal(e.name, TRUE)),
                            !.roles   = Put(@, role, import_role_name(e.name)),
                            !.members = @ \cup {<<p, role>>},
                            !.holds   = {h \in @ : h[1] # role} \cup {<<role, <<INVOKE, m>>>> : m \in e.models}],
                 e, p)

\* A principal made by hand is refused, and the transaction with it.  The key
\* is no longer a revoked one: the operator's file has it.
import_auth_keys ==
    /\ \E e \in AuthKeys :
       \E p \in UpsertId(PrincipalNamed(e.name), Principals), role \in UpsertId(RoleNamed(import_role_name(e.name)), RoleIds) :
          /\ Known(p) => tables.principals[p].imported
          /\ tables' = import_key(e, p, role)
          /\ taken' = taken \cup {p, role, e.key}
          /\ expired' = expired \ {e.key}
          /\ revoked' = revoked \ {e.key}
          /\ call' = [r \in Callers |-> [call[r] EXCEPT !.kills = @ \ {e.key}]]
    /\ calls < MaxRequests /\ calls' = calls + 1
    /\ UNCHANGED <<ticks, PUBLISH, reading, published, answered, audited>>

-----------------------------------------------------------------------------
(***************************************************************************)
(* refresh, rebuild_once and build_snapshot: a builder holds PUBLISH and   *)
(* reads the tables one query after the other, with no transaction.        *)
(***************************************************************************)

\* A handler at its refresh, or a tick of spawn_snapshot_rebuilder.
BuildWanted(b) == IF b \in Callers THEN call[b].at = "refresh" /\ UNCHANGED ticks ELSE Event

\* rebuild_snapshot is a handler that only refreshes.
rebuild_snapshot(r) ==
    /\ call[r].at = CONFIG_WRITE
    /\ Committed(r, tables, {})
    /\ UNCHANGED taken /\ RestKept

\* Mutant of BuildPrincipals: nothing serialises the builds.
BuildPrincipalsUnlocked(b) ==
    /\ BuildWanted(b) /\ reading[b].at = "idle"
    /\ PUBLISH' = b
    /\ reading' = [reading EXCEPT ![b] = [at |-> "grants", got |-> [Unread EXCEPT !.principals = DOMAIN tables.principals,
                                                                              !.limits = tables.limits]]]
    /\ TablesKept /\ UNCHANGED <<expired, call, calls, published, revoked, answered, audited>>

BuildPrincipals(b) ==
    /\ BuildWanted(b) /\ reading[b].at = "idle" /\ PUBLISH = Nobody
    /\ PUBLISH' = b
    /\ reading' = [reading EXCEPT ![b] = [at |-> "grants", got |-> [Unread EXCEPT !.principals = DOMAIN tables.principals,
                                                                              !.limits = tables.limits]]]
    /\ TablesKept /\ UNCHANGED <<expired, call, calls, published, revoked, answered, audited>>

\* The budgets, then each principal's grants.
BuildGrants(b) ==
    /\ reading[b].at = "grants"
    /\ reading' = [reading EXCEPT ![b].at = "keys", ![b].got.budgets = tables.budgets,
                              ![b].got.grants = [p \in reading[b].got.principals |-> GrantsOf(p)]]
    /\ TablesKept /\ UNCHANGED <<expired, call, calls, ticks, PUBLISH, published, revoked, answered, audited>>

BuildApiKeys(b) ==
    /\ reading[b].at = "keys"
    /\ reading' = [reading EXCEPT ![b].at = "built", ![b].got.keys = tables.keys]
    /\ TablesKept /\ UNCHANGED <<expired, call, calls, ticks, PUBLISH, published, revoked, answered, audited>>

\* After a refresh the handler answers, published or not.
PublishReleased(b) ==
    /\ PUBLISH' = Nobody
    /\ reading' = [reading EXCEPT ![b] = [at |-> "idle", got |-> Unread]]
    /\ call' = IF b \in Callers THEN [call EXCEPT ![b].at = "audit", ![b].kills = {}] ELSE call
    /\ TablesKept /\ UNCHANGED <<expired, calls, answered, audited>>

PublishIdentities(b) ==
    /\ reading[b].at = "built"
    /\ published' = reading[b].got
    /\ revoked' = IF b \in Callers THEN revoked \cup call[b].kills ELSE revoked
    /\ PublishReleased(b) /\ UNCHANGED ticks

\* A build that fails is counted; the snapshot stays as it was.
BuildGivesUp(b) ==
    /\ reading[b].at \in {"grants", "keys"} /\ Event
    /\ PublishReleased(b) /\ UNCHANGED <<published, revoked>>

\* Mutant of audit_changes: the actor is looked up again by what it may do.
audit_changes_by_permission(r) ==
    /\ call[r].at = "audit"
    /\ LET change == [n |-> call[r].n, actor |-> call[r].actor] IN
          /\ answered' = answered \cup {change}
          /\ audited' = IF principal_has_permission(call[r].actor, CONFIG_WRITE) THEN audited \cup {change} ELSE audited
    /\ Refused(r)
    /\ TablesKept /\ UNCHANGED <<expired, calls, ticks, PUBLISH, reading, published, revoked>>

\* The row names its actor by a foreign key: an actor deleted since, itself
\* included, makes the INSERT fail, which is logged and no more.
audit_changes(r) ==
    /\ call[r].at = "audit"
    /\ LET change == [n |-> call[r].n, actor |-> call[r].actor] IN
          /\ answered' = answered \cup {change}
          /\ audited' = IF Known(call[r].actor) THEN audited \cup {change} ELSE audited
    /\ Refused(r)
    /\ TablesKept /\ UNCHANGED <<expired, calls, ticks, PUBLISH, reading, published, revoked>>

-----------------------------------------------------------------------------

Handler(r) ==
    \/ post_key(r) \/ revoke_key(r)
    \/ post_principal(r) \/ patch_principal(r) \/ delete_principal(r)
    \/ put_limits(r) \/ delete_limits(r) \/ put_budget(r) \/ delete_budget(r)
    \/ grant_role_read(r) \/ grant_role(r) \/ revoke_role(r)
    \/ grant_permission_read(r) \/ grant_permission(r) \/ revoke_permission(r)
    \/ post_role(r) \/ patch_role_read(r) \/ patch_role(r) \/ delete_role_count(r) \/ delete_role(r)
    \/ put_password_read(r) \/ put_password(r) \/ revoke_all_sessions(r) \/ rebuild_snapshot(r)

IdentityInit ==
    /\ tables = Seeded /\ expired = {}
    /\ taken = UNION {DOMAIN tables.principals, DOMAIN tables.roles, DOMAIN tables.keys, DOMAIN tables.sessions}
    /\ call = [r \in Callers |-> NoCall] /\ calls = 0 /\ ticks = 0
    /\ PUBLISH = Nobody /\ reading = [b \in IdentityBuilders |-> [at |-> "idle", got |-> Unread]]
    /\ published = [principals |-> DOMAIN tables.principals, limits |-> tables.limits, budgets |-> tables.budgets,
              grants |-> [p \in DOMAIN tables.principals |-> GrantsOf(p)], keys |-> tables.keys]
    /\ revoked = {} /\ answered = {} /\ audited = {}

IdentityNext ==
    \/ \E r \in Callers : require_session(r) \/ check_permission(r) \/ ReadOnly(r) \/ Handler(r) \/ audit_changes(r)
    \/ \E b \in IdentityBuilders : BuildPrincipals(b) \/ BuildGrants(b) \/ BuildApiKeys(b) \/ PublishIdentities(b) \/ BuildGivesUp(b)
    \/ \E s \in Sessions : login(s) \/ logout(s)
    \/ \E x \in Keys \cup Sessions : Expire(x)
    \/ bootstrap_admin_user \/ import_auth_keys

IdentitySpec == IdentityInit /\ [][IdentityNext]_identities

-----------------------------------------------------------------------------
(***************************************************************************)
(* Properties.                                                             *)
(***************************************************************************)

\* Once revoking a key, or deleting its principal, has been answered and its
\* refresh has published, no snapshot this pod publishes accepts the key again,
\* unless an operator's import brings the key back (refresh's comment: an older
\* build used to bring a revoked key back).
RevokedKeyRefused == \A k \in revoked : ~authenticate_key(published, k)

\* The listings, each an inner join, leave no row out: whatever is deleted,
\* every key, limit and budget still has its principal, every membership and
\* grant its role.
ListingsComplete ==
    /\ Cardinality(list_keys) = Cardinality(DOMAIN tables.keys)
    /\ list_limits = tables.limits /\ list_budgets = tables.budgets
    /\ UNION {{<<p, n>> : n \in list_principals[p]} : p \in DOMAIN list_principals}
          = {<<m[1], tables.roles[m[2]]>> : m \in tables.members}
    /\ Cardinality(list_roles) = Cardinality(DOMAIN tables.roles)
    /\ \A h \in tables.holds : h[1] \in DOMAIN tables.roles

\* A change answered with success has its audit row, whoever else acted in the
\* meantime, unless the actor itself was deleted first (audit_changes).
AuditTrail == \A c \in answered \ audited : ~Known(c.actor)

\* list_principals, list_keys and the others leave no row out, and
\* audit_changes leaves no change out.
RecordsComplete == ListingsComplete /\ AuditTrail

-----------------------------------------------------------------------------
(***************************************************************************)
(* The inductive invariant behind them.                                    *)
(***************************************************************************)
HandlerPlaces ==
    {"idle", "authed", "grant_role", "grant_permission", "patch_role", "delete_role", "put_password",
     "refresh", "audit"} \cup AdminVerbs

Calls ==
    [at : HandlerPlaces, actor : Principals \cup {Nobody}, n : Nat, arg : Principals \cup RoleIds \cup AllRoleNames \cup {Nobody},
     kills : SUBSET Keys]

Snapshots ==
    [principals : SUBSET Principals, limits : SUBSET Principals, budgets : SUBSET Principals,
     grants : Rows(Principals, SUBSET Permissions), keys : Rows(Keys, KeyRows)]

\* Type correctness.
IdentityTypeOK ==
    /\ tables \in Tables /\ published \in Snapshots
    /\ call \in [Callers -> Calls] /\ calls \in Nat /\ ticks \in Nat
    /\ PUBLISH \in IdentityBuilders \cup {Nobody}
    /\ reading \in [IdentityBuilders -> [at : {"idle", "grants", "keys", "built"}, got : Snapshots]]
    /\ revoked \subseteq Keys

\* The foreign keys hold and no two roles have one name, between any two statements.
TablesSound == Referential(tables)

\* An id in a table was handed out, and so was that of whoever made a request.
TakenOnce ==
    /\ DOMAIN tables.principals \subseteq taken /\ DOMAIN tables.roles \subseteq taken
    /\ DOMAIN tables.keys \subseteq taken /\ DOMAIN tables.sessions \subseteq taken
    /\ \A r \in Callers : call[r].at # "idle" => call[r].actor \in taken
    /\ \A c \in answered : c.actor \in taken

\* Who builds holds PUBLISH, and is at its refresh.
OneBuild ==
    /\ \A b \in IdentityBuilders : reading[b].at # "idle" => PUBLISH = b
    /\ \A r \in Callers : reading[r].at # "idle" => call[r].at = "refresh"

\* A key out of use: gone, or disabled.
Dead(keys, k) == k \in DOMAIN keys => keys[k].disabled

\* A key withdrawn stays out of use, in the tables, in what is published, and in
\* what was read since.
Withdrawn ==
    /\ \A k \in revoked : k \in taken /\ Dead(tables.keys, k) /\ Dead(published.keys, k)
    /\ \A r \in Callers : \A k \in call[r].kills : k \in taken /\ Dead(tables.keys, k)
    /\ \A b \in IdentityBuilders : reading[b].at = "built" => \A k \in revoked : Dead(reading[b].got.keys, k)
    /\ \A r \in Callers : reading[r].at = "built" => \A k \in call[r].kills : Dead(reading[r].got.keys, k)

IdentityIInv == IdentityTypeOK /\ TablesSound /\ TakenOnce /\ OneBuild /\ Withdrawn /\ AuditTrail
=============================================================================
