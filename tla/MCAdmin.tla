------------------------------- MODULE MCAdmin -------------------------------
(***************************************************************************)
(* The admin API's two halves in one run.  They share no table: the        *)
(* initial state says which of them is at work, and the other stands       *)
(* still.                                                                  *)
(*                                                                         *)
(* The catalogue: a degraded dynamic host with one model, the frontend     *)
(* model of the same name that migration 0034 gives it, a rule with a      *)
(* target on the model, a default target on a pool, and a pool member      *)
(* pinned to the host.  The identities: one pod with an administrator and  *)
(* an imported caller.  Two requests at a time in either.                  *)
(***************************************************************************)
EXTENDS AdminCatalogue, AdminIdentity, TLC

CONSTANTS p1, p2, p3, role1, role2, role3, k1, k2, s1, s2

VARIABLE half

catalogue == vars

MCNames == {<<"a">>, <<"b">>}

\* A new model at a new address.
MCModelList == {[base |-> "h2", auth |-> "default", name |-> <<"b">>, upstream |-> <<"b">>]}

MCInitial ==
    [db |-> [providers |-> ("p1" :> [NewProvider("p", "dynamic", "h1", "default", "static") EXCEPT !.degraded = "recently"]),
             models    |-> ("m1" :> [name |-> <<"a">>, fallback |-> FALSE]),
             backends  |-> (<<"m1", "p1">> :> NewBackend(<<"a">>)),
             frontends |-> ("f1" :> [name |-> <<"a">>]),
             rules     |-> ("r1" :> [fm |-> "f1", act |-> "route", jump |-> Null]),
             targets   |-> ("t1" :> [owner |-> "r1", model |-> "m1", pool |-> Null, name |-> <<"a">>]) @@
                           ("t2" :> [owner |-> "f1", model |-> Null, pool |-> "g1", name |-> <<"g">>]) @@
                           ("t3" :> [owner |-> "f1", model |-> "m1", pool |-> Null, name |-> <<"a">>]),
             pools     |-> ("g1" :> [name |-> <<"g">>]),
             members   |-> {[pool |-> "g1", model |-> "m1", pin |-> "p1", pinName |-> "p"]},
             tools     |-> ("s1" :> [kind |-> "mcp", name |-> <<"a">>, enabled |-> TRUE]),
             classes   |-> ("c1" :> FALSE),
             perms     |-> {<<"model", <<"a">>>>, <<"mcp", <<"a">>>>},
             holds     |-> {<<"dev", <<"model", <<"a">>>>>>}],
     minted |-> {"p1", "m1", "f1", "r1", "t1", "t2", "t3", "g1", "s1", "c1"}]

\* What the migrations seed, an administrator, and a caller imported with k1.
MCPeople ==
    [principals |-> (p1 :> [name |-> "root", user |-> TRUE, password |-> TRUE, imported |-> FALSE])
                 @@ (p2 :> [name |-> "app", user |-> FALSE, password |-> FALSE, imported |-> TRUE]),
     roles    |-> (role1 :> "admin") @@ (role2 :> "import:app"),
     members  |-> {<<p1, role1>>, <<p2, role2>>},
     holds    |-> {<<role1, <<v, "*">>>> : v \in {"usage:read", "key:create", "key:revoke", "config:write"}}
                     \cup {<<role2, <<"model:invoke", "model/*">>>>},
     keys     |-> (k1 :> [principal |-> p2, disabled |-> FALSE]),
     sessions |-> (s1 :> p1), limits |-> {p2}, budgets |-> {p2}]

\* The caller's file again, with fewer models and limits.
MCAuthKeys == {[name |-> "app", key |-> k1, models |-> {"model/m"}, limits |-> TRUE, budget |-> FALSE]}

MCInit == half \in {"catalogue", "identities"} /\ Init /\ IdentityInit

MCNext ==
    \/ half = "catalogue" /\ Next /\ UNCHANGED <<half, identities>>
    \/ half = "identities" /\ IdentityNext /\ UNCHANGED <<half, catalogue>>

MCSpec == MCInit /\ [][MCNext]_<<half, catalogue, identities>>
=============================================================================
