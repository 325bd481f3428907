------------------------------- MODULE Routing -------------------------------
(****************************************************************************)
(* How a request becomes a backend: the published snapshot (snapshot.rs),   *)
(* the rules of the frontend model the caller named (routing.rs), and the   *)
(* choice of a backend in the first model's pool (router.rs), while spend,  *)
(* health, load and latency move under them.                                *)
(*                                                                          *)
(* An Option is a set of at most one element, so that "unset" satisfies a   *)
(* condition by having nothing to quantify over.  A prefix hash is a small  *)
(* number whose low part is its affinity slot and whose high part its tag.  *)
(****************************************************************************)
EXTENDS Integers, Sequences, FiniteSets, FiniteSetsExt, SequencesExt

CONSTANTS
  Frontends,       \* the frontend models the control plane builds, by name
  ModelDefs,       \* the provider models it builds: backends, policy, window
  FallbackModel,   \* Option of the deployment-wide fallback
  Facts,           \* the requests: what the rules may look at
  Hashes,        \* prefix hashes
  Slots,           \* slots of the affinity cache
  DayMinutes,      \* minutes in a day
  MaxJumps,        \* MAX_JUMPS
  Policy,          \* the deployment's policy
  KnownProtocols,  \* the protocols this proxy build can speak
  BalanceAbs, BalanceRel,   \* slack of the affine choice: requests, percent
  TokensTotal,     \* the caller's budget
  Spends,          \* what may be spent of it
  MaxLoad,         \* bound on requests in flight at a backend
  Latencies,       \* measured latencies
  MaxWork          \* bound on requests and events

Backends == UNION {{b.uid : b \in ToSet(ModelDefs[m].backends)} : m \in DOMAIN ModelDefs}

ASSUME RoutingAssumption ==
  /\ Slots \in Nat \ {0} /\ DayMinutes \in Nat \ {0} /\ MaxJumps \in Nat
  /\ BalanceAbs \in Nat /\ BalanceRel \in Nat /\ TokensTotal \in Nat
  /\ MaxLoad \in Nat /\ MaxWork \in Nat /\ Hashes \subseteq Nat /\ Latencies \subseteq Nat

VARIABLES
  used,       \* tokens the caller has spent, at the control plane
  published,  \* the spend in the snapshot the proxy holds
  healthy,    \* backends in rotation
  inflight,   \* per backend: requests of this replica
  latency,    \* per backend: Option of its recent mean latency
  engine,     \* per backend: Option of a fresh engine reading of its load
  affinity,   \* per slot: Option of [tag, uid]
  rr,         \* the round-robin cursor
  work

vars == <<used, published, healthy, inflight, latency, engine, affinity, rr, work>>

Least(S) == CHOOSE x \in S : \A y \in S : x <= y

----------------------------------------------------------------------------
(* snapshot.rs: what is published, and what survives the wire *)

\* band: twenty steps of the budget, and one for everything at or over it.
band(spent) ==
  IF TokensTotal = 0 \/ spent >= TokensTotal THEN 21 ELSE (spent * 20) \div TokensTotal

exhausted(spent) == spent >= TokensTotal

\* A refusal loses its status on the way.
ActionToWireBare(a) ==
  [action |-> IF a.kind = "route" THEN {} ELSE {a.kind},
   deny_status |-> {}, jump_to |-> IF a.kind = "jump" THEN {a.to} ELSE {}]

\* to_wire: an action travels as a word and the field that gives it meaning.
ActionToWire(a) ==
  [action |-> IF a.kind = "route" THEN {} ELSE {a.kind},
   deny_status |-> IF a.kind = "deny" THEN {a.status} ELSE {},
   jump_to |-> IF a.kind = "jump" THEN {a.to} ELSE {}]

\* from_wire: an action without the field that gives it meaning is a route.
ActionFromWire(w) ==
  CASE w.action = {"deny"} /\ w.deny_status # {} ->
         [kind |-> "deny", status |-> Least(w.deny_status)]
    [] w.action = {"jump"} /\ w.jump_to # {} ->
         [kind |-> "jump", to |-> CHOOSE n \in w.jump_to : TRUE]
    [] OTHER -> [kind |-> "route"]

RuleOverWire(r) == [r EXCEPT !.action = ActionFromWire(ActionToWire(@))]

FrontendOverWire(f) == [f EXCEPT !.rules = [i \in DOMAIN @ |-> RuleOverWire(@[i])]]

\* A backend whose protocol this build does not know is dropped; a window of
\* zero is no window.
ModelOverWire(m) ==
  [m EXCEPT !.backends = SelectSeq(@, LAMBDA b : b.protocol \in KnownProtocols),
            !.window = {w \in @ : w > 0}]

\* The policy as the proxy holds it; PolicyPropagation has how it changes.
Held == [frontends |-> [n \in DOMAIN Frontends |-> FrontendOverWire(Frontends[n])],
         models |-> [n \in DOMAIN ModelDefs |-> ModelOverWire(ModelDefs[n])]]

\* content_eq and principals_eq_modulo_spend: spend alone is a change only
\* when it crosses a band.
Rebuild ==
  /\ band(used) # band(published)
  /\ published' = used
  /\ UNCHANGED <<used, healthy, inflight, latency, engine, affinity, rr, work>>

----------------------------------------------------------------------------
(* registry.rs: what routing asks of the pools *)

Pool(m) == IF m \in DOMAIN Held.models THEN Held.models[m].backends ELSE <<>>

PoolSet(m) == ToSet(Pool(m))

pool_has_healthy(m) == \E b \in PoolSet(m) : b.uid \in healthy

\* The engine's count while it is fresh, this replica's otherwise.
inflight_for_limit(b) ==
  IF engine[b.uid] = {} THEN inflight[b.uid] ELSE Least(engine[b.uid])

\* The declared window, unless the pool's engines say otherwise: the smallest.
context_length(m) ==
  LET live == UNION {b.window : b \in PoolSet(m)} IN
  IF m \notin DOMAIN Held.models THEN {}
  ELSE IF live # {} THEN {Least(live)} ELSE Held.models[m].window

----------------------------------------------------------------------------
(* routing.rs: the conditions of a rule *)

CallerMatches(c, f) ==
  \/ c.principals = {} /\ c.roles = {}
  \/ \E p \in f.caller : p.id \in c.principals \/ c.roles \cap p.roles # {}

ShapeMatches(c, f) ==
  /\ \A want \in c.stream : want = f.streaming
  /\ \A n \in c.min_prompt : f.prompt >= n
  /\ \A n \in c.max_prompt : f.prompt <= n
  /\ c.min_max_tokens \cup c.max_max_tokens # {} => f.max_tokens # {}
  /\ \A n \in c.min_max_tokens, r \in f.max_tokens : r >= n
  /\ \A n \in c.max_max_tokens, r \in f.max_tokens : r <= n

HeaderMatches(c, f) == c.headers \subseteq f.headers

ClassMatches(c, f) == \A want \in c.class : want \in f.class \cup f.refines

\* The published percentage of the budget; a caller without one never matches.
UsedPercent == IF TokensTotal = 0 THEN {} ELSE {(published * 100) \div TokensTotal}

BudgetMatches(c, f) ==
  c.min_used \cup c.max_used # {} =>
    /\ f.caller # {}
    /\ \E pct \in UsedPercent : /\ \A n \in c.min_used : pct >= n
                                /\ \A n \in c.max_used : pct <= n

\* Some healthy backend of a target is under every ceiling.
LoadMatches(c, targets) ==
  c.max_inflight = {} \/
  \E i \in DOMAIN targets : \E b \in PoolSet(targets[i].model) :
    b.uid \in healthy /\ \A n \in c.max_inflight : inflight_for_limit(b) < n

\* The window between two minutes of the local day, past midnight when it ends
\* before it starts; equal ends are the whole day.
InWindow(after, before, minute) ==
  IF before <= after THEN minute >= after \/ minute < before
  ELSE minute >= after /\ minute < before

TimeMatches(c, f) ==
  LET local == (f.now + c.offset) % (7 * DayMinutes)
      minute == local % DayMinutes
  IN  c.after \cup c.before \cup c.days = {} \/
      /\ c.days # {} => 1 + (local \div DayMinutes) \in c.days
      /\ CASE c.after = {} -> \A b \in c.before : minute < b
           [] c.before = {} -> \A a \in c.after : minute >= a
           [] OTHER -> InWindow(Least(c.after), Least(c.before), minute)

CostMatches(c, cost) ==
  c.min_cost \cup c.max_cost # {} =>
    \E n \in cost : (\A m \in c.min_cost : n >= m) /\ (\A m \in c.max_cost : n <= m)

Matches(r, f, cost) ==
  LET c == r.conditions IN
  /\ ShapeMatches(c, f) /\ ClassMatches(c, f) /\ CallerMatches(c, f)
  /\ BudgetMatches(c, f) /\ CostMatches(c, cost) /\ TimeMatches(c, f)
  /\ HeaderMatches(c, f) /\ LoadMatches(c, r.targets)

----------------------------------------------------------------------------
(* routing.rs: from the targets of a rule to the chain of models *)

Weight(targets) == FoldSeq(LAMBDA t, w : t.weight + w, 0, targets)

\* choose_weighted: the target whose run of weights holds the hash.
choose_weighted(targets, hash) ==
  IF Weight(targets) = 0 THEN targets[1]
  ELSE targets[Least({i \in DOMAIN targets :
                        hash % Weight(targets) < Weight(SubSeq(targets, 1, i))})]

\* target_load: the pool's requests in flight and its best latency, the worst
\* of figures for a model without a pool.
Worst == 1000

TargetInflight(m) ==
  IF m \notin DOMAIN Held.models THEN Worst
  ELSE MapThenSumSet(LAMBDA b : inflight[b.uid], PoolSet(m))

TargetLatency(m) ==
  Least(UNION {latency[b.uid] : b \in PoolSet(m)} \cup {Worst})

\* The first target with the least key, as min_by_key chooses.
FirstLeast(targets, Key(_)) ==
  targets[Least({i \in DOMAIN targets :
                   \A j \in DOMAIN targets : Key(targets[i]) <= Key(targets[j])})]

choose_by_policy(targets, policy, hash) ==
  CASE policy = "least-loaded" -> FirstLeast(targets, LAMBDA t : TargetInflight(t.model))
    [] policy = "lowest-latency" ->
         FirstLeast(targets, LAMBDA t : TargetLatency(t.model) * Worst + TargetInflight(t.model))
    [] policy = "round-robin" -> targets[1 + (hash % Len(targets))]
    [] OTHER -> choose_weighted(targets, hash)

Names(targets) == [i \in DOMAIN targets |-> targets[i].model]

ChosenFirst(first, models) == <<first>> \o SelectSeq(models, LAMBDA m : m # first)

expand_pool(pool, hash) ==
  ChosenFirst((IF pool.policy = {} THEN choose_weighted(pool.members, hash)
               ELSE choose_by_policy(pool.members, CHOOSE p \in pool.policy : TRUE, hash)).model,
              Names(pool.members))

\* Vec::dedup: of a run of equals the first is kept.
dedup(s) ==
  LET kept == SelectSeq([i \in DOMAIN s |-> i], LAMBDA i : i = 1 \/ s[i] # s[i - 1])
  IN  [i \in DOMAIN kept |-> s[kept[i]]]

needed_tokens(f) == f.prompt + (IF f.max_tokens = {} THEN 0 ELSE Least(f.max_tokens))

TooSmall(m, f) == \E w \in context_length(m) : w < needed_tokens(f)

\* sort_by_key on a Boolean, stable: those without it first.
Demote(s, P(_)) == SelectSeq(s, LAMBDA m : ~P(m)) \o SelectSeq(s, P)

Expanded(targets, hash) ==
  FlattenSeq([i \in DOMAIN targets |->
    IF targets[i].members = <<>> THEN <<targets[i].model>> ELSE expand_pool(targets[i], hash)])

FittingFirst(chain, f) ==
  IF needed_tokens(f) = 0 THEN chain ELSE Demote(chain, LAMBDA m : TooSmall(m, f))

order_candidates(targets, hash, f) ==
  FittingFirst(Demote(dedup(Expanded(targets, hash)), LAMBDA m : ~pool_has_healthy(m)), f)

\* estimated_cost: the request at the cheapest priced backend among every
\* target the frontend model names, in millionths of the price unit.
estimated_cost(front, f) ==
  LET targets == ToSet(front.default) \cup UNION {ToSet(r.targets) : r \in ToSet(front.rules)}
      prices == UNION {UNION {b.price : b \in PoolSet(t.model)} : t \in targets}
  IN  IF prices = {} THEN {} ELSE {Least(prices) * needed_tokens(f)}

Nothing == [kind |-> "route", candidates |-> <<>>, via |-> <<>>, rule |-> 0]

\* The first rule that matches, or 0; a jump to an unknown model is passed over.
Deciding(front, f, cost) ==
  {i \in DOMAIN front.rules :
     /\ Matches(front.rules[i], f, cost)
     /\ front.rules[i].action.kind = "jump" => front.rules[i].action.to \in DOMAIN Held.frontends}

LeastOrZero(S) == IF S = {} THEN 0 ELSE Least(S)

\* What rule i of a frontend model says, or its default targets.
Verdict(who, front, i, f, hash) ==
  LET targets == IF i = 0 THEN front.default ELSE front.rules[i].targets
      deny == i # 0 /\ front.rules[i].action.kind = "deny"
  IN  [kind |-> IF deny THEN "deny" ELSE "route", via |-> <<who>>, rule |-> i,
       candidates |-> IF deny THEN <<>> ELSE order_candidates(targets, hash, f)]

Jumped(who, there) == IF there = Nothing THEN Nothing ELSE [there EXCEPT !.via = <<who>> \o @]

\* FrontendModelDef::decide: the first rule that matches decides, in the model
\* it jumps to if it is a jump; after MaxJumps models the chain is given up.
decide(name, f, hash) ==
  LET at[n \in 0..MaxJumps, who \in DOMAIN Held.frontends] ==
        LET front == Held.frontends[who]
            i == LeastOrZero(Deciding(front, f, estimated_cost(front, f)))
        IN  IF n = 0 THEN Nothing
            ELSE IF i # 0 /\ front.rules[i].action.kind = "jump"
              THEN Jumped(who, at[n - 1, front.rules[i].action.to])
              ELSE Verdict(who, front, i, f, hash)
  IN  at[MaxJumps, name]

\* resolve_target_models: an empty chain falls to the deployment's fallback.
OrFallback(d) ==
  IF d.kind = "route" /\ d.candidates = <<>>
    THEN [d EXCEPT !.candidates = SetToSeq(FallbackModel)]
    ELSE d

Resolve(name, f, hash) == OrFallback(decide(name, f, hash))

----------------------------------------------------------------------------
(* router.rs *)

\* pick_tied: the selector-th of the least loaded.
pick_tied(cands, selector) ==
  LET least == Least({inflight[b.uid] : b \in ToSet(cands)})
      tied == SelectSeq(cands, LAMBDA b : inflight[b.uid] = least)
  IN  tied[1 + (selector % Len(tied))]

\* lowest_latency: within an eighth of the best, or not measured yet.
lowest_latency(cands, selector) ==
  LET known == UNION {latency[b.uid] : b \in ToSet(cands)}
      best == Least(known)
      front == SelectSeq(cands, LAMBDA b : \A us \in latency[b.uid] : us <= best + best \div 8)
  IN  IF known = {} THEN pick_tied(cands, selector) ELSE pick_tied(front, selector)

Slot(hash) == hash % Slots

Tag(hash) == hash \div Slots

\* AffinityCache::get.
Sticky(hash) == {e.uid : e \in {e \in affinity[Slot(hash)] : e.tag = Tag(hash)}}

\* The least loaded backend always claims the prefix.
pick_affine_claiming(cands, hash) == <<pick_tied(cands, hash), TRUE>>

\* pick_affine: <<the backend, whether it claims the prefix>>.  A backend that
\* is too hot is passed over for this request only.
pick_affine(cands, hash) ==
  LET least == Least({inflight[b.uid] : b \in ToSet(cands)})
      slack == Max({BalanceAbs, (least * (BalanceRel - 100) + 99) \div 100})
      sticky == SelectSeq(cands, LAMBDA b : b.uid \in Sticky(hash))
  IN  CASE sticky = <<>> -> <<pick_tied(cands, hash), TRUE>>
        [] sticky # <<>> /\ inflight[sticky[1].uid] <= least + slack -> <<sticky[1], FALSE>>
        [] OTHER -> <<pick_tied(cands, hash), FALSE>>

PolicyOf(m) ==
  LET own == Held.models[m].policy IN
  IF own = {} THEN Policy ELSE CHOOSE p \in own : TRUE

\* Router::pick among the healthy backends of a model.
Candidates(m) == SelectSeq(Pool(m), LAMBDA b : b.uid \in healthy)

pick(m, hash) ==
  LET cands == Candidates(m)
      policy == PolicyOf(m)
  IN  CASE Len(cands) = 1 -> <<cands[1], FALSE>>
        [] Len(cands) > 1 /\ policy = "round-robin" -> <<cands[1 + (rr % Len(cands))], FALSE>>
        [] Len(cands) > 1 /\ policy = "least-loaded" -> <<pick_tied(cands, rr), FALSE>>
        [] Len(cands) > 1 /\ policy = "lowest-latency" -> <<lowest_latency(cands, rr), FALSE>>
        [] OTHER -> pick_affine(cands, hash)

\* AffinityCache::put: the one encoding that reads as empty is not stored.
put(hash, uid) ==
  IF Tag(hash) = 0 /\ uid = 0 THEN affinity
  ELSE [affinity EXCEPT ![Slot(hash)] = {[tag |-> Tag(hash), uid |-> uid]}]

\* The cursor moves when a policy without a prefix has a choice to make.
Turned(m) ==
  IF Len(Candidates(m)) > 1 /\ PolicyOf(m) # "cache-affinity" THEN rr + 1 ELSE rr

\* choice: <<the backend, whether it claims the prefix>>.
SendTo(m, hash, choice) ==
  /\ inflight[choice[1].uid] < MaxLoad
  /\ inflight' = [inflight EXCEPT ![choice[1].uid] = @ + 1]
  /\ affinity' = IF choice[2] THEN put(hash, choice[1].uid) ELSE affinity
  /\ rr' = Turned(m)

Usable(chain) == SelectSeq(chain, LAMBDA m : Candidates(m) # <<>>)

SendFirst(usable, hash) ==
  IF usable = <<>> THEN UNCHANGED <<inflight, affinity, rr>>
  ELSE SendTo(usable[1], hash, pick(usable[1], hash))

\* A request is routed; it is sent to the first model of its chain that has a
\* healthy backend.  RequestPath has the attempts after that.
Ask(name, f, hash) ==
  /\ work < MaxWork /\ work' = work + 1
  /\ SendFirst(Usable(Resolve(name, f, hash).candidates), hash)
  /\ UNCHANGED <<used, published, healthy, latency, engine>>

----------------------------------------------------------------------------
(* What moves under the decisions *)

\* A request ends, and its duration becomes part of the backend's mean.
Finish(uid, us) ==
  /\ inflight[uid] > 0
  /\ inflight' = [inflight EXCEPT ![uid] = @ - 1]
  /\ latency' = [latency EXCEPT ![uid] = {us}]
  /\ UNCHANGED <<used, published, healthy, engine, affinity, rr, work>>

Event == work < MaxWork /\ work' = work + 1

\* A backend leaves rotation or returns to it (BackendHealth).
Rotate(uid) ==
  /\ Event
  /\ healthy' = IF uid \in healthy THEN healthy \ {uid} ELSE healthy \cup {uid}
  /\ UNCHANGED <<used, published, inflight, latency, engine, affinity, rr>>

\* A scrape brings the engine's own count, or the last one goes stale.
Scrape(uid, reading) ==
  /\ Event /\ reading # engine[uid]
  /\ engine' = [engine EXCEPT ![uid] = reading]
  /\ UNCHANGED <<used, published, healthy, inflight, latency, affinity, rr>>

\* Usage reports move the caller's spend, and a new window resets it.
Spend(spent) ==
  /\ Event /\ (spent > used \/ spent = 0)
  /\ used' = spent
  /\ UNCHANGED <<published, healthy, inflight, latency, engine, affinity, rr>>

Init ==
  /\ used = 0 /\ published = 0
  /\ healthy = Backends
  /\ inflight = [u \in Backends |-> 0]
  /\ latency = [u \in Backends |-> {}]
  /\ engine = [u \in Backends |-> {}]
  /\ affinity = [s \in 0..(Slots - 1) |-> {}]
  /\ rr = 0 /\ work = 0

Next ==
  \/ \E name \in DOMAIN Frontends, f \in Facts, hash \in Hashes : Ask(name, f, hash)
  \/ Rebuild
  \/ \E uid \in Backends : \/ \E us \in Latencies : Finish(uid, us)
                           \/ Rotate(uid)
                           \/ \E r \in {{}, {MaxLoad}} : Scrape(uid, r)
  \/ \E spent \in Spends : Spend(spent)

Spec == Init /\ [][Next]_vars

----------------------------------------------------------------------------
(* Properties *)

\* Whether a rule of the control plane's own definition decides a request.
Decides(r, front, f) ==
  /\ Matches(r, f, estimated_cost(front, f))
  /\ r.action.kind = "jump" => r.action.to \in DOMAIN Frontends

FirstRule(front, f) ==
  LeastOrZero({i \in DOMAIN front.rules : Decides(front.rules[i], front, f)})

FirstAction(front, f) ==
  IF FirstRule(front, f) = 0 THEN [kind |-> "default"] ELSE front.rules[FirstRule(front, f)].action

JumpTo(name) == [kind |-> "jump", to |-> name]

\* d is what the rules as written make of a request to `name`.
AsWritten(d, name, f) ==
  IF d = Nothing
    THEN \E S \in SUBSET DOMAIN Frontends :
           name \in S /\ \A who \in S : \E to \in S : FirstAction(Frontends[who], f) = JumpTo(to)
    ELSE /\ d.via[1] = name
         /\ \A k \in 1..(Len(d.via) - 1) : FirstAction(Frontends[d.via[k]], f) = JumpTo(d.via[k + 1])
         /\ d.rule = FirstRule(Frontends[Last(d.via)], f)
         /\ d.rule # 0 => FirstAction(Frontends[Last(d.via)], f).kind = d.kind

\* What every proxy does with a request is what the operator wrote, after the
\* trip over the wire: along the jumps taken, the first rule of the control
\* plane's definition that matches decides, a refusal stays a refusal, and a
\* chain without a cycle is never given up.
FirstRuleDecides ==
  \A name \in DOMAIN Frontends, f \in Facts, hash \in Hashes :
    AsWritten(decide(name, f, hash), name, f)

Deciders(d) ==
  LET front == Held.frontends[Last(d.via)] IN
  IF d.rule = 0 THEN front.default ELSE front.rules[d.rule].targets

ModelsOf(t) == IF t.members = <<>> THEN {t.model} ELSE ToSet(Names(t.members))

Rank(m, f) == (IF TooSmall(m, f) THEN 2 ELSE 0) + (IF pool_has_healthy(m) THEN 0 ELSE 1)

Place(m, targets) ==
  Least({i \in DOMAIN targets : m = targets[i].model \/ m \in ToSet(Names(targets[i].members))})

Turn(m, chain) == Least({i \in DOMAIN chain : chain[i] = m})

Ordered(chain, targets, f) ==
  /\ ToSet(chain) = UNION {ModelsOf(t) : t \in ToSet(targets)}
  /\ \A a, b \in ToSet(chain) : Turn(a, chain) < Turn(b, chain) =>
       \/ Rank(a, f) < Rank(b, f)
       \/ Rank(a, f) = Rank(b, f) /\ Place(a, targets) <= Place(b, targets)

Chained(d, f) ==
  d.kind = "route" /\ d.via # <<>> => Ordered(d.candidates, Deciders(d), f)

\* The failover chain of a decision names every model the deciding targets
\* stand for, and never puts a model that is down or too small for the request
\* ahead of one that could serve it: fit before health, and targets otherwise in
\* the order they were written.  (dedup only joins neighbours, so a model that is
\* a target and a member of a pool may also come again later in the chain.)
ChainOrdered ==
  \A name \in DOMAIN Frontends, f \in Facts, hash \in Hashes :
    Chained(decide(name, f, hash), f)

Choosable(m) == {b.uid : b \in ToSet(Candidates(m))}

\* A prefix moves to another backend only when a request needs a model that the
\* one holding its cache cannot be chosen for (out of rotation, or not in the
\* pool), or another prefix takes the slot: a burst of load sheds requests
\* without migrating the prefix (pick_affine).
AffinityKept ==
  [][\A s \in DOMAIN affinity : \A old \in affinity[s], new \in affinity'[s] :
       (old # new /\ old.tag = new.tag) =>
         \E m \in DOMAIN ModelDefs : new.uid \in Choosable(m) /\ old.uid \notin Choosable(m)]_vars

\* The spend a proxy decides by is at most one 5% band behind, and never on the
\* other side of exhaustion, once the rebuild has run (content_eq).
SpendInBand ==
  band(used) = band(published) =>
    /\ exhausted(used) = exhausted(published)
    /\ ~exhausted(used) => (used - published) * 20 < TokensTotal
                           /\ (published - used) * 20 < TokensTotal
=============================================================================
