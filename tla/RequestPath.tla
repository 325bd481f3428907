----------------------------- MODULE RequestPath -----------------------------
(***************************************************************************)
(* A request through proxy_request (src/proxy.rs): body, routing, grants,  *)
(* policy, then two nested loops -- over the backends of a model and over  *)
(* the models of its chain -- and at last a sibling replica.  Requests     *)
(* compete for the slots of the backends' gates while health changes under *)
(* them at every await.                                                    *)
(*                                                                         *)
(* The gate is reduced to its slots (module Admission has its inside), the *)
(* retry budget's answer and what the upstream does are nondeterministic.  *)
(* A forwarded request runs the same code on the peer: its hop count goes  *)
(* up and it starts over.                                                  *)
(***************************************************************************)
EXTENDS Naturals, Sequences, FiniteSets

CONSTANTS
    Requests, Models, Backends, NoBackend,
    Pool,         \* Pool[m]: the backends of a model, none if it is not served
    Routes,       \* the candidate lists routing may decide on
    Granted,      \* the models the caller may invoke
    Fallback,     \* snapshot.fallback_model
    Slots,        \* slots of each backend's gate
    MaxRetries    \* max_retries

ASSUME PathAssumption ==
    /\ IsFiniteSet(Requests) /\ NoBackend \notin Backends
    /\ Pool \in [Models -> SUBSET Backends]
    /\ Routes \subseteq Seq(Models) /\ Granted \subseteq Models /\ Fallback \in Models
    /\ Slots \in Nat \ {0} /\ MaxRetries \in Nat

VARIABLES
    stage,      \* where the request is
    chain,      \* routable: the models left to it, in order
    via,        \* it named a frontend model
    idx,        \* model_index
    attempt,    \* the inner loop's counter
    tried,      \* tried
    at,         \* the backend picked for this attempt
    hold,       \* the backend whose slot its guard holds
    last,       \* last_error, by kind: a saturated one is `saturated`
    hop,        \* replicas it was forwarded through
    answer,     \* what the client was told
    free,       \* free slots of each gate
    healthy     \* environment: Backend::is_healthy

loop   == <<idx, attempt, tried, at>>
locals == <<chain, via, loop, last, hop>>
vars == <<stage, chain, via, idx, attempt, tried, at, hold, last, hop, answer,
          free, healthy>>

Stages == {"body", "resolve", "policy", "pick", "gate", "sent", "backoff", "answering",
           "end", "done"}

Init ==
    /\ stage = [r \in Requests |-> "body"]
    /\ chain = [r \in Requests |-> <<>>]
    /\ via = [r \in Requests |-> FALSE]
    /\ idx = [r \in Requests |-> 1] /\ attempt = [r \in Requests |-> 0]
    /\ tried = [r \in Requests |-> {}]
    /\ at = [r \in Requests |-> NoBackend] /\ hold = [r \in Requests |-> NoBackend]
    /\ last = [r \in Requests |-> "none"]
    /\ hop = [r \in Requests |-> 0]
    /\ answer = [r \in Requests |-> "none"]
    /\ free = [b \in Backends |-> Slots]
    /\ healthy \in [Backends -> BOOLEAN]

\* proxy_request returns or is dropped, and its locals are gone.
Leave(r, to, what) ==
    /\ stage' = [stage EXCEPT ![r] = to] /\ answer' = [answer EXCEPT ![r] = what]
    /\ chain' = [chain EXCEPT ![r] = <<>>] /\ via' = [via EXCEPT ![r] = FALSE]
    /\ idx' = [idx EXCEPT ![r] = 1] /\ attempt' = [attempt EXCEPT ![r] = 0]
    /\ tried' = [tried EXCEPT ![r] = {}] /\ at' = [at EXCEPT ![r] = NoBackend]
    /\ last' = [last EXCEPT ![r] = "none"] /\ hop' = [hop EXCEPT ![r] = 0]

Finish(r, what) == Leave(r, "done", what)

Goto(r, to) == stage' = [stage EXCEPT ![r] = to] /\ UNCHANGED answer

\* The InflightGuard goes out of scope, and with it the permit.
DropGuard(r) ==
    /\ free' = [b \in Backends |-> IF b = hold[r] THEN free[b] + 1 ELSE free[b]]
    /\ hold' = [hold EXCEPT ![r] = NoBackend]

-----------------------------------------------------------------------------
(***************************************************************************)
(* Before the loops.                                                       *)
(***************************************************************************)

\* reserve_body found no room for the body.
BodyRefused(r) ==
    /\ stage[r] = "body"
    /\ Finish(r, "503")
    /\ UNCHANGED <<hold, free, healthy>>

\* The body is collected and names a model, or it is the client's error.
CollectBody(r) ==
    /\ stage[r] = "body"
    /\ (Goto(r, "resolve") /\ UNCHANGED locals) \/ Finish(r, "4xx")
    /\ UNCHANGED <<hold, free, healthy>>

\* The members of s that are in M, in their order: filter on the candidate list,
\* with the n-th kept position named outright instead of by recursion.
Only(s, M) ==
    LET kept == {i \in 1..Len(s) : s[i] \in M}
    IN  [n \in 1..Cardinality(kept) |->
            s[CHOOSE i \in kept : Cardinality({j \in kept : j < i}) = n - 1]]

Served(s) == Only(s, {m \in Models : Pool[m] # {}})

WithFallback(s) ==
    IF \E i \in 1..Len(s) : s[i] = Fallback THEN s ELSE Append(s, Fallback)

\* The chain the caller may use: a grant on the frontend model covers all of
\* it, and a model named directly needs its own.
Routable(s, front, frontGranted) ==
    IF front THEN IF frontGranted THEN Served(WithFallback(s)) ELSE <<>>
    ELSE Only(Served(WithFallback(s)), Granted)

\* resolve_target_models and the grants: not served is said before not allowed.
Resolve(r) ==
    /\ stage[r] = "resolve"
    /\ \E s \in Routes, front \in BOOLEAN, frontGranted \in BOOLEAN :
         LET served == Served(WithFallback(s))
             ok     == Routable(s, front, frontGranted)
         IN  \/ served = <<>> /\ Finish(r, "404")
             \/ served # <<>> /\ ok = <<>> /\ Finish(r, "403")
             \/ /\ ok # <<>> /\ Goto(r, "policy")
                /\ chain' = [chain EXCEPT ![r] = ok] /\ via' = [via EXCEPT ![r] = front]
                /\ UNCHANGED <<loop, last, hop>>
    /\ UNCHANGED <<hold, free, healthy>>

\* Budget, rate limit and cache: answered from the cache, or on to the
\* loops.
Policy(r) ==
    /\ stage[r] = "policy"
    /\ Finish(r, "4xx") \/ Finish(r, "ok") \/ (Goto(r, "pick") /\ UNCHANGED locals)
    /\ UNCHANGED <<hold, free, healthy>>

-----------------------------------------------------------------------------
(***************************************************************************)
(* The loops.                                                              *)
(***************************************************************************)
PoolOf(r)       == Pool[chain[r][idx[r]]]
MoreModels(r)   == idx[r] < Len(chain[r])
HasCandidate(r) == PoolOf(r) \ tried[r] # {}

\* The inner loop breaks: the next model, or the end of the chain.
NextModel(r) ==
    /\ idx' = [idx EXCEPT ![r] = @ + 1]
    /\ attempt' = [attempt EXCEPT ![r] = 0]
    /\ tried' = [tried EXCEPT ![r] = {}]
    /\ at' = [at EXCEPT ![r] = NoBackend]
    /\ Goto(r, IF MoreModels(r) THEN "pick" ELSE "end")

\* The inner loop continues.
NextAttempt(r) ==
    /\ attempt' = [attempt EXCEPT ![r] = @ + 1]
    /\ at' = [at EXCEPT ![r] = NoBackend]
    /\ Goto(r, "pick")
    /\ UNCHANGED <<idx, tried>>

\* Mutant of Available: an ejected backend is never tried, not even at the end.
AvailableHealthyOnly(r) == {b \in PoolOf(r) \ tried[r] : healthy[b]}

\* What pick, or on the last model pick_ejected, may choose from.
Available(r) ==
    LET untried == PoolOf(r) \ tried[r]
        fit     == {b \in untried : healthy[b]}
    IN  IF fit # {} THEN fit ELSE IF MoreModels(r) THEN {} ELSE untried

\* No attempt left or nothing to pick.
PickNone(r) ==
    /\ stage[r] = "pick"
    /\ attempt[r] > MaxRetries \/ Available(r) = {}
    /\ NextModel(r)
    /\ UNCHANGED <<chain, via, hold, last, hop, free, healthy>>

\* A backend is picked and the gate asked: at once if a sibling is left to try,
\* waiting if not.  A body that cannot be rewritten for it ends the request.
PickOne(r) ==
    /\ stage[r] = "pick" /\ attempt[r] <= MaxRetries
    /\ \E b \in Available(r) :
         LET alone == PoolOf(r) \ (tried[r] \cup {b}) = {} IN
         \/ Finish(r, "4xx") /\ UNCHANGED <<hold, free>>
         \/ /\ tried' = [tried EXCEPT ![r] = @ \cup {b}]
            /\ \/ /\ alone
                  /\ at' = [at EXCEPT ![r] = b]
                  /\ Goto(r, "gate")
                  /\ UNCHANGED <<attempt, hold, last, free>>
               \/ /\ ~alone /\ free[b] > 0
                  /\ at' = [at EXCEPT ![r] = b]
                  /\ hold' = [hold EXCEPT ![r] = b]
                  /\ free' = [free EXCEPT ![b] = @ - 1]
                  /\ Goto(r, "sent")
                  /\ UNCHANGED <<attempt, last>>
               \/ /\ ~alone /\ free[b] = 0
                  /\ last' = [last EXCEPT ![r] = "saturated"]
                  /\ attempt' = [attempt EXCEPT ![r] = @ + 1]
                  /\ Goto(r, "pick")
                  /\ UNCHANGED <<at, hold, free>>
            /\ UNCHANGED <<chain, via, idx, hop>>
    /\ UNCHANGED healthy

\* admit: the slot comes.
GateGrant(r) ==
    /\ stage[r] = "gate" /\ free[at[r]] > 0
    /\ hold' = [hold EXCEPT ![r] = at[r]]
    /\ free' = [free EXCEPT ![at[r]] = @ - 1]
    /\ Goto(r, "sent")
    /\ UNCHANGED <<chain, via, loop, last, hop, healthy>>

\* admit: the queue is full or max_wait is over.
GateRefuse(r) ==
    /\ stage[r] = "gate"
    /\ last' = [last EXCEPT ![r] = "saturated"]
    /\ IF MoreModels(r) THEN NextModel(r) ELSE NextAttempt(r)
    /\ UNCHANGED <<chain, via, hold, hop, free, healthy>>

\* No headers in time, or no connection: on while there is somewhere to go and
\* the retry budget allows it.
NoAnswer(r, allowed) ==
    /\ stage[r] = "sent"
    /\ last' = [last EXCEPT ![r] = "unreachable"]
    /\ DropGuard(r)
    /\ IF (~HasCandidate(r) /\ MoreModels(r)) \/ ~allowed
         THEN NextModel(r) ELSE NextAttempt(r)
    /\ UNCHANGED <<chain, via, hop, healthy>>

\* 5xx or 429: another backend of the model after a pause, the next model, or
\* the client.  The guard lives on during the pause.
RetryableStatus(r, allowed) ==
    /\ stage[r] = "sent"
    /\ LET retries == attempt[r] < MaxRetries /\ HasCandidate(r) /\ allowed IN
       \/ /\ retries
          /\ last' = [last EXCEPT ![r] = "status"]
          /\ Goto(r, "backoff")
          /\ UNCHANGED <<chain, via, loop, hop, hold, free>>
       \/ /\ ~retries /\ MoreModels(r)
          /\ last' = [last EXCEPT ![r] = "status"]
          /\ DropGuard(r)
          /\ NextModel(r)
          /\ UNCHANGED <<chain, via, hop>>
       \/ /\ ~retries /\ ~MoreModels(r)
          /\ Leave(r, "answering", "upstream")
          /\ UNCHANGED <<hold, free>>
    /\ UNCHANGED healthy

\* Mutant of BackoffOver: the guard of the failed attempt is kept.
BackoffOverHolding(r) ==
    /\ stage[r] = "backoff"
    /\ NextAttempt(r)
    /\ UNCHANGED <<chain, via, hold, last, hop, free, healthy>>

\* The pause is over and the attempt's guard goes out of scope.
BackoffOver(r) ==
    /\ stage[r] = "backoff"
    /\ DropGuard(r)
    /\ NextAttempt(r)
    /\ UNCHANGED <<chain, via, last, hop, healthy>>

\* Any other status is the client's answer, its guard riding on the body.
OtherStatus(r) ==
    /\ stage[r] = "sent"
    /\ \E what \in {"ok", "upstream"} : Leave(r, "answering", what)
    /\ UNCHANGED <<hold, free, healthy>>

\* The body is through; one being buffered for the cache may break off, which
\* turns the success into a 502.
BodyThrough(r) ==
    /\ stage[r] = "answering"
    /\ DropGuard(r)
    /\ stage' = [stage EXCEPT ![r] = "done"]
    /\ answer' \in {answer, IF answer[r] = "ok" THEN [answer EXCEPT ![r] = "502"] ELSE answer}
    /\ UNCHANGED <<locals, healthy>>

-----------------------------------------------------------------------------
(***************************************************************************)
(* After the loops.                                                        *)
(***************************************************************************)

\* The chain ended on a saturated engine, or no sibling is left to ask.
GiveUp(r) ==
    /\ stage[r] = "end"
    /\ Finish(r, IF last[r] = "saturated" THEN "503" ELSE "502")
    /\ UNCHANGED <<hold, free, healthy>>

\* Mutant of ForwardToPeer: the forwarded mark is not looked at.
ForwardToAnyPeer(r) ==
    /\ stage[r] = "end" /\ last[r] # "saturated"
    /\ Goto(r, "body")
    /\ hop' = [hop EXCEPT ![r] = 1]
    /\ idx' = [idx EXCEPT ![r] = 1] /\ attempt' = [attempt EXCEPT ![r] = 0]
    /\ tried' = [tried EXCEPT ![r] = {}] /\ at' = [at EXCEPT ![r] = NoBackend]
    /\ last' = [last EXCEPT ![r] = "none"]
    /\ UNCHANGED <<chain, via, hold, free, healthy>>

\* forward_to_peer: one hop, and never for a saturated engine.
ForwardToPeer(r) ==
    /\ stage[r] = "end" /\ last[r] # "saturated" /\ hop[r] = 0
    /\ Goto(r, "body")
    /\ hop' = [hop EXCEPT ![r] = 1]
    /\ idx' = [idx EXCEPT ![r] = 1] /\ attempt' = [attempt EXCEPT ![r] = 0]
    /\ tried' = [tried EXCEPT ![r] = {}] /\ at' = [at EXCEPT ![r] = NoBackend]
    /\ last' = [last EXCEPT ![r] = "none"]
    /\ UNCHANGED <<chain, via, hold, free, healthy>>

\* The client hangs up: the future is dropped wherever it waits.
ClientGone(r) ==
    /\ stage[r] \in {"body", "gate", "sent", "backoff", "answering"}
    /\ Finish(r, "gone")
    /\ DropGuard(r)
    /\ UNCHANGED healthy

\* Probes and traffic take backends out of rotation and bring them back.
HealthChanges ==
    /\ \E b \in Backends : healthy' = [healthy EXCEPT ![b] = ~@]
    /\ UNCHANGED <<stage, chain, via, loop, hold, last, hop, answer, free>>

Upstream(r) ==
    \/ \E allowed \in BOOLEAN : NoAnswer(r, allowed) \/ RetryableStatus(r, allowed)
    \/ OtherStatus(r)

Step(r) ==
    \/ BodyRefused(r) \/ CollectBody(r) \/ Resolve(r) \/ Policy(r)
    \/ PickNone(r) \/ PickOne(r) \/ GateGrant(r) \/ GateRefuse(r)
    \/ Upstream(r) \/ BackoffOver(r) \/ GiveUp(r) \/ ForwardToPeer(r)

Next ==
    \/ \E r \in Requests : Step(r) \/ BodyThrough(r) \/ ClientGone(r)
    \/ HealthChanges

Spec == Init /\ [][Next]_vars

(***************************************************************************)
(* Every await of proxy_request up to the answer's headers has a deadline: *)
(* the body budget, the gate's max_wait, the headers timeout, the backoff. *)
(* Nothing is assumed of streamed bodies, so a slot may never come back.   *)
(***************************************************************************)
FairSpec == Spec /\ \A r \in Requests : WF_vars(Step(r))

-----------------------------------------------------------------------------
(***************************************************************************)
(* Properties.                                                             *)
(***************************************************************************)

\* Types; no gate has more free slots than slots.
TypeOK ==
    /\ stage \in [Requests -> Stages]
    /\ chain \in [Requests -> Seq(Models)] /\ idx \in [Requests -> Nat \ {0}]
    /\ \A r \in Requests : idx[r] <= Len(chain[r]) + 1
    /\ via \in [Requests -> BOOLEAN]
    /\ attempt \in [Requests -> 0..(MaxRetries + 1)]
    /\ tried \in [Requests -> SUBSET Backends]
    /\ at \in [Requests -> Backends \cup {NoBackend}]
    /\ hold \in [Requests -> Backends \cup {NoBackend}]
    /\ last \in [Requests -> {"none", "saturated", "unreachable", "status"}]
    /\ hop \in [Requests -> 0..1]
    /\ answer \in [Requests -> {"none", "ok", "upstream", "4xx", "403", "404", "502", "503",
                                "gone"}]
    /\ free \in [Backends -> 0..Slots]
    /\ healthy \in [Backends -> BOOLEAN]

\* Nobody waits at a gate with a slot of another gate in hand: failing over
\* gives the old slot back first, so requests failing over towards each other
\* cannot starve each other (InflightGuard's scope in the retry loop).
NoHoldAndWait ==
    \A r \in Requests : stage[r] \in {"pick", "gate", "end"} => hold[r] = NoBackend

\* An answer the upstream gave is never traded for a synthetic one: a chain that
\* ends in 502 ended on an attempt that got no answer, whatever health did
\* between has_candidate and the next pick.
UpstreamVerdictKept ==
    \A r \in Requests : stage[r] = "end" => last[r] # "status"

\* Failover only ever moves to a model the caller was granted, the deployment's
\* fallback model included, unless the grant is on the frontend model.
GrantedOnly ==
    \A r \in Requests :
        stage[r] \in {"gate", "sent", "backoff"} /\ ~via[r]
            => chain[r][idx[r]] \in Granted

\* Every slot of a gate is free or in the hand of exactly one request, through
\* every early return, failover and hang-up (InflightGuard's drop).
SlotsCounted ==
    \A b \in Backends : free[b] + Cardinality({r \in Requests : hold[r] = b}) = Slots

\* Slots are where the code says they are (InflightGuard, admit_to_gate): counted
\* once, and none in the hand of a request that waits for another.
SlotsSound == TypeOK /\ NoHoldAndWait /\ SlotsCounted

\* What failing over may do to an answer and to a grant (proxy_request's loop):
\* it never replaces what the upstream said, and never serves what the caller
\* was not given.
FailoverHonest == UpstreamVerdictKept /\ GrantedOnly

\* Every request is answered: retries, failover and forwarding come to an end
\* although backends flap and slots may never be returned.
EveryRequestAnswered ==
    \A r \in Requests : <>(stage[r] \in {"answering", "done"})

-----------------------------------------------------------------------------
(***************************************************************************)
(* The inductive invariant behind the theorems of RequestPathProofs.       *)
(***************************************************************************)

\* Only a request that was sent, or is being answered, has a guard.
GuardPlace ==
    \A r \in Requests : hold[r] # NoBackend => stage[r] \in {"sent", "backoff", "answering"}

\* The chain was filtered: every model of it is served, and granted unless the
\* grant is on the frontend model.
ChainFiltered ==
    \A r \in Requests : \A i \in 1..Len(chain[r]) :
        Pool[chain[r][i]] # {} /\ (~via[r] => chain[r][i] \in Granted)

\* Where the loops' counters can be at each stage.
LoopBounds ==
    \A r \in Requests :
        /\ stage[r] \in {"body", "resolve", "policy"} =>
               idx[r] = 1 /\ attempt[r] = 0 /\ tried[r] = {} /\ last[r] = "none"
        /\ stage[r] \in {"policy", "pick", "gate", "sent", "backoff"} => idx[r] <= Len(chain[r])
        /\ stage[r] \in {"gate", "sent", "backoff"} => attempt[r] <= MaxRetries
        /\ stage[r] = "gate" => at[r] \in Backends

\* A status in hand is only kept for later while there is somewhere to go: an
\* attempt and an untried backend of this model, or another model.
VerdictPending ==
    \A r \in Requests :
        /\ stage[r] = "backoff" => attempt[r] < MaxRetries /\ HasCandidate(r)
        /\ stage[r] = "pick" /\ last[r] = "status" /\ ~MoreModels(r) =>
               attempt[r] <= MaxRetries /\ HasCandidate(r)

IInv ==
    /\ TypeOK /\ SlotsCounted /\ GuardPlace /\ ChainFiltered /\ LoopBounds
    /\ VerdictPending /\ UpstreamVerdictKept
=============================================================================
