---------------------------- MODULE LeaderElection ----------------------------
(***************************************************************************)
(* Leader election of the operator's replicas over one Kubernetes Lease    *)
(* (operator/src/lease.rs) and what main does with it: acquire, reconcile  *)
(* while keep renews, exit when keep returns.                              *)
(*                                                                         *)
(* Every API call is sent, takes effect at the API server, and is answered *)
(* in separate steps, MaxCall ticks at the most from first to last.  Time  *)
(* is relative: wait is how long a replica is in its sleep or call, age    *)
(* how long ago renewTime was stamped, saturating past Duration.  The      *)
(* resourceVersion is reduced to the question the server asks of it: is    *)
(* what the replica read still what is stored?                             *)
(***************************************************************************)
EXTENDS Naturals

CONSTANTS
    Replicas, Nobody,
    Duration,      \* LeaderElector::duration
    Renew,         \* LeaderElector::renew
    Prompt,        \* what a call may take for the lease to be long enough
    MaxCall        \* the longest an API call takes

ASSUME ElectionAssumption ==
    /\ Nobody \notin Replicas
    /\ Duration \in Nat /\ Renew \in Nat \ {0} /\ MaxCall \in Nat /\ Prompt \in 0..MaxCall
    /\ Renew + 3 * Prompt <= Duration

VARIABLES
    lease,     \* the Lease object; absent if its holder is Nobody
    mode,      \* "gone", "down", "acquire", "keep", or "retake": try_acquire inside keep
    step,      \* "sleep", "get", "read", "write" or "wrote"
    wait,      \* ticks in the present sleep or call
    got,       \* the record the last get returned, growing older
    current,   \* its resourceVersion is the stored one
    reply,     \* the server's answer to a write
    calm,      \* environment: no more crashes, errors, deletions or slow calls
    deleted,   \* history: somebody deleted the Lease
    slow       \* history: a call took longer than Prompt

election == <<lease, mode, step, wait, got, current, reply, calm, deleted, slow>>

Absent  == [holder |-> Nobody, age |-> 0]
Leading(r) == mode[r] \in {"keep", "retake"}

Running(r) == mode[r] \notin {"down", "gone"}
InCall(r)  == Running(r) /\ step[r] # "sleep"

Older(rec) ==
    [rec EXCEPT !.age = IF rec.holder = Nobody \/ rec.age > Duration THEN @ ELSE @ + 1]

\* expired: now is past renewTime + leaseDurationSeconds.
Expired(rec) == rec.age > Duration

ElectionInit ==
    /\ lease = Absent
    /\ mode = [r \in Replicas |-> "down"] /\ step = [r \in Replicas |-> "sleep"]
    /\ wait = [r \in Replicas |-> 0]
    /\ got = [r \in Replicas |-> Absent] /\ current = [r \in Replicas |-> FALSE]
    /\ reply = [r \in Replicas |-> "none"]
    /\ calm = FALSE /\ deleted = FALSE /\ slow = FALSE

\* Replica r goes on to step s, the clock of that step at zero.
StepTo(r, m, s) ==
    /\ mode' = [mode EXCEPT ![r] = m]
    /\ step' = [step EXCEPT ![r] = s]
    /\ wait' = [wait EXCEPT ![r] = 0]

\* keep returned and main exits, or the process dies.
Exit(r) == StepTo(r, "down", "sleep")

\* What try_acquire's Ok(false) leads to: acquire sleeps and tries again, keep
\* takes the lease for stolen.
NotOurs(r) == IF mode[r] = "acquire" THEN StepTo(r, "acquire", "sleep") ELSE Exit(r)

-----------------------------------------------------------------------------

\* The container starts; acquire tries at once.  POD_NAME is the same as before.
Start(r) ==
    /\ mode[r] = "down"
    /\ StepTo(r, "acquire", "get")
    /\ UNCHANGED <<lease, got, current, reply, calm, deleted, slow>>

\* The sleep of acquire or keep is over: get_opt is sent.
Wake(r) ==
    /\ Running(r) /\ step[r] = "sleep" /\ wait[r] >= Renew
    /\ StepTo(r, mode[r], "get")
    /\ UNCHANGED <<lease, got, current, reply, calm, deleted, slow>>

\* The server answers the get.
Read(r) ==
    /\ step[r] = "get"
    /\ step' = [step EXCEPT ![r] = "read"]
    /\ got' = [got EXCEPT ![r] = lease]
    /\ current' = [current EXCEPT ![r] = TRUE]
    /\ UNCHANGED <<lease, mode, wait, reply, calm, deleted, slow>>

\* try_acquire: ours, expired or absent, hence ours to write.
Vacant(r, rec) == rec.holder \in {Nobody, r} \/ Expired(rec)

\* try_acquire on the record it got: create or replace it, stamped now, or wait.
DecideAcquire(r) ==
    /\ step[r] = "read" /\ mode[r] \in {"acquire", "retake"}
    /\ IF Vacant(r, got[r]) THEN StepTo(r, mode[r], "write") ELSE NotOurs(r)
    /\ UNCHANGED <<lease, got, current, reply, calm, deleted, slow>>

\* Mutant of DecideKeep: another holder is waited out.
DecideKeepWaiting(r) ==
    /\ step[r] = "read" /\ mode[r] = "keep"
    /\ \/ got[r].holder = Nobody /\ StepTo(r, "retake", "get")
       \/ got[r].holder \notin {Nobody, r} /\ StepTo(r, "keep", "sleep")
       \/ got[r].holder = r /\ StepTo(r, "keep", "write")
    /\ UNCHANGED <<lease, got, current, reply, calm, deleted, slow>>

\* keep on the record it got: recreate it, give up, or renew it.
DecideKeep(r) ==
    /\ step[r] = "read" /\ mode[r] = "keep"
    /\ \/ got[r].holder = Nobody /\ StepTo(r, "retake", "get")
       \/ got[r].holder \notin {Nobody, r} /\ Exit(r)
       \/ got[r].holder = r /\ StepTo(r, "keep", "write")
    /\ UNCHANGED <<lease, got, current, reply, calm, deleted, slow>>

\* Mutant of Replaces: a replace without a resourceVersion.
ReplacesBlindly(r) == lease.holder # Nobody \/ current[r]

\* The server takes a create of what is absent, a replace of what was read.
Replaces(r) == current[r]

\* The write reaches the server: done, 409, or 404 for a replace of what is gone.
Land(r) ==
    /\ step[r] = "write"
    /\ step' = [step EXCEPT ![r] = "wrote"]
    /\ IF Replaces(r)
       THEN /\ lease' = [holder |-> r, age |-> wait[r]]
            /\ current' = [s \in Replicas |-> FALSE]
            /\ reply' = [reply EXCEPT ![r] = "ok"]
       ELSE /\ reply' = [reply EXCEPT ![r] = IF lease.holder = Nobody THEN "error"
                                                                      ELSE "conflict"]
            /\ UNCHANGED <<lease, current>>
    /\ UNCHANGED <<mode, wait, got, calm, deleted, slow>>

\* The answer to a write arrives.  keep's 409 means another round.
Answer(r) ==
    /\ step[r] = "wrote"
    /\ \/ reply[r] = "ok" /\ StepTo(r, "keep", "sleep")
       \/ reply[r] = "conflict" /\ IF mode[r] = "keep" THEN StepTo(r, "keep", "sleep")
                                                       ELSE NotOurs(r)
       \/ reply[r] = "error" /\ NotOurs(r)
    /\ reply' = [reply EXCEPT ![r] = "none"]
    /\ UNCHANGED <<lease, got, current, calm, deleted, slow>>

\* Mutant of CallFails: keep retries instead of resigning.
CallFailsRetry(r) ==
    /\ ~calm /\ InCall(r)
    /\ StepTo(r, mode[r], "sleep")
    /\ reply' = [reply EXCEPT ![r] = "none"]
    /\ UNCHANGED <<lease, got, current, calm, deleted, slow>>

\* A call ends in an error, whether or not it took effect: acquire tries again,
\* keep is over.
CallFails(r) ==
    /\ ~calm /\ InCall(r)
    /\ NotOurs(r)
    /\ reply' = [reply EXCEPT ![r] = "none"]
    /\ UNCHANGED <<lease, got, current, calm, deleted, slow>>

\* The process dies.
ReplicaCrash(r) ==
    /\ ~calm /\ Running(r)
    /\ Exit(r)
    /\ reply' = [reply EXCEPT ![r] = "none"]
    /\ UNCHANGED <<lease, got, current, calm, deleted, slow>>

\* The pod goes with its node.  Its successor has another name: it is one of the
\* other replicas, of which one stays.
Evict(r) ==
    /\ ~calm /\ \E s \in Replicas \ {r} : mode[s] # "gone"
    /\ StepTo(r, "gone", "sleep")
    /\ reply' = [reply EXCEPT ![r] = "none"]
    /\ UNCHANGED <<lease, got, current, calm, deleted, slow>>

\* Somebody deletes the Lease.
Delete ==
    /\ ~calm /\ lease.holder # Nobody /\ ~deleted
    /\ lease' = Absent
    /\ current' = [r \in Replicas |-> FALSE]
    /\ deleted' = TRUE
    /\ UNCHANGED <<mode, step, wait, got, reply, calm, slow>>

\* The faults are over.
Calm ==
    /\ ~calm /\ \A r \in Replicas : InCall(r) => wait[r] <= Prompt
    /\ calm' = TRUE
    /\ UNCHANGED <<lease, mode, step, wait, got, current, reply, deleted, slow>>

\* How long replica r may stay where it is; a sleep that overruns counts as part
\* of the call after it.
Limit(r) ==
    IF step[r] = "sleep" THEN Renew ELSE IF calm THEN Prompt ELSE MaxCall

\* The record replica r has in hand; between its rounds there is none.
InHand(r) == step[r] \in {"read", "write"}

Tick ==
    /\ \A r \in Replicas : Running(r) => wait[r] < Limit(r)
    /\ wait' = [r \in Replicas |-> IF Running(r) THEN wait[r] + 1 ELSE 0]
    /\ lease' = Older(lease)
    /\ got' = [r \in Replicas |-> IF InHand(r) THEN Older(got[r]) ELSE Absent]
    /\ current' = [r \in Replicas |-> InHand(r) /\ current[r]]
    /\ slow' = (slow \/ \E r \in Replicas : InCall(r) /\ wait[r] >= Prompt)
    /\ UNCHANGED <<mode, step, reply, calm, deleted>>

Step(r) ==
    Wake(r) \/ Read(r) \/ DecideAcquire(r) \/ DecideKeep(r) \/ Land(r) \/ Answer(r)

ElectionNext ==
    \/ \E r \in Replicas : Start(r) \/ Step(r) \/ CallFails(r) \/ ReplicaCrash(r) \/ Evict(r)
    \/ Delete \/ Calm \/ Tick

ElectionSpec == ElectionInit /\ [][ElectionNext]_election

(***************************************************************************)
(* The kubelet restarts a container that exited, timers fire, calls are    *)
(* answered, and time passes.  Faults need not stop.                       *)
(***************************************************************************)
ElectionFairness ==
    /\ \A r \in Replicas : WF_election(Start(r)) /\ WF_election(Step(r))
    /\ WF_election(Tick)

ElectionFairSpec == ElectionSpec /\ ElectionFairness

-----------------------------------------------------------------------------
(***************************************************************************)
(* Properties.                                                             *)
(***************************************************************************)

Records == [holder : Replicas \cup {Nobody}, age : 0..(Duration + MaxCall + 1)]

\* Types; no replica stays in a sleep or a call beyond its limit.
ElectionTypeOK ==
    /\ lease \in Records
    /\ mode \in [Replicas -> {"gone", "down", "acquire", "keep", "retake"}]
    /\ step \in [Replicas -> {"sleep", "get", "read", "write", "wrote"}]
    /\ wait \in [Replicas -> Nat] /\ \A r \in Replicas : wait[r] <= Limit(r)
    /\ got \in [Replicas -> Records]
    /\ current \in [Replicas -> BOOLEAN]
    /\ reply \in [Replicas -> {"none", "ok", "conflict", "error"}]
    /\ calm \in BOOLEAN /\ deleted \in BOOLEAN /\ slow \in BOOLEAN

\* Two replicas never reconcile at once, through crashes, failed calls, restarts
\* and simultaneous takeovers, as long as calls are prompt -- the lease outlasts a
\* sleep and three of them -- and nobody deletes the Lease (LeaderElector::duration:
\* "Longer than `renew` by enough").
OneLeader ==
    ~deleted /\ ~slow => \A r, s \in Replicas : Leading(r) /\ Leading(s) => r = s

\* "two candidates taking over an expired lease at the same moment cannot both
\* win": the record passes from one replica to another only when it has expired,
\* although it was judged when it was read and is written later.
TakeoverOnlyExpired ==
    [][lease.holder # Nobody /\ lease'.holder \notin {Nobody, lease.holder}
         => Expired(lease)]_election

\* A leader whose record another replica holds never writes it again, so it
\* cannot fight the new leader for the lease.
UsurpedNeverRenews ==
    [][\A r \in Replicas :
         mode[r] = "keep" /\ lease.holder \notin {Nobody, r} => lease'.holder # r]_election

\* The resourceVersion does what the module says of it (try_acquire, keep): the
\* record changes hands only when it has run out, and a leader that lost it never
\* writes it again, whatever was read before and is written late.
LeaseRespected == TakeoverOnlyExpired /\ UsurpedNeverRenews

\* A leader that lost the record does not go on: "A lost leader stops reconciling
\* and exits" -- or, where the Lease was deleted under it, has it back by
\* try_acquire, which is a takeover like any other.
LostLeaderStops ==
    \A r \in Replicas :
        Leading(r) /\ lease.holder \notin {Nobody, r} ~> ~Leading(r) \/ lease.holder = r

\* Once faults cease there is a leader for good, whoever held the lease before
\* and whatever state it was left in.
SomeoneLeads == <>calm => <>[](\E r \in Replicas : Leading(r))

\* Leadership ends where it is lost and is found again where nobody has it
\* (acquire, keep and main's exit).
Leadership == LostLeaderStops /\ SomeoneLeads

-----------------------------------------------------------------------------
(***************************************************************************)
(* The inductive invariant behind the theorems of OperatorProofs.    *)
(***************************************************************************)

DownSleeps == \A r \in Replicas : ~Running(r) => step[r] = "sleep"

\* The resourceVersion: what was read and is current is what is stored.
CurrentIsStored == \A r \in Replicas : current[r] => got[r] = lease

\* A write that will be accepted is as justified now as when it was decided on.
WriterEntitled ==
    \A r \in Replicas :
        step[r] = "write" /\ current[r]
            => Vacant(r, lease) /\ (mode[r] = "keep" => lease.holder = r)

CallsPrompt == ~slow => \A r \in Replicas : InCall(r) => wait[r] <= Prompt

\* A replica that leads, or whose takeover is done but not answered.
Owns(r) == Leading(r) \/ (mode[r] = "acquire" /\ step[r] = "wrote" /\ reply[r] = "ok")

\* How old the owner's record may be, step by step of its round.
MaxAge(r) ==
    CASE step[r] = "sleep" -> Prompt + wait[r]
      [] step[r] \in {"get", "read"} -> Prompt + Renew + wait[r]
      [] step[r] = "write" -> 2 * Prompt + Renew + wait[r]
      [] step[r] = "wrote" -> wait[r]

OwnerHolds(r) ==
    /\ lease.holder = r /\ lease.age <= MaxAge(r)
    /\ mode[r] # "retake"
    /\ step[r] \in {"read", "write"} => current[r]
    /\ step[r] = "wrote" => reply[r] = "ok"

OwnersHold == ~deleted /\ ~slow => \A r \in Replicas : Owns(r) => OwnerHolds(r)

ElectionIInv == /\ ElectionTypeOK /\ DownSleeps /\ CurrentIsStored /\ WriterEntitled /\ CallsPrompt
        /\ OwnersHold

=============================================================================
