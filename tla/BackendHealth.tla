---------------------------- MODULE BackendHealth ----------------------------
(***************************************************************************)
(* Whether one backend is in rotation on one replica (src/registry.rs,     *)
(* Backend) and the tasks that decide it:                                  *)
(*   - requests, which time out or answer (proxy.rs: note_timeout,         *)
(*     reset_timeout_count);                                               *)
(*   - the scraper (engine_scrape.rs: check_stall);                        *)
(*   - the prober (health.rs: mark_probe_ok, mark_probe_failed);           *)
(*   - the health report's answer (state.rs: apply_fleet_verdict ->        *)
(*     reconsider).                                                        *)
(* Their methods are runs of relaxed atomic operations on shared fields,   *)
(* so a method is several steps here.  Consecutive operations of a method  *)
(* share a step only where no interleaving with another task's operations  *)
(* could tell them apart.                                                  *)
(*                                                                         *)
(* A tick is one probe interval: there is at most one probe in it, and no  *)
(* method, a handful of atomic operations, is suspended across it.  Clocks *)
(* are relative: timer is what is left of the traffic ejection, since how  *)
(* long ago it began.  Counters compared with a threshold saturate at it.  *)
(***************************************************************************)
EXTENDS Naturals

CONSTANTS
    Reqs,                    \* concurrently completing requests
    Prober, Scraper, Fleet,  \* the background tasks
    UnhealthyAfter,          \* failed probes before ejection
    TimeoutThreshold,        \* consecutive_timeout_threshold
    StallThreshold,          \* frozen samples before ejection
    Base, Ceiling,           \* BASE_MS and CEILING_MS, in ticks
    Forgive,                 \* FORGIVE_MS, in ticks
    MaxStreak                \* the streak at which the shift stops growing

ASSUME HealthAssumption ==
    /\ Prober \notin Reqs /\ Scraper \notin Reqs /\ Fleet \notin Reqs
    /\ Prober # Scraper /\ Prober # Fleet /\ Scraper # Fleet
    /\ UnhealthyAfter \in Nat \ {0} /\ TimeoutThreshold \in Nat \ {0}
    /\ StallThreshold \in Nat \ {0}
    /\ Base \in Nat \ {0} /\ Ceiling \in Nat /\ Base <= Ceiling
    /\ Forgive \in Nat /\ MaxStreak \in Nat

VARIABLES
    healthy, failures, timeouts, stalls, byTraffic, unconfirmed,
    streak, timer, since, moved,
    pc,           \* where each task is
    backoff,      \* the backoff an ejecting task has computed
    probed,       \* this interval's probe has been sent
    engine,       \* environment: "up", "wedged" (probes pass), "down"
    failRun       \* history: failed probes in a row

counters == <<failures, timeouts, stalls>>
ejection == <<byTraffic, streak, timer, since>>
local    == <<moved, backoff, probed, engine, failRun>>
vars == <<healthy, failures, timeouts, stalls, byTraffic, unconfirmed, streak,
          timer, since, moved, pc, backoff, probed, engine, failRun>>

Tasks    == Reqs \cup {Prober, Scraper, Fleet}
Ejectors == Reqs \cup {Scraper}

Sat(n, cap) == IF n >= cap THEN cap ELSE n

\* BASE_MS << streak.min(4), at most CEILING_MS.
Backoff(k) ==
    LET grown == Base * 2^Sat(k, MaxStreak)
    IN  IF grown \in 0..Ceiling THEN grown ELSE Ceiling

\* A backend starts in rotation with nothing held against it; last_ejected_ms
\* is 0, longer ago than FORGIVE_MS.
Init ==
    /\ healthy = TRUE /\ unconfirmed = FALSE /\ byTraffic = FALSE
    /\ failures = 0 /\ timeouts = 0 /\ stalls = 0
    /\ streak = 0 /\ timer = 0 /\ since = Forgive + 1
    /\ moved = FALSE
    /\ pc = [t \in Tasks |-> "idle"]
    /\ backoff = [t \in Ejectors |-> 0]
    /\ probed = FALSE
    /\ engine = "up"
    /\ failRun = 0

Goto(t, from, to) == pc[t] = from /\ pc' = [pc EXCEPT ![t] = to]

\* What this replica tells the fleet of the backend.
ReportsHealthy == healthy /\ ~unconfirmed

-----------------------------------------------------------------------------
(***************************************************************************)
(* Requests and the scraper: evidence from traffic.                        *)
(***************************************************************************)

\* Headers or a refused connection, anything but a timeout: reset_timeout_count.
Answered(r) ==
    /\ engine # "wedged"
    /\ Goto(r, "idle", "idle")
    /\ timeouts' = 0
    /\ UNCHANGED <<healthy, failures, stalls, ejection, unconfirmed, local>>

\* note_timeout: the fetch_add and the comparison with the threshold.
NoteTimeout(r) ==
    /\ engine # "up"
    /\ Goto(r, "idle", IF timeouts + 1 >= TimeoutThreshold THEN "check" ELSE "idle")
    /\ timeouts' = Sat(timeouts + 1, TimeoutThreshold)
    /\ UNCHANGED <<healthy, failures, stalls, ejection, unconfirmed, local>>

\* note_timeout: consecutive_timeouts.store(0) after the ejection.
ClearTimeouts(r) ==
    /\ Goto(r, "clear", "idle")
    /\ timeouts' = 0
    /\ UNCHANGED <<healthy, failures, stalls, ejection, unconfirmed, local>>

\* check_stall on a sample that moved (only a working engine's does), or with
\* nothing running.
SampleAlive ==
    /\ engine # "down"
    /\ Goto(Scraper, "idle", "idle")
    /\ stalls' = 0
    /\ moved' \in {moved, moved \/ engine = "up"}
    /\ UNCHANGED <<healthy, failures, timeouts, ejection, unconfirmed, backoff, probed,
                   engine, failRun>>

\* check_stall on a frozen sample: evidence only once counters ever moved.
SampleFrozen ==
    /\ engine = "wedged" /\ moved
    /\ Goto(Scraper, "idle", IF stalls + 1 >= StallThreshold THEN "check" ELSE "idle")
    /\ stalls' = Sat(stalls + 1, StallThreshold)
    /\ UNCHANGED <<healthy, failures, timeouts, ejection, unconfirmed, local>>

\* What a task does once eject_for_traffic has returned.
After(t) == IF t \in Reqs THEN "clear" ELSE "idle"

\* eject_for_traffic: nothing to do for a backend that is already out.
EjectCheck(t) ==
    /\ Goto(t, "check", IF healthy THEN "forgive" ELSE After(t))
    /\ UNCHANGED <<healthy, counters, ejection, unconfirmed, local>>

\* eject_for_traffic: a streak older than FORGIVE_MS starts over.
EjectForgive(t) ==
    /\ Goto(t, "forgive", "strike")
    /\ streak' = IF since > Forgive THEN 0 ELSE streak
    /\ UNCHANGED <<healthy, counters, byTraffic, timer, since, unconfirmed, local>>

\* eject_for_traffic: ejection_streak.fetch_add, and the backoff it sets.
EjectStrike(t) ==
    /\ Goto(t, "strike", "stamp")
    /\ streak' = Sat(streak + 1, MaxStreak + 1)
    /\ backoff' = [backoff EXCEPT ![t] = Backoff(streak)]
    /\ UNCHANGED <<healthy, counters, byTraffic, timer, since, unconfirmed, moved, probed,
                   engine, failRun>>

\* eject_for_traffic: last_ejected_ms, ejected_until_ms, ejected_by_traffic.
EjectStamp(t) ==
    /\ Goto(t, "stamp", "swap")
    /\ since' = 0
    /\ timer' = backoff[t]
    /\ byTraffic' = TRUE
    /\ backoff' = [backoff EXCEPT ![t] = 0]
    /\ UNCHANGED <<healthy, counters, streak, unconfirmed, moved, probed, engine, failRun>>

\* eject: the swap that takes the backend out of rotation.
EjectSwap(t) ==
    /\ Goto(t, "swap", After(t))
    /\ healthy' = FALSE
    /\ UNCHANGED <<counters, ejection, unconfirmed, local>>

-----------------------------------------------------------------------------
(***************************************************************************)
(* The prober.                                                             *)
(***************************************************************************)

\* mark_probe_ok: consecutive_failures and unconfirmed.
ProbeOk ==
    /\ engine # "down" /\ ~probed
    /\ Goto(Prober, "idle", "judge")
    /\ failures' = 0 /\ unconfirmed' = FALSE
    /\ failRun' = 0 /\ probed' = TRUE
    /\ UNCHANGED <<healthy, timeouts, stalls, ejection, moved, backoff, engine>>

\* mark_probe_ok: an ejection by traffic is held until its timer has run out.
ProbeJudge ==
    /\ Goto(Prober, "judge", CASE byTraffic /\ timer > 0 -> "idle"
                               [] byTraffic /\ timer = 0 -> "pardon"
                               [] ~byTraffic             -> "lift")
    /\ UNCHANGED <<healthy, counters, ejection, unconfirmed, local>>

\* mark_probe_ok: the ejection is over, on probation: one timeout is enough.
ProbePardon ==
    /\ Goto(Prober, "pardon", "lift")
    /\ byTraffic' = FALSE
    /\ timeouts' = TimeoutThreshold
    /\ stalls' = 0
    /\ UNCHANGED <<healthy, failures, streak, timer, since, unconfirmed, local>>

\* mark_probe_ok: healthy.swap(true).
ProbeLift ==
    /\ Goto(Prober, "lift", "idle")
    /\ healthy' = TRUE
    /\ UNCHANGED <<counters, ejection, unconfirmed, local>>

\* Mutant of ProbeFailed: the probe that reaches the threshold starts the
\* count over without ejecting.
ProbeFailedForgetting ==
    /\ engine = "down" /\ ~probed
    /\ Goto(Prober, "idle", IF failures > UnhealthyAfter THEN "drop" ELSE "idle")
    /\ failures' = (failures + 1) % UnhealthyAfter
    /\ failRun' = Sat(failRun + 1, UnhealthyAfter) /\ probed' = TRUE
    /\ UNCHANGED <<healthy, timeouts, stalls, ejection, unconfirmed, moved, backoff, engine>>

\* mark_probe_failed: the fetch_add and the comparison.
ProbeFailed ==
    /\ engine = "down" /\ ~probed
    /\ Goto(Prober, "idle", IF failures + 1 >= UnhealthyAfter THEN "drop" ELSE "idle")
    /\ failures' = Sat(failures + 1, UnhealthyAfter)
    /\ failRun' = Sat(failRun + 1, UnhealthyAfter) /\ probed' = TRUE
    /\ UNCHANGED <<healthy, timeouts, stalls, ejection, unconfirmed, moved, backoff, engine>>

\* mark_probe_failed: healthy.swap(false).
ProbeDrop ==
    /\ Goto(Prober, "drop", "idle")
    /\ healthy' = FALSE
    /\ UNCHANGED <<counters, ejection, unconfirmed, local>>

-----------------------------------------------------------------------------
(***************************************************************************)
(* The fleet's answer.                                                     *)
(***************************************************************************)

\* apply_fleet_verdict and reconsider: an ejected backend that the answer says
\* most others reach; for a traffic ejection, only if a peer is serving it.
ReconsiderCheck(serving) ==
    /\ ~healthy
    /\ byTraffic => serving
    /\ Goto(Fleet, "idle", "withdraw")
    /\ UNCHANGED <<healthy, counters, ejection, unconfirmed, local>>

\* Mutant of ReconsiderWithdraw: the fleet's word counts as this replica's own.
ReconsiderWithdrawConfirmed ==
    /\ Goto(Fleet, "withdraw", "restore")
    /\ failures' = 0 /\ timeouts' = 0 /\ stalls' = 0
    /\ UNCHANGED <<healthy, ejection, unconfirmed, local>>

\* reconsider: the counters and the unconfirmed mark.
ReconsiderWithdraw ==
    /\ Goto(Fleet, "withdraw", "restore")
    /\ failures' = 0 /\ timeouts' = 0 /\ stalls' = 0
    /\ unconfirmed' = TRUE
    /\ UNCHANGED <<healthy, ejection, local>>

\* reconsider: healthy.store(true).
ReconsiderRestore ==
    /\ Goto(Fleet, "restore", "idle")
    /\ healthy' = TRUE
    /\ UNCHANGED <<counters, ejection, unconfirmed, local>>

-----------------------------------------------------------------------------
(***************************************************************************)
(* Environment: the engine's condition and the clock.                      *)
(***************************************************************************)
EngineChanges ==
    /\ engine' \in {"up", "wedged", "down"} \ {engine}
    /\ UNCHANGED <<healthy, counters, ejection, unconfirmed, pc, moved, backoff, probed,
                   failRun>>

Tick ==
    /\ \A t \in Tasks : pc[t] = "idle"
    /\ timer' = IF timer > 0 THEN timer - 1 ELSE 0
    /\ since' = Sat(since + 1, Forgive + 1)
    /\ probed' = FALSE
    /\ UNCHANGED <<healthy, counters, byTraffic, streak, unconfirmed, pc, moved, backoff,
                   engine, failRun>>

EjectStep(t) ==
    EjectCheck(t) \/ EjectForgive(t) \/ EjectStrike(t) \/ EjectStamp(t) \/ EjectSwap(t)

ProbeStep == ProbeOk \/ ProbeJudge \/ ProbePardon \/ ProbeLift \/ ProbeFailed \/ ProbeDrop

Next ==
    \/ \E r \in Reqs : Answered(r) \/ NoteTimeout(r) \/ ClearTimeouts(r)
    \/ SampleAlive \/ SampleFrozen
    \/ \E t \in Ejectors : EjectStep(t)
    \/ ProbeStep
    \/ \E serving \in BOOLEAN : ReconsiderCheck(serving)
    \/ ReconsiderWithdraw \/ ReconsiderRestore
    \/ EngineChanges \/ Tick

Spec == Init /\ [][Next]_vars

(***************************************************************************)
(* The prober's ticker keeps probing and a probe is under one deadline, a  *)
(* method once entered runs to its end, and time passes: every method ends *)
(* so the moments between them, when Tick is enabled, recur.  Requests,    *)
(* samples and answers of the fleet need never come.                       *)
(***************************************************************************)
Fairness ==
    /\ WF_vars(ProbeStep)
    /\ WF_vars(ReconsiderWithdraw \/ ReconsiderRestore)
    /\ \A t \in Ejectors : WF_vars(EjectStep(t))
    /\ \A r \in Reqs : WF_vars(ClearTimeouts(r))
    /\ SF_vars(Tick)

FairSpec == Spec /\ Fairness

-----------------------------------------------------------------------------
(***************************************************************************)
(* Properties.                                                             *)
(***************************************************************************)

\* Types, with the backoff bounded by CEILING_MS and the counters by the
\* thresholds they are compared with (eject_for_traffic).
TypeOK ==
    /\ healthy \in BOOLEAN /\ byTraffic \in BOOLEAN /\ unconfirmed \in BOOLEAN
    /\ moved \in BOOLEAN /\ probed \in BOOLEAN
    /\ failures \in 0..UnhealthyAfter /\ timeouts \in 0..TimeoutThreshold
    /\ stalls \in 0..StallThreshold
    /\ streak \in 0..(MaxStreak + 1)
    /\ timer \in 0..Ceiling /\ since \in 0..(Forgive + 1)
    /\ pc \in [Tasks -> {"idle", "check", "forgive", "strike", "stamp", "swap", "clear",
                         "judge", "pardon", "lift", "drop", "withdraw", "restore"}]
    /\ backoff \in [Ejectors -> 0..Ceiling]
    /\ engine \in {"up", "wedged", "down"}
    /\ failRun \in 0..UnhealthyAfter

\* health.rs: "A backend has to fail `unhealthy_after` consecutive probes
\* before it leaves rotation" -- however withdrawals, traffic and probes
\* interleave, a probe takes a backend out only after that many in a row.
ProbeEvictionEarned ==
    [][pc[Prober] = "drop" /\ healthy /\ ~healthy' => failRun >= UnhealthyAfter]_vars

\* Two replicas must not talk each other into serving a dead backend: what a
\* replica reports is its own finding.  A backend whose last unhealthy_after
\* probes all failed is never reported healthy, not even when the fleet's
\* answer put it back in rotation (reconsider, reports_healthy).
NoHearsay ==
    pc[Prober] # "drop" /\ ReportsHealthy => failRun < UnhealthyAfter

\* A backend is never stuck outside: once the engine is well and stays well,
\* the backend comes back into rotation and stays, whatever ejections, timers,
\* withdrawals and half-done methods were under way.
Recovers == <>[](engine = "up") => <>[]healthy

\* A dead engine leaves rotation for good once the fleet stops vouching for
\* it, whatever was withdrawn or pardoned before.
DeadLeaves == <>[](engine = "down" /\ pc[Fleet] = "idle") => <>[]~healthy

\* Rotation follows the engine in the end (mark_probe_ok, mark_probe_failed,
\* eject_for_traffic, reconsider): no order of their steps leaves a backend that
\* is well outside for good, nor one that is dead inside.
RotationSettles == Recovers /\ DeadLeaves

(***************************************************************************)
(* The inductive invariant behind NoHearsay.                               *)
(***************************************************************************)

\* A probe that passed has cleared the run of failures.
PassedProbeClean == pc[Prober] \in {"judge", "pardon", "lift"} => failRun = 0

\* Only a withdrawal makes the counter forget failures, and it marks that.
CounterTracksRun == failures <= failRun /\ (~unconfirmed => failures = failRun)

\* A withdrawal confirmed while it was under way was confirmed by this
\* interval's probe, so no probe can fail before it is done.
ConfirmedInFlight == pc[Fleet] = "restore" /\ ~unconfirmed => failRun = 0 /\ probed

\* A probe reaches the threshold only by a run of failures that long.
DropEarned == pc[Prober] = "drop" => failRun = UnhealthyAfter

IInv == /\ TypeOK /\ PassedProbeClean /\ CounterTracksRun /\ ConfirmedInFlight
        /\ DropEarned /\ NoHearsay

=============================================================================
