-------------------------------- MODULE Fleet --------------------------------
(***************************************************************************)
(* Replicas that tell the control plane what they see of one backend, and  *)
(* what they make of its answer (src/health_report.rs, post_health_report  *)
(* in src/control/api.rs, apply_fleet_verdict in src/state.rs): the tally  *)
(* that withdraws an ejection the others contradict, the addresses a       *)
(* request no replica-local backend can serve is handed to, and the count  *)
(* of refusals kept from the difference of two reports.                    *)
(*                                                                         *)
(* A replica's own judgement is BackendHealth's, reduced to whole calls.   *)
(* Time is the age of a stored report, in report intervals.  A report the  *)
(* reporter has given up on is not handled after the one that follows it.  *)
(***************************************************************************)
EXTENDS Naturals, FiniteSets

CONSTANTS
    Replicas,
    UnhealthyAfter,   \* failed probes before ejection
    Ttl,              \* age at which Fleet::current drops a report
    MaxRejected,      \* bound: refusals one process makes
    MaxEvents         \* bound: crashes, control-plane restarts, cuts, timeouts, requests

ASSUME FleetAssumption ==
    /\ IsFiniteSet(Replicas)
    /\ {UnhealthyAfter, Ttl} \subseteq Nat \ {0}
    /\ {MaxRejected, MaxEvents} \subseteq Nat

VARIABLES
    reach,      \* environment: the replica's probes of the backend pass
    self,       \* each replica's Backend and counters
    queue,      \* Reporter::tx, of depth 1: an Option
    post,       \* the report being posted: an Option
    reply,      \* the verdict coming back: an Option
    peers,      \* AppState::peers for the backend's model
    reports,    \* Fleet::reports: an Option of a report and its age for each replica
    recorded,   \* gateway_rejections, by replica
    made,       \* history: the refusals each replica has made, over its processes
    request,    \* one client request: where it is, and the replicas it was handed to
    events

vars == <<reach, self, queue, post, reply, peers, reports, recorded, made, request, events>>
reporting == <<queue, post, reply>>
control   == <<reports, recorded>>

Fresh == [healthy |-> TRUE, unconfirmed |-> FALSE, failures |-> 0, by_traffic |-> FALSE,
          inflight |-> FALSE, rejected |-> 0]
NoRequest == [at |-> {}, forwarded |-> FALSE, hops |-> 0]

Init ==
    /\ reach = [r \in Replicas |-> TRUE]
    /\ self = [r \in Replicas |-> Fresh]
    /\ queue = [r \in Replicas |-> {}] /\ post = queue /\ reply = queue
    /\ peers = queue /\ reports = queue
    /\ recorded = [r \in Replicas |-> 0] /\ made = recorded
    /\ request = NoRequest /\ events = 0

Event == events < MaxEvents /\ events' = events + 1

-----------------------------------------------------------------------------
(***************************************************************************)
(* A replica and its backend.                                              *)
(***************************************************************************)

\* Backend::reports_healthy.
reports_is_healthy(b) == b.healthy
reports_healthy(b) == b.healthy /\ ~b.unconfirmed

\* mark_probe_ok; lapsed: the traffic ejection has run its time.
mark_probe_ok(b, lapsed) ==
    LET heard == [b EXCEPT !.failures = 0, !.unconfirmed = FALSE]
    IN IF b.by_traffic /\ ~lapsed THEN heard
       ELSE [heard EXCEPT !.by_traffic = FALSE, !.healthy = TRUE]

\* mark_probe_failed.
mark_probe_failed(b) ==
    LET n == IF b.failures < UnhealthyAfter THEN b.failures + 1 ELSE b.failures
    IN [b EXCEPT !.failures = n, !.healthy = @ /\ n < UnhealthyAfter]

\* reconsider.
reconsider(b, peers_serving) ==
    IF b.healthy \/ (b.by_traffic /\ ~peers_serving) THEN b
    ELSE [b EXCEPT !.failures = 0, !.unconfirmed = TRUE, !.healthy = TRUE]

Probe(r) ==
    /\ \E lapsed \in BOOLEAN :
         self' = [self EXCEPT ![r] = IF reach[r] THEN mark_probe_ok(@, lapsed)
                                     ELSE mark_probe_failed(@)]
    /\ UNCHANGED <<reach, reporting, peers, control, made, request, events>>

\* note_timeout at its threshold: requests hang though probes may pass.
Timeouts(r) ==
    /\ Event /\ self[r].healthy /\ self[r].inflight
    /\ self' = [self EXCEPT ![r].healthy = FALSE, ![r].by_traffic = TRUE]
    /\ UNCHANGED <<reach, reporting, peers, control, made, request>>

\* Requests of its own to the backend begin, or the last of them ends.
Traffic(r) ==
    /\ Event /\ (self[r].inflight \/ self[r].healthy)
    /\ self' = [self EXCEPT ![r].inflight = ~@]
    /\ UNCHANGED <<reach, reporting, peers, control, made, request>>

\* An unauthenticated request, or one for a model that is not there.
Refuse(r) ==
    /\ self[r].rejected < MaxRejected /\ Event
    /\ self' = [self EXCEPT ![r].rejected = @ + 1]
    /\ made' = [made EXCEPT ![r] = @ + 1]
    /\ UNCHANGED <<reach, reporting, peers, control, request>>

-----------------------------------------------------------------------------
(***************************************************************************)
(* The report.                                                             *)
(***************************************************************************)

\* spawn_health_reports' tick and Reporter::send, which drops on a full queue.
HealthReport(r) == [healthy |-> reports_healthy(self[r]), serving |-> self[r].inflight,
                    rejected |-> self[r].rejected]
Report(r) ==
    /\ queue' = IF queue[r] = {} THEN [queue EXCEPT ![r] = {HealthReport(r)}] ELSE queue
    /\ UNCHANGED <<reach, self, post, reply, peers, control, made, request, events>>

\* run: the next report is taken once the last was answered or given up.
Take(r) ==
    /\ queue[r] # {} /\ post[r] = {} /\ reply[r] = {}
    /\ post' = [post EXCEPT ![r] = queue[r]] /\ queue' = [queue EXCEPT ![r] = {}]
    /\ UNCHANGED <<reach, self, reply, peers, control, made, request, events>>

\* Fleet::current and Fleet::verdict.
current(rs) == {r \in Replicas : \E x \in rs[r] : x.age < Ttl}
Latest(rs, r) == (CHOOSE x \in rs[r] : TRUE).report
verdict(rs) ==
    LET heard   == current(rs)
        healthy == {r \in heard : Latest(rs, r).healthy}
    IN [total |-> Cardinality(heard), healthy |-> Cardinality(healthy),
        serving |-> \E r \in healthy : Latest(rs, r).serving, reachable_from |-> healthy]

\* persist_rejection_deltas: a counter that went down began again; the first
\* report of a replica counts for nothing.
delta(now, before) == IF now >= before THEN now - before ELSE now
rejection_deltas_from_zero(previous, report) ==
    IF previous = {} THEN report.rejected
    ELSE delta(report.rejected, (CHOOSE x \in previous : TRUE).report.rejected)
rejection_deltas(previous, report) ==
    IF previous = {} THEN 0
    ELSE delta(report.rejected, (CHOOSE x \in previous : TRUE).report.rejected)

\* post_health_report; the insert may fail, and the answer may not arrive.  (The
\* alert for a change of health goes to a bounded queue nothing here reads.)
Handle(r) ==
    LET report   == CHOOSE x \in post[r] : TRUE
        previous == reports[r]
        stored   == [reports EXCEPT ![r] = {[report |-> report, age |-> 0]}]
    IN /\ post[r] # {}
       /\ reports' = [q \in Replicas |-> IF q \in current(stored) THEN stored[q] ELSE {}]
       /\ recorded' \in {recorded, [recorded EXCEPT ![r] = @ + rejection_deltas(previous, report)]}
       /\ post' = [post EXCEPT ![r] = {}]
       /\ reply' \in {reply, [reply EXCEPT ![r] = {verdict(stored)}]}
       /\ UNCHANGED <<reach, self, queue, peers, made, request, events>>

\* post: no connection, or no answer in five seconds.
PostFails(r) ==
    /\ post[r] # {} /\ Event
    /\ post' = [post EXCEPT ![r] = {}]
    /\ UNCHANGED <<reach, self, queue, reply, peers, control, made, request>>

\* FleetVerdict::contradicts.
contradicts(v) == v.total > 1 /\ v.healthy * 2 > v.total - 1

\* apply_fleet_verdict: who else could serve the model, then the ejection.
Apply(r) ==
    LET v == CHOOSE x \in reply[r] : TRUE
    IN /\ reply[r] # {}
       /\ reply' = [reply EXCEPT ![r] = {}]
       /\ peers' = [peers EXCEPT ![r] = IF self[r].healthy THEN {} ELSE v.reachable_from]
       /\ self' = [self EXCEPT ![r] = IF ~@.healthy /\ contradicts(v)
                                      THEN reconsider(@, v.serving) ELSE @]
       /\ UNCHANGED <<reach, queue, post, control, made, request, events>>

-----------------------------------------------------------------------------
(***************************************************************************)
(* A request for the backend's model, and a sibling for it.                *)
(***************************************************************************)

Arrive(r) ==
    /\ request.at = {} /\ Event
    /\ request' = [at |-> {r}, forwarded |-> FALSE, hops |-> 0]
    /\ UNCHANGED <<reach, self, reporting, peers, control, made>>

\* FORWARDED_HEADER and already_forwarded.
already_forwarded_unseen(req) == FALSE
already_forwarded(req) == req.forwarded

\* Answered here: by the backend (an ejected one is still tried when there is no
\* other), with the error of the last attempt, or as saturated.
Answer ==
    /\ request.at # {}
    /\ request' = NoRequest
    /\ UNCHANGED <<reach, self, reporting, peers, control, made, events>>

\* forward_to_peer, after the last local attempt failed; hops stops at 2, which
\* OneHop already excludes.
forward_to_peer ==
    \E r \in request.at :
      /\ ~already_forwarded(request) /\ request.hops < 2
      /\ \E q \in peers[r] :
           request' = [at |-> {q}, forwarded |-> TRUE, hops |-> request.hops + 1]
      /\ UNCHANGED <<reach, self, reporting, peers, control, made, events>>

-----------------------------------------------------------------------------
(***************************************************************************)
(* Time, faults, and the specification.                                    *)
(***************************************************************************)

Tick ==
    /\ reports' = [r \in Replicas |-> {[x EXCEPT !.age = IF @ < Ttl THEN @ + 1 ELSE @] : x \in reports[r]}]
    /\ UNCHANGED <<reach, self, reporting, peers, recorded, made, request, events>>

Crash(r) ==
    /\ Event /\ request.at # {r}
    /\ self' = [self EXCEPT ![r] = Fresh] /\ peers' = [peers EXCEPT ![r] = {}]
    /\ queue' = [queue EXCEPT ![r] = {}] /\ post' = [post EXCEPT ![r] = {}]
    /\ reply' = [reply EXCEPT ![r] = {}]
    /\ UNCHANGED <<reach, control, made, request>>

\* Health is held in memory: a new control plane has heard from nobody.
ControlRestart ==
    /\ Event
    /\ reports' = [r \in Replicas |-> {}]
    /\ UNCHANGED <<reach, self, reporting, peers, recorded, made, request>>

Reachability(r) ==
    /\ Event /\ reach' = [reach EXCEPT ![r] = ~@]
    /\ UNCHANGED <<self, reporting, peers, control, made, request>>

Next ==
    \/ \E r \in Replicas :
         \/ Probe(r) \/ Timeouts(r) \/ Traffic(r) \/ Refuse(r)
         \/ Report(r) \/ Take(r) \/ Handle(r) \/ PostFails(r) \/ Apply(r)
         \/ Arrive(r) \/ Crash(r) \/ Reachability(r)
    \/ Answer \/ forward_to_peer \/ Tick \/ ControlRestart

Spec == Init /\ [][Next]_vars

\* The prober and the reporter are loops of their own; every post is answered or
\* given up; time passes.
Fairness ==
    /\ \A r \in Replicas :
         /\ WF_vars(Probe(r)) /\ WF_vars(Report(r)) /\ WF_vars(Take(r))
         /\ WF_vars(Handle(r)) /\ WF_vars(Apply(r))
    /\ WF_vars(Tick)

FairSpec == Spec /\ Fairness

-----------------------------------------------------------------------------
(***************************************************************************)
(* Properties.                                                             *)
(***************************************************************************)

\* A backend no replica can reach leaves rotation on all of them for good:
\* replicas whose ejections the fleet has talked them out of do not count as
\* healthy, so they cannot keep each other talked out of it (unconfirmed,
\* reports_healthy, reconsider).
DeadStaysOut ==
    <>[](\A r \in Replicas : ~reach[r]) => <>[](\A r \in Replicas : ~self[r].healthy)

\* The refusals on record never exceed those that happened, whichever process
\* restarts and whichever report is lost (persist_rejection_deltas).
RejectionsNotInvented == \A r \in Replicas : recorded[r] <= made[r]

\* A request handed to a sibling is not handed on, even when the siblings'
\* tables, each as old as its last report, point at one another
\* (FORWARDED_HEADER).
OneHop == request.hops <= 1

(***************************************************************************)
(* The inductive invariant behind the theorems of FleetProofs.             *)
(***************************************************************************)
Backends ==
    [healthy : BOOLEAN, unconfirmed : BOOLEAN, failures : Nat, by_traffic : BOOLEAN,
     inflight : BOOLEAN, rejected : Nat]
HealthReports == [healthy : BOOLEAN, serving : BOOLEAN, rejected : Nat]
Verdicts ==
    [total : Nat, healthy : Nat, serving : BOOLEAN, reachable_from : SUBSET Replicas]

TypeOK ==
    /\ reach \in [Replicas -> BOOLEAN] /\ self \in [Replicas -> Backends]
    /\ queue \in [Replicas -> SUBSET HealthReports] /\ post \in [Replicas -> SUBSET HealthReports]
    /\ reply \in [Replicas -> SUBSET Verdicts] /\ peers \in [Replicas -> SUBSET Replicas]
    /\ reports \in [Replicas -> SUBSET [report : HealthReports, age : 0 .. Ttl]]
    /\ recorded \in [Replicas -> Nat] /\ made \in [Replicas -> Nat]
    /\ request \in [at : SUBSET Replicas, forwarded : BOOLEAN, hops : Nat]
    /\ events \in Nat

\* h is the count in the last report of r's present process to be handled, or 0:
\* of the refusals made, those past h are not on record yet, the reports on
\* their way carry counts in the order they were taken, and what the control
\* plane remembers of r is h, or is of a process that is gone.
HandledUpTo(r, h) ==
    /\ h <= self[r].rejected
    /\ recorded[r] + self[r].rejected <= made[r] + h
    /\ \A x \in post[r] : h <= x.rejected /\ x.rejected <= self[r].rejected
    /\ \A x \in queue[r] : /\ h <= x.rejected /\ x.rejected <= self[r].rejected
                           /\ \A y \in post[r] : y.rejected <= x.rejected
    /\ \A x \in reports[r] : h = 0 \/ x.report.rejected = h
RefusalsCounted ==
    \A r \in Replicas : \E h \in 0 .. self[r].rejected : HandledUpTo(r, h)

\* A request that was handed on carries the header.
HeaderSet == request.hops = 0 \/ (request.hops = 1 /\ request.forwarded)

IInv == TypeOK /\ RefusalsCounted /\ HeaderSet
=============================================================================
