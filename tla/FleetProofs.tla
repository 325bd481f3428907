----------------------------- MODULE FleetProofs -----------------------------
(***************************************************************************)
(* Theorems about the fleet's reports, for any number of replicas and any  *)
(* bounds: what is on record was refused, and a request is handed on once. *)
(***************************************************************************)
EXTENDS Fleet, FiniteSetTheorems, TLAPS

\* The part of RefusalsCounted that is about one replica.
Counted(r) == \E h \in 0 .. self[r].rejected : HandledUpTo(r, h)

\* A step that moves nothing of what r's refusals are counted from: reports may
\* age or be dropped.
Same(r) ==
    /\ self'[r].rejected = self[r].rejected /\ queue'[r] = queue[r] /\ post'[r] = post[r]
    /\ recorded'[r] = recorded[r] /\ made'[r] = made[r]
    /\ \A x \in reports'[r] : \E y \in reports[r] : x.report = y.report

\* Such a step keeps r's count.
LEMMA SameCounts ==
    ASSUME NEW r \in Replicas, Counted(r), Same(r)
    PROVE  Counted(r)'
<1>1. PICK h \in 0 .. self[r].rejected : HandledUpTo(r, h)
  BY DEF Counted
<1>2. h \in 0 .. self'[r].rejected
  BY DEF Same
<1>3. HandledUpTo(r, h)'
  BY <1>1 DEF Same, HandledUpTo
<1> QED
  BY <1>2, <1>3 DEF Counted

\* What the type invariant says at one replica.
LEMMA Typing ==
    ASSUME TypeOK, NEW r \in Replicas
    PROVE  /\ self[r] \in Backends /\ self[r].rejected \in Nat
           /\ recorded[r] \in Nat /\ made[r] \in Nat
           /\ queue[r] \in SUBSET HealthReports /\ post[r] \in SUBSET HealthReports
           /\ \A x \in queue[r] : x.rejected \in Nat
           /\ \A x \in post[r] : x.rejected \in Nat
           /\ \A x \in reports[r] : x.report.rejected \in Nat
           /\ reply[r] \in SUBSET Verdicts /\ peers[r] \in SUBSET Replicas
BY DEF TypeOK, Backends, HealthReports

\* The steps of a replica's Backend keep its type and its counter.
Judged(b, c) == c \in Backends /\ c.rejected = b.rejected

\* mark_probe_ok, mark_probe_failed and reconsider judge; they refuse nothing.
LEMMA JudgedOnly ==
    ASSUME NEW b \in Backends, NEW p \in BOOLEAN
    PROVE  /\ Judged(b, mark_probe_ok(b, p)) /\ Judged(b, mark_probe_failed(b))
           /\ Judged(b, reconsider(b, p))
<1>1. Judged(b, mark_probe_ok(b, p))
  BY DEF Judged, Backends, mark_probe_ok
<1>2. Judged(b, mark_probe_failed(b))
  <2>1. PICK n \in Nat : n = IF b.failures < UnhealthyAfter THEN b.failures + 1 ELSE b.failures
    BY DEF Backends
  <2>2. PICK h \in BOOLEAN : h = (b.healthy /\ n < UnhealthyAfter)
    OBVIOUS
  <2>3. mark_probe_failed(b) = [b EXCEPT !.failures = n, !.healthy = h]
    BY <2>1, <2>2 DEF mark_probe_failed
  <2> QED
    BY <2>3 DEF Judged, Backends
<1>3. Judged(b, reconsider(b, p))
  BY DEF Judged, Backends, reconsider
<1> QED
  BY <1>1, <1>2, <1>3

\* A verdict counts replicas.
LEMMA VerdictTypes ==
    ASSUME NEW rs, NEW v, v = verdict(rs)
    PROVE  v \in Verdicts
<1> DEFINE heard == current(rs)
           healthy == {r \in heard : Latest(rs, r).healthy}
           serving == \E r \in healthy : Latest(rs, r).serving
<1>1. heard \in SUBSET Replicas /\ healthy \in SUBSET Replicas
  BY DEF current
<1>2. IsFiniteSet(heard) /\ IsFiniteSet(healthy)
  BY <1>1, FleetAssumption, FS_Subset
<1>3. Cardinality(heard) \in Nat /\ Cardinality(healthy) \in Nat
  BY <1>2, FS_CardinalityType
<1>4. v = [total |-> Cardinality(heard), healthy |-> Cardinality(healthy),
           serving |-> serving, reachable_from |-> healthy]
  BY DEF verdict
<1>5. serving \in BOOLEAN
  OBVIOUS
<1> HIDE DEF heard, healthy, serving
<1> QED
  BY <1>1, <1>3, <1>4, <1>5 DEF Verdicts

\* A step that moves no count and leaves the request alone.
LEMMA QuietKeeps ==
    ASSUME IInv, TypeOK', UNCHANGED request, \A r \in Replicas : Same(r)
    PROVE  IInv'
<1>1. \A r \in Replicas : Counted(r)
  BY DEF IInv, RefusalsCounted, Counted
<1>2. RefusalsCounted'
  BY <1>1, SameCounts DEF RefusalsCounted, Counted
<1>3. HeaderSet'
  BY DEF IInv, HeaderSet
<1> QED
  BY <1>2, <1>3 DEF IInv

\* A step that only changes what one replica thinks of its backend, its peers
\* and the verdict it waits for.
LEMMA JudgingKeeps ==
    ASSUME IInv, NEW r \in Replicas, NEW b, Judged(self[r], b), self' = [self EXCEPT ![r] = b],
           UNCHANGED <<reach, queue, post, control, made, request>>, events' \in Nat,
           reply' \in [Replicas -> SUBSET Verdicts], peers' \in [Replicas -> SUBSET Replicas]
    PROVE  IInv'
<1>1. TypeOK'
  BY DEF IInv, TypeOK, Judged, control
<1>2. ASSUME NEW q \in Replicas PROVE Same(q)
  BY DEF IInv, TypeOK, Judged, Same, control
<1> QED
  BY <1>1, <1>2, QuietKeeps

\* A probe.
LEMMA ProbeKeeps ==
    ASSUME IInv, NEW r \in Replicas, Probe(r)
    PROVE  IInv'
<1>1. PICK b : self' = [self EXCEPT ![r] = b] /\ Judged(self[r], b)
  <2>1. self[r] \in Backends
    BY Typing DEF IInv
  <2>2. PICK lapsed \in BOOLEAN :
          self' = [self EXCEPT ![r] = IF reach[r] THEN mark_probe_ok(self[r], lapsed)
                                      ELSE mark_probe_failed(self[r])]
    BY DEF Probe
  <2> QED
    BY <2>1, <2>2, JudgedOnly
<1>2. /\ UNCHANGED <<reach, queue, post, control, made, request>> /\ events' \in Nat
      /\ reply' \in [Replicas -> SUBSET Verdicts] /\ peers' \in [Replicas -> SUBSET Replicas]
  BY DEF IInv, TypeOK, Probe, reporting
<1> QED
  BY <1>1, <1>2, JudgingKeeps

\* An ejection by traffic.
LEMMA TimeoutsKeeps ==
    ASSUME IInv, NEW r \in Replicas, Timeouts(r)
    PROVE  IInv'
<1>1. PICK b : self' = [self EXCEPT ![r] = b] /\ Judged(self[r], b)
  <2>1. self[r] \in Backends
    BY Typing DEF IInv
  <2>2. self' = [self EXCEPT ![r] = [self[r] EXCEPT !.healthy = FALSE, !.by_traffic = TRUE]]
    BY DEF Timeouts
  <2>3. Judged(self[r], [self[r] EXCEPT !.healthy = FALSE, !.by_traffic = TRUE])
    BY <2>1 DEF Judged, Backends
  <2> QED
    BY <2>2, <2>3
<1>2. /\ UNCHANGED <<reach, queue, post, control, made, request>> /\ events' \in Nat
      /\ reply' \in [Replicas -> SUBSET Verdicts] /\ peers' \in [Replicas -> SUBSET Replicas]
  BY DEF IInv, TypeOK, Timeouts, Event, reporting
<1> QED
  BY <1>1, <1>2, JudgingKeeps

\* Requests of its own begin or end.
LEMMA TrafficKeeps ==
    ASSUME IInv, NEW r \in Replicas, Traffic(r)
    PROVE  IInv'
<1>1. PICK b : self' = [self EXCEPT ![r] = b] /\ Judged(self[r], b)
  <2>1. self[r] \in Backends
    BY Typing DEF IInv
  <2>2. self' = [self EXCEPT ![r] = [self[r] EXCEPT !.inflight = ~self[r].inflight]]
    BY DEF Traffic
  <2>3. Judged(self[r], [self[r] EXCEPT !.inflight = ~self[r].inflight])
    BY <2>1 DEF Judged, Backends
  <2> QED
    BY <2>2, <2>3
<1>2. /\ UNCHANGED <<reach, queue, post, control, made, request>> /\ events' \in Nat
      /\ reply' \in [Replicas -> SUBSET Verdicts] /\ peers' \in [Replicas -> SUBSET Replicas]
  BY DEF IInv, TypeOK, Traffic, Event, reporting
<1> QED
  BY <1>1, <1>2, JudgingKeeps

\* apply_fleet_verdict.
LEMMA ApplyKeeps ==
    ASSUME IInv, NEW r \in Replicas, Apply(r)
    PROVE  IInv'
<1>1. PICK v \in Verdicts : v = CHOOSE x \in reply[r] : TRUE
  BY Typing DEF IInv, Apply
<1>2. PICK b : self' = [self EXCEPT ![r] = b] /\ Judged(self[r], b)
  <2>1. self[r] \in Backends
    BY Typing DEF IInv
  <2>2. v.serving \in BOOLEAN
    BY <1>1 DEF Verdicts
  <2>3. self' = [self EXCEPT ![r] = IF ~self[r].healthy /\ contradicts(v)
                                    THEN reconsider(self[r], v.serving) ELSE self[r]]
    BY <1>1 DEF Apply
  <2>4. Judged(self[r], self[r]) /\ Judged(self[r], reconsider(self[r], v.serving))
    BY <2>1, <2>2, JudgedOnly DEF Judged
  <2> QED
    BY <2>3, <2>4
<1>3. peers' \in [Replicas -> SUBSET Replicas]
  <2>1. peers' = [peers EXCEPT ![r] = IF self[r].healthy THEN {} ELSE v.reachable_from]
    BY <1>1 DEF Apply
  <2>2. v.reachable_from \in SUBSET Replicas
    BY <1>1 DEF Verdicts
  <2> QED
    BY <2>1, <2>2 DEF IInv, TypeOK
<1>4. reply' \in [Replicas -> SUBSET Verdicts]
  BY DEF IInv, TypeOK, Apply
<1>5. UNCHANGED <<reach, queue, post, control, made, request>> /\ events' \in Nat
  BY DEF IInv, TypeOK, Apply
<1> QED
  BY <1>2, <1>3, <1>4, <1>5, JudgingKeeps

\* A refusal: the process's counter and the number made go up together.
LEMMA RefuseKeeps ==
    ASSUME IInv, NEW r \in Replicas, Refuse(r)
    PROVE  IInv'
<1>1. /\ self[r] \in Backends /\ self[r].rejected \in Nat /\ made[r] \in Nat /\ recorded[r] \in Nat
      /\ \A x \in queue[r] : x.rejected \in Nat
      /\ \A x \in post[r] : x.rejected \in Nat
  BY Typing DEF IInv
<1>2. self' = [self EXCEPT ![r] = [self[r] EXCEPT !.rejected = self[r].rejected + 1]]
  BY DEF Refuse
<1>3. /\ [self[r] EXCEPT !.rejected = self[r].rejected + 1] \in Backends
      /\ [self[r] EXCEPT !.rejected = self[r].rejected + 1].rejected = self[r].rejected + 1
  BY <1>1 DEF Backends
<1>4. /\ self' \in [Replicas -> Backends] /\ self'[r].rejected = self[r].rejected + 1
      /\ \A q \in Replicas \ {r} : self'[q] = self[q]
  BY <1>2, <1>3 DEF IInv, TypeOK
<1>5. /\ made' \in [Replicas -> Nat] /\ made'[r] = made[r] + 1 /\ events' \in Nat
      /\ \A q \in Replicas \ {r} : made'[q] = made[q]
      /\ UNCHANGED <<reach, queue, post, reply, peers, reports, recorded, request>>
  BY DEF IInv, TypeOK, Refuse, Event, reporting, control
<1>6. TypeOK'
  BY <1>4, <1>5 DEF IInv, TypeOK
<1>7. Counted(r)'
  <2>1. PICK h \in 0 .. self[r].rejected : HandledUpTo(r, h)
    BY DEF IInv, RefusalsCounted
  <2>2. h \in 0 .. self'[r].rejected
    BY <1>1, <1>4, <2>1
  <2>3. HandledUpTo(r, h)'
    BY <1>1, <1>4, <1>5, <2>1 DEF HandledUpTo
  <2> QED
    BY <2>2, <2>3 DEF Counted
<1>8. ASSUME NEW q \in Replicas \ {r} PROVE Counted(q)'
  BY <1>4, <1>5, SameCounts DEF IInv, RefusalsCounted, Counted, Same
<1>9. HeaderSet'
  BY <1>5 DEF IInv, HeaderSet
<1> QED
  BY <1>6, <1>7, <1>8, <1>9 DEF IInv, RefusalsCounted, Counted

\* Reporter::send: a new report carries the counter as it is.
LEMMA ReportKeeps ==
    ASSUME IInv, NEW r \in Replicas, Report(r)
    PROVE  IInv'
<1>1. /\ self[r] \in Backends /\ self[r].rejected \in Nat
      /\ \A x \in post[r] : x.rejected \in Nat
  BY Typing DEF IInv
<1>2. HealthReport(r) \in HealthReports /\ HealthReport(r).rejected = self[r].rejected
  BY <1>1 DEF HealthReport, HealthReports, Backends, reports_healthy
<1>3. UNCHANGED <<reach, self, post, reply, peers, reports, recorded, made, request, events>>
  BY DEF Report, control
<1>4. /\ queue' \in [Replicas -> SUBSET HealthReports]
      /\ queue'[r] = queue[r] \/ queue'[r] = {HealthReport(r)}
      /\ \A q \in Replicas \ {r} : queue'[q] = queue[q]
  BY <1>2 DEF IInv, TypeOK, Report
<1>5. TypeOK'
  BY <1>3, <1>4 DEF IInv, TypeOK
<1>6. Counted(r)'
  <2>1. PICK h \in 0 .. self[r].rejected : HandledUpTo(r, h)
    BY DEF IInv, RefusalsCounted
  <2>2. HandledUpTo(r, h)'
    BY <1>1, <1>2, <1>3, <1>4, <2>1 DEF HandledUpTo
  <2> QED
    BY <1>3, <2>2 DEF Counted
<1>7. ASSUME NEW q \in Replicas \ {r} PROVE Counted(q)'
  BY <1>3, <1>4, SameCounts DEF IInv, RefusalsCounted, Counted, Same
<1>8. HeaderSet'
  BY <1>3 DEF IInv, HeaderSet
<1> QED
  BY <1>5, <1>6, <1>7, <1>8 DEF IInv, RefusalsCounted, Counted

\* run takes the next report, the last one being answered or given up.
LEMMA TakeKeeps ==
    ASSUME IInv, NEW r \in Replicas, Take(r)
    PROVE  IInv'
<1>1. UNCHANGED <<reach, self, reply, peers, reports, recorded, made, request, events>>
  BY DEF Take, control
<1>2. /\ queue' \in [Replicas -> SUBSET HealthReports] /\ post' \in [Replicas -> SUBSET HealthReports]
      /\ queue'[r] = {} /\ post'[r] = queue[r]
      /\ \A q \in Replicas \ {r} : queue'[q] = queue[q] /\ post'[q] = post[q]
  BY DEF IInv, TypeOK, Take
<1>3. TypeOK'
  BY <1>1, <1>2 DEF IInv, TypeOK
<1>4. Counted(r)'
  <2>1. PICK h \in 0 .. self[r].rejected : HandledUpTo(r, h)
    BY DEF IInv, RefusalsCounted
  <2>2. HandledUpTo(r, h)'
    BY <1>1, <1>2, <2>1 DEF HandledUpTo
  <2> QED
    BY <1>1, <2>2 DEF Counted
<1>5. ASSUME NEW q \in Replicas \ {r} PROVE Counted(q)'
  BY <1>1, <1>2, SameCounts DEF IInv, RefusalsCounted, Counted, Same
<1>6. HeaderSet'
  BY <1>1 DEF IInv, HeaderSet
<1> QED
  BY <1>3, <1>4, <1>5, <1>6 DEF IInv, RefusalsCounted, Counted

\* A report that is not answered is forgotten.
LEMMA PostFailsKeeps ==
    ASSUME IInv, NEW r \in Replicas, PostFails(r)
    PROVE  IInv'
<1>1. UNCHANGED <<reach, self, queue, reply, peers, reports, recorded, made, request>>
  BY DEF PostFails, control
<1>2. /\ post' \in [Replicas -> SUBSET HealthReports] /\ events' \in Nat /\ post'[r] = {}
      /\ \A q \in Replicas \ {r} : post'[q] = post[q]
  BY DEF IInv, TypeOK, PostFails, Event
<1>3. TypeOK'
  BY <1>1, <1>2 DEF IInv, TypeOK
<1>4. Counted(r)'
  <2>1. PICK h \in 0 .. self[r].rejected : HandledUpTo(r, h)
    BY DEF IInv, RefusalsCounted
  <2>2. HandledUpTo(r, h)'
    BY <1>1, <1>2, <2>1 DEF HandledUpTo
  <2> QED
    BY <1>1, <2>2 DEF Counted
<1>5. ASSUME NEW q \in Replicas \ {r} PROVE Counted(q)'
  BY <1>1, <1>2, SameCounts DEF IInv, RefusalsCounted, Counted, Same
<1>6. HeaderSet'
  BY <1>1 DEF IInv, HeaderSet
<1> QED
  BY <1>3, <1>4, <1>5, <1>6 DEF IInv, RefusalsCounted, Counted

\* persist_rejection_deltas adds the difference of two counts of one process, and
\* for a counter that began again no more than it has reached.
LEMMA DeltaBounds ==
    ASSUME NEW previous, NEW report, NEW h \in Nat, report.rejected \in Nat, h <= report.rejected,
           \A x \in previous : x.report.rejected \in Nat /\ (h = 0 \/ x.report.rejected = h)
    PROVE  /\ rejection_deltas(previous, report) \in Nat
           /\ rejection_deltas(previous, report) + h <= report.rejected
<1>1. CASE previous = {}
  BY <1>1 DEF rejection_deltas
<1>2. CASE previous # {}
  <2>1. PICK x \in previous : x = CHOOSE y \in previous : TRUE
    BY <1>2
  <2>2. rejection_deltas(previous, report) = delta(report.rejected, x.report.rejected)
    BY <1>2, <2>1 DEF rejection_deltas
  <2> QED
    BY <2>1, <2>2 DEF delta
<1> QED
  BY <1>1, <1>2

\* post_health_report: the count handled moves up to the report's.
LEMMA HandleKeeps ==
    ASSUME IInv, NEW r \in Replicas, Handle(r)
    PROVE  IInv'
<1>1. UNCHANGED <<reach, self, queue, peers, made, request, events>>
  BY DEF Handle
<1>2. PICK report \in post[r] : report = CHOOSE x \in post[r] : TRUE
  BY DEF Handle
<1>3. report \in HealthReports /\ report.rejected \in Nat
  BY <1>2, Typing DEF IInv
<1>4. PICK stored : stored = [reports EXCEPT ![r] = {[report |-> report, age |-> 0]}]
  OBVIOUS
<1>5. stored \in [Replicas -> SUBSET [report : HealthReports, age : 0 .. Ttl]]
  <2>1. [report |-> report, age |-> 0] \in [report : HealthReports, age : 0 .. Ttl]
    BY <1>3, FleetAssumption
  <2> QED
    BY <1>4, <2>1 DEF IInv, TypeOK
<1>6. /\ reports' = [q \in Replicas |-> IF q \in current(stored) THEN stored[q] ELSE {}]
      /\ recorded' \in {recorded, [recorded EXCEPT ![r] = recorded[r] + rejection_deltas(reports[r], report)]}
      /\ post' = [post EXCEPT ![r] = {}]
      /\ reply' \in {reply, [reply EXCEPT ![r] = {verdict(stored)}]}
  BY <1>2, <1>4 DEF Handle
<1>7. /\ reports' \in [Replicas -> SUBSET [report : HealthReports, age : 0 .. Ttl]]
      /\ \A x \in reports'[r] : x.report = report
      /\ \A q \in Replicas \ {r} : \A x \in reports'[q] : x \in reports[q]
  <2>1. reports' \in [Replicas -> SUBSET [report : HealthReports, age : 0 .. Ttl]]
    BY <1>5, <1>6
  <2>2. stored[r] = {[report |-> report, age |-> 0]} /\ \A q \in Replicas \ {r} : stored[q] = reports[q]
    BY <1>4 DEF IInv, TypeOK
  <2>3. \A q \in Replicas : \A x \in reports'[q] : x \in stored[q]
    BY <1>6
  <2> QED
    BY <2>1, <2>2, <2>3
<1>8. /\ post' \in [Replicas -> SUBSET HealthReports] /\ post'[r] = {}
      /\ \A q \in Replicas \ {r} : post'[q] = post[q]
  BY <1>6 DEF IInv, TypeOK
<1>9. reply' \in [Replicas -> SUBSET Verdicts]
  <2>1. verdict(stored) \in Verdicts
    BY VerdictTypes
  <2> QED
    BY <1>6, <2>1 DEF IInv, TypeOK
<1>10. PICK h \in 0 .. self[r].rejected : HandledUpTo(r, h)
  BY DEF IInv, RefusalsCounted
<1>11. /\ self[r].rejected \in Nat /\ recorded[r] \in Nat /\ made[r] \in Nat /\ h \in Nat
       /\ h <= report.rejected /\ report.rejected <= self[r].rejected
  BY <1>2, <1>10, Typing DEF IInv, HandledUpTo
<1>12. PICK d : d = rejection_deltas(reports[r], report)
  OBVIOUS
<1>13. d \in Nat /\ d + h <= report.rejected
  BY <1>3, <1>10, <1>11, <1>12, DeltaBounds, Typing DEF IInv, HandledUpTo
<1>14. /\ recorded' \in [Replicas -> Nat]
       /\ recorded'[r] = recorded[r] \/ recorded'[r] = recorded[r] + d
       /\ \A q \in Replicas \ {r} : recorded'[q] = recorded[q]
  BY <1>6, <1>11, <1>12, <1>13 DEF IInv, TypeOK
<1>15. TypeOK'
  BY <1>1, <1>7, <1>8, <1>9, <1>14 DEF IInv, TypeOK
<1>16. Counted(r)'
  <2>1. recorded'[r] + self[r].rejected <= made[r] + report.rejected
    <3>1. recorded[r] + self[r].rejected <= made[r] + h
      BY <1>10 DEF HandledUpTo
    <3>2. PICK n \in Nat : n = recorded'[r] /\ n <= recorded[r] + d
      BY <1>11, <1>13, <1>14
    <3> QED
      BY <1>3, <1>11, <1>13, <3>1, <3>2
  <2>2. \A x \in queue[r] : report.rejected <= x.rejected /\ x.rejected <= self[r].rejected
    BY <1>2, <1>10 DEF HandledUpTo
  <2>3. HandledUpTo(r, report.rejected)'
    BY <1>1, <1>7, <1>8, <1>11, <2>1, <2>2 DEF HandledUpTo
  <2>4. report.rejected \in 0 .. self'[r].rejected
    BY <1>1, <1>3, <1>11
  <2> QED
    BY <2>3, <2>4 DEF Counted
<1>17. ASSUME NEW q \in Replicas \ {r} PROVE Counted(q)'
  BY <1>1, <1>7, <1>8, <1>14, SameCounts DEF IInv, RefusalsCounted, Counted, Same
<1>18. HeaderSet'
  BY <1>1 DEF IInv, HeaderSet
<1> QED
  BY <1>15, <1>16, <1>17, <1>18 DEF IInv, RefusalsCounted, Counted

\* A replica starts again from nothing; nothing of it is on its way.
LEMMA CrashKeeps ==
    ASSUME IInv, NEW r \in Replicas, Crash(r)
    PROVE  IInv'
<1>1. Fresh \in Backends /\ Fresh.rejected = 0
  BY DEF Fresh, Backends
<1>2. UNCHANGED <<reach, reports, recorded, made, request>> /\ events' \in Nat
  BY DEF IInv, TypeOK, Crash, Event, control
<1>3. /\ self' \in [Replicas -> Backends] /\ self'[r].rejected = 0
      /\ \A q \in Replicas \ {r} : self'[q] = self[q]
  BY <1>1 DEF IInv, TypeOK, Crash
<1>4. /\ queue' \in [Replicas -> SUBSET HealthReports] /\ post' \in [Replicas -> SUBSET HealthReports]
      /\ queue'[r] = {} /\ post'[r] = {}
      /\ \A q \in Replicas \ {r} : queue'[q] = queue[q] /\ post'[q] = post[q]
  BY DEF IInv, TypeOK, Crash
<1>5. reply' \in [Replicas -> SUBSET Verdicts] /\ peers' \in [Replicas -> SUBSET Replicas]
  BY DEF IInv, TypeOK, Crash
<1>6. TypeOK'
  BY <1>2, <1>3, <1>4, <1>5 DEF IInv, TypeOK
<1>7. Counted(r)'
  <2>1. PICK h \in 0 .. self[r].rejected : HandledUpTo(r, h)
    BY DEF IInv, RefusalsCounted
  <2>2. self[r].rejected \in Nat /\ recorded[r] \in Nat /\ made[r] \in Nat
    BY Typing DEF IInv
  <2>3. HandledUpTo(r, 0)'
    BY <1>2, <1>3, <1>4, <2>1, <2>2 DEF HandledUpTo
  <2> QED
    BY <1>3, <2>3 DEF Counted
<1>8. ASSUME NEW q \in Replicas \ {r} PROVE Counted(q)'
  BY <1>2, <1>3, <1>4, SameCounts DEF IInv, RefusalsCounted, Counted, Same
<1>9. HeaderSet'
  BY <1>2 DEF IInv, HeaderSet
<1> QED
  BY <1>6, <1>7, <1>8, <1>9 DEF IInv, RefusalsCounted, Counted

\* Time, and a control plane that begins again.
LEMMA ReportsAge ==
    ASSUME IInv, Tick \/ ControlRestart
    PROVE  IInv'
<1>1. UNCHANGED <<reach, self, queue, post, reply, peers, recorded, made, request>> /\ events' \in Nat
  BY DEF IInv, TypeOK, Tick, ControlRestart, Event, reporting
<1>2. /\ reports' \in [Replicas -> SUBSET [report : HealthReports, age : 0 .. Ttl]]
      /\ \A q \in Replicas : \A x \in reports'[q] : \E y \in reports[q] : x.report = y.report
  <2>1. CASE ControlRestart
    BY <2>1 DEF ControlRestart
  <2>2. CASE Tick
    <3>1. ASSUME NEW x \in [report : HealthReports, age : 0 .. Ttl]
          PROVE  /\ [x EXCEPT !.age = IF x.age < Ttl THEN x.age + 1 ELSE x.age]
                       \in [report : HealthReports, age : 0 .. Ttl]
                 /\ [x EXCEPT !.age = IF x.age < Ttl THEN x.age + 1 ELSE x.age].report = x.report
      BY FleetAssumption
    <3>2. reports' = [r \in Replicas |->
             {[x EXCEPT !.age = IF x.age < Ttl THEN x.age + 1 ELSE x.age] : x \in reports[r]}]
      BY <2>2 DEF Tick
    <3>3. \A q \in Replicas : reports[q] \in SUBSET [report : HealthReports, age : 0 .. Ttl]
      BY DEF IInv, TypeOK
    <3> QED
      BY <3>1, <3>2, <3>3
  <2> QED
    BY <2>1, <2>2
<1>3. TypeOK'
  BY <1>1, <1>2 DEF IInv, TypeOK
<1>4. \A q \in Replicas : Same(q)
  BY <1>1, <1>2 DEF Same
<1> QED
  BY <1>1, <1>3, <1>4, QuietKeeps

\* The steps that touch no count: the network, and the request.
LEMMA RequestKeeps ==
    ASSUME IInv, UNCHANGED <<reach, self, queue, post, reply, peers, reports, recorded, made>>,
           events' \in Nat, HeaderSet',
           request' \in [at : SUBSET Replicas, forwarded : BOOLEAN, hops : Nat]
    PROVE  IInv'
<1>1. TypeOK'
  BY DEF IInv, TypeOK
<1>2. RefusalsCounted'
  BY SameCounts DEF IInv, RefusalsCounted, Counted, Same
<1> QED
  BY <1>1, <1>2 DEF IInv

\* forward_to_peer puts the header on what it sends, and takes nothing that has it.
LEMMA ForwardKeeps ==
    ASSUME IInv, forward_to_peer
    PROVE  IInv'
<1>1. request \in [at : SUBSET Replicas, forwarded : BOOLEAN, hops : Nat] /\ HeaderSet
  BY DEF IInv, TypeOK
<1>2. PICK r \in request.at : \E q \in peers[r] :
        ~request.forwarded /\ request' = [at |-> {q}, forwarded |-> TRUE, hops |-> request.hops + 1]
  BY DEF forward_to_peer, already_forwarded
<1>3. PICK q \in Replicas :
        ~request.forwarded /\ request' = [at |-> {q}, forwarded |-> TRUE, hops |-> request.hops + 1]
  BY <1>1, <1>2, Typing DEF IInv
<1>4. HeaderSet' /\ request' \in [at : SUBSET Replicas, forwarded : BOOLEAN, hops : Nat]
  BY <1>1, <1>3 DEF HeaderSet
<1>5. UNCHANGED <<reach, self, queue, post, reply, peers, reports, recorded, made>> /\ events' \in Nat
  BY DEF IInv, TypeOK, forward_to_peer, reporting, control
<1> QED
  BY <1>4, <1>5, RequestKeeps

\* A request arrives, or is answered where it is.
LEMMA ArriveAnswerKeeps ==
    ASSUME IInv, Answer \/ \E r \in Replicas : Arrive(r)
    PROVE  IInv'
<1>1. HeaderSet' /\ request' \in [at : SUBSET Replicas, forwarded : BOOLEAN, hops : Nat]
  <2>1. PICK at \in SUBSET Replicas : request' = [at |-> at, forwarded |-> FALSE, hops |-> 0]
    BY DEF Answer, Arrive, NoRequest
  <2> QED
    BY <2>1 DEF HeaderSet
<1>2. UNCHANGED <<reach, self, queue, post, reply, peers, reports, recorded, made>> /\ events' \in Nat
  BY DEF IInv, TypeOK, Answer, Arrive, Event, reporting, control
<1> QED
  BY <1>1, <1>2, RequestKeeps

\* The network changes under a replica.
LEMMA ReachabilityKeeps ==
    ASSUME IInv, NEW r \in Replicas, Reachability(r)
    PROVE  IInv'
<1>1. TypeOK' /\ UNCHANGED request
  BY DEF IInv, TypeOK, Reachability, Event, reporting, control
<1>2. \A q \in Replicas : Same(q)
  BY DEF Same, Reachability, reporting, control
<1> QED
  BY <1>1, <1>2, QuietKeeps

\* The fleet starts with nothing refused, reported or recorded.
LEMMA InitIInv ==
    ASSUME Init
    PROVE  IInv
<1>1. Fresh \in Backends /\ Fresh.rejected = 0
  BY DEF Fresh, Backends
<1>2. TypeOK
  BY <1>1 DEF Init, TypeOK, NoRequest
<1>3. \A r \in Replicas : HandledUpTo(r, 0) /\ self[r].rejected = 0
  BY <1>1 DEF Init, HandledUpTo
<1>4. RefusalsCounted /\ HeaderSet
  BY <1>3 DEF RefusalsCounted, HeaderSet, Init, NoRequest
<1> QED
  BY <1>2, <1>4 DEF IInv

\* One lemma per step.
LEMMA NextIInv ==
    ASSUME IInv, [Next]_vars
    PROVE  IInv'
<1>1. CASE \E r \in Replicas : Probe(r) \/ Timeouts(r) \/ Traffic(r) \/ Apply(r)
  BY <1>1, ProbeKeeps, TimeoutsKeeps, TrafficKeeps, ApplyKeeps
<1>2. CASE \E r \in Replicas : Refuse(r) \/ Report(r) \/ Take(r) \/ Handle(r)
  BY <1>2, RefuseKeeps, ReportKeeps, TakeKeeps, HandleKeeps
<1>3. CASE \E r \in Replicas : PostFails(r) \/ Crash(r) \/ Reachability(r)
  BY <1>3, PostFailsKeeps, CrashKeeps, ReachabilityKeeps
<1>4. CASE Answer \/ \E r \in Replicas : Arrive(r)
  BY <1>4, ArriveAnswerKeeps
<1>5. CASE forward_to_peer \/ Tick \/ ControlRestart
  BY <1>5, ForwardKeeps, ReportsAge
<1>6. CASE UNCHANGED vars
  <2>1. UNCHANGED <<reach, self, queue, post, reply, peers, reports, recorded, made, request, events>>
    BY <1>6 DEF vars
  <2> QED
    BY <2>1, RequestKeeps DEF IInv, TypeOK, HeaderSet
<1> QED
  BY <1>1, <1>2, <1>3, <1>4, <1>5, <1>6 DEF Next

\* The invariant holds of every behaviour of the fleet.
THEOREM FleetInvariant == Spec => []IInv
BY InitIInv, NextIInv, PTL DEF Spec

\* persist_rejection_deltas never puts a refusal on record that did not happen,
\* for any number of replicas and however often a replica or the control plane
\* starts again, a report is lost or an insert fails.
THEOREM RecordNeverAhead == Spec => []RejectionsNotInvented
<1>1. IInv => RejectionsNotInvented
  <2>1. ASSUME IInv, NEW r \in Replicas PROVE recorded[r] <= made[r]
    <3>1. PICK h \in 0 .. self[r].rejected : HandledUpTo(r, h)
      BY <2>1 DEF IInv, RefusalsCounted
    <3> QED
      BY <2>1, <3>1, Typing DEF IInv, HandledUpTo
  <2> QED
    BY <2>1 DEF RejectionsNotInvented
<1> QED
  BY <1>1, FleetInvariant, PTL

\* A request is handed on once at most, whatever the siblings' tables say
\* (FORWARDED_HEADER, forward_to_peer).
THEOREM HandedOnOnce == Spec => []OneHop
<1>1. IInv => OneHop
  BY DEF IInv, HeaderSet, OneHop
<1> QED
  BY <1>1, FleetInvariant, PTL
=============================================================================
