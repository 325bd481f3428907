------------------------- MODULE BackendHealthProofs -------------------------
(***************************************************************************)
(* Theorems about a backend's rotation, for any number of requests, any    *)
(* thresholds and any backoff policy, and about the scraper that detects   *)
(* what serves it, for any intervals.                                      *)
(***************************************************************************)
EXTENDS BackendHealth, EngineScrape, TLAPS

\* Where a task can be.
Places == {"idle", "check", "forgive", "strike", "stamp", "swap", "clear",
           "judge", "pardon", "lift", "drop", "withdraw", "restore"}

\* The Boolean fields.
FlagTypes == /\ healthy \in BOOLEAN /\ byTraffic \in BOOLEAN /\ unconfirmed \in BOOLEAN
             /\ moved \in BOOLEAN /\ probed \in BOOLEAN

\* The backoff is a duration of at most CEILING_MS.
LEMMA BackoffType ==
    ASSUME NEW k \in Nat
    PROVE  Backoff(k) \in 0..Ceiling
BY HealthAssumption DEF Backoff

\* A counter that saturates at its threshold stays within it.
LEMMA SatType ==
    ASSUME NEW n \in Nat, NEW cap \in Nat
    PROVE  Sat(n, cap) \in 0..cap
BY DEF Sat

\* Every step keeps the types.
LEMMA TypeStep == TypeOK /\ [Next]_vars => TypeOK'
<1> SUFFICES ASSUME TypeOK, [Next]_vars PROVE TypeOK'
  OBVIOUS
<1>0. /\ Sat(timeouts + 1, TimeoutThreshold) \in 0..TimeoutThreshold
      /\ Sat(stalls + 1, StallThreshold) \in 0..StallThreshold
      /\ Sat(failures + 1, UnhealthyAfter) \in 0..UnhealthyAfter
      /\ Sat(failRun + 1, UnhealthyAfter) \in 0..UnhealthyAfter
      /\ Sat(streak + 1, MaxStreak + 1) \in 0..(MaxStreak + 1)
      /\ Sat(since + 1, Forgive + 1) \in 0..(Forgive + 1)
      /\ Backoff(streak) \in 0..Ceiling
  <2>1. /\ timeouts \in Nat /\ stalls \in Nat /\ failures \in Nat /\ failRun \in Nat
        /\ streak \in Nat /\ since \in Nat
    BY DEF TypeOK
  <2>2. /\ timeouts + 1 \in Nat /\ stalls + 1 \in Nat /\ failures + 1 \in Nat
        /\ failRun + 1 \in Nat /\ streak + 1 \in Nat /\ since + 1 \in Nat
        /\ MaxStreak + 1 \in Nat /\ Forgive + 1 \in Nat
        /\ TimeoutThreshold \in Nat /\ StallThreshold \in Nat /\ UnhealthyAfter \in Nat
    BY <2>1, HealthAssumption
  <2> QED
    BY <2>1, <2>2, SatType, BackoffType
<1> USE HealthAssumption DEF TypeOK, Tasks, Ejectors, Goto, counters, ejection, local
<1>1. ASSUME NEW r \in Reqs, Answered(r) PROVE TypeOK'
  BY <1>1 DEF Answered
<1>2. ASSUME NEW r \in Reqs, NoteTimeout(r) PROVE TypeOK'
  BY <1>2, <1>0 DEF NoteTimeout
<1>3. ASSUME NEW r \in Reqs, ClearTimeouts(r) PROVE TypeOK'
  BY <1>3 DEF ClearTimeouts
<1>4. ASSUME SampleAlive PROVE TypeOK'
  <2>1. moved' \in BOOLEAN
    BY <1>4, Zenon DEF SampleAlive
  <2> QED
    BY <1>4, <2>1 DEF SampleAlive
<1>5. ASSUME SampleFrozen PROVE TypeOK'
  BY <1>5, <1>0 DEF SampleFrozen
<1>6. ASSUME NEW t \in Ejectors, EjectStep(t) PROVE TypeOK'
  <2>1. ASSUME EjectCheck(t) PROVE TypeOK'
    BY <2>1 DEF EjectCheck, After
  <2>2. ASSUME EjectForgive(t) PROVE TypeOK'
    BY <2>2 DEF EjectForgive
  <2>3. ASSUME EjectStrike(t) PROVE TypeOK'
    BY <2>3, <1>0 DEF EjectStrike
  <2>4. ASSUME EjectStamp(t) PROVE TypeOK'
    BY <2>4 DEF EjectStamp
  <2>5. ASSUME EjectSwap(t) PROVE TypeOK'
    BY <2>5 DEF EjectSwap, After
  <2> QED
    BY <1>6, <2>1, <2>2, <2>3, <2>4, <2>5 DEF EjectStep
<1>7. ASSUME ProbeStep PROVE TypeOK'
  <2>1. ASSUME ProbeOk PROVE TypeOK'
    <3>1. FlagTypes'
      BY <2>1, Zenon DEF ProbeOk, FlagTypes
    <3> QED
      BY <2>1, <3>1 DEF ProbeOk, FlagTypes
  <2>2. ASSUME ProbeJudge PROVE TypeOK'
    <3>1. (CASE byTraffic /\ timer > 0 -> "idle"
             [] byTraffic /\ timer = 0 -> "pardon"
             [] ~byTraffic             -> "lift") \in Places
      BY DEF Places
    <3> QED
      BY <2>2, <3>1 DEF ProbeJudge, Places
  <2>3. ASSUME ProbePardon PROVE TypeOK'
    <3>1. FlagTypes'
      BY <2>3, Zenon DEF ProbePardon, FlagTypes
    <3> QED
      BY <2>3, <3>1 DEF ProbePardon, FlagTypes
  <2>4. ASSUME ProbeLift PROVE TypeOK'
    BY <2>4 DEF ProbeLift
  <2>5. ASSUME ProbeFailed PROVE TypeOK'
    BY <2>5, <1>0 DEF ProbeFailed
  <2>6. ASSUME ProbeDrop PROVE TypeOK'
    BY <2>6 DEF ProbeDrop
  <2> QED
    BY <1>7, <2>1, <2>2, <2>3, <2>4, <2>5, <2>6 DEF ProbeStep
<1>8. ASSUME NEW serving \in BOOLEAN, ReconsiderCheck(serving) PROVE TypeOK'
  BY <1>8 DEF ReconsiderCheck
<1>9. ASSUME ReconsiderWithdraw PROVE TypeOK'
  BY <1>9 DEF ReconsiderWithdraw
<1>10. ASSUME ReconsiderRestore PROVE TypeOK'
  BY <1>10 DEF ReconsiderRestore
<1>11. ASSUME EngineChanges PROVE TypeOK'
  BY <1>11 DEF EngineChanges
<1>12. ASSUME Tick PROVE TypeOK'
  <2>1. FlagTypes'
    BY <1>12, Zenon DEF Tick, FlagTypes
  <2> QED
    BY <1>12, <1>0, <2>1 DEF Tick, FlagTypes
<1>13. ASSUME UNCHANGED vars PROVE TypeOK'
  BY <1>13 DEF vars
<1> QED
  BY <1>1, <1>2, <1>3, <1>4, <1>5, <1>6, <1>7, <1>8, <1>9, <1>10, <1>11, <1>12, <1>13
  DEF Next

\* What the rest of the invariant is about, apart from types.
Evidence == PassedProbeClean /\ CounterTracksRun /\ ConfirmedInFlight /\ DropEarned
            /\ NoHearsay

\* Every step keeps what the prober and the withdrawal know of each other.
LEMMA EvidenceStep == IInv /\ [Next]_vars => Evidence'
<1> SUFFICES ASSUME IInv, [Next]_vars PROVE Evidence'
  OBVIOUS
<1> USE HealthAssumption DEF IInv, TypeOK, Tasks, Ejectors, Goto, counters, ejection,
        local, Evidence, PassedProbeClean, CounterTracksRun, ConfirmedInFlight,
        DropEarned, NoHearsay, ReportsHealthy
<1>1. ASSUME NEW r \in Reqs, Answered(r) \/ NoteTimeout(r) \/ ClearTimeouts(r)
      PROVE  Evidence'
  BY <1>1 DEF Answered, NoteTimeout, ClearTimeouts
<1>2. ASSUME SampleAlive \/ SampleFrozen PROVE Evidence'
  BY <1>2 DEF SampleAlive, SampleFrozen
<1>3. ASSUME NEW t \in Ejectors, EjectStep(t) PROVE Evidence'
  <2>1. /\ pc'[Prober] = pc[Prober] /\ pc'[Fleet] = pc[Fleet]
        /\ UNCHANGED <<failures, unconfirmed, failRun, probed>>
        /\ healthy' => healthy
    BY <1>3 DEF EjectStep, EjectCheck, EjectForgive, EjectStrike, EjectStamp, EjectSwap
  <2> QED
    BY <2>1
<1>4. ASSUME ProbeOk PROVE Evidence'
  BY <1>4 DEF ProbeOk
<1>5. ASSUME ProbeJudge PROVE Evidence'
  <2>1. pc'[Prober] \in {"idle", "pardon", "lift"} /\ pc'[Fleet] = pc[Fleet]
    BY <1>5 DEF ProbeJudge
  <2> QED
    BY <1>5, <2>1 DEF ProbeJudge
<1>6. ASSUME ProbePardon PROVE Evidence'
  BY <1>6 DEF ProbePardon
<1>7. ASSUME ProbeLift PROVE Evidence'
  BY <1>7 DEF ProbeLift
<1>8. ASSUME ProbeFailed PROVE Evidence'
  <2>1. failures <= failRun /\ (~unconfirmed => failures = failRun)
    OBVIOUS
  <2> QED
    BY <1>8, <2>1 DEF ProbeFailed, Sat
<1>9. ASSUME ProbeDrop PROVE Evidence'
  BY <1>9 DEF ProbeDrop
<1>10. ASSUME NEW serving \in BOOLEAN, ReconsiderCheck(serving) PROVE Evidence'
  BY <1>10 DEF ReconsiderCheck
<1>11. ASSUME ReconsiderWithdraw PROVE Evidence'
  BY <1>11 DEF ReconsiderWithdraw
<1>12. ASSUME ReconsiderRestore PROVE Evidence'
  BY <1>12 DEF ReconsiderRestore
<1>13. ASSUME EngineChanges PROVE Evidence'
  BY <1>13 DEF EngineChanges
<1>14. ASSUME Tick PROVE Evidence'
  BY <1>14 DEF Tick
<1>15. ASSUME UNCHANGED vars PROVE Evidence'
  BY <1>15 DEF vars
<1> QED
  BY <1>1, <1>2, <1>3, <1>4, <1>5, <1>6, <1>7, <1>8, <1>9, <1>10, <1>11, <1>12, <1>13,
     <1>14, <1>15
  DEF Next, ProbeStep

\* The invariant is inductive: it holds at the start, and every operation of
\* registry.rs on a backend's health fields keeps it.
THEOREM HealthInvariance == Spec => []IInv
<1>1. Init => IInv
  <2> SUFFICES ASSUME Init PROVE IInv
    OBVIOUS
  <2>1. FlagTypes
    BY Zenon DEF Init, FlagTypes
  <2>2. /\ failures \in 0..UnhealthyAfter /\ timeouts \in 0..TimeoutThreshold
        /\ stalls \in 0..StallThreshold /\ failRun \in 0..UnhealthyAfter
        /\ streak \in 0..(MaxStreak + 1)
        /\ timer \in 0..Ceiling /\ since \in 0..(Forgive + 1)
    BY HealthAssumption DEF Init
  <2>3. pc \in [Tasks -> Places]
    BY DEF Init, Places
  <2>4. backoff \in [Ejectors -> 0..Ceiling]
    BY HealthAssumption DEF Init
  <2>5. engine \in {"up", "wedged", "down"}
    BY DEF Init
  <2>6. TypeOK
    BY <2>1, <2>2, <2>3, <2>4, <2>5, Zenon DEF TypeOK, FlagTypes, Places
  <2>7. pc[Prober] = "idle" /\ pc[Fleet] = "idle" /\ failures = 0 /\ failRun = 0
    BY DEF Init, Tasks
  <2> QED
    BY <2>6, <2>7, HealthAssumption
    DEF IInv, PassedProbeClean, CounterTracksRun, ConfirmedInFlight, DropEarned, NoHearsay
<1>2. IInv /\ [Next]_vars => IInv'
  <2>1. IInv => TypeOK
    BY DEF IInv
  <2> QED
    BY <2>1, TypeStep, EvidenceStep DEF IInv, Evidence
<1> QED
  BY <1>1, <1>2, PTL DEF Spec

\* Type correctness, the bound CEILING_MS on every backoff included.
THEOREM HealthTypeCorrect == Spec => []TypeOK
<1>1. IInv => TypeOK
  BY DEF IInv
<1> QED
  BY <1>1, HealthInvariance, PTL

\* reports_healthy is this replica's own finding: a backend whose last
\* unhealthy_after probes failed is never reported healthy.
THEOREM ReportsOwnFindings == Spec => []NoHearsay
<1>1. IInv => NoHearsay
  BY DEF IInv
<1> QED
  BY <1>1, HealthInvariance, PTL

\* mark_probe_failed takes a backend out of rotation only after
\* unhealthy_after failed probes in a row.
THEOREM EvictionIsEarned == Spec => ProbeEvictionEarned
<1>1. IInv => (pc[Prober] = "drop" /\ healthy /\ ~healthy' => failRun >= UnhealthyAfter)
  BY HealthAssumption DEF IInv, DropEarned
<1> QED
  BY <1>1, HealthInvariance, PTL DEF ProbeEvictionEarned

(***************************************************************************)
(* The scraper of the same backend.                                        *)
(***************************************************************************)

\* Filing an answer that is not a reading settles the backend or asks later,
\* with the gate restored if the answer or the silence warrants it.
LEMMA OtherOutcome ==
    ASSUME AnswerOther
    PROVE  \/ Settle(FALSE) /\ endpoint = "page"
           \/ Settle(~(endpoint = "page")) /\ Expired
           \/ AskLater(endpoint = "page")
BY DEF AnswerOther

\* What it does to the clocks of the entry.
LEMMA OtherClocks ==
    ASSUME AnswerOther
    PROVE  \/ known' = "none" /\ next' = 0 /\ age' = 0
           \/ known' = "retry" /\ next' = RetryEvery - elapsed /\ age' = StreakAge + elapsed
BY OtherOutcome, Zenon DEF Settle, AskLater

\* Every step keeps the types.
LEMMA ScrapeTypeStep ==
    ASSUME ScrapeIInv, [ScrapeNext]_scraping
    PROVE  ScrapeTypeOK'
<1> USE ScrapeAssumption DEF ScrapeIInv, ScrapeTypeOK, detected
<1>1. ASSUME Ask PROVE ScrapeTypeOK'
  <2>2. recheck' \in BOOLEAN
    BY <1>1, Zenon DEF Ask
  <2>4. /\ sweep' = "asking" /\ elapsed' = 0
        /\ UNCHANGED <<known, answered, next, age, reading, gate, fit, endpoint>>
    BY <1>1, Zenon DEF Ask
  <2> QED
    BY <2>2, <2>4
<1>2. ASSUME AnswerEngine PROVE ScrapeTypeOK'
  <2>1. recheck' \in BOOLEAN /\ answered' \in BOOLEAN
    BY <1>2, Zenon DEF AnswerEngine
  <2> QED
    BY <1>2, <2>1 DEF AnswerEngine, Observed
<1>3. ASSUME AnswerOther PROVE ScrapeTypeOK'
  <2>1. gate' \in {"absent", "shrunk", "full"}
    BY <1>3 DEF AnswerOther, Restored
  <2>2. recheck' \in BOOLEAN /\ answered' \in BOOLEAN
    BY <1>3, OtherOutcome, Zenon DEF Settle, AskLater
  <2>3. known' \in {"unknown", "retry", "none"}
    BY <1>3, OtherOutcome DEF Settle, AskLater
  <2>4. next' \in 0..RetryEvery /\ age' \in 0..(GiveUpAfter + ProbeDeadline)
    <3>1. StreakAge + elapsed \in 0..(GiveUpAfter + ProbeDeadline)
      BY DEF StreakAge, StreakIsSilence
    <3>2. RetryEvery - elapsed \in 0..RetryEvery
      OBVIOUS
    <3> QED
      BY <1>3, <3>1, <3>2, OtherClocks
  <2> QED
    BY <1>3, <2>1, <2>2, <2>3, <2>4 DEF AnswerOther
<1>4. ASSUME HealthChanges PROVE ScrapeTypeOK'
  <2>1. fit' \in BOOLEAN
    BY <1>4, Zenon DEF HealthChanges
  <2> QED
    BY <1>4, <2>1 DEF HealthChanges
<1>5. ASSUME EndpointChanges PROVE ScrapeTypeOK'
  BY <1>5 DEF EndpointChanges
<1>6. ASSUME ScrapeTick PROVE ScrapeTypeOK'
  BY <1>6 DEF ScrapeTick, SatAt
<1>7. ASSUME UNCHANGED scraping PROVE ScrapeTypeOK'
  BY <1>7 DEF scraping
<1> QED
  BY <1>1, <1>2, <1>3, <1>4, <1>5, <1>6, <1>7 DEF ScrapeNext

\* Every step keeps the streak within the silence, and so never writes a backend
\* off while its last reading is fresh.
LEMMA SilenceStep ==
    ASSUME ScrapeIInv, [ScrapeNext]_scraping
    PROVE  (StreakIsSilence /\ SweepIsSilence /\ SettledWide)'
<1> USE ScrapeAssumption
    DEF ScrapeIInv, ScrapeTypeOK, detected, StreakIsSilence, SweepIsSilence, SettledWide, SilentFor
<1>1. ASSUME Ask PROVE (StreakIsSilence /\ SweepIsSilence /\ SettledWide)'
  BY <1>1 DEF Ask
<1>2. ASSUME AnswerEngine PROVE (StreakIsSilence /\ SweepIsSilence /\ SettledWide)'
  BY <1>2 DEF AnswerEngine
<1>3. ASSUME AnswerOther PROVE (StreakIsSilence /\ SweepIsSilence /\ SettledWide)'
  <2>1. StreakIsSilence'
    <3>1. SilentFor(StreakAge + elapsed)
      BY DEF StreakAge
    <3>2. elapsed' = 0 /\ reading' = reading
      BY <1>3 DEF AnswerOther
    <3>3. StreakAge + elapsed \in Nat
      BY DEF StreakAge
    <3> QED
      BY <1>3, <3>1, <3>2, <3>3, OtherClocks
  <2>2. SweepIsSilence'
    BY <1>3 DEF AnswerOther
  <2>3. SettledWide'
    <3>1. CASE endpoint = "page"
      BY <1>3, <3>1 DEF AnswerOther, Restored
    <3>2. CASE endpoint # "page" /\ Expired
      <4>1. reading > FreshFor
        BY <3>2 DEF Expired, StreakAge
      <4> QED
        BY <1>3, <4>1 DEF AnswerOther, Restored
    <3>3. CASE endpoint # "page" /\ ~Expired
      BY <1>3, <3>3, OtherOutcome DEF AskLater
    <3> QED
      BY <3>1, <3>2, <3>3
  <2> QED
    BY <2>1, <2>2, <2>3
<1>4. ASSUME HealthChanges PROVE (StreakIsSilence /\ SweepIsSilence /\ SettledWide)'
  BY <1>4 DEF HealthChanges
<1>5. ASSUME EndpointChanges PROVE (StreakIsSilence /\ SweepIsSilence /\ SettledWide)'
  BY <1>5 DEF EndpointChanges
<1>6. ASSUME ScrapeTick PROVE (StreakIsSilence /\ SweepIsSilence /\ SettledWide)'
  BY <1>6 DEF ScrapeTick, SatAt
<1>7. ASSUME UNCHANGED scraping PROVE (StreakIsSilence /\ SweepIsSilence /\ SettledWide)'
  BY <1>7 DEF scraping
<1> QED
  BY <1>1, <1>2, <1>3, <1>4, <1>5, <1>6, <1>7 DEF ScrapeNext

\* The invariant is inductive over every step of the scraper.
THEOREM ScrapeInvariance == ScrapeSpec => []ScrapeIInv
<1>1. ScrapeInit => ScrapeIInv
  <2> SUFFICES ASSUME ScrapeInit PROVE ScrapeIInv
    OBVIOUS
  <2>1. recheck \in BOOLEAN /\ answered \in BOOLEAN /\ fit \in BOOLEAN
    BY Zenon DEF ScrapeInit
  <2> QED
    BY <2>1, ScrapeAssumption
    DEF ScrapeInit, ScrapeIInv, ScrapeTypeOK, StreakIsSilence, SweepIsSilence, SettledWide, SilentFor
<1>2. ScrapeIInv /\ [ScrapeNext]_scraping => ScrapeIInv'
  BY ScrapeTypeStep, SilenceStep DEF ScrapeIInv
<1> QED
  BY <1>1, <1>2, PTL DEF ScrapeSpec

\* Type correctness of what the scraper knows.
THEOREM ScrapeTypeCorrect == ScrapeSpec => []ScrapeTypeOK
<1>1. ScrapeIInv => ScrapeTypeOK
  BY DEF ScrapeIInv
<1> QED
  BY <1>1, ScrapeInvariance, PTL

\* A backend the scraper will not ask again is never left with a shrunk gate:
\* restore_auto_admission has run for it, because the deadline outlasts the
\* freshness of any reading.
THEOREM NoGateStranded == ScrapeSpec => []SettledWide
<1>1. ScrapeIInv => SettledWide
  BY DEF ScrapeIInv
<1> QED
  BY <1>1, ScrapeInvariance, PTL
=============================================================================
