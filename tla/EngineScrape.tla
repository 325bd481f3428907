----------------------------- MODULE EngineScrape -----------------------------
(***************************************************************************)
(* The scraper's knowledge of one backend's /metrics (src/engine_scrape.rs)*)
(* and the automatic gate it drives (src/registry.rs).                     *)
(*                                                                         *)
(* A sweep selects the backend, probes it, and files the answer: two steps,*)
(* with health, the endpoint and the clock moving in between.  Clocks are  *)
(* relative and in ticks; `elapsed` is how long ago the sweep took its     *)
(* `now`, from which next_ms and since_ms are computed.  Ages saturate     *)
(* where the code only compares them.                                      *)
(***************************************************************************)
EXTENDS Naturals

CONSTANTS
    RetryEvery,    \* RETRY_EVERY
    GiveUpAfter,   \* GIVE_UP_AFTER
    FreshFor,      \* ENGINE_FRESH_FOR
    ProbeDeadline  \* the most ticks a sweep takes

ASSUME ScrapeAssumption ==
    /\ RetryEvery \in Nat \ {0} /\ GiveUpAfter \in Nat /\ FreshFor \in Nat
    /\ ProbeDeadline \in Nat
    /\ ProbeDeadline < RetryEvery
    /\ FreshFor < RetryEvery /\ RetryEvery <= GiveUpAfter

VARIABLES
    known,     \* known[uid]: "unknown" (no entry), "retry" or "none"
    recheck,   \* Detected::None.recheck_when_healthy
    answered,  \* Detected::Retry.answered
    next,      \* ticks until Detected::Retry.next_ms
    age,       \* ticks since Detected::Retry.since_ms
    reading,   \* ticks since engine_at
    gate,      \* the gate's ceiling: "absent", "shrunk" or "full"
    sweep,     \* "idle" or "asking"
    elapsed,   \* ticks since the sweep began
    fit,       \* environment: Backend::healthy
    endpoint   \* environment: what /metrics is: "engine", "page" or "silent"

scraping == <<known, recheck, answered, next, age, reading, gate, sweep, elapsed, fit,
              endpoint>>
detected == <<known, recheck, answered, next, age>>

SatAt(n, cap) == IF n >= cap THEN cap ELSE n

ScrapeInit ==
    /\ known = "unknown" /\ recheck = FALSE /\ answered = FALSE
    /\ next = 0 /\ age = 0
    /\ reading = FreshFor + 1
    /\ gate = "absent"
    /\ sweep = "idle" /\ elapsed = 0
    /\ fit = TRUE /\ endpoint \in {"engine", "page", "silent"}

\* Mutant of Selected: a backend written off by the deadline is not asked again.
SelectedNoRecheck ==
    CASE known = "none"    -> FALSE
      [] known = "retry"   -> next = 0
      [] known = "unknown" -> TRUE

\* The filter at the head of sweep.
Selected ==
    CASE known = "none"    -> recheck /\ fit
      [] known = "retry"   -> next = 0
      [] known = "unknown" -> TRUE

\* sweep: select the backend, take its one recheck, send the probe.
Ask ==
    /\ sweep = "idle" /\ Selected
    /\ sweep' = "asking" /\ elapsed' = 0
    /\ recheck' = IF known = "none" THEN FALSE ELSE recheck
    /\ UNCHANGED <<known, answered, next, age, reading, gate, fit, endpoint>>

\* The gate after enable_auto_admission and observe: a new gate is full, a deep
\* queue shrinks it unless it cooled down lately, an empty one may fill it.
Observed == IF gate = "absent" THEN {"full", "shrunk"} ELSE {gate, "full", "shrunk"}

\* sweep on a reading: the entry goes, the gate follows the engine's queue.
AnswerEngine ==
    /\ sweep = "asking" /\ endpoint = "engine"
    /\ sweep' = "idle" /\ elapsed' = 0
    /\ known' = "unknown" /\ recheck' = FALSE /\ answered' = FALSE
    /\ next' = 0 /\ age' = 0
    /\ reading' = 0
    /\ gate' \in Observed
    /\ UNCHANGED <<fit, endpoint>>

\* Mutant of Restored: an endpoint that is silent never gives the gate back.
RestoredOnAnswerOnly(onlyIfSilent) == IF onlyIfSilent THEN gate
                                      ELSE IF gate = "shrunk" THEN "full" ELSE gate

\* restore_auto_admission: a fresh reading outweighs a silent endpoint.
Restored(onlyIfSilent) ==
    IF gate = "shrunk" /\ ~(onlyIfSilent /\ reading <= FreshFor) THEN "full" ELSE gate

\* Ticks from since_ms to the sweep's `now`; a new streak begins at `now`.
StreakAge == IF known = "retry" THEN age - elapsed ELSE 0

Expired == StreakAge >= GiveUpAfter

\* known.insert(uid, Detected::None).
Settle(again) ==
    /\ known' = "none" /\ recheck' = again /\ answered' = FALSE
    /\ next' = 0 /\ age' = 0

\* known.insert(uid, Detected::Retry): next_ms and since_ms count from `now`.
AskLater(ans) ==
    /\ known' = "retry" /\ recheck' = FALSE /\ answered' = ans
    /\ next' = RetryEvery - elapsed
    /\ age' = StreakAge + elapsed

\* sweep on an error: restore the gate, then settle or retry.
AnswerOther ==
    /\ sweep = "asking" /\ endpoint # "engine"
    /\ sweep' = "idle" /\ elapsed' = 0
    /\ gate' = Restored(endpoint = "silent")
    /\ LET ans == endpoint = "page"
           asked == known = "retry" /\ answered
       IN  CASE ans /\ asked /\ fit -> Settle(FALSE)
             [] ~(ans /\ asked /\ fit) /\ Expired -> Settle(~ans)
             [] ~(ans /\ asked /\ fit) /\ ~Expired -> AskLater(ans)
    /\ UNCHANGED <<reading, fit, endpoint>>

HealthChanges ==
    /\ fit' = ~fit
    /\ UNCHANGED <<detected, reading, gate, sweep, elapsed, endpoint>>

EndpointChanges ==
    /\ endpoint' \in {"engine", "page", "silent"} \ {endpoint}
    /\ UNCHANGED <<detected, reading, gate, sweep, elapsed, fit>>

\* Time; a sweep is over within ProbeDeadline.
ScrapeTick ==
    /\ sweep = "asking" => elapsed < ProbeDeadline
    /\ elapsed' = IF sweep = "asking" THEN elapsed + 1 ELSE 0
    /\ next' = IF next > 0 THEN next - 1 ELSE 0
    /\ age' = IF known = "retry" THEN SatAt(age + 1, GiveUpAfter + ProbeDeadline) ELSE 0
    /\ reading' = SatAt(reading + 1, FreshFor + 1)
    /\ UNCHANGED <<known, recheck, answered, gate, sweep, fit, endpoint>>

ScrapeNext == Ask \/ AnswerEngine \/ AnswerOther \/ HealthChanges \/ EndpointChanges \/ ScrapeTick

ScrapeSpec == ScrapeInit /\ [][ScrapeNext]_scraping

(***************************************************************************)
(* The sweep is a ticker loop and its probe has a deadline; time passes.   *)
(***************************************************************************)
ScrapeFairness ==
    /\ WF_scraping(Ask) /\ WF_scraping(AnswerEngine \/ AnswerOther) /\ WF_scraping(ScrapeTick)

ScrapeFairSpec == ScrapeSpec /\ ScrapeFairness

-----------------------------------------------------------------------------
(***************************************************************************)
(* Properties.                                                             *)
(***************************************************************************)

\* Types of what is known of the endpoint and of the gate.
ScrapeTypeOK ==
    /\ known \in {"unknown", "retry", "none"} /\ recheck \in BOOLEAN
    /\ answered \in BOOLEAN /\ fit \in BOOLEAN
    /\ next \in 0..RetryEvery /\ age \in 0..(GiveUpAfter + ProbeDeadline)
    /\ reading \in 0..(FreshFor + 1)
    /\ gate \in {"absent", "shrunk", "full"}
    /\ sweep \in {"idle", "asking"} /\ elapsed \in 0..ProbeDeadline
    /\ endpoint \in {"engine", "page", "silent"}

\* A backend the scraper is done with gets no more readings, and readings are
\* all that widens a gate: so it is never written off with its gate shrunk.
SettledWide == known = "none" => gate # "shrunk"

\* An engine slow to load is found: an endpoint that never answers as something
\* else, and is an engine in good health from some time on, is scraped from some
\* time on, however late that is.
EngineFound ==
    [](endpoint # "page") /\ <>[](endpoint = "engine" /\ fit)
        => <>[](known = "unknown" /\ gate # "absent")

(***************************************************************************)
(* The inductive invariant behind SettledWide: a failing streak is no      *)
(* longer than the silence since the last reading.                         *)
(***************************************************************************)
SilentFor(n) == reading = FreshFor + 1 \/ reading >= n

StreakIsSilence == known = "retry" => SilentFor(age) /\ elapsed <= age

SweepIsSilence == SilentFor(elapsed)

ScrapeIInv == ScrapeTypeOK /\ StreakIsSilence /\ SweepIsSilence /\ SettledWide

=============================================================================
