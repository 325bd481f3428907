------------------------------- MODULE Metering -------------------------------
(***************************************************************************)
(* What requests cost and who is told: the proxies' usage reporters        *)
(* (src/usage.rs), ingestion, budgets and retention in the control plane   *)
(* (post_usage, roll_over_and_load_budgets, roll_up_and_prune_usage), and  *)
(* the charts.                                                             *)
(*                                                                         *)
(* One principal with a budget, and requests of another that has been      *)
(* deleted.  The network loses requests and answers, and a proxy crashes.  *)
(***************************************************************************)
EXTENDS Naturals, Sequences, FiniteSets, FiniteSetsExt, Sums

CONSTANTS
    Proxies, Events,
    Served,         \* [Events -> Outcomes]: how a request that is let through ends
    Deletable,      \* events whose principal may have been deleted since
    Outcomes,       \* "ok", "err" and the refusals, "budget" among them
    QueueCapacity, BatchMax, RetainBatches,
    BudgetLimit, BudgetWindow, Retention,
    MaxClock,              \* bound: half hours
    MaxFaults,             \* bound: failed attempts and shutdowns; a crash, a refusal or a failed update counts two
    Null

ASSUME MeteringAssumption ==
    /\ Served \in [Events -> Outcomes] /\ Deletable \subseteq Events /\ {"ok", "err", "budget"} \subseteq Outcomes
    /\ {QueueCapacity, BatchMax, RetainBatches, BudgetWindow, Retention} \subseteq Nat \ {0}
    /\ MaxClock \in Nat /\ IsFiniteSet(Events) /\ IsFiniteSet(Outcomes) /\ Null \notin Outcomes \cup Nat

VARIABLES
    clock, faults,
    orphans,        \* events of a deleted principal
    kind, at,       \* each request that happened: how it ended, and when
    queue, batch,   \* a reporter's channel, and the events it holds
    sending,        \* the delivery it waits for: its number, or Null
    backoff,        \* before not_before
    life,           \* "up", "flushing" (shutting down), "stopped"
    dropped,        \* events discarded and counted
    ingest,         \* deliveries the control plane is working on
    raw,            \* usage_events: rows per event
    rolled,         \* usage_rollup_hourly
    budget, read,   \* the budgets row, and the one a build has read
    pub,            \* tokens used, as published
    lastUsed,       \* api_keys.last_used_at
    landed,         \* events that had a row
    gone            \* events no reporter holds although nobody counted them dropped

reporting == <<queue, batch, sending, backoff, life, dropped>>
vars == <<clock, faults, orphans, kind, at, reporting, ingest, raw, rolled, budget, read, pub, lastUsed, landed, gone>>

Happened == {e \in Events : kind[e] # Null}
Held(p)  == Range(queue[p]) \cup Range(batch[p])
Count(S, o) == Cardinality({e \in S : kind[e] = o})
Tokens(S) == Count(S, "ok")

-----------------------------------------------------------------------------
(***************************************************************************)
(* The reporter of a proxy.                                                *)
(***************************************************************************)

ServerKept == UNCHANGED <<orphans, ingest, raw, rolled, budget, read, pub, lastUsed, landed>>
Fault(cost) == faults + cost <= MaxFaults /\ faults' = faults + cost

\* A request ends and is recorded; a full channel drops it.  A proxy whose
\* snapshot shows the budget spent refuses.
record(p) ==
    /\ life[p] = "up"
    /\ \E e \in Events :
          /\ kind[e] = Null
          /\ kind' = [kind EXCEPT ![e] = IF pub >= BudgetLimit THEN "budget" ELSE Served[e]]
          /\ at' = [at EXCEPT ![e] = clock]
          /\ IF Len(queue[p]) < QueueCapacity
             THEN queue' = [queue EXCEPT ![p] = Append(@, e)] /\ UNCHANGED dropped
             ELSE dropped' = dropped + 1 /\ UNCHANGED queue
    /\ UNCHANGED <<clock, faults, batch, sending, backoff, life, gone>> /\ ServerKept

\* Deliveries are numbered, so that one the reporter gave up on can go on.
Deliver(p, events) ==
    LET n == CHOOSE n \in 1 .. Cardinality(DOMAIN ingest) + 1 : <<p, n>> \notin DOMAIN ingest IN
    /\ sending' = [sending EXCEPT ![p] = n]
    /\ ingest' = [i \in DOMAIN ingest \cup {<<p, n>>} |->
                     IF i = <<p, n>> THEN [events |-> events, step |-> "sent"] ELSE ingest[i]]

Free(p) == life[p] = "up" /\ sending[p] = Null

\* run: an event is taken into the batch, and a full batch is sent.
Receive(p) ==
    /\ Free(p) /\ queue[p] # <<>>
    /\ LET held == Append(batch[p], Head(queue[p])) IN
       /\ batch' = [batch EXCEPT ![p] = held]
       /\ IF Len(held) >= BatchMax /\ ~backoff[p] THEN Deliver(p, Range(held)) ELSE UNCHANGED <<sending, ingest>>
    /\ queue' = [queue EXCEPT ![p] = Tail(@)]
    /\ UNCHANGED <<clock, faults, kind, at, backoff, life, dropped, orphans, raw, rolled, budget, read, pub, lastUsed, landed, gone>>

\* Mutant of FlushTick: the tick looks for new events first.
FlushTickOnNews(p) ==
    /\ Free(p) /\ ~backoff[p] /\ batch[p] # <<>> /\ queue[p] # <<>>
    /\ Deliver(p, Range(batch[p]))
    /\ UNCHANGED <<clock, faults, kind, at, queue, batch, backoff, life, dropped, orphans, raw, rolled, budget, read, pub, lastUsed, landed, gone>>

FlushTick(p) ==
    /\ Free(p) /\ ~backoff[p] /\ batch[p] # <<>>
    /\ Deliver(p, Range(batch[p]))
    /\ UNCHANGED <<clock, faults, kind, at, queue, batch, backoff, life, dropped, orphans, raw, rolled, budget, read, pub, lastUsed, landed, gone>>

BackoffOver(p) ==
    /\ backoff[p] /\ backoff' = [backoff EXCEPT ![p] = FALSE]
    /\ UNCHANGED <<clock, faults, kind, at, queue, batch, sending, life, dropped, gone>> /\ ServerKept

\* flush_now on shutdown: everything queued and held, one attempt.
flush_now(p) ==
    /\ Free(p) /\ Fault(1) /\ life' = [life EXCEPT ![p] = IF Held(p) = {} THEN "stopped" ELSE "flushing"]
    /\ batch' = [batch EXCEPT ![p] = @ \o queue[p]] /\ queue' = [queue EXCEPT ![p] = <<>>]
    /\ IF Held(p) = {} THEN UNCHANGED <<sending, ingest>> ELSE Deliver(p, Held(p))
    /\ UNCHANGED <<clock, kind, at, backoff, dropped, orphans, raw, rolled, budget, read, pub, lastUsed, landed, gone>>

Stopped(p) == life' = [life EXCEPT ![p] = IF @ = "flushing" THEN "stopped" ELSE @]

\* The control plane took the batch, or refused it for good.
Answered(p) ==
    /\ sending[p] # Null /\ ingest[<<p, sending[p]>>].step \in {"taken", "refused"}
    /\ gone' = IF ingest[<<p, sending[p]>>].step = "refused" THEN gone \cup Range(batch[p]) ELSE gone
    /\ batch' = [batch EXCEPT ![p] = <<>>]
    /\ sending' = [sending EXCEPT ![p] = Null]
    /\ ingest' = [i \in DOMAIN ingest \ {<<p, sending[p]>>} |-> ingest[i]]
    /\ Stopped(p)
    /\ UNCHANGED <<clock, faults, kind, at, queue, backoff, dropped, orphans, raw, rolled, budget, read, pub, lastUsed, landed>>

Cap == BatchMax * RetainBatches

\* Mutant of Retained: the oldest events past the bound go uncounted.
RetainedQuietly(events) ==
    LET excess == IF Len(events) > Cap THEN Len(events) - Cap ELSE 0
    IN [kept |-> SubSeq(events, excess + 1, Len(events)), excess |-> 0]

\* What a failed attempt keeps.
Retained(events) ==
    LET excess == IF Len(events) > Cap THEN Len(events) - Cap ELSE 0
    IN [kept |-> SubSeq(events, excess + 1, Len(events)), excess |-> excess]

\* An error of the control plane, a lost connection, ten seconds without an
\* answer: the batch is kept, up to the bound, and tried again after a while.
\* The delivery itself may be under way still, or never have arrived.
attempt_failed(p) ==
    /\ sending[p] # Null /\ Fault(1)
    /\ LET left == Retained(batch[p]) IN
       IF life[p] = "flushing"
       THEN gone' = gone \cup Range(batch[p]) /\ batch' = [batch EXCEPT ![p] = <<>>] /\ UNCHANGED <<dropped, backoff>>
       ELSE /\ batch' = [batch EXCEPT ![p] = left.kept] /\ dropped' = dropped + left.excess
            /\ backoff' = [backoff EXCEPT ![p] = TRUE] /\ UNCHANGED gone
    /\ sending' = [sending EXCEPT ![p] = Null]
    /\ LET i == <<p, sending[p]>> IN
       \/ ingest' = ingest
       \/ ingest[i].step = "sent" /\ ingest' = [j \in DOMAIN ingest \ {i} |-> ingest[j]]
    /\ Stopped(p)
    /\ UNCHANGED <<clock, orphans, kind, at, queue, raw, rolled, budget, read, pub, lastUsed, landed>>

\* The process dies with what it holds, and comes back with nothing.
Crash(p) ==
    /\ life[p] # "stopped" /\ Fault(2)
    /\ gone' = gone \cup Held(p)
    /\ queue' = [queue EXCEPT ![p] = <<>>] /\ batch' = [batch EXCEPT ![p] = <<>>]
    /\ sending' = [sending EXCEPT ![p] = Null] /\ backoff' = [backoff EXCEPT ![p] = FALSE]
    /\ life' = [life EXCEPT ![p] = "up"]
    /\ UNCHANGED <<clock, kind, at, dropped>> /\ ServerKept

-----------------------------------------------------------------------------
(***************************************************************************)
(* post_usage: one statement for the rows, and then one for the budget and *)
(* one for the key, which nobody else writes.                              *)
(***************************************************************************)

ClientKept == UNCHANGED <<clock, orphans, kind, at, reporting>>
Step(i, s) == ingest' = [ingest EXCEPT ![i].step = s]
Waited(i)  == sending[i[1]] = i[2]

\* Nobody waits for the answer of an abandoned delivery.
End(i, s) == ingest' = IF Waited(i) THEN [ingest EXCEPT ![i].step = s] ELSE [j \in DOMAIN ingest \ {i} |-> ingest[j]]

\* The join leaves the rows of unknown principals out.
post_usage(i) ==
    /\ ingest[i].step = "sent"
    /\ raw' = [e \in Events |-> IF e \in ingest[i].events \ orphans THEN raw[e] + 1 ELSE raw[e]]
    /\ landed' = landed \cup (ingest[i].events \ orphans)
    /\ gone' = gone \cup (ingest[i].events \cap orphans)
    /\ Step(i, "inserted")
    /\ UNCHANGED <<faults, rolled, budget, read, pub, lastUsed>> /\ ClientKept

\* An answer that retrying cannot change: nothing was written.
post_usage_refused(i) ==
    /\ ingest[i].step = "sent" /\ Fault(2)
    /\ End(i, "refused")
    /\ UNCHANGED <<raw, rolled, budget, read, pub, lastUsed, landed, gone>> /\ ClientKept

Latest(S) == Max({at[e] : e \in S})

stamp_key_last_used(events) == lastUsed' = Max({lastUsed, Latest(events)})

\* A budget that cannot be updated is logged, and the batch is taken anyway.
apply_usage_to_budgets(i) ==
    /\ ingest[i].step = "inserted"
    /\ \/ budget' = [budget EXCEPT !.used = @ + Tokens(ingest[i].events \ orphans)] /\ UNCHANGED faults
       \/ UNCHANGED budget /\ Fault(2)
    /\ stamp_key_last_used(ingest[i].events)
    /\ End(i, "taken")
    /\ UNCHANGED <<raw, rolled, read, pub, landed, gone>> /\ ClientKept

-----------------------------------------------------------------------------
(***************************************************************************)
(* Budgets: a build reads the row, rolls a window that is over, and        *)
(* publishes.                                                              *)
(***************************************************************************)

\* Mutant of rolled_over: a window is over one step early.
rolled_over_early(start) == IF clock + 1 >= start + BudgetWindow THEN start + BudgetWindow ELSE Null

\* The next window's start, if this one is over.
rolled_over(start) == IF clock >= start + BudgetWindow THEN start + BudgetWindow ELSE Null

BuildRead ==
    /\ read = Null /\ (budget.used # pub \/ rolled_over(budget.start) # Null)
    /\ read' = budget
    /\ UNCHANGED <<faults, ingest, raw, rolled, budget, pub, lastUsed, landed, gone>> /\ ClientKept

roll_over_and_load_budgets ==
    /\ read # Null /\ read' = Null
    /\ LET next == rolled_over(read.start) IN
       IF next = Null THEN pub' = read.used /\ UNCHANGED budget
       ELSE budget' = [used |-> 0, start |-> next] /\ pub' = 0
    /\ UNCHANGED <<faults, ingest, raw, rolled, lastUsed, landed, gone>> /\ ClientKept

-----------------------------------------------------------------------------
(***************************************************************************)
(* Retention: rows past the cutoff are folded into hourly counters and     *)
(* deleted, in one transaction of two statements.                          *)
(***************************************************************************)

\* The clock counts half hours; the cutoff is not on the hour.
Hour(e) == at[e] \div 2
Hours   == 0 .. MaxClock \div 2
Old(cutoff)  == {e \in Happened : raw[e] > 0 /\ at[e] < cutoff}

\* SUM over the rows of some events.
AllRows(S)    == SumOf(S, raw)
RowsOf(S, o)  == SumOf({e \in S : kind[e] = o}, raw)

\* Mutant of Folded: the bucket is overwritten, not added to.
FoldedOver(h, S) ==
    [requests |-> AllRows(S), failed |-> [o \in Outcomes \ {"ok"} |-> RowsOf(S, o)]]

\* A bucket keeps the requests and, of them, each kind that failed.
Folded(h, S) ==
    [requests |-> rolled[h].requests + AllRows(S),
     failed   |-> [o \in Outcomes \ {"ok"} |-> rolled[h].failed[o] + RowsOf(S, o)]]

\* The counters are committed with the deletion; the two statements see the
\* same rows, since what arrives meanwhile is younger (Tick).
roll_up_and_prune_usage ==
    /\ clock >= Retention
    /\ LET old == Old(clock - Retention + 1) IN
       /\ old # {}
       /\ rolled' = [h \in Hours |-> LET S == {e \in old : Hour(e) = h} IN IF S = {} THEN rolled[h] ELSE Folded(h, S)]
       /\ raw' = [e \in Events |-> IF e \in old THEN 0 ELSE raw[e]]
    /\ UNCHANGED <<faults, ingest, budget, read, pub, lastUsed, landed, gone>> /\ ClientKept

\* What is left of a bucket's requests when those that failed are taken out.
Succeeded(bucket) == bucket.requests - SumOf(Outcomes \ {"ok"}, bucket.failed)

\* timeseries: the raw rows and the buckets, which are taken apart again.
timeseries_rows(o) ==
    RowsOf(Happened, o) +
    SumOf(Hours, [h \in Hours |-> IF o # "ok" THEN rolled[h].failed[o] ELSE Succeeded(rolled[h])])

\* Half an hour passes.  No outage is as long as the retention (90 days): a row
\* that arrives is younger than the cutoff.
Tick ==
    /\ clock < MaxClock /\ clock' = clock + 1
    /\ \A e \in Happened : (\E p \in Proxies : e \in Held(p)) \/ (\E i \in DOMAIN ingest : ingest[i].step = "sent" /\ e \in ingest[i].events)
                              => clock - at[e] + 1 < Retention
    /\ UNCHANGED <<faults, kind, at, reporting, gone>> /\ ServerKept

-----------------------------------------------------------------------------
Init ==
    /\ clock = 0 /\ faults = 0 /\ orphans \in SUBSET Deletable
    /\ kind = [e \in Events |-> Null] /\ at = [e \in Events |-> 0]
    /\ queue = [p \in Proxies |-> <<>>] /\ batch = [p \in Proxies |-> <<>>]
    /\ sending = [p \in Proxies |-> Null] /\ backoff = [p \in Proxies |-> FALSE]
    /\ life = [p \in Proxies |-> "up"] /\ dropped = 0
    /\ ingest = <<>>
    /\ raw = [e \in Events |-> 0]
    /\ rolled = [h \in Hours |-> [requests |-> 0, failed |-> [o \in Outcomes \ {"ok"} |-> 0]]]
    /\ budget = [used |-> 0, start |-> 0] /\ read = Null /\ pub = 0
    /\ lastUsed = 0 /\ landed = {} /\ gone = {}

Reporter(p) ==
    \/ Receive(p) \/ FlushTick(p) \/ BackoffOver(p) \/ Answered(p)

Ingestion(i) == post_usage(i) \/ apply_usage_to_budgets(i)

Build == BuildRead \/ roll_over_and_load_budgets

Next ==
    \/ \E p \in Proxies : record(p) \/ Reporter(p) \/ flush_now(p) \/ attempt_failed(p) \/ Crash(p)
    \/ \E i \in DOMAIN ingest : Ingestion(i) \/ post_usage_refused(i)
    \/ Build \/ roll_up_and_prune_usage \/ Tick

\* The reporter's ticker, the database and the snapshot builder go on.
Fairness ==
    /\ \A p \in Proxies : WF_vars(Reporter(p))
    /\ WF_vars(\E i \in DOMAIN ingest : Ingestion(i))
    /\ WF_vars(Build)

Spec == Init /\ [][Next]_vars /\ Fairness

-----------------------------------------------------------------------------
(***************************************************************************)
(* Properties.                                                             *)
(***************************************************************************)

HappenedBy == [o \in Outcomes |-> Count(Happened, o)]
ChartedBy  == [o \in Outcomes |-> timeseries_rows(o)]

Ledger == INSTANCE UsageLedger WITH happened <- HappenedBy, charged <- ChartedBy

\* The charts keep the ledger: retries, crashes, roll-ups and the way buckets
\* are stored and taken apart never lose or invent a request in any outcome's
\* count (roll_up_and_prune_usage and timeseries_rows against post_usage).
ChartsKeepLedger == Ledger!Spec

\* A request whose usage reached nobody is one that a counter shows: what no
\* reporter and no delivery holds, and no row records, was dropped and
\* counted, refused by the control plane, or died with its process
\* (UsageReporter::dropped, attempt).
LossesCounted ==
    Cardinality({e \in Happened \ (gone \cup landed) :
        /\ ~\E p \in Proxies : e \in Held(p)
        /\ ~\E i \in DOMAIN ingest : e \in ingest[i].events}) <= dropped

\* A key's last use never moves back, whichever proxy's batch comes in last
\* (stamp_key_last_used).
LastUseAdvances == [][lastUsed' >= lastUsed]_vars

\* Whatever is held is delivered in the end, or lost in a way that shows
\* (run, attempt: a failed batch is tried again, a part of one too).
UsageDelivered ==
    \A p \in Proxies : (Held(p) # {} /\ life[p] = "up") ~> (Held(p) = {} \/ life[p] = "stopped")

\* What a proxy served is on record for good (Reporter::run, post_usage): it is
\* delivered, and a later batch of an older request takes nothing back.
UsageRecorded == UsageDelivered /\ LastUseAdvances

\* A budget spent in a window is published before the window is over, so that
\* the proxies refuse (roll_over_and_load_budgets, rebuild_once).
SpendPublished ==
    \A s \in 0 .. MaxClock :
        (budget.used >= BudgetLimit /\ budget.start = s /\ clock < s + BudgetWindow)
            ~> (pub >= BudgetLimit \/ clock >= s + BudgetWindow)

-----------------------------------------------------------------------------
(***************************************************************************)
(* The inductive invariant behind them.                                    *)
(***************************************************************************)

Buckets == [requests : Nat, failed : [Outcomes \ {"ok"} -> Nat]]

\* Type correctness.
TypeOK ==
    /\ clock \in 0 .. MaxClock /\ dropped \in Nat /\ lastUsed \in Nat
    /\ kind \in [Events -> Outcomes \cup {Null}] /\ at \in [Events -> 0 .. MaxClock]
    /\ queue \in [Proxies -> Seq(Events)] /\ batch \in [Proxies -> Seq(Events)]
    /\ sending \in [Proxies -> Nat \cup {Null}] /\ backoff \in [Proxies -> BOOLEAN]
    /\ life \in [Proxies -> {"up", "flushing", "stopped"}]
    /\ IsFiniteSet(DOMAIN ingest) /\ DOMAIN ingest \subseteq Proxies \X Nat
    /\ \A i \in DOMAIN ingest : ingest[i] \in [events : SUBSET Events, step : {"sent", "inserted", "taken", "refused"}]
    /\ raw \in [Events -> Nat] /\ rolled \in [Hours -> Buckets]
    /\ orphans \subseteq Events /\ landed \subseteq Events /\ gone \subseteq Events

\* What is held, delivered or on record did happen, and no delivery is empty.
NothingInvented ==
    /\ \A p \in Proxies : Held(p) \subseteq Happened
    /\ \A i \in DOMAIN ingest : ingest[i].events \subseteq Happened /\ ingest[i].events # {}
    /\ \A e \in Events : raw[e] > 0 => e \in Happened

\* The delivery a reporter waits for is of the batch it holds.
WaitsForItsBatch ==
    \A p \in Proxies : sending[p] # Null =>
        <<p, sending[p]>> \in DOMAIN ingest /\ ingest[<<p, sending[p]>>].events = Range(batch[p])

\* What was inserted is on record, or its principal was unknown.
InsertedIsOnRecord ==
    \A i \in DOMAIN ingest : ingest[i].step \in {"inserted", "taken"} => ingest[i].events \subseteq landed \cup gone

\* What no reporter holds and no row records, whatever old deliveries hold.
Unheld == {e \in Happened \ (gone \cup landed) : ~\E p \in Proxies : e \in Held(p)}

\* A bucket's failures are among its requests.
BucketsSound == \A h \in Hours : SumOf(Outcomes \ {"ok"}, rolled[h].failed) <= rolled[h].requests

IInv ==
    /\ TypeOK /\ NothingInvented /\ WaitsForItsBatch /\ InsertedIsOnRecord
    /\ Cardinality(Unheld) <= dropped /\ BucketsSound
=============================================================================
