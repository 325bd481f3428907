------------------------------ MODULE RateLimit ------------------------------
(****************************************************************************)
(* The per-principal rate limiter of every proxy replica (limiter.rs), the  *)
(* loop that reports its demand (reconcile.rs) and the control plane that   *)
(* divides the configured limit between the replicas (control/reconcile.rs  *)
(* and post_reconcile).                                                     *)
(*                                                                          *)
(* Every map is keyed by the principal and no operation touches two         *)
(* principals, so the module is the life of one of them.  Instants are kept *)
(* as ages in ticks, and an age stops counting once no comparison of the    *)
(* code can tell it from a greater one.  A bucket's contents are kept in    *)
(* units of 1/(Minute * Scale) of a request or token, so that refilling is  *)
(* exact; the code does it in f64.                                          *)
(****************************************************************************)
EXTENDS Integers, Sequences, FiniteSets, Sums

CONSTANTS
  Replicas,      \* the proxy processes
  Callers,       \* concurrent requests of the principal
  Plans,         \* the limits a snapshot may carry: [requests, tokens]
  Costs,         \* the token costs of requests
  Minute,        \* ticks in the minute a limit is stated for
  StaleAfter,    \* ticks after which a replica's report is dropped
  IdleAfter,     \* ticks after which an untouched entry is evicted
  Scale,         \* SHARE_SCALE
  MaxSkew,       \* ticks from reading the clock to holding both locks
  MaxWork,       \* bound on requests, and twice the crashes, losses and reloads
  None           \* no entry, call, report or limit

Dims == {"requests", "tokens"}

\* An entry of a replica's map, a check in progress, an admission, what the
\* control plane answers, and what it keeps of a replica.
Entries ==
  [bucket : [Dims -> [available : Nat, since : 0..IdleAfter]],
   share : [Dims -> 0..Scale], used : [Dims -> Nat], idle : 0..IdleAfter]
Calls      == [at : Replicas, cost : Costs, age : 0..MaxSkew, limits : Plans]
Admissions == [age : 0..Minute, cost : Costs, late : [Dims -> Nat]]
Answers    == [kind : {"answered"}, share : [Dims -> 0..Scale]]
Reports    == [counts : [Dims -> Nat], age : 0..StaleAfter]

\* A limit of a plan is a number or None, the dimension being unlimited.
ASSUME RateLimitAssumption ==
  /\ Minute \in Nat \ {0} /\ StaleAfter \in Nat \ {0}
  /\ IdleAfter \in Nat /\ IdleAfter >= Minute + MaxSkew
  /\ Scale \in Nat \ {0} /\ MaxSkew \in Nat /\ MaxWork \in Nat
  /\ Costs \subseteq Nat \ {0} /\ IsFiniteSet(Replicas)
  /\ Plans \subseteq [Dims -> Nat \cup {None}]
  /\ None \notin Nat /\ None \notin Entries /\ None \notin Reports

VARIABLES
  limits,    \* the principal's limits in the current snapshot
  entry,     \* per replica: its PrincipalState, or None
  call,      \* per caller: its check in progress, or None
  report,    \* per replica: None until this tick's report, then its stage
  table,     \* the control plane's per-replica counts
  admitted,  \* ghost: per replica, what was admitted in the last minute
  work

limiter == <<limits, entry, call, report, table, admitted, work>>

----------------------------------------------------------------------------
(* limiter.rs *)

Bounded(n, most) == IF n > most THEN most ELSE n

\* One whole request or token in the units of a bucket.
Whole == Minute * Scale

\* effective_capacity, in bucket units.
effective_capacity(configured, share) == configured * share * Minute

\* BucketState::refilled: what the bucket holds at an instant `elapsed` ticks
\* after its last refill.
refilled(bucket, capacity, elapsed) ==
  Bounded(bucket.available + (elapsed * capacity) \div Minute, capacity)

\* Instant::saturating_duration_since: the call read the clock `age` ticks ago,
\* the bucket was refilled `since` ticks ago.
Elapsed(bucket, age) == IF bucket.since > age THEN bucket.since - age ELSE 0

\* BucketState::peek's refusal: the ticks to wait, the code's fraction of a
\* second rounded up.  An empty capacity answers a full minute.
retry_after(bucket, amount, capacity, age) ==
  LET deficit == amount - refilled(bucket, capacity, Elapsed(bucket, age))
  IN  IF capacity = 0 THEN Minute
      ELSE (deficit * Minute + capacity - 1) \div capacity

peek(bucket, amount, capacity, age) ==
  refilled(bucket, capacity, Elapsed(bucket, age)) >= amount

\* The last refill keeps its old instant, so the same time is paid out again.
commit_keeping_refill(bucket, amount, capacity, age) ==
  [available |-> refilled(bucket, capacity, Elapsed(bucket, age)) - amount,
   since |-> bucket.since]

commit(bucket, amount, capacity, age) ==
  [available |-> refilled(bucket, capacity, Elapsed(bucket, age)) - amount,
   since |-> age]

\* PrincipalState::new: full buckets, the whole limit as this replica's share.
Fresh ==
  [bucket |-> [d \in Dims |->
                 [available |-> IF limits[d] = None THEN 0
                                ELSE effective_capacity(limits[d], Scale),
                  since |-> 0]],
   share |-> [d \in Dims |-> Scale],
   used |-> [d \in Dims |-> 0],
   idle |-> 0]

Limited == {d \in Dims : limits[d] # None}

Amount(d, cost) == IF d = "requests" THEN 1 ELSE cost

\* Limiter::check up to its locks: an unlimited principal leaves no trace;
\* otherwise state_for finds or inserts the entry, last_seen is set, and the
\* demand is counted whatever is decided of it.
Arrive(c, r, cost) ==
  /\ call[c] = None /\ Limited # {} /\ work < MaxWork
  /\ LET e == IF entry[r] = None THEN Fresh ELSE entry[r] IN
     entry' = [entry EXCEPT ![r] =
          [e EXCEPT !.idle = 0,
             !.used = [d \in Dims |-> IF d \in Limited THEN @[d] + Amount(d, cost) ELSE @[d]]]]
  /\ call' = [call EXCEPT ![c] = [at |-> r, cost |-> cost, age |-> 0, limits |-> limits]]
  /\ work' = work + 1
  /\ UNCHANGED <<limits, report, table, admitted>>

Capacity(e, plan, d) == effective_capacity(plan[d], e.share[d])

\* The buckets of the call's dimensions that cannot pay for it.
Short(e, k) ==
  {d \in Dims : /\ k.limits[d] # None
                /\ ~peek(e.bucket[d], Amount(d, k.cost) * Whole,
                         Capacity(e, k.limits, d), k.age)}

\* The ticks by which a commit moves a bucket's last refill back: it read the
\* clock before the call that committed ahead of it.
Rewound(bucket, age) == IF age > bucket.since THEN age - bucket.since ELSE 0

\* Both buckets are charged, or neither is.
Charged(e, k) ==
  [e EXCEPT !.bucket = [d \in Dims |->
     IF k.limits[d] = None \/ Short(e, k) # {} THEN e.bucket[d]
     ELSE commit(e.bucket[d], Amount(d, k.cost) * Whole, Capacity(e, k.limits, d), k.age)]]

\* Limiter::check under both locks: every bucket is looked at before any is
\* charged.  Admission is also written down in the ghost.
Decide(c) ==
  /\ call[c] # None
  /\ LET k == call[c]
         r == k.at
         e == entry[r]
     IN  /\ entry' = [entry EXCEPT ![r] = Charged(e, k)]
         /\ admitted' =
              IF Short(e, k) # {} THEN admitted
              ELSE [admitted EXCEPT ![r] = Append(@,
                     [age |-> 0, cost |-> k.cost,
                      late |-> [d \in Dims |-> Rewound(e.bucket[d], k.age)]])]
  /\ call' = [call EXCEPT ![c] = None]
  /\ UNCHANGED <<limits, report, table, work>>

\* spawn_eviction and evict_idle: the sweep forgets an entry untouched for
\* IdleAfter.  A check stores last_seen right after it found the entry; the
\* model has the two in one step.
evict_idle(r) ==
  /\ entry[r] # None /\ entry[r].idle >= IdleAfter
  /\ entry' = [entry EXCEPT ![r] = None]
  /\ UNCHANGED <<limits, call, report, table, admitted, work>>

----------------------------------------------------------------------------
(* control/reconcile.rs *)

Live(t) == {r \in Replicas : t[r] # None}

Total(t, d) == SumOf(Live(t), [r \in Live(t) |-> t[r].counts[d]])

\* share_of and share_to_millionths: the fraction of Scale, rounded to nearest.
share_of(mine, total, live) ==
  CASE total = 0 -> Scale
    [] total # 0 /\ mine = 0 -> (2 * Scale + live) \div (2 * live)
    [] OTHER -> (2 * mine * Scale + total) \div (2 * total)

\* Reports never age out.
KeptForever(t) == t

\* Reports as old as STALE_AFTER are dropped.
Kept(t) == [r \in Replicas |-> IF t[r] # None /\ t[r].age < StaleAfter THEN t[r] ELSE None]

\* post_reconcile and ReconcileState::report: the replica's counts replace its
\* last ones, stale peers are dropped, and the answer is its part of the rest.
Reported(t, r, counts) == Kept([t EXCEPT ![r] = [counts |-> counts, age |-> 0]])

Share(t, r) ==
  [d \in Dims |-> share_of(t[r].counts[d], Total(t, d), Cardinality(Live(t)))]

----------------------------------------------------------------------------
(* reconcile.rs *)

Done == [kind |-> "done"]

Drained(r) == [entry EXCEPT ![r].used = [d \in Dims |-> 0]]

\* run: the tick drains the counts, zeroing them, and the control plane takes
\* the report (with no entry there is nothing to send).  Draining touches only
\* this replica, so it is taken together with the report's arrival.
SendReport(r) ==
  /\ report[r] = None /\ entry[r] # None
  /\ table' = Reported(table, r, entry[r].used)
  /\ report' = [report EXCEPT ![r] = [kind |-> "answered", share |-> Share(table', r)]]
  /\ entry' = Drained(r)
  /\ UNCHANGED <<limits, call, admitted, work>>

\* The report never arrives: what was drained is forgotten.
ReportLost(r) ==
  /\ report[r] = None /\ entry[r] # None /\ work + 2 <= MaxWork
  /\ report' = [report EXCEPT ![r] = Done]
  /\ entry' = Drained(r)
  /\ work' = work + 2
  /\ UNCHANGED <<limits, call, table, admitted>>

InFlight(r) == report[r] \notin {None, Done}

\* apply_allowances: only an entry that still exists takes its new shares.
apply_allowances(r) ==
  /\ InFlight(r)
  /\ entry' = IF entry[r] = None THEN entry
              ELSE [entry EXCEPT ![r].share = report[r].share]
  /\ report' = [report EXCEPT ![r] = Done]
  /\ UNCHANGED <<limits, call, table, admitted, work>>

\* The answer is lost or comes after the timeout: the previous shares are kept.
AnswerLost(r) ==
  /\ InFlight(r) /\ work + 2 <= MaxWork
  /\ report' = [report EXCEPT ![r] = Done]
  /\ work' = work + 2
  /\ UNCHANGED <<limits, entry, call, table, admitted>>

----------------------------------------------------------------------------
(* The environment *)

\* A snapshot with other limits arrives; buckets in progress are kept.
Reload(plan) ==
  /\ plan # limits /\ work + 2 <= MaxWork
  /\ limits' = plan /\ work' = work + 2
  /\ UNCHANGED <<entry, call, report, table, admitted>>

\* A replica restarts, its limiter and its requests gone.
Restart(r) ==
  /\ entry[r] # None /\ work + 2 <= MaxWork
  /\ entry' = [entry EXCEPT ![r] = None]
  /\ report' = [report EXCEPT ![r] = None]
  /\ call' = [c \in Callers |-> IF call[c] # None /\ call[c].at = r THEN None ELSE call[c]]
  /\ admitted' = [admitted EXCEPT ![r] = <<>>]
  /\ work' = work + 2
  /\ UNCHANGED <<limits, table>>

\* The control plane restarts: its counts are only in memory.
RestartControl ==
  /\ Live(table) # {} /\ work + 2 <= MaxWork
  /\ table' = [r \in Replicas |-> None]
  /\ work' = work + 2
  /\ UNCHANGED <<limits, entry, call, report, admitted>>

Recent(log) == {i \in DOMAIN log : log[i].age < Minute}

\* The log's ages stop at a minute, and a log with nothing younger is emptied.
Aged(log) ==
  LET older == [i \in DOMAIN log |-> [log[i] EXCEPT !.age = Bounded(@ + 1, Minute)]]
  IN  IF Recent(older) = {} THEN <<>> ELSE older

\* A tick later, with no refill.
Unfilled(bucket) == [bucket EXCEPT !.since = Bounded(@ + 1, IdleAfter)]

\* Time passes for everyone.  A request holds its locks at most MaxSkew after
\* it read the clock; a report is sent, and answered or given up, in every tick.
LimiterTick ==
  /\ \A c \in Callers : call[c] # None => call[c].age < MaxSkew
  /\ \A r \in Replicas : report[r] = Done \/ (report[r] = None /\ entry[r] = None)
  /\ report' = [r \in Replicas |-> None]
  /\ call' = [c \in Callers |-> IF call[c] = None THEN None
                                ELSE [call[c] EXCEPT !.age = @ + 1]]
  /\ entry' = [r \in Replicas |-> IF entry[r] = None THEN None
       ELSE [entry[r] EXCEPT
               !.idle = Bounded(@ + 1, IdleAfter),
               !.bucket = [d \in Dims |-> Unfilled(@[d])]]]
  /\ table' = [r \in Replicas |-> IF table[r] = None THEN None
                 ELSE [table[r] EXCEPT !.age = Bounded(@ + 1, StaleAfter)]]
  /\ admitted' = [r \in Replicas |-> Aged(admitted[r])]
  /\ UNCHANGED <<limits, work>>

\* Every replica has just admitted the principal's first request.
LimiterInit ==
  /\ limits \in Plans
  /\ \E cost \in Costs :
       LET k == [cost |-> cost, age |-> 0, limits |-> limits] IN
       /\ Short(Fresh, k) = {}
       /\ entry = [r \in Replicas |->
            [Charged(Fresh, k) EXCEPT !.used =
               [d \in Dims |-> IF d \in Limited THEN Amount(d, cost) ELSE 0]]]
       /\ admitted = [r \in Replicas |->
            <<[age |-> 0, cost |-> cost, late |-> [d \in Dims |-> 0]]>>]
  /\ call = [c \in Callers |-> None]
  /\ report = [r \in Replicas |-> None]
  /\ table = [r \in Replicas |-> None]
  /\ work = 0

LimiterNext ==
  \/ \E c \in Callers, r \in Replicas, cost \in Costs : Arrive(c, r, cost)
  \/ \E c \in Callers : Decide(c)
  \/ \E r \in Replicas : \/ evict_idle(r)
                         \/ SendReport(r)
                         \/ apply_allowances(r)
                         \/ ReportLost(r)
                         \/ AnswerLost(r)
                         \/ Restart(r)
  \/ \E plan \in Plans : Reload(plan)
  \/ RestartControl
  \/ LimiterTick

\* The clock, a request past its clock reading and the reporting loops run on;
\* requests, faults, reloads and the sweep need never come.
LimiterFairness ==
  /\ WF_limiter(LimiterTick)
  /\ \A c \in Callers : WF_limiter(Decide(c))
  /\ \A r \in Replicas : /\ WF_limiter(SendReport(r))
                         /\ WF_limiter(apply_allowances(r))

LimiterSpec == LimiterInit /\ [][LimiterNext]_limiter /\ LimiterFairness

----------------------------------------------------------------------------
(* Properties *)

\* A plan no other exceeds in a dimension that every plan limits.
Largest(p, d) == p[d] # None /\ \A q \in Plans : q[d] # None /\ q[d] <= p[d]

\* What was spent by some of the requests in a log, and by how many ticks they
\* moved the last refill back.
Spent(log, which, d) == SumOf(which, [i \in DOMAIN log |-> Amount(d, log[i].cost)])
Late(log, which, d)  == SumOf(which, [i \in DOMAIN log |-> log[i].late[d]])

\* What a replica admits in any minute is at most two allowances (a full bucket
\* and a minute's refill), whatever shares, reloads and faults come between:
\* the only excess is the time from a request's clock to its locks, and what a
\* request that read its clock before one that committed ahead of it moves the
\* last refill back by (commit stores the instant it was given, even an earlier
\* one).
WindowBound ==
  \A r \in Replicas, d \in Dims, p \in Plans :
    Largest(p, d) =>
      LET log     == admitted[r]
          largest == effective_capacity(p[d], Scale)
          refill  == (Minute - 1 + MaxSkew + Late(log, Recent(log), d)) * largest
      IN  Spent(log, Recent(log), d) * Whole <= largest + refill \div Minute

\* A refused request that comes back alone after the retry_after it was told is
\* paid for, as long as it fits the replica's capacity at all: peek's deficit
\* and refilled agree, whatever shares the reconciliation has set.
RetryAfterEnough ==
  \A r \in Replicas, d \in Dims, cost \in Costs :
    (entry[r] # None /\ limits[d] # None) =>
      LET b == entry[r].bucket[d]
          capacity == Capacity(entry[r], limits, d)
          amount == Amount(d, cost) * Whole
      IN  (amount <= capacity /\ ~peek(b, amount, capacity, 0)) =>
            refilled(b, capacity, Elapsed(b, 0) + retry_after(b, amount, capacity, 0)) >= amount

\* "the sum of every replica's share can exceed 1.0 while some replica is idle,
\* but only ever by that idle replica's own floor" (share_of): the shares the
\* control plane's counts call for, up to the rounding of each.
SharesTight ==
  \A d \in Dims :
    LET t == Kept(table)
        live == Live(t)
        idle == {r \in live : t[r].counts[d] = 0}
    IN  (live # {} /\ Total(t, d) # 0) =>
          SumOf(live, [r \in live |-> share_of(t[r].counts[d], Total(t, d), Cardinality(live))])
            <= Scale + Cardinality(live)
               + (Scale * Cardinality(idle)) \div Cardinality(live)

\* The limit holds: on every replica in every minute, and over the replicas
\* together but for the floor of those that stand idle; and who is refused is
\* told the truth about when to come back (Limiter::check, share_of).
LimitHolds == WindowBound /\ SharesTight /\ RetryAfterEnough

\* A replica that is left alone with the principal gets the whole limit back:
\* the reports of a crashed or idle peer age out instead of diluting its share
\* for good, and a lost report only delays this.
ShareRecovered ==
  \A r \in Replicas :
    (<>[](\A q \in Replicas \ {r} : entry[q] = None /\ ~InFlight(q)))
      => <>[](entry[r] # None => \A d \in Dims : entry[r].share[d] = Scale)

----------------------------------------------------------------------------
(* The inductive invariant behind MeteringProofs' theorem on the limiter *)

LimiterTypeOK ==
  /\ limits \in Plans
  /\ entry \in [Replicas -> Entries \cup {None}]
  /\ call \in [Callers -> Calls \cup {None}]
  /\ report \in [Replicas -> Answers \cup {None, Done}]
  /\ table \in [Replicas -> Reports \cup {None}]
  /\ admitted \in [Replicas -> Seq(Admissions)]

\* A check in progress has touched the entry it found, so that the sweep leaves
\* it alone.
ChecksKeepEntry ==
  \A c \in Callers : call[c] # None =>
    entry[call[c].at] # None /\ entry[call[c].at].idle <= call[c].age

\* A log is in the order of the admissions.
LogOrdered ==
  \A r \in Replicas : \A i, j \in DOMAIN admitted[r] :
    i <= j => admitted[r][j].age <= admitted[r][i].age

\* An entry is as young as the last admission, but for the time of a check: an
\* entry that is swept, and comes back full, admitted nothing for a minute.
SweptIsQuiet ==
  \A r \in Replicas : \A i \in Recent(admitted[r]) :
    entry[r] # None /\ entry[r].idle <= admitted[r][i].age + MaxSkew

\* From any admission of the last minute on: what was spent, and what is left,
\* came from one full bucket and the refills since, time that was moved back
\* paid twice.
Pays(bucket, log, d, largest) ==
  /\ bucket.available <= largest
  /\ \A i \in Recent(log) :
       LET refill == (log[i].age + MaxSkew - bucket.since + Late(log, i..Len(log), d)) * largest
       IN  Spent(log, i..Len(log), d) * Whole + bucket.available <= largest + refill \div Minute

BucketPays ==
  \A r \in Replicas, d \in Dims, p \in Plans :
    Largest(p, d) /\ entry[r] # None =>
      Pays(entry[r].bucket[d], admitted[r], d, effective_capacity(p[d], Scale))

LimiterIInv ==
  LimiterTypeOK /\ ChecksKeepEntry /\ LogOrdered /\ SweptIsQuiet /\ BucketPays
=============================================================================
