------------------------------ MODULE Admission ------------------------------
(***************************************************************************)
(* The admission gate in front of one engine (src/admission.rs), with the  *)
(* part of a Backend that meets it: the live install of an automatic gate  *)
(* and the InflightGuard that captures it (src/registry.rs).               *)
(*                                                                         *)
(* Three kinds of actor interleave at the granularity of one atomic        *)
(* operation or one lock:                                                  *)
(*   - requests, each inside InflightGuard::begin / try_admit / admit /    *)
(*     Permit::drop (pc says where);                                       *)
(*   - the scraper task, the only caller of observe, restore_full and      *)
(*     enable_auto_admission (scr says where);                             *)
(*   - the clock.                                                          *)
(*                                                                         *)
(* tokio's Semaphore is external: free is available_permits, a request at  *)
(* "waiting" is in its queue, one at "assigned" has been handed a permit   *)
(* but has not been polled yet.  Which waiter receives a returned permit   *)
(* is left open, so what is shown holds for every queue order.             *)
(***************************************************************************)
EXTENDS Naturals, FiniteSets

CONSTANTS
    Requests,        \* concurrent requests to this backend
    MaxConcurrent,   \* Settings::max_concurrent(), at least one
    HighWater,       \* Settings::high_water
    MaxQueued,       \* Settings::max_queued
    Cooldown,        \* SHRINK_COOLDOWN, in ticks
    MaxTime          \* bound: the clock stops here

ASSUME AdmissionAssumption ==
    /\ IsFiniteSet(Requests)
    /\ MaxConcurrent \in Nat \ {0}
    /\ HighWater \in Nat \ {0}
    /\ MaxQueued \in Nat
    /\ Cooldown \in Nat \ {0}
    /\ MaxTime \in Nat

VARIABLES
    pc,              \* where each request is
    auto,            \* admission_config = Auto (otherwise Explicit)
    installed,       \* Backend::admission is Some
    free,            \* sem.available_permits()
    capacity,        \* the ceiling
    debt,            \* permits owed by a lowered ceiling
    queued,          \* callers counted as waiting
    seeded,          \* pre-gate requests that still owe a slot back
    lastHalved,      \* Option<Instant>: {} or {t}
    scr,             \* where the scraper is
    now,             \* the clock
    atInstall,       \* history: requests in flight when the gate was installed
    cuts             \* history: stamps of halvings since the last restore

gate == <<free, capacity, debt, queued, seeded>>
vars == <<pc, auto, installed, free, capacity, debt, queued, seeded,
          lastHalved, scr, now, atInstall, cuts>>

(***************************************************************************)
(* Places of a request.                                                    *)
(***************************************************************************)
PC == {"idle",        \* no request under way
       "ungated",     \* in flight, began before there was a gate
       "seedDebt",    \* dropping; took back its seed, debt not yet consulted
       "arrived",     \* holds the gate's Arc, nothing asked yet
       "checking",    \* admit: fast path failed, bound not yet checked
       "joining",     \* admit: bound passed, not yet counted
       "polling",     \* admit: counted, acquire not yet polled
       "waiting",     \* admit: in the semaphore's queue
       "assigned",    \* admit: handed a permit, not yet polled
       "granted",     \* admit: has the permit, still counted as waiting
       "leaving",     \* admit: gave up, still counted as waiting
       "holding",     \* has a permit, in flight
       "returning"}   \* Permit::drop found no debt, permit not yet back

At(S) == {r \in Requests : pc[r] \in S}
Num(S) == Cardinality(At(S))

\* Requests that hold one of the semaphore's permits, or a slot that is on
\* its way back to it.
Circulating == {"seedDebt", "assigned", "granted", "holding", "returning"}
\* Requests a QueuedGuard counts.
Counted == {"polling", "waiting", "assigned", "granted", "leaving"}
\* Requests the engine is working on.
InFlight == {"ungated", "granted", "holding"}

Min2(a, b) == IF a <= b THEN a ELSE b
Max2(a, b) == IF a >= b THEN a ELSE b

(***************************************************************************)
(* Pure policy of the ceiling.                                             *)
(***************************************************************************)
\* shrink's target: half the ceiling, never below MIN_CONCURRENT.
Halved(c) == Max2(c \div 2, 1)

\* The seeds a gate starts with: work beyond the ceiling is not seeded.
SeedsFor(inFlight) == Min2(inFlight, MaxConcurrent)

\* Whether a halving is due: one per cooldown, measured from the last stamp.
ShrinkDue == \A t \in lastHalved : now - t >= Cooldown

ScrIdle == [at |-> "idle", forgot |-> 0, owed |-> 0]

(***************************************************************************)
(* A Config::Explicit backend is built with its gate; a Config::Auto one   *)
(* has none until the scraper finds an engine.                             *)
(***************************************************************************)
Init ==
    /\ pc = [r \in Requests |-> "idle"]
    /\ auto \in BOOLEAN
    /\ installed = ~auto
    /\ free = MaxConcurrent
    /\ capacity = MaxConcurrent
    /\ debt = 0
    /\ queued = 0
    /\ seeded = 0
    /\ lastHalved = {}
    /\ scr = ScrIdle
    /\ now = 0
    /\ atInstall = 0
    /\ cuts = {}

Goto(r, to) == pc' = [pc EXCEPT ![r] = to]

\* Semaphore::add_permits, and an OwnedSemaphorePermit dropped: a queued
\* waiter receives the permit, and only with nobody queued does it become
\* free.  base is the program counters after the caller's own step.
AddPermit(base) ==
    \/ \E w \in At({"waiting"}) :
          /\ pc' = [base EXCEPT ![w] = "assigned"]
          /\ UNCHANGED free
    \/ /\ At({"waiting"}) = {}
       /\ pc' = base
       /\ free' = free + 1

-----------------------------------------------------------------------------
(***************************************************************************)
(* Requests.                                                               *)
(***************************************************************************)

\* begin_request: registers the request and reads the gate under the
\* transition lock.
Begin(r) ==
    /\ pc[r] = "idle"
    /\ Goto(r, IF installed THEN "arrived" ELSE "ungated")
    /\ UNCHANGED <<auto, installed, gate, lastHalved, scr, now, atInstall, cuts>>

\* try_acquire_owned succeeds: try_admit, and the fast path of admit.
TryAdmitOk(r) ==
    /\ pc[r] = "arrived"
    /\ free > 0
    /\ free' = free - 1
    /\ Goto(r, "holding")
    /\ UNCHANGED <<auto, installed, capacity, debt, queued, seeded, lastHalved,
                   scr, now, atInstall, cuts>>

\* No permit is free.  A caller with a sibling to go to is refused and drops
\* its guard; the others go on inside admit.
TryAdmitFail(r) ==
    /\ pc[r] = "arrived"
    /\ free = 0
    /\ \E to \in {"idle", "checking"} : Goto(r, to)
    /\ UNCHANGED <<auto, installed, gate, lastHalved, scr, now, atInstall, cuts>>

\* The load of queued that is compared with max_queued.
CheckBound(r) ==
    /\ pc[r] = "checking"
    /\ Goto(r, IF queued >= MaxQueued THEN "idle" ELSE "joining")
    /\ UNCHANGED <<auto, installed, gate, lastHalved, scr, now, atInstall, cuts>>

\* queued.fetch_add(1): a separate operation from the check.
Join(r) ==
    /\ pc[r] = "joining"
    /\ queued' = queued + 1
    /\ Goto(r, "polling")
    /\ UNCHANGED <<auto, installed, free, capacity, debt, seeded, lastHalved,
                   scr, now, atInstall, cuts>>

\* First poll of acquire_owned.
Poll(r) ==
    /\ pc[r] = "polling"
    /\ IF free > 0
       THEN free' = free - 1 /\ Goto(r, "granted")
       ELSE UNCHANGED free /\ Goto(r, "waiting")
    /\ UNCHANGED <<auto, installed, capacity, debt, queued, seeded, lastHalved,
                   scr, now, atInstall, cuts>>

\* The waiter is polled again and finds its permit.
Resume(r) ==
    /\ pc[r] = "assigned"
    /\ Goto(r, "granted")
    /\ UNCHANGED <<auto, installed, gate, lastHalved, scr, now, atInstall, cuts>>

\* The wait ends without the permit: max_wait elapsed, or the client hung up
\* and the handler's future is dropped.
GiveUp(r) ==
    /\ pc[r] = "waiting"
    /\ Goto(r, "leaving")
    /\ UNCHANGED <<auto, installed, gate, lastHalved, scr, now, atInstall, cuts>>

\* The same, with a permit already assigned: dropping the acquire future
\* gives it straight back to the semaphore, past Permit::drop.
GiveUpAssigned(r) ==
    /\ pc[r] = "assigned"
    /\ AddPermit([pc EXCEPT ![r] = "leaving"])
    /\ UNCHANGED <<auto, installed, capacity, debt, queued, seeded, lastHalved,
                   scr, now, atInstall, cuts>>

\* QueuedGuard::drop, however the wait ended.
Unqueue(r) ==
    /\ pc[r] \in {"granted", "leaving"}
    /\ queued' = queued - 1
    /\ Goto(r, IF pc[r] = "granted" THEN "holding" ELSE "idle")
    /\ UNCHANGED <<auto, installed, free, capacity, debt, seeded, lastHalved,
                   scr, now, atInstall, cuts>>

\* Permit::drop: the compare-and-swap on debt.  A repaid permit is forgotten.
DropPermit(r) ==
    /\ pc[r] = "holding"
    /\ IF debt > 0
       THEN debt' = debt - 1 /\ Goto(r, "idle")
       ELSE UNCHANGED debt /\ Goto(r, "returning")
    /\ UNCHANGED <<auto, installed, free, capacity, queued, seeded, lastHalved,
                   scr, now, atInstall, cuts>>

\* The permit that repaid nothing goes back to the semaphore.
ReturnPermit(r) ==
    /\ pc[r] = "returning"
    /\ AddPermit([pc EXCEPT ![r] = "idle"])
    /\ UNCHANGED <<auto, installed, capacity, debt, queued, seeded, lastHalved,
                   scr, now, atInstall, cuts>>

\* InflightGuard::drop of a request that captured no gate; release_seed's
\* first compare-and-swap when a gate has been installed since.
DropUngated(r) ==
    /\ pc[r] = "ungated"
    /\ IF installed /\ seeded > 0
       THEN seeded' = seeded - 1 /\ Goto(r, "seedDebt")
       ELSE UNCHANGED seeded /\ Goto(r, "idle")
    /\ UNCHANGED <<auto, installed, free, capacity, debt, queued, lastHalved,
                   scr, now, atInstall, cuts>>

\* release_seed: repay debt first, like every other returned slot.
ReleaseSeed(r) ==
    /\ pc[r] = "seedDebt"
    /\ IF debt > 0
       THEN debt' = debt - 1 /\ Goto(r, "idle")
       ELSE UNCHANGED debt /\ Goto(r, "returning")
    /\ UNCHANGED <<auto, installed, free, capacity, queued, seeded, lastHalved,
                   scr, now, atInstall, cuts>>

-----------------------------------------------------------------------------
(***************************************************************************)
(* The scraper.  It is one task, so its operations never overlap.  Only it *)
(* writes capacity, so a load and a store of capacity join the step next   *)
(* to them.                                                                *)
(***************************************************************************)

\* enable_auto_admission: under the transition lock, seeding the gate with
\* what is in flight.  A request in InflightGuard::drop holds that lock too.
EnableAutoAdmission ==
    /\ scr.at = "idle"
    /\ auto /\ ~installed
    /\ LET inFlight == Num({"ungated"}) IN
       /\ seeded' = SeedsFor(inFlight)
       /\ free' = MaxConcurrent - SeedsFor(inFlight)
       /\ atInstall' = inFlight
    /\ installed' = TRUE
    /\ UNCHANGED <<pc, auto, capacity, debt, queued, lastHalved, scr, now, cuts>>

\* observe_at with a deep queue: consider_shrink's check and stamp, one step
\* under the mutex.
ObserveDeep(waiting) ==
    /\ scr.at = "idle" /\ installed
    /\ waiting >= HighWater
    /\ ShrinkDue
    /\ lastHalved' = {now}
    /\ scr' = [ScrIdle EXCEPT !.at = "shrink"]
    /\ UNCHANGED <<pc, auto, installed, gate, now, atInstall, cuts>>

\* Mutant of Grow: nothing is given back while slots are owed.
GrowWaitingForDebt ==
    /\ capacity < MaxConcurrent
    /\ debt = 0
    /\ capacity' = capacity + 1
    /\ AddPermit(pc)
    /\ UNCHANGED debt

\* grow, below the full ceiling: a slot still owed stays in circulation; only
\* without debt is a permit added.
Grow ==
    /\ capacity < MaxConcurrent
    /\ capacity' = capacity + 1
    /\ IF debt > 0
       THEN debt' = debt - 1 /\ UNCHANGED <<pc, free>>
       ELSE UNCHANGED debt /\ AddPermit(pc)

\* observe_at with an empty queue: grow.  Every other reading leaves the gate
\* as it is: below the high-water mark and not zero, deep but within the
\* cooldown, or zero at the full ceiling.
ObserveDrained(waiting) ==
    /\ scr.at = "idle" /\ installed
    /\ waiting < HighWater /\ waiting = 0
    /\ Grow
    /\ UNCHANGED <<auto, installed, queued, seeded, lastHalved, scr, now,
                   atInstall, cuts>>

\* shrink: forget what is free of the cut; the rest will be owed.
ShrinkForget ==
    /\ scr.at = "shrink"
    /\ LET cut == capacity - Halved(capacity)
           forgot == Min2(cut, free) IN
       /\ free' = free - forgot
       /\ scr' = IF cut = 0 THEN ScrIdle
                 ELSE [at |-> "owe", forgot |-> forgot, owed |-> cut - forgot]
    /\ UNCHANGED <<pc, auto, installed, capacity, debt, queued, seeded,
                   lastHalved, now, atInstall, cuts>>

\* Mutant of ShrinkOwe: what forget_permits could not take is not recorded.
ShrinkOweForgetting ==
    /\ scr.at = "owe"
    /\ UNCHANGED debt
    /\ capacity' = Halved(capacity)
    /\ cuts' = cuts \cup lastHalved
    /\ scr' = ScrIdle
    /\ UNCHANGED <<pc, auto, installed, free, queued, seeded, lastHalved, now,
                   atInstall>>

\* shrink: debt.fetch_add, then the new ceiling.
ShrinkOwe ==
    /\ scr.at = "owe"
    /\ debt' = debt + scr.owed
    /\ capacity' = Halved(capacity)
    /\ cuts' = cuts \cup lastHalved
    /\ scr' = ScrIdle
    /\ UNCHANGED <<pc, auto, installed, free, queued, seeded, lastHalved, now,
                   atInstall>>

\* restore_auto_admission on a failed scrape, Auto gates only.
RestoreBegin ==
    /\ scr.at = "idle" /\ installed /\ auto
    /\ scr' = [ScrIdle EXCEPT !.at = "restore"]
    /\ UNCHANGED <<pc, auto, installed, gate, lastHalved, now, atInstall, cuts>>

\* restore_full: grow per missing slot ...
RestoreGrow ==
    /\ scr.at = "restore"
    /\ Grow
    /\ UNCHANGED <<auto, installed, queued, seeded, lastHalved, scr, now,
                   atInstall, cuts>>

\* ... then forget the cooldown.
RestoreEnd ==
    /\ scr.at = "restore"
    /\ capacity >= MaxConcurrent
    /\ lastHalved' = {}
    /\ cuts' = {}
    /\ scr' = ScrIdle
    /\ UNCHANGED <<pc, auto, installed, gate, now, atInstall>>

Tick ==
    /\ now < MaxTime
    /\ now' = now + 1
    /\ UNCHANGED <<pc, auto, installed, gate, lastHalved, scr, atInstall, cuts>>

RequestStep(r) ==
    \/ Begin(r)        \/ TryAdmitOk(r) \/ TryAdmitFail(r)   \/ CheckBound(r)
    \/ Join(r)         \/ Poll(r)       \/ Resume(r)         \/ GiveUp(r)
    \/ GiveUpAssigned(r) \/ Unqueue(r)  \/ DropPermit(r)     \/ ReturnPermit(r)
    \/ DropUngated(r)  \/ ReleaseSeed(r)

ScraperStep ==
    \/ EnableAutoAdmission
    \/ \E waiting \in 0..HighWater : ObserveDeep(waiting) \/ ObserveDrained(waiting)
    \/ ShrinkForget \/ ShrinkOwe
    \/ RestoreBegin \/ RestoreGrow \/ RestoreEnd

Next ==
    \/ \E r \in Requests : RequestStep(r)
    \/ ScraperStep
    \/ Tick

Spec == Init /\ [][Next]_vars

(***************************************************************************)
(* A request's own code runs to its next await or lock, its response body  *)
(* ends or its client leaves, and the scraper finishes an operation it     *)
(* began.  Nothing obliges a request to arrive, the engine to report       *)
(* anything, or a wait timer to fire: what is shown of waiters holds       *)
(* without max_wait coming to their rescue.                                *)
(***************************************************************************)
RequestProgress(r) ==
    \/ TryAdmitOk(r) \/ TryAdmitFail(r) \/ CheckBound(r) \/ Join(r) \/ Poll(r)
    \/ Resume(r) \/ Unqueue(r) \/ DropPermit(r) \/ ReturnPermit(r)
    \/ DropUngated(r) \/ ReleaseSeed(r)

Fairness ==
    /\ \A r \in Requests : WF_vars(RequestProgress(r))
    /\ WF_vars(ShrinkForget \/ ShrinkOwe \/ RestoreGrow \/ RestoreEnd)

FairSpec == Spec /\ Fairness

-----------------------------------------------------------------------------
(***************************************************************************)
(* Properties.                                                             *)
(***************************************************************************)

\* Every variable of the gate has its type: the counters never go below zero,
\* and the ceiling stays between one and max_concurrent (admission.rs,
\* Settings::MIN_CONCURRENT and grow).
TypeOK ==
    /\ pc \in [Requests -> PC]
    /\ auto \in BOOLEAN /\ installed \in BOOLEAN
    /\ free \in Nat /\ debt \in Nat /\ queued \in Nat /\ seeded \in Nat
    /\ capacity \in 1..MaxConcurrent
    /\ lastHalved \in SUBSET Nat
    /\ scr \in [at : {"idle", "shrink", "owe", "restore"},
                forgot : Nat, owed : Nat]
    /\ now \in Nat /\ atInstall \in Nat
    /\ cuts \in SUBSET Nat

\* No slot is lost and none is minted: at every interleaving the permits that
\* are free, held, seeded or on their way back are exactly the ceiling plus
\* what is still owed.  It is what makes status's in_use right, what
\* restore_full's "no slot is double counted" claims, and what the two halves
\* of shrink break for the length of one step (scr.forgot).
SlotConservation ==
    installed => free + Num(Circulating) + seeded + scr.forgot = capacity + debt

\* However the ceiling moves, requests that passed the gate never exceed
\* max_concurrent, counting the slots seeded for the ones that were there
\* before it: "The ceiling starts here and never grows past it".
GateBound == installed => Num(Circulating) + seeded <= MaxConcurrent

\* The engine never has more of this replica's requests than max_concurrent
\* or, when the gate came late, than it had at that moment: the install does
\* not hand "a full ceiling on top of the requests already running".
EngineBound == installed => Num(InFlight) <= Max2(MaxConcurrent, atInstall)

\* max_queued slots do not leak: queued is exactly the number of callers whose
\* QueuedGuard is alive, through timeouts, hang-ups and grants.
QueueAccounting == queued = Num(Counted)

\* No lost wake-up: a permit is never free while a caller is queued for one.
NoIdleSlot == At({"waiting"}) # {} => free = 0

\* Two halvings with no restore_full between them are at least a cooldown
\* apart, whatever readings came in between (the 2,1,2,1 flicker).
HalvingsSpaced ==
    \A s, t \in cuts : s # t => s + Cooldown <= t \/ t + Cooldown <= s

\* Nobody waits for ever: as long as admitted requests finish, whoever is
\* counted as waiting gets a slot or leaves, even if no wait timer ever fires.
\* Debt must never swallow the last slot in circulation, and a returned permit
\* must reach the queue.
WaitEnds == \A r \in Requests : pc[r] \in Counted ~> pc[r] \notin Counted

\* Once started, restore_full brings the ceiling back to max_concurrent,
\* however many permits are in use or owed.
RestoreCompletes == scr.at = "restore" ~> capacity = MaxConcurrent

\* What makes the gate safe to put in front of an engine: no slot lost or
\* minted, neither the gate nor the engine over its bound, no leak in the queue,
\* no waiter beside a free slot, no halving inside another's cooldown -- all at
\* once, at every interleaving of requests, readings and failed scrapes.
GateSafe ==
    /\ TypeOK /\ SlotConservation /\ GateBound /\ EngineBound
    /\ QueueAccounting /\ NoIdleSlot /\ HalvingsSpaced

\* The gate moves on: waiters leave the queue and a restore comes to its end.
GateMoves == WaitEnds /\ RestoreCompletes

-----------------------------------------------------------------------------
(***************************************************************************)
(* The inductive invariant behind the theorems of AdmissionProofs.         *)
(***************************************************************************)

\* Nothing touches the gate's numbers before it is installed.
BeforeGate ==
    ~installed =>
        /\ free = MaxConcurrent /\ capacity = MaxConcurrent
        /\ debt = 0 /\ seeded = 0
        /\ \A r \in Requests : pc[r] \in {"idle", "ungated"}

\* Between its two steps shrink carries exactly the cut it has computed.
ShrinkCarries ==
    /\ scr.at # "idle" => installed
    /\ IF scr.at = "owe"
       THEN scr.forgot + scr.owed = capacity - Halved(capacity)
       ELSE scr.forgot = 0 /\ scr.owed = 0

\* Lowering the ceiling under load only turns slots into debt; raising it
\* takes them back from debt first.
CeilingAndDebt == capacity + debt <= MaxConcurrent

\* Ungated requests that outlive the install are seeded, except those beyond
\* the ceiling.
SeedsCoverUngated ==
    installed => Num({"ungated"}) + MaxConcurrent
                    <= seeded + Max2(MaxConcurrent, atInstall)

IInv ==
    /\ TypeOK /\ SlotConservation /\ QueueAccounting
    /\ BeforeGate /\ ShrinkCarries /\ CeilingAndDebt /\ SeedsCoverUngated

\* Every halving since the last restore is at or before the brake's stamp, and a
\* cooldown before it while the halving it was stamped for is under way.
Spaced ==
    /\ \A t \in lastHalved : t <= now
    /\ \A t, u \in lastHalved : t = u
    /\ \A s \in cuts : \E t \in lastHalved :
         IF scr.at \in {"shrink", "owe"} THEN s + Cooldown <= t ELSE s <= t
    /\ HalvingsSpaced

=============================================================================
