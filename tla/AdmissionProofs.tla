--------------------------- MODULE AdmissionProofs ---------------------------
(***************************************************************************)
(* Theorems about the admission gate, for every number of requests, every  *)
(* ceiling and every queue bound.                                          *)
(***************************************************************************)
EXTENDS Admission, FiniteSetTheorems, TLAPS

\* How many requests an assignment of places f puts into S.
CountOf(f, S) == Cardinality({r \in Requests : f[r] \in S})

\* Num of the specification is CountOf at the current places.
LEMMA NumIsCount ==
    ASSUME NEW S
    PROVE  /\ Num(S) = CountOf(pc, S)
           /\ Num(S)' = CountOf(pc', S)
BY DEF Num, At, CountOf

\* A count went from n to m because one request left (out) or entered (in).
Moved(n, m, out, in) ==
    /\ n \in Nat /\ m \in Nat
    /\ (out <=> in) => m = n
    /\ (out /\ ~in) => n = m + 1
    /\ (~out /\ in) => m = n + 1

\* Moving one request changes a count by exactly what the move enters or
\* leaves.
LEMMA Move ==
    ASSUME NEW f \in [Requests -> PC], NEW r \in Requests, NEW to \in PC, NEW S
    PROVE  Moved(CountOf(f, S), CountOf([f EXCEPT ![r] = to], S), f[r] \in S, to \in S)
<1> DEFINE g == [f EXCEPT ![r] = to]
<1> DEFINE F == {x \in Requests : f[x] \in S}
           G == {x \in Requests : g[x] \in S}
<1>1. IsFiniteSet(F) /\ IsFiniteSet(G)
  BY AdmissionAssumption, FS_Subset
<1>2. Cardinality(F) \in Nat /\ Cardinality(G) \in Nat
  BY <1>1, FS_CardinalityType
<1>3. CASE f[r] \in S <=> to \in S
  <2>1. F = G
    BY <1>3
  <2> QED
    BY <2>1, <1>2, <1>3 DEF CountOf, Moved
<1>4. CASE f[r] \in S /\ to \notin S
  <2>1. F = G \cup {r} /\ r \notin G
    BY <1>4
  <2>2. Cardinality(G \cup {r}) = Cardinality(G) + 1
    BY <2>1, <1>1, FS_AddElement
  <2> QED
    BY <2>1, <2>2, <1>2, <1>4 DEF CountOf, Moved
<1>5. CASE f[r] \notin S /\ to \in S
  <2>1. G = F \cup {r} /\ r \notin F
    BY <1>5
  <2>2. Cardinality(F \cup {r}) = Cardinality(F) + 1
    BY <2>1, <1>1, FS_AddElement
  <2> QED
    BY <2>1, <2>2, <1>2, <1>5 DEF CountOf, Moved
<1> QED
  BY <1>3, <1>4, <1>5

\* The counts the invariant speaks of are natural numbers.
LEMMA CountsAreNat ==
    ASSUME pc \in [Requests -> PC], NEW S
    PROVE  Num(S) \in Nat
<1>1. IsFiniteSet(At(S))
  BY AdmissionAssumption, FS_Subset DEF At
<1> QED
  BY <1>1, FS_CardinalityType DEF Num

\* With everybody in {"idle", "ungated"} nothing circulates and nobody waits.
LEMMA NothingCirculates ==
    ASSUME \A r \in Requests : pc[r] \in {"idle", "ungated"}
    PROVE  Num(Circulating) = 0 /\ Num(Counted) = 0
<1>1. At(Circulating) = {} /\ At(Counted) = {}
  BY DEF At, Circulating, Counted
<1> QED
  BY <1>1, FS_EmptySet DEF Num

\* The initial states of the gate satisfy the inductive invariant.
LEMMA InitIInv == Init => IInv
<1> SUFFICES ASSUME Init PROVE IInv
  OBVIOUS
<1>1. TypeOK
  BY AdmissionAssumption DEF Init, TypeOK, PC, ScrIdle
<1>2. Num(Circulating) = 0 /\ Num(Counted) = 0
  BY NothingCirculates DEF Init
<1>3. Num({"ungated"}) = 0
  <2>1. At({"ungated"}) = {}
    BY DEF At, Init
  <2> QED
    BY <2>1, FS_EmptySet DEF Num
<1>4. SlotConservation /\ QueueAccounting /\ SeedsCoverUngated
  BY <1>2, <1>3, AdmissionAssumption
     DEF Init, SlotConservation, QueueAccounting, SeedsCoverUngated, ScrIdle, Max2
<1>5. BeforeGate /\ ShrinkCarries /\ CeilingAndDebt
  BY AdmissionAssumption DEF Init, BeforeGate, ShrinkCarries, CeilingAndDebt, ScrIdle
<1> QED
  BY <1>1, <1>4, <1>5 DEF IInv

\* The three counts of the invariant after one request moves.
LEMMA MoveCounts ==
    ASSUME pc \in [Requests -> PC], NEW r \in Requests, NEW to \in PC,
           pc' = [pc EXCEPT ![r] = to]
    PROVE  /\ Moved(Num(Circulating), Num(Circulating)', pc[r] \in Circulating, to \in Circulating)
           /\ Moved(Num(Counted), Num(Counted)', pc[r] \in Counted, to \in Counted)
           /\ Moved(Num({"ungated"}), Num({"ungated"})', pc[r] \in {"ungated"}, to \in {"ungated"})
<1>1. /\ Num(Circulating) = CountOf(pc, Circulating)
      /\ Num(Circulating)' = CountOf(pc', Circulating)
      /\ Num(Counted) = CountOf(pc, Counted)
      /\ Num(Counted)' = CountOf(pc', Counted)
      /\ Num({"ungated"}) = CountOf(pc, {"ungated"})
      /\ Num({"ungated"})' = CountOf(pc', {"ungated"})
  BY DEF Num, At, CountOf, Circulating, Counted
<1> QED
  BY <1>1, Move

\* A request that moves from one place to another without touching the
\* semaphore's queue: what it enters and leaves is what the counters record.
LEMMA RequestMoves ==
    ASSUME IInv, NEW r \in Requests,
           \/ Begin(r) \/ TryAdmitOk(r) \/ TryAdmitFail(r) \/ CheckBound(r)
           \/ Join(r) \/ Poll(r) \/ Resume(r) \/ GiveUp(r) \/ Unqueue(r)
           \/ DropPermit(r) \/ DropUngated(r) \/ ReleaseSeed(r)
    PROVE  IInv'
<1> USE AdmissionAssumption
<1> USE DEF IInv, TypeOK, SlotConservation, QueueAccounting, BeforeGate, ShrinkCarries,
            CeilingAndDebt, SeedsCoverUngated, Circulating, Counted, PC, gate, Moved, Goto
<1>0. pc \in [Requests -> PC] /\ pc[r] \in PC
  OBVIOUS
\* The counts, once the place the request moves to is known.
<1> DEFINE Counts(to) ==
        /\ pc' = [pc EXCEPT ![r] = to]
        /\ Moved(Num(Circulating), Num(Circulating)', pc[r] \in Circulating, to \in Circulating)
        /\ Moved(Num(Counted), Num(Counted)', pc[r] \in Counted, to \in Counted)
        /\ Moved(Num({"ungated"}), Num({"ungated"})', pc[r] \in {"ungated"}, to \in {"ungated"})
<1>1. CASE Begin(r)
  <2>1. CASE installed
    <3>1. Counts("arrived")
      BY <1>1, <2>1, <1>0, MoveCounts DEF Begin
    <3> QED
      BY <1>1, <2>1, <1>0, <3>1 DEF Begin
  <2>2. CASE ~installed
    <3>1. Counts("ungated")
      BY <1>1, <2>2, <1>0, MoveCounts DEF Begin
    <3> QED
      BY <1>1, <2>2, <1>0, <3>1 DEF Begin
  <2> QED
    BY <1>1, <2>1, <2>2 DEF Begin
<1>2. CASE TryAdmitOk(r)
  <2>1. Counts("holding")
    BY <1>2, <1>0, MoveCounts DEF TryAdmitOk
  <2> QED
    BY <1>2, <1>0, <2>1 DEF TryAdmitOk
<1>3. CASE TryAdmitFail(r)
  <2>1. CASE pc' = [pc EXCEPT ![r] = "idle"]
    <3>1. Counts("idle")
      BY <1>3, <2>1, <1>0, MoveCounts DEF TryAdmitFail
    <3> QED
      BY <1>3, <2>1, <1>0, <3>1 DEF TryAdmitFail
  <2>2. CASE pc' = [pc EXCEPT ![r] = "checking"]
    <3>1. Counts("checking")
      BY <1>3, <2>2, <1>0, MoveCounts DEF TryAdmitFail
    <3> QED
      BY <1>3, <2>2, <1>0, <3>1 DEF TryAdmitFail
  <2> QED
    BY <1>3, <2>1, <2>2 DEF TryAdmitFail
<1>4. CASE CheckBound(r)
  <2>1. CASE queued >= MaxQueued
    <3>1. Counts("idle")
      BY <1>4, <2>1, <1>0, MoveCounts DEF CheckBound
    <3> QED
      BY <1>4, <2>1, <1>0, <3>1 DEF CheckBound
  <2>2. CASE ~(queued >= MaxQueued)
    <3>1. Counts("joining")
      BY <1>4, <2>2, <1>0, MoveCounts DEF CheckBound
    <3> QED
      BY <1>4, <2>2, <1>0, <3>1 DEF CheckBound
  <2> QED
    BY <1>4, <2>1, <2>2 DEF CheckBound
<1>5. CASE Join(r)
  <2>1. Counts("polling")
    BY <1>5, <1>0, MoveCounts DEF Join
  <2> QED
    BY <1>5, <1>0, <2>1 DEF Join
<1>6. CASE Poll(r)
  <2>1. CASE free > 0
    <3>1. Counts("granted")
      BY <1>6, <2>1, <1>0, MoveCounts DEF Poll
    <3> QED
      BY <1>6, <2>1, <1>0, <3>1 DEF Poll
  <2>2. CASE ~(free > 0)
    <3>1. Counts("waiting")
      BY <1>6, <2>2, <1>0, MoveCounts DEF Poll
    <3> QED
      BY <1>6, <2>2, <1>0, <3>1 DEF Poll
  <2> QED
    BY <1>6, <2>1, <2>2 DEF Poll
<1>7. CASE Resume(r)
  <2>1. Counts("granted")
    BY <1>7, <1>0, MoveCounts DEF Resume
  <2> QED
    BY <1>7, <1>0, <2>1 DEF Resume
<1>8. CASE GiveUp(r)
  <2>1. Counts("leaving")
    BY <1>8, <1>0, MoveCounts DEF GiveUp
  <2> QED
    BY <1>8, <1>0, <2>1 DEF GiveUp
<1>9. CASE Unqueue(r)
  <2>1. CASE pc[r] = "granted"
    <3>1. Counts("holding")
      BY <1>9, <2>1, <1>0, MoveCounts DEF Unqueue
    <3> QED
      BY <1>9, <2>1, <1>0, <3>1 DEF Unqueue
  <2>2. CASE pc[r] = "leaving"
    <3>1. Counts("idle")
      BY <1>9, <2>2, <1>0, MoveCounts DEF Unqueue
    <3> QED
      BY <1>9, <2>2, <1>0, <3>1 DEF Unqueue
  <2> QED
    BY <1>9, <2>1, <2>2 DEF Unqueue
<1>10. CASE DropPermit(r)
  <2>1. CASE debt > 0
    <3>1. Counts("idle")
      BY <1>10, <2>1, <1>0, MoveCounts DEF DropPermit
    <3> QED
      BY <1>10, <2>1, <1>0, <3>1 DEF DropPermit
  <2>2. CASE ~(debt > 0)
    <3>1. Counts("returning")
      BY <1>10, <2>2, <1>0, MoveCounts DEF DropPermit
    <3> QED
      BY <1>10, <2>2, <1>0, <3>1 DEF DropPermit
  <2> QED
    BY <1>10, <2>1, <2>2 DEF DropPermit
<1>11. CASE DropUngated(r)
  <2>1. CASE installed /\ seeded > 0
    <3>1. Counts("seedDebt")
      BY <1>11, <2>1, <1>0, MoveCounts DEF DropUngated
    <3> QED
      BY <1>11, <2>1, <1>0, <3>1 DEF DropUngated, Max2
  <2>2. CASE ~(installed /\ seeded > 0)
    <3>1. Counts("idle")
      BY <1>11, <2>2, <1>0, MoveCounts DEF DropUngated
    <3> QED
      BY <1>11, <2>2, <1>0, <3>1 DEF DropUngated, Max2
  <2> QED
    BY <1>11, <2>1, <2>2 DEF DropUngated
<1>12. CASE ReleaseSeed(r)
  <2>1. CASE debt > 0
    <3>1. Counts("idle")
      BY <1>12, <2>1, <1>0, MoveCounts DEF ReleaseSeed
    <3> QED
      BY <1>12, <2>1, <1>0, <3>1 DEF ReleaseSeed
  <2>2. CASE ~(debt > 0)
    <3>1. Counts("returning")
      BY <1>12, <2>2, <1>0, MoveCounts DEF ReleaseSeed
    <3> QED
      BY <1>12, <2>2, <1>0, <3>1 DEF ReleaseSeed
  <2> QED
    BY <1>12, <2>1, <2>2 DEF ReleaseSeed
<1> QED
  BY <1>1, <1>2, <1>3, <1>4, <1>5, <1>6, <1>7, <1>8, <1>9, <1>10, <1>11, <1>12

\* What AddPermit(base) does to the counts, base being reached by a move that
\* neither starts nor ends in the semaphore's queue: a waiter takes the permit
\* over, or the permit becomes free.
LEMMA AddPermitCounts ==
    ASSUME NEW base \in [Requests -> PC], AddPermit(base), free \in Nat,
           \A w \in Requests : pc[w] = "waiting" => base[w] = "waiting"
    PROVE  /\ pc' \in [Requests -> PC]
           /\ free' \in Nat
           /\ CountOf(base, Circulating) \in Nat
           /\ free' + CountOf(pc', Circulating) = free + CountOf(base, Circulating) + 1
           /\ CountOf(pc', Counted) = CountOf(base, Counted)
           /\ CountOf(pc', {"ungated"}) = CountOf(base, {"ungated"})
           /\ CountOf(pc', Circulating) \in Nat
<1>1. ASSUME NEW S PROVE CountOf(base, S) \in Nat
  <2>1. IsFiniteSet({r \in Requests : base[r] \in S})
    BY AdmissionAssumption, FS_Subset
  <2> QED
    BY <2>1, FS_CardinalityType DEF CountOf
<1>2. ASSUME NEW w \in At({"waiting"}), pc' = [base EXCEPT ![w] = "assigned"], free' = free
      PROVE  /\ pc' \in [Requests -> PC]
             /\ CountOf(pc', Circulating) = CountOf(base, Circulating) + 1
             /\ CountOf(pc', Counted) = CountOf(base, Counted)
             /\ CountOf(pc', {"ungated"}) = CountOf(base, {"ungated"})
  <2>1. w \in Requests /\ base[w] = "waiting" /\ "assigned" \in PC
    BY <1>2 DEF At, PC
  <2>2. /\ Moved(CountOf(base, Circulating), CountOf(pc', Circulating),
                 base[w] \in Circulating, "assigned" \in Circulating)
        /\ Moved(CountOf(base, Counted), CountOf(pc', Counted),
                 base[w] \in Counted, "assigned" \in Counted)
        /\ Moved(CountOf(base, {"ungated"}), CountOf(pc', {"ungated"}),
                 base[w] \in {"ungated"}, "assigned" \in {"ungated"})
    BY <2>1, <1>2, Move
  <2> QED
    BY <2>1, <2>2, <1>2 DEF Moved, Circulating, Counted
<1>3. CASE \E w \in At({"waiting"}) : pc' = [base EXCEPT ![w] = "assigned"] /\ UNCHANGED free
  <2>1. PICK w \in At({"waiting"}) : pc' = [base EXCEPT ![w] = "assigned"] /\ UNCHANGED free
    BY <1>3
  <2>2. /\ pc' \in [Requests -> PC]
        /\ CountOf(pc', Circulating) = CountOf(base, Circulating) + 1
        /\ CountOf(pc', Counted) = CountOf(base, Counted)
        /\ CountOf(pc', {"ungated"}) = CountOf(base, {"ungated"})
    BY <2>1, <1>2
  <2> QED
    BY <1>1, <2>1, <2>2
<1>4. CASE pc' = base /\ free' = free + 1
  BY <1>1, <1>4
<1> QED
  BY <1>3, <1>4 DEF AddPermit

\* A permit on its way back to the semaphore, from a finished request or from
\* a caller that gave up after it was assigned one.
LEMMA PermitReturns ==
    ASSUME IInv, NEW r \in Requests, GiveUpAssigned(r) \/ ReturnPermit(r)
    PROVE  IInv'
<1> USE AdmissionAssumption
<1>1. PICK to \in {"leaving", "idle"} :
         /\ AddPermit([pc EXCEPT ![r] = to])
         /\ to = "leaving" => pc[r] = "assigned"
         /\ to = "idle" => pc[r] = "returning"
         /\ UNCHANGED <<auto, installed, capacity, debt, queued, seeded, lastHalved,
                        scr, now, atInstall, cuts>>
  BY DEF GiveUpAssigned, ReturnPermit
<1> DEFINE base == [pc EXCEPT ![r] = to]
<1>2. /\ pc \in [Requests -> PC] /\ to \in PC /\ base \in [Requests -> PC]
      /\ \A w \in Requests : pc[w] = "waiting" => base[w] = "waiting"
  BY <1>1 DEF IInv, TypeOK, PC
<1>3. /\ Moved(CountOf(pc, Circulating), CountOf(base, Circulating), pc[r] \in Circulating, to \in Circulating)
      /\ Moved(CountOf(pc, Counted), CountOf(base, Counted), pc[r] \in Counted, to \in Counted)
      /\ Moved(CountOf(pc, {"ungated"}), CountOf(base, {"ungated"}), pc[r] \in {"ungated"}, to \in {"ungated"})
  BY <1>2, Move
<1>4. /\ pc' \in [Requests -> PC]
      /\ free' \in Nat
      /\ free' + CountOf(pc', Circulating) = free + CountOf(base, Circulating) + 1
      /\ CountOf(pc', Counted) = CountOf(base, Counted)
      /\ CountOf(pc', {"ungated"}) = CountOf(base, {"ungated"})
      /\ CountOf(pc', Circulating) \in Nat
  <2> HIDE DEF base
  <2> QED
    BY <1>1, <1>2, AddPermitCounts DEF base, IInv, TypeOK
<1>5. /\ free' + Num(Circulating)' = free + Num(Circulating)
      /\ Num(Counted)' = Num(Counted)
      /\ Num({"ungated"})' = Num({"ungated"})
      /\ Num(Circulating) \in Nat /\ Num(Circulating)' \in Nat
  <2>1. /\ Num(Circulating) = CountOf(pc, Circulating)
        /\ Num(Circulating)' = CountOf(pc', Circulating)
        /\ Num(Counted) = CountOf(pc, Counted)
        /\ Num(Counted)' = CountOf(pc', Counted)
        /\ Num({"ungated"}) = CountOf(pc, {"ungated"})
        /\ Num({"ungated"})' = CountOf(pc', {"ungated"})
    BY DEF Num, At, CountOf, Circulating, Counted
  <2> QED
    BY <2>1, <1>1, <1>3, <1>4 DEF Moved, Circulating, Counted, IInv, TypeOK
<1>6. installed
  BY <1>1 DEF IInv, BeforeGate
<1> QED
  BY <1>1, <1>4, <1>5, <1>6
     DEF IInv, TypeOK, SlotConservation, QueueAccounting, BeforeGate, ShrinkCarries,
         CeilingAndDebt, SeedsCoverUngated

\* Half of a ceiling is a smaller ceiling.
LEMMA HalvedBounds ==
    ASSUME NEW c \in Nat \ {0}
    PROVE  Halved(c) \in 1..c
BY DEF Halved, Max2

\* grow, called for an empty engine queue or by restore_full, keeps every part
\* of the invariant: it takes a slot back from debt or adds one permit.
LEMMA GrowKeepsIInv ==
    ASSUME IInv, Grow, installed, scr.at # "owe",
           UNCHANGED <<auto, installed, queued, seeded, lastHalved, scr, now, atInstall, cuts>>
    PROVE  IInv'
<1> USE AdmissionAssumption
<1> USE DEF IInv, TypeOK, SlotConservation, QueueAccounting, BeforeGate, ShrinkCarries,
            CeilingAndDebt, SeedsCoverUngated
<1>0. Num(Circulating) \in Nat
  BY CountsAreNat
<1>1. CASE debt > 0
  <2>1. /\ pc' = pc /\ free' = free /\ debt' = debt - 1 /\ capacity' = capacity + 1
        /\ capacity < MaxConcurrent
    BY <1>1 DEF Grow
  <2>2. Num(Circulating)' = Num(Circulating) /\ Num(Counted)' = Num(Counted)
        /\ Num({"ungated"})' = Num({"ungated"})
    BY <2>1 DEF Num, At, Circulating, Counted
  <2> QED
    BY <1>0, <1>1, <2>1, <2>2
<1>2. CASE ~(debt > 0)
  <2>1. /\ AddPermit(pc) /\ debt' = debt /\ debt = 0 /\ capacity' = capacity + 1
        /\ capacity < MaxConcurrent
    BY <1>2 DEF Grow
  <2>2. /\ pc' \in [Requests -> PC]
        /\ free' \in Nat
        /\ free' + CountOf(pc', Circulating) = free + CountOf(pc, Circulating) + 1
        /\ CountOf(pc', Counted) = CountOf(pc, Counted)
        /\ CountOf(pc', {"ungated"}) = CountOf(pc, {"ungated"})
        /\ CountOf(pc', Circulating) \in Nat
    BY <2>1, AddPermitCounts
  <2>3. /\ Num(Circulating) = CountOf(pc, Circulating)
        /\ Num(Circulating)' = CountOf(pc', Circulating)
        /\ Num(Counted) = CountOf(pc, Counted)
        /\ Num(Counted)' = CountOf(pc', Counted)
        /\ Num({"ungated"}) = CountOf(pc, {"ungated"})
        /\ Num({"ungated"})' = CountOf(pc', {"ungated"})
    BY DEF Num, At, CountOf, Circulating, Counted
  <2> QED
    BY <1>0, <2>1, <2>2, <2>3
<1> QED
  BY <1>1, <1>2

\* The steps of the scraper and the clock.
LEMMA ScraperMoves ==
    ASSUME IInv, ScraperStep \/ Tick
    PROVE  IInv'
<1> USE AdmissionAssumption
<1> USE DEF IInv, TypeOK, SlotConservation, QueueAccounting, BeforeGate, ShrinkCarries,
            CeilingAndDebt, SeedsCoverUngated, ScrIdle, gate
<1>0. Num(Circulating) \in Nat /\ Num(Counted) \in Nat /\ Num({"ungated"}) \in Nat
  BY CountsAreNat
<1>a. ASSUME UNCHANGED pc
      PROVE  Num(Circulating)' = Num(Circulating) /\ Num(Counted)' = Num(Counted)
             /\ Num({"ungated"})' = Num({"ungated"})
  BY <1>a DEF Num, At, Circulating, Counted
<1>b. Halved(capacity) \in 1..capacity
  BY HalvedBounds
<1>1. CASE EnableAutoAdmission
  <2>1. Num(Circulating) = 0
    BY <1>1, NothingCirculates DEF EnableAutoAdmission
  <2>2. UNCHANGED pc
    BY <1>1 DEF EnableAutoAdmission
  <2>3. seeded' \in Nat /\ free' \in Nat /\ atInstall' \in Nat /\ free' + seeded' = MaxConcurrent
    BY <1>0, <1>1 DEF EnableAutoAdmission, SeedsFor, Min2
  <2>4. SeedsCoverUngated'
    BY <1>0, <1>1, <1>a, <2>2 DEF EnableAutoAdmission, SeedsFor, Min2, Max2
  <2> QED
    BY <1>0, <1>1, <1>a, <2>1, <2>2, <2>3, <2>4 DEF EnableAutoAdmission
<1>2. CASE \E waiting \in 0..HighWater : ObserveDeep(waiting)
  BY <1>2, <1>a DEF ObserveDeep
<1>3. CASE \E waiting \in 0..HighWater : ObserveDrained(waiting)
  BY <1>3, GrowKeepsIInv DEF ObserveDrained
<1>4. CASE ShrinkForget
  <2> DEFINE cut == capacity - Halved(capacity)
             forgot == Min2(cut, free)
  <2>1. cut \in Nat /\ forgot \in 0..cut /\ forgot <= free
    BY <1>b DEF Min2
  <2>2. /\ UNCHANGED pc
        /\ free' = free - forgot
        /\ scr' = IF cut = 0 THEN ScrIdle
                  ELSE [at |-> "owe", forgot |-> forgot, owed |-> cut - forgot]
    BY <1>4 DEF ShrinkForget
  <2> HIDE DEF cut, forgot
  <2>3. scr'.forgot = forgot /\ scr' \in [at : {"idle", "shrink", "owe", "restore"},
                                         forgot : Nat, owed : Nat]
    BY <2>1, <2>2
  <2>4. ShrinkCarries'
    <3>1. scr'.at = "owe" => scr'.forgot + scr'.owed = cut
      BY <2>1, <2>2
    <3>2. capacity' = capacity /\ installed' = installed /\ installed
      BY <1>4 DEF ShrinkForget
    <3>3. scr'.at # "owe" => scr'.forgot = 0 /\ scr'.owed = 0
      BY <2>2
    <3> QED
      BY <3>1, <3>2, <3>3 DEF cut, Halved
  <2> QED
    BY <1>0, <1>4, <1>a, <2>1, <2>2, <2>3, <2>4 DEF ShrinkForget
<1>5. CASE ShrinkOwe
  BY <1>0, <1>5, <1>a, <1>b DEF ShrinkOwe
<1>6. CASE RestoreBegin
  BY <1>6, <1>a DEF RestoreBegin
<1>7. CASE RestoreGrow
  BY <1>7, GrowKeepsIInv DEF RestoreGrow
<1>8. CASE RestoreEnd
  BY <1>8, <1>a DEF RestoreEnd
<1>9. CASE Tick
  BY <1>9, <1>a DEF Tick
<1> QED
  BY <1>1, <1>2, <1>3, <1>4, <1>5, <1>6, <1>7, <1>8, <1>9 DEF ScraperStep

\* The inductive invariant holds of every behaviour of the gate: the numbers
\* are of their types (TypeOK), slots are conserved, the wait queue's counter
\* is exact.
THEOREM Invariance == Spec => []IInv
<1>1. Init => IInv
  BY InitIInv
<1>2. IInv /\ [Next]_vars => IInv'
  <2> SUFFICES ASSUME IInv, [Next]_vars PROVE IInv'
    OBVIOUS
  <2>1. ASSUME NEW r \in Requests, RequestStep(r) PROVE IInv'
    BY <2>1, RequestMoves, PermitReturns DEF RequestStep
  <2>2. CASE ScraperStep \/ Tick
    BY <2>2, ScraperMoves
  <2>3. CASE UNCHANGED vars
    BY <2>3 DEF vars, IInv, TypeOK, SlotConservation, QueueAccounting, BeforeGate,
                ShrinkCarries, CeilingAndDebt, SeedsCoverUngated, Num, At
  <2> QED
    BY <2>1, <2>2, <2>3 DEF Next
<1> QED
  BY <1>1, <1>2, PTL DEF Spec

\* Type correctness of the gate: no counter of admission.rs wraps below zero
\* and the ceiling stays within one and max_concurrent.
THEOREM TypeCorrect == Spec => []TypeOK
<1>1. IInv => TypeOK
  BY DEF IInv
<1> QED
  BY <1>1, Invariance, PTL

\* Slot conservation: no interleaving of requests, timeouts, hang-ups,
\* shrinking, growing and installing loses or mints a slot.
THEOREM Conservation == Spec => []SlotConservation
<1>1. IInv => SlotConservation
  BY DEF IInv
<1> QED
  BY <1>1, Invariance, PTL

\* The wait queue's counter never leaks a max_queued slot.
THEOREM NoQueueLeak == Spec => []QueueAccounting
<1>1. IInv => QueueAccounting
  BY DEF IInv
<1> QED
  BY <1>1, Invariance, PTL

\* Requests that passed the gate, with the slots seeded for earlier ones,
\* never exceed max_concurrent.
THEOREM GateNeverExceeded == Spec => []GateBound
<1>1. IInv => GateBound
  <2> SUFFICES ASSUME IInv, installed PROVE Num(Circulating) + seeded <= MaxConcurrent
    BY DEF GateBound
  <2>1. Num(Circulating) \in Nat
    BY CountsAreNat DEF IInv, TypeOK
  <2> QED
    BY <2>1, AdmissionAssumption DEF IInv, TypeOK, SlotConservation, CeilingAndDebt
<1> QED
  BY <1>1, Invariance, PTL

\* The engine never has more of this replica's requests than the ceiling or
\* than were running when the gate was installed.
THEOREM EngineNeverOverAdmitted == Spec => []EngineBound
<1>1. IInv => EngineBound
  <2> SUFFICES ASSUME IInv, installed
               PROVE  Num(InFlight) <= Max2(MaxConcurrent, atInstall)
    BY DEF EngineBound
  <2> DEFINE U == At({"ungated"})
             C == At(Circulating)
             F == At(InFlight)
  <2>1. IsFiniteSet(U) /\ IsFiniteSet(C) /\ IsFiniteSet(F)
    BY AdmissionAssumption, FS_Subset DEF At
  <2>2. F \in SUBSET (U \cup C)
    BY DEF At, InFlight, Circulating
  <2>3. /\ IsFiniteSet(U \cup C)
        /\ Cardinality(U \cup C) = Cardinality(U) + Cardinality(C) - Cardinality(U \cap C)
    BY <2>1, FS_Union
  <2>4. IsFiniteSet(U \cap C)
    BY <2>1, FS_Subset
  <2>5. Cardinality(F) <= Cardinality(U \cup C)
    BY <2>2, <2>3, FS_Subset
  <2>6. /\ Cardinality(U) \in Nat /\ Cardinality(C) \in Nat /\ Cardinality(F) \in Nat
        /\ Cardinality(U \cap C) \in Nat
    BY <2>1, <2>4, FS_CardinalityType
  <2>7. Num(InFlight) <= Num({"ungated"}) + Num(Circulating)
    BY <2>3, <2>5, <2>6 DEF Num
  <2>8. Num(InFlight) \in Nat /\ Num({"ungated"}) \in Nat /\ Num(Circulating) \in Nat
    BY <2>6 DEF Num
  <2> HIDE DEF U, C, F
  <2> QED
    BY <2>7, <2>8, AdmissionAssumption
       DEF IInv, TypeOK, SlotConservation, CeilingAndDebt, SeedsCoverUngated, Max2
<1> QED
  BY <1>1, Invariance, PTL

\* No wake-up is lost: while a caller is queued no permit lies free.
THEOREM NoSlotIdles == Spec => []NoIdleSlot
<1>1. Init => NoIdleSlot
  BY DEF Init, NoIdleSlot, At
<1>2. IInv /\ NoIdleSlot /\ [Next]_vars => NoIdleSlot'
  <2> SUFFICES ASSUME IInv, NoIdleSlot, [Next]_vars, NEW w \in Requests, pc'[w] = "waiting"
               PROVE  free' = 0
    BY DEF NoIdleSlot, At
  <2> USE DEF IInv, TypeOK, NoIdleSlot, At
  <2>1. ASSUME NEW r \in Requests, RequestStep(r) PROVE free' = 0
    BY <2>1 DEF RequestStep, Begin, TryAdmitOk, TryAdmitFail, CheckBound, Join, Poll,
       Resume, GiveUp, GiveUpAssigned, Unqueue, DropPermit, ReturnPermit, DropUngated,
       ReleaseSeed, AddPermit, Goto, gate
  <2>2. CASE EnableAutoAdmission
    BY <2>2 DEF EnableAutoAdmission, BeforeGate
  <2>3. CASE ShrinkForget
    BY <2>3, AdmissionAssumption, HalvedBounds DEF ShrinkForget, Min2
  <2>4. CASE Tick \/ (ScraperStep /\ ~EnableAutoAdmission /\ ~ShrinkForget)
    BY <2>4 DEF ScraperStep, ObserveDeep, ObserveDrained, Grow, AddPermit, ShrinkOwe,
       RestoreBegin, RestoreGrow, RestoreEnd, Tick, gate
  <2>5. CASE UNCHANGED vars
    BY <2>5 DEF vars
  <2> QED
    BY <2>1, <2>2, <2>3, <2>4, <2>5 DEF Next
<1> QED
  BY <1>1, <1>2, Invariance, PTL DEF Spec

\* Halvings keep their distance: a queue that flickers around the high-water mark
\* does not halve the ceiling twice within a cooldown.
THEOREM BrakeHolds == Spec => []HalvingsSpaced
<1>1. Init => Spaced
  BY DEF Init, Spaced, HalvingsSpaced
<1>2. IInv /\ Spaced /\ [Next]_vars => Spaced'
  <2> SUFFICES ASSUME IInv, Spaced, [Next]_vars PROVE Spaced'
    OBVIOUS
  <2> USE AdmissionAssumption DEF IInv, TypeOK, Spaced, HalvingsSpaced
  <2>1. ASSUME NEW r \in Requests, RequestStep(r) PROVE Spaced'
    <3>1. UNCHANGED <<lastHalved, scr, now, cuts>>
      BY <2>1 DEF RequestStep, Begin, TryAdmitOk, TryAdmitFail, CheckBound, Join, Poll,
         Resume, GiveUp, GiveUpAssigned, Unqueue, DropPermit, ReturnPermit, DropUngated,
         ReleaseSeed, gate
    <3> QED
      BY <3>1
  <2>2. ASSUME NEW waiting \in 0..HighWater, ObserveDeep(waiting) PROVE Spaced'
    BY <2>2 DEF ObserveDeep, ShrinkDue, ScrIdle
  <2>3. CASE ShrinkForget
    BY <2>3 DEF ShrinkForget, ScrIdle
  <2>4. CASE ShrinkOwe
    BY <2>4 DEF ShrinkOwe, ScrIdle
  <2>5. CASE RestoreEnd
    BY <2>5 DEF RestoreEnd, ScrIdle
  <2>6. CASE Tick
    BY <2>6 DEF Tick
  <2>7. CASE \/ EnableAutoAdmission \/ RestoreBegin \/ RestoreGrow
             \/ \E waiting \in 0..HighWater : ObserveDrained(waiting)
    BY <2>7 DEF EnableAutoAdmission, RestoreBegin, RestoreGrow, ObserveDrained, ScrIdle, gate
  <2>8. CASE UNCHANGED vars
    BY <2>8 DEF vars
  <2> QED
    BY <2>1, <2>2, <2>3, <2>4, <2>5, <2>6, <2>7, <2>8 DEF Next, ScraperStep
<1>3. Spaced => HalvingsSpaced
  BY DEF Spaced
<1> QED
  BY <1>1, <1>2, <1>3, Invariance, PTL DEF Spec

\* The gate is safe: everything above at once, for any number of requests and
\* any ceiling, queue bound and cooldown.
THEOREM GateIsSafe == Spec => []GateSafe
<1>1. TypeOK /\ SlotConservation /\ GateBound /\ EngineBound /\ QueueAccounting
        /\ NoIdleSlot /\ HalvingsSpaced => GateSafe
  BY DEF GateSafe
<1> QED
  BY <1>1, TypeCorrect, Conservation, GateNeverExceeded, EngineNeverOverAdmitted, NoQueueLeak,
     NoSlotIdles, BrakeHolds, PTL

=============================================================================
