-------------------------- MODULE RequestPathProofs --------------------------
(***************************************************************************)
(* Theorems about the request path, for any number of requests, models,    *)
(* backends, slots and retries, any pools, routes and grants, and about    *)
(* the response cache in front of it, for any sizes and limits below the   *)
(* counter's width.                                                        *)
(***************************************************************************)
EXTENDS RequestPath, ResponseCache, FiniteSetTheorems, WellFoundedInduction, TLAPS

-----------------------------------------------------------------------------
(***************************************************************************)
(* Filtering a chain.                                                      *)
(***************************************************************************)

\* A set of naturals that is not empty has a least member.
LEMMA LeastNat ==
    ASSUME NEW T \in SUBSET Nat, T # {}
    PROVE  \E x \in T : \A y \in T : x <= y
<1>1. IsWellFoundedOn(OpToRel(<, Nat), Nat)
  BY NatLessThanWellFounded
<1>2. \E x \in T : \A y \in T : ~(<<y, x>> \in OpToRel(<, Nat))
  BY <1>1, WFMin
<1>3. \E x \in T : \A y \in T : ~(y < x)
  BY <1>2 DEF OpToRel
<1> QED
  BY <1>3

\* Every rank below the size of a set of positions is the rank of a member:
\* what the CHOOSE of Only looks for exists.
LEMMA RankExists ==
    ASSUME NEW N \in Nat, NEW K \in SUBSET Nat, \A j \in K : 1 <= j /\ j <= N,
           IsFiniteSet(K), NEW n \in Nat, 1 <= n, n <= Cardinality(K)
    PROVE  \E i \in K : Cardinality({j \in K : j < i}) = n - 1
<1> DEFINE Upto(i) == {j \in K : j <= i}
           size(i) == Cardinality(Upto(i))
<1>1. \A i \in Nat : IsFiniteSet(Upto(i)) /\ size(i) \in Nat
  <2>1. \A i \in Nat : Upto(i) \subseteq K
    OBVIOUS
  <2> QED
    BY <2>1, FS_Subset, FS_CardinalityType
<1>2. size(N) = Cardinality(K)
  <2>1. Upto(N) = K
    OBVIOUS
  <2> QED
    BY <2>1
<1>3. size(0) = 0
  <2>1. \A j \in K : ~(j <= 0)
    OBVIOUS
  <2>2. Upto(0) = {}
    BY <2>1
  <2> QED
    BY <2>2, FS_EmptySet
<1>4. ASSUME NEW i \in Nat, i + 1 \in K
      PROVE  size(i + 1) = size(i) + 1 /\ {j \in K : j < i + 1} = Upto(i)
  <2>0. /\ \A j \in K : j <= i + 1 <=> j <= i \/ j = i + 1
        /\ \A j \in K : j < i + 1 <=> j <= i
        /\ ~(i + 1 <= i)
    OBVIOUS
  <2>1. Upto(i + 1) = Upto(i) \cup {i + 1} /\ i + 1 \notin Upto(i)
    BY <1>4, <2>0, Zenon
  <2>2. {j \in K : j < i + 1} = Upto(i)
    BY <2>0, Zenon
  <2>3. Cardinality(Upto(i) \cup {i + 1}) = Cardinality(Upto(i)) + 1
    BY <2>1, <1>1, FS_AddElement
  <2> QED
    BY <2>1, <2>2, <2>3
<1>5. ASSUME NEW i \in Nat, i + 1 \notin K
      PROVE  size(i + 1) = size(i)
  <2>0. \A j \in K : j <= i + 1 <=> j <= i
    BY <1>5
  <2>1. Upto(i + 1) = Upto(i)
    BY <2>0, Zenon
  <2> QED
    BY <2>1
<1> HIDE DEF size, Upto
<1> DEFINE T == {i \in Nat : size(i) >= n}
<1>6. T \in SUBSET Nat /\ T # {}
  BY <1>1, <1>2
<1>7. PICK k \in T : \A y \in T : k <= y
  <2> HIDE DEF T
  <2> QED
    BY <1>6, LeastNat
<1>8. PICK i \in Nat : k = i + 1
  <2>1. k # 0 /\ k \in Nat
    BY <1>3
  <2> QED
    BY <2>1
<1>9. size(i) < n /\ size(i + 1) >= n
  <2>1. i \notin T
    BY <1>7, <1>8
  <2> QED
    BY <2>1, <1>8, <1>1
<1>10. i + 1 \in K
  BY <1>9, <1>5, <1>1
<1>11. size(i) = n - 1
  BY <1>10, <1>9, <1>4, <1>1
<1> QED
  BY <1>10, <1>11, <1>4 DEF size

\* What Only leaves of a sequence is a sequence of members of both.
LEMMA OnlySound ==
    ASSUME NEW S, NEW s \in Seq(S), NEW M
    PROVE  /\ Only(s, M) \in Seq(S)
           /\ \A n \in 1..Len(Only(s, M)) :
                 /\ Only(s, M)[n] \in S \cap M
                 /\ \E i \in 1..Len(s) : s[i] = Only(s, M)[n]
<1> DEFINE K == {i \in 1..Len(s) : s[i] \in M}
           at_(n) == CHOOSE i \in K : Cardinality({j \in K : j < i}) = n - 1
           N == Cardinality(K)
<1>1. Len(s) \in Nat /\ K \in SUBSET Nat /\ \A j \in K : 1 <= j /\ j <= Len(s)
  OBVIOUS
<1>2. IsFiniteSet(K) /\ N \in Nat
  <2>1. IsFiniteSet(1..Len(s)) /\ K \subseteq 1..Len(s)
    BY <1>1, FS_Interval
  <2> QED
    BY <2>1, FS_Subset, FS_CardinalityType
<1>3. \A n \in 1..N : \E i \in K : Cardinality({j \in K : j < i}) = n - 1
  <2> HIDE DEF K
  <2> SUFFICES ASSUME NEW n \in 1..N
               PROVE  \E i \in K : Cardinality({j \in K : j < i}) = n - 1
    OBVIOUS
  <2>1. n \in Nat /\ 1 <= n /\ n <= Cardinality(K)
    BY <1>2
  <2> QED
    BY <1>1, <1>2, <2>1, RankExists
<1>4. \A n \in 1..N : at_(n) \in K
  BY <1>3
<1>5. Only(s, M) = [n \in 1..N |-> s[at_(n)]]
  BY DEF Only
<1> HIDE DEF N, at_
<1>6. \A n \in 1..N : s[at_(n)] \in S \cap M /\ at_(n) \in 1..Len(s)
  BY <1>4
<1>7. Only(s, M) \in Seq(S) /\ Len(Only(s, M)) = N
  BY <1>2, <1>5, <1>6
<1> QED
  BY <1>5, <1>6, <1>7

\* Members of a finite set of positions with as many members before them are
\* the same.
LEMMA RankInjective ==
    ASSUME NEW K \in SUBSET Nat, IsFiniteSet(K), NEW i \in K, NEW k \in K,
           Cardinality({j \in K : j < i}) = Cardinality({j \in K : j < k})
    PROVE  ~(i < k)
<1> SUFFICES ASSUME i < k PROVE FALSE
  OBVIOUS
<1> DEFINE I == {j \in K : j < i}
           J == {j \in K : j < k}
<1>1. IsFiniteSet(I) /\ IsFiniteSet(J)
  BY FS_Subset
<1>2. Cardinality(I) \in Nat /\ Cardinality(J) \in Nat
  BY <1>1, FS_CardinalityType
<1>3. i \notin I /\ I \cup {i} \subseteq J
  <2>1. i \in Nat /\ k \in Nat /\ ~(i < i) /\ \A j \in K : j < i => j < k
    OBVIOUS
  <2> QED
    BY <2>1, Zenon
<1> HIDE DEF I, J
<1>4. Cardinality(I \cup {i}) = Cardinality(I) + 1
  BY <1>1, <1>3, FS_AddElement
<1>5. Cardinality(I \cup {i}) <= Cardinality(J)
  BY <1>1, <1>3, FS_Subset
<1> QED
  BY <1>2, <1>4, <1>5 DEF I, J

\* Filtering a chain drops nothing it should keep: with OnlySound, a model is
\* in the filtered chain exactly when it is in the chain and passes (the
\* filters of resolve_target_models and proxy_request).
THEOREM FilterExact ==
    ASSUME NEW S, NEW s \in Seq(S), NEW M, NEW m
    PROVE  (\E n \in 1..Len(Only(s, M)) : Only(s, M)[n] = m)
             <=> m \in M /\ \E i \in 1..Len(s) : s[i] = m
<1>1. ASSUME m \in M, NEW i \in 1..Len(s), s[i] = m
      PROVE  \E n \in 1..Len(Only(s, M)) : Only(s, M)[n] = m
  <2> DEFINE K == {j \in 1..Len(s) : s[j] \in M}
             before(k) == {j \in K : j < k}
             at_(n) == CHOOSE k \in K : Cardinality(before(k)) = n - 1
             n0 == Cardinality(before(i)) + 1
  <2>1. Len(s) \in Nat /\ K \in SUBSET Nat /\ i \in K
    BY <1>1
  <2>2. IsFiniteSet(K) /\ Cardinality(K) \in Nat
    <3>1. IsFiniteSet(1..Len(s)) /\ K \subseteq 1..Len(s)
      BY <2>1, FS_Interval
    <3> QED
      BY <3>1, FS_Subset, FS_CardinalityType
  <2>3. Only(s, M) = [n \in 1..Cardinality(K) |-> s[at_(n)]]
    BY DEF Only
  <2> HIDE DEF K
  <2>4. Cardinality(before(i)) \in Nat /\ Cardinality(before(i)) + 1 <= Cardinality(K)
    <3>1. IsFiniteSet(before(i)) /\ i \notin before(i) /\ before(i) \cup {i} \subseteq K
      BY <2>1, <2>2, FS_Subset
    <3>2. Cardinality(before(i) \cup {i}) = Cardinality(before(i)) + 1
      BY <3>1, FS_AddElement
    <3>3. Cardinality(before(i) \cup {i}) <= Cardinality(K)
      BY <3>1, <2>2, FS_Subset
    <3> QED
      BY <3>1, <3>2, <3>3, FS_CardinalityType
  <2>5. Cardinality(before(i)) = n0 - 1 /\ n0 \in 1..Cardinality(K)
    BY <2>4, <2>2
  <2> HIDE DEF n0
  <2>6. at_(n0) \in K /\ Cardinality(before(at_(n0))) = n0 - 1
    BY <2>1, <2>5
  <2> HIDE DEF at_
  <2>7. ~(at_(n0) < i) /\ ~(i < at_(n0))
    BY <2>1, <2>2, <2>5, <2>6, RankInjective
  <2>8. at_(n0) = i
    <3>1. at_(n0) \in Nat /\ i \in Nat
      BY <2>1, <2>6
    <3> QED
      BY <3>1, <2>7
  <2>9. Only(s, M)[n0] = m
    BY <2>3, <2>5, <2>8, <1>1
  <2>10. Len(Only(s, M)) = Cardinality(K)
    <3>1. Only(s, M) \in Seq(S) /\ DOMAIN Only(s, M) = 1..Cardinality(K)
      BY <2>3, OnlySound
    <3> QED
      BY <3>1, <2>2
  <2> QED
    BY <2>5, <2>9, <2>10
<1>2. ASSUME NEW n \in 1..Len(Only(s, M)), Only(s, M)[n] = m
      PROVE  m \in M /\ \E i \in 1..Len(s) : s[i] = m
  <2>1. Only(s, M)[n] \in S \cap M /\ \E i \in 1..Len(s) : s[i] = Only(s, M)[n]
    BY OnlySound
  <2> QED
    BY <2>1, <1>2
<1> QED
  BY <1>1, <1>2

\* A chain a request may use names models that are served, and granted ones
\* when the models were named directly.
LEMMA RoutableSound ==
    ASSUME NEW s \in Routes, NEW front \in BOOLEAN, NEW frontGranted \in BOOLEAN
    PROVE  /\ Routable(s, front, frontGranted) \in Seq(Models)
           /\ \A i \in 1..Len(Routable(s, front, frontGranted)) :
                 /\ Pool[Routable(s, front, frontGranted)[i]] # {}
                 /\ ~front => Routable(s, front, frontGranted)[i] \in Granted
<1> DEFINE M == {m \in Models : Pool[m] # {}}
           w == WithFallback(s)
           o == Only(w, M)
<1>1. w \in Seq(Models)
  BY PathAssumption DEF WithFallback
<1>2. Served(w) = o
  BY DEF Served
<1> HIDE DEF w
<1>3. o \in Seq(Models) /\ \A i \in 1..Len(o) : o[i] \in Models \cap M
  BY <1>1, OnlySound
<1>4. o \in Seq(M)
  <2> HIDE DEF o
  <2> QED
    BY <1>3
<1> HIDE DEF o, M
<1>5. /\ Only(o, Granted) \in Seq(M)
      /\ \A i \in 1..Len(Only(o, Granted)) : Only(o, Granted)[i] \in M \cap Granted
  BY <1>4, OnlySound
<1>6. CASE front /\ frontGranted
  <2>1. Routable(s, front, frontGranted) = o
    BY <1>6, <1>2 DEF Routable, w
  <2> QED
    BY <2>1, <1>3, <1>6 DEF M
<1>7. CASE front /\ ~frontGranted
  BY <1>7 DEF Routable
<1>8. CASE ~front
  <2>1. Routable(s, front, frontGranted) = Only(o, Granted)
    BY <1>8, <1>2 DEF Routable, w
  <2>2. M \subseteq Models
    BY DEF M
  <2> QED
    BY <2>1, <2>2, <1>5 DEF M
<1> QED
  BY <1>6, <1>7, <1>8

-----------------------------------------------------------------------------
(***************************************************************************)
(* Slots.                                                                  *)
(***************************************************************************)

\* How many requests hold a slot of b.
Held(h, b) == Cardinality({q \in Requests : h[q] = b})

\* A count goes from n to m as one request gives a slot back or takes one.
HeldMoved(n, m, had, has) ==
    /\ n \in Nat /\ m \in Nat
    /\ (had <=> has) => m = n
    /\ (had /\ ~has) => n = m + 1
    /\ (~had /\ has) => m = n + 1

\* What one request's taking or giving back of a slot does to that count.
LEMMA HoldMoves ==
    ASSUME NEW h \in [Requests -> Backends \cup {NoBackend}], NEW r \in Requests,
           NEW to \in Backends \cup {NoBackend}, NEW b \in Backends
    PROVE  HeldMoved(Held(h, b), Held([h EXCEPT ![r] = to], b), h[r] = b, to = b)
<1> DEFINE g == [h EXCEPT ![r] = to]
           H == {q \in Requests : h[q] = b}
           G == {q \in Requests : g[q] = b}
<1>1. IsFiniteSet(H) /\ IsFiniteSet(G)
  BY PathAssumption, FS_Subset
<1>2. Cardinality(H) \in Nat /\ Cardinality(G) \in Nat
  BY <1>1, FS_CardinalityType
<1>3. (h[r] = b <=> to = b) => G = H
  OBVIOUS
<1>4. ASSUME h[r] = b, to # b PROVE Cardinality(H) = Cardinality(G) + 1
  <2>1. H = G \cup {r} /\ r \notin G
    BY <1>4
  <2> QED
    BY <2>1, <1>1, FS_AddElement
<1>5. ASSUME h[r] # b, to = b PROVE Cardinality(G) = Cardinality(H) + 1
  <2>1. G = H \cup {r} /\ r \notin H
    BY <1>5
  <2> QED
    BY <2>1, <1>1, FS_AddElement
<1> HIDE DEF H, G, g
<1>6. Held(h, b) = Cardinality(H) /\ Held(g, b) = Cardinality(G)
  BY DEF Held, H, G, g
<1>7. HeldMoved(Held(h, b), Held(g, b), h[r] = b, to = b)
  BY <1>2, <1>3, <1>4, <1>5, <1>6 DEF HeldMoved
<1> QED
  BY <1>7 DEF g

\* The slots of the invariant and their types.
Counted(f, h) ==
    /\ f \in [Backends -> 0..Slots]
    /\ h \in [Requests -> Backends \cup {NoBackend}]
    /\ \A b \in Backends : f[b] + Held(h, b) = Slots

\* Dropping a guard, or the place where one might be, keeps the count.
LEMMA DropGuardKeeps ==
    ASSUME NEW r \in Requests, Counted(free, hold), DropGuard(r)
    PROVE  Counted(free', hold') /\ hold'[r] = NoBackend
<1>1. hold' = [hold EXCEPT ![r] = NoBackend]
      /\ free' = [b \in Backends |-> IF b = hold[r] THEN free[b] + 1 ELSE free[b]]
  BY DEF DropGuard
<1>2. ASSUME NEW b \in Backends
      PROVE  free'[b] \in 0..Slots /\ free'[b] + Held(hold', b) = Slots
  <2>1. /\ Held(hold, b) \in Nat /\ Held(hold', b) \in Nat
        /\ hold[r] # b => Held(hold', b) = Held(hold, b)
        /\ hold[r] = b => Held(hold, b) = Held(hold', b) + 1
    <3>1. hold \in [Requests -> Backends \cup {NoBackend}] /\ NoBackend \notin Backends
      BY PathAssumption DEF Counted
    <3>2. HeldMoved(Held(hold, b), Held(hold', b), hold[r] = b, NoBackend = b)
      BY <1>1, <3>1, HoldMoves
    <3> QED
      BY <3>1, <3>2 DEF HeldMoved
  <2>2. free[b] \in 0..Slots /\ free[b] + Held(hold, b) = Slots
    BY DEF Counted
  <2>3. free'[b] = IF b = hold[r] THEN free[b] + 1 ELSE free[b]
    BY <1>1
  <2> QED
    BY <2>1, <2>2, <2>3, PathAssumption
<1> QED
  BY <1>1, <1>2 DEF Counted

\* Taking a slot that is free keeps the count.
LEMMA TakeKeeps ==
    ASSUME NEW r \in Requests, NEW b \in Backends, Counted(free, hold),
           hold[r] = NoBackend, free[b] > 0,
           hold' = [hold EXCEPT ![r] = b], free' = [free EXCEPT ![b] = @ - 1]
    PROVE  Counted(free', hold')
<1>1. ASSUME NEW c \in Backends
      PROVE  free'[c] \in 0..Slots /\ free'[c] + Held(hold', c) = Slots
  <2>1. /\ Held(hold, c) \in Nat /\ Held(hold', c) \in Nat
        /\ b # c => Held(hold', c) = Held(hold, c)
        /\ b = c => Held(hold', c) = Held(hold, c) + 1
    <3>1. hold \in [Requests -> Backends \cup {NoBackend}] /\ NoBackend \notin Backends
      BY PathAssumption DEF Counted
    <3>2. HeldMoved(Held(hold, c), Held(hold', c), hold[r] = c, b = c)
      BY <3>1, HoldMoves
    <3> QED
      BY <3>1, <3>2 DEF HeldMoved
  <2>2. free[c] \in 0..Slots /\ free[c] + Held(hold, c) = Slots
    BY DEF Counted
  <2>3. free'[c] = IF c = b THEN free[c] - 1 ELSE free[c]
    BY DEF Counted
  <2> QED
    BY <2>1, <2>2, <2>3, PathAssumption
<1> QED
  BY <1>1 DEF Counted

-----------------------------------------------------------------------------
(***************************************************************************)
(* The invariant, taken apart by request.                                  *)
(***************************************************************************)
Lasts == {"none", "saturated", "unreachable", "status"}
Answers == {"none", "ok", "upstream", "4xx", "403", "404", "502", "503", "gone"}

\* TypeOK but for the slots and the bound on idx.
Typed ==
    /\ stage \in [Requests -> Stages] /\ chain \in [Requests -> Seq(Models)]
    /\ via \in [Requests -> BOOLEAN] /\ idx \in [Requests -> Nat \ {0}]
    /\ attempt \in [Requests -> 0..(MaxRetries + 1)]
    /\ tried \in [Requests -> SUBSET Backends]
    /\ at \in [Requests -> Backends \cup {NoBackend}]
    /\ last \in [Requests -> Lasts] /\ hop \in [Requests -> 0..1]
    /\ answer \in [Requests -> Answers] /\ healthy \in [Backends -> BOOLEAN]

\* What the invariant says of one request.
Own(r) ==
    /\ idx[r] <= Len(chain[r]) + 1
    /\ hold[r] # NoBackend => stage[r] \in {"sent", "backoff", "answering"}
    /\ \A i \in 1..Len(chain[r]) :
         Pool[chain[r][i]] # {} /\ (~via[r] => chain[r][i] \in Granted)
    /\ stage[r] \in {"body", "resolve", "policy"} =>
         idx[r] = 1 /\ attempt[r] = 0 /\ tried[r] = {} /\ last[r] = "none"
    /\ stage[r] \in {"policy", "pick", "gate", "sent", "backoff"} => idx[r] <= Len(chain[r])
    /\ stage[r] \in {"gate", "sent", "backoff"} => attempt[r] <= MaxRetries
    /\ stage[r] = "gate" => at[r] \in Backends
    /\ stage[r] = "backoff" => attempt[r] < MaxRetries /\ HasCandidate(r)
    /\ stage[r] = "pick" /\ last[r] = "status" /\ ~MoreModels(r) =>
         attempt[r] <= MaxRetries /\ HasCandidate(r)
    /\ stage[r] = "end" => last[r] # "status"

\* The invariant is its parts.
LEMMA IInvParts == IInv <=> Typed /\ Counted(free, hold) /\ \A r \in Requests : Own(r)
BY DEF IInv, TypeOK, Typed, Counted, Held, Own, Lasts, Answers, SlotsCounted, GuardPlace,
       ChainFiltered, LoopBounds, VerdictPending, UpstreamVerdictKept

\* The same of the next state.
LEMMA IInvPartsNext ==
    IInv' <=> Typed' /\ Counted(free', hold') /\ \A r \in Requests : Own(r)'
BY DEF IInv, TypeOK, Typed, Counted, Held, Own, Lasts, Answers, SlotsCounted, GuardPlace,
       ChainFiltered, LoopBounds, VerdictPending, UpstreamVerdictKept

\* A step of r changes nothing of the other requests.
Frame(r) ==
    \A q \in Requests \ {r} :
        /\ stage'[q] = stage[q] /\ chain'[q] = chain[q] /\ via'[q] = via[q]
        /\ idx'[q] = idx[q] /\ attempt'[q] = attempt[q] /\ tried'[q] = tried[q]
        /\ at'[q] = at[q] /\ hold'[q] = hold[q] /\ last'[q] = last[q]

\* So only the request that moves has to be looked at.
LEMMA Together ==
    ASSUME IInv, NEW r \in Requests, Typed', Counted(free', hold'), Frame(r), Own(r)'
    PROVE  IInv'
<1>1. ASSUME NEW q \in Requests, q # r PROVE Own(q)'
  <2>1. Own(q)
    BY IInvParts
  <2> QED
    BY <2>1, <1>1 DEF Own, Frame, HasCandidate, MoreModels, PoolOf
<1> QED
  BY <1>1, IInvPartsNext

-----------------------------------------------------------------------------
(***************************************************************************)
(* What the steps share.                                                   *)
(***************************************************************************)

\* The request is over, and its guard is gone or rides on the answer.
LEMMA LeaveKeeps ==
    ASSUME IInv, NEW r \in Requests, NEW to \in {"answering", "done"}, NEW what \in Answers,
           Leave(r, to, what), healthy' = healthy, Counted(free', hold'),
           hold' = hold \/ hold' = [hold EXCEPT ![r] = NoBackend],
           to = "answering" \/ hold'[r] = NoBackend
    PROVE  IInv'
<1>1. Typed /\ Own(r) /\ Counted(free, hold)
  BY IInvParts
<1>2. Typed'
  BY <1>1, PathAssumption DEF Leave, Typed, Stages, Lasts
<1>3. Frame(r)
  BY <1>1 DEF Leave, Frame, Typed, Counted
<1>4. Own(r)'
  BY <1>1, PathAssumption DEF Leave, Own, Typed
<1> QED
  BY <1>2, <1>3, <1>4, Together

\* The next model, or the end of the chain, where no status may be in hand.
LEMMA NextModelKeeps ==
    ASSUME IInv, NEW r \in Requests, stage[r] \in {"pick", "gate", "sent"}, NextModel(r),
           UNCHANGED <<chain, via, hop, healthy>>, NEW l \in Lasts,
           last' = [last EXCEPT ![r] = l], l = "status" => MoreModels(r),
           Counted(free', hold'), hold'[r] = NoBackend,
           hold' = hold \/ hold' = [hold EXCEPT ![r] = NoBackend]
    PROVE  IInv'
<1>1. Typed /\ Own(r) /\ Counted(free, hold)
  BY IInvParts
<1>2. Typed'
  BY <1>1, PathAssumption DEF NextModel, Goto, Typed, Stages, Lasts
<1>3. Frame(r)
  BY <1>1 DEF NextModel, Goto, Frame, Typed, Counted
<1>4. Own(r)'
  <2>1. idx[r] \in Nat /\ idx[r] <= Len(chain[r]) /\ Len(chain[r]) \in Nat
    BY <1>1 DEF Own, Typed
  <2>2. /\ idx'[r] = idx[r] + 1 /\ attempt'[r] = 0 /\ tried'[r] = {}
        /\ stage'[r] = IF MoreModels(r) THEN "pick" ELSE "end"
        /\ last'[r] = l /\ chain' = chain /\ via' = via
    BY <1>1 DEF NextModel, Goto, Typed
  <2>3. stage'[r] = "pick" => HasCandidate(r)'
    <3> SUFFICES ASSUME MoreModels(r) PROVE Pool[chain[r][idx[r] + 1]] \ {} # {}
      BY <2>2 DEF HasCandidate, PoolOf
    <3>1. idx[r] + 1 \in 1..Len(chain[r])
      BY <2>1 DEF MoreModels
    <3> QED
      BY <3>1, <1>1 DEF Own
  <2> QED
    BY <1>1, <2>1, <2>2, <2>3, PathAssumption DEF Own, MoreModels
<1> QED
  BY <1>2, <1>3, <1>4, Together

\* Another attempt at the same model.
LEMMA NextAttemptKeeps ==
    ASSUME IInv, NEW r \in Requests, stage[r] \in {"gate", "sent", "backoff"}, NextAttempt(r),
           UNCHANGED <<chain, via, hop, healthy>>, NEW l \in Lasts,
           last' = [last EXCEPT ![r] = l],
           l = "status" => attempt[r] < MaxRetries /\ HasCandidate(r),
           Counted(free', hold'), hold'[r] = NoBackend,
           hold' = hold \/ hold' = [hold EXCEPT ![r] = NoBackend]
    PROVE  IInv'
<1>1. Typed /\ Own(r) /\ Counted(free, hold)
  BY IInvParts
<1>2. attempt[r] \in Nat /\ attempt[r] <= MaxRetries /\ MaxRetries \in Nat
  BY <1>1, PathAssumption DEF Own, Typed
<1>3. Typed'
  BY <1>1, <1>2 DEF NextAttempt, Goto, Typed, Stages, Lasts
<1>4. Frame(r)
  BY <1>1 DEF NextAttempt, Goto, Frame, Typed, Counted
<1>5. Own(r)'
  <2>1. /\ idx' = idx /\ tried' = tried /\ attempt'[r] = attempt[r] + 1
        /\ stage'[r] = "pick" /\ last'[r] = l /\ chain' = chain /\ via' = via
    BY <1>1 DEF NextAttempt, Goto, Typed
  <2> QED
    BY <1>1, <1>2, <2>1 DEF Own, HasCandidate, PoolOf, MoreModels
<1> QED
  BY <1>3, <1>4, <1>5, Together

-----------------------------------------------------------------------------
(***************************************************************************)
(* The invariant is inductive.                                             *)
(***************************************************************************)

\* Before the first request every slot is free.
LEMMA InitIInv == Init => IInv
<1> SUFFICES ASSUME Init PROVE IInv
  OBVIOUS
<1>1. Typed
  BY PathAssumption DEF Init, Typed, Stages, Lasts, Answers
<1>2. ASSUME NEW b \in Backends PROVE free[b] + Held(hold, b) = Slots
  <2>1. {q \in Requests : hold[q] = b} = {}
    BY PathAssumption DEF Init
  <2>2. Held(hold, b) = 0
    BY <2>1, FS_EmptySet DEF Held
  <2> QED
    BY <2>2, PathAssumption DEF Init
<1>3. Counted(free, hold)
  BY <1>2, PathAssumption DEF Init, Counted
<1>4. \A r \in Requests : Own(r)
  BY PathAssumption DEF Init, Own
<1> QED
  BY <1>1, <1>3, <1>4, IInvParts

\* Before the loops: the body, the route and its grants, the policy.
LEMMA BeforeLoops ==
    ASSUME IInv, NEW r \in Requests, BodyRefused(r) \/ CollectBody(r) \/ Resolve(r) \/ Policy(r)
    PROVE  IInv'
<1>1. Typed /\ Own(r) /\ Counted(free, hold)
  BY IInvParts
<1>2. hold[r] = NoBackend /\ UNCHANGED <<hold, free, healthy>> /\ Counted(free', hold')
  <2>1. UNCHANGED <<hold, free, healthy>> /\ stage[r] \in {"body", "resolve", "policy"}
    BY DEF BodyRefused, CollectBody, Resolve, Policy
  <2> QED
    BY <2>1, <1>1 DEF Own
<1>3. CASE \E what \in Answers : Finish(r, what)
  BY <1>2, <1>3, LeaveKeeps DEF Finish
<1>4. CASE /\ stage[r] = "body" /\ Goto(r, "resolve") /\ UNCHANGED locals
  <2>1. Typed'
    BY <1>1, <1>2, <1>4 DEF Goto, locals, loop, Typed, Stages
  <2>2. Frame(r)
    BY <1>1, <1>2, <1>4 DEF Goto, locals, loop, Frame, Typed
  <2>3. Own(r)'
    BY <1>1, <1>2, <1>4 DEF Goto, locals, loop, Own, Typed
  <2> QED
    BY <1>2, <2>1, <2>2, <2>3, Together
<1>5. CASE stage[r] = "policy" /\ Goto(r, "pick") /\ UNCHANGED locals
  <2>1. Typed'
    BY <1>1, <1>2, <1>5 DEF Goto, locals, loop, Typed, Stages
  <2>2. Frame(r)
    BY <1>1, <1>2, <1>5 DEF Goto, locals, loop, Frame, Typed
  <2>3. Own(r)'
    BY <1>1, <1>2, <1>5 DEF Goto, locals, loop, Own, Typed
  <2> QED
    BY <1>2, <2>1, <2>2, <2>3, Together
<1>6. ASSUME NEW s \in Routes, NEW front \in BOOLEAN, NEW frontGranted \in BOOLEAN,
             stage[r] = "resolve", Routable(s, front, frontGranted) # <<>>, Goto(r, "policy"),
             chain' = [chain EXCEPT ![r] = Routable(s, front, frontGranted)],
             via' = [via EXCEPT ![r] = front], UNCHANGED <<loop, last, hop>>
      PROVE  IInv'
  <2> DEFINE ok == Routable(s, front, frontGranted)
  <2>1. /\ ok \in Seq(Models)
        /\ \A i \in 1..Len(ok) : Pool[ok[i]] # {} /\ (~front => ok[i] \in Granted)
    BY RoutableSound
  <2> HIDE DEF ok
  <2>2. chain' = [chain EXCEPT ![r] = ok] /\ ok # <<>>
    BY <1>6 DEF ok
  <2>3. Len(ok) \in Nat /\ Len(ok) >= 1
    BY <2>1, <2>2
  <2>4. Typed'
    BY <1>1, <1>2, <1>6, <2>1, <2>2 DEF Goto, loop, Typed, Stages
  <2>5. Frame(r)
    BY <1>1, <1>2, <1>6, <2>2 DEF Goto, loop, Frame, Typed
  <2>6. Own(r)'
    <3>1. /\ chain'[r] = ok /\ via'[r] = front /\ stage'[r] = "policy" /\ hold'[r] = NoBackend
          /\ idx'[r] = 1 /\ attempt'[r] = 0 /\ tried'[r] = {} /\ last'[r] = "none"
      BY <1>1, <1>2, <1>6, <2>2 DEF Goto, loop, Own, Typed
    <3> QED
      BY <3>1, <2>1, <2>3 DEF Own
  <2> QED
    BY <1>2, <2>4, <2>5, <2>6, Together
<1>7. CASE Resolve(r)
  BY <1>3, <1>6, <1>7 DEF Resolve, Answers
<1> QED
  BY <1>3, <1>4, <1>5, <1>7 DEF BodyRefused, CollectBody, Policy, Answers

\* On the last model a request with a status in hand finds something to pick,
\* so the inner loop does not end there.
LEMMA PickNoneKeeps ==
    ASSUME IInv, NEW r \in Requests, PickNone(r)
    PROVE  IInv'
<1>1. Typed /\ Own(r) /\ Counted(free, hold)
  BY IInvParts
<1>2. last[r] = "status" => MoreModels(r)
  <2> SUFFICES ASSUME last[r] = "status", ~MoreModels(r) PROVE FALSE
    OBVIOUS
  <2>1. attempt[r] <= MaxRetries /\ HasCandidate(r)
    BY <1>1 DEF Own, PickNone
  <2>2. Available(r) # {}
    BY <2>1 DEF Available, HasCandidate
  <2> QED
    BY <1>1, <2>1, <2>2, PathAssumption DEF PickNone, Typed
<1>3. /\ last' = [last EXCEPT ![r] = last[r]] /\ last[r] \in Lasts
      /\ hold'[r] = NoBackend /\ hold' = hold /\ Counted(free', hold')
  BY <1>1 DEF PickNone, Own, Typed
<1> QED
  BY <1>2, <1>3, NextModelKeeps DEF PickNone

\* A backend is picked: its slot is taken, waited for, or not to be had.
LEMMA PickOneKeeps ==
    ASSUME IInv, NEW r \in Requests, PickOne(r)
    PROVE  IInv'
<1>1. Typed /\ Own(r) /\ Counted(free, hold)
  BY IInvParts
<1>2. /\ stage[r] = "pick" /\ attempt[r] <= MaxRetries /\ healthy' = healthy
      /\ hold[r] = NoBackend /\ idx[r] <= Len(chain[r])
      /\ attempt[r] \in Nat /\ MaxRetries \in Nat
  BY <1>1, PathAssumption DEF PickOne, Own, Typed
<1>3. CASE Finish(r, "4xx") /\ UNCHANGED <<hold, free>>
  BY <1>1, <1>2, <1>3, LeaveKeeps DEF Finish, Answers
<1>4. ASSUME ~(Finish(r, "4xx") /\ UNCHANGED <<hold, free>>) PROVE IInv'
  <2>1. PICK b \in Available(r) :
          /\ tried' = [tried EXCEPT ![r] = @ \cup {b}]
          /\ \/ /\ PoolOf(r) \ (tried[r] \cup {b}) = {}
                /\ at' = [at EXCEPT ![r] = b]
                /\ Goto(r, "gate")
                /\ UNCHANGED <<attempt, hold, last, free>>
             \/ /\ free[b] > 0
                /\ at' = [at EXCEPT ![r] = b]
                /\ hold' = [hold EXCEPT ![r] = b]
                /\ free' = [free EXCEPT ![b] = @ - 1]
                /\ Goto(r, "sent")
                /\ UNCHANGED <<attempt, last>>
             \/ /\ last' = [last EXCEPT ![r] = "saturated"]
                /\ attempt' = [attempt EXCEPT ![r] = @ + 1]
                /\ Goto(r, "pick")
                /\ UNCHANGED <<at, hold, free>>
          /\ UNCHANGED <<chain, via, idx, hop>>
    BY <1>4 DEF PickOne
  <2>2. b \in Backends
    <3>1. idx[r] \in 1..Len(chain[r])
      BY <1>1, <1>2 DEF Typed
    <3>2. chain[r][idx[r]] \in Models
      BY <1>1, <3>1 DEF Typed
    <3>3. PoolOf(r) \subseteq Backends
      BY <3>2, PathAssumption DEF PoolOf
    <3> QED
      BY <2>1, <3>3 DEF Available
  <2>3. Counted(free', hold')
    BY <1>1, <1>2, <2>1, <2>2, TakeKeeps
  <2>4. Typed'
    <3>1. tried' \in [Requests -> SUBSET Backends]
      BY <1>1, <2>1, <2>2 DEF Typed
    <3>2. at' \in [Requests -> Backends \cup {NoBackend}] /\ last' \in [Requests -> Lasts]
      BY <1>1, <2>1, <2>2 DEF Typed, Lasts
    <3>3. attempt' \in [Requests -> 0..(MaxRetries + 1)]
      <4>1. attempt[r] + 1 \in 0..(MaxRetries + 1)
        BY <1>2
      <4>2. attempt' = attempt \/ attempt' = [attempt EXCEPT ![r] = attempt[r] + 1]
        BY <2>1
      <4> QED
        BY <1>1, <4>1, <4>2 DEF Typed
    <3>4. stage' \in [Requests -> Stages] /\ answer' = answer
      BY <1>1, <2>1 DEF Goto, Typed, Stages
    <3> QED
      BY <1>1, <1>2, <2>1, <3>1, <3>2, <3>3, <3>4 DEF Typed
  <2>5. Frame(r)
    BY <1>1, <2>1 DEF Goto, Frame, Typed, Counted
  <2>6. Own(r)'
    <3>1. /\ chain' = chain /\ via' = via /\ idx' = idx
          /\ \/ stage'[r] = "gate" /\ at'[r] = b /\ hold' = hold /\ attempt' = attempt
             \/ stage'[r] = "sent" /\ attempt' = attempt
             \/ stage'[r] = "pick" /\ last'[r] = "saturated" /\ hold' = hold
      BY <1>1, <2>1 DEF Goto, Typed
    <3> QED
      BY <1>1, <1>2, <2>2, <3>1 DEF Own
  <2> QED
    BY <2>3, <2>4, <2>5, <2>6, Together
<1> QED
  BY <1>3, <1>4

\* At the gate: the slot comes, or it does not.
LEMMA GateKeeps ==
    ASSUME IInv, NEW r \in Requests, GateGrant(r) \/ GateRefuse(r)
    PROVE  IInv'
<1>1. Typed /\ Own(r) /\ Counted(free, hold)
  BY IInvParts
<1>2. /\ stage[r] = "gate" /\ healthy' = healthy /\ hold[r] = NoBackend
      /\ idx[r] <= Len(chain[r]) /\ attempt[r] <= MaxRetries /\ at[r] \in Backends
  BY <1>1 DEF GateGrant, GateRefuse, Own
<1>3. CASE GateGrant(r)
  <2>1. Counted(free', hold')
    BY <1>1, <1>2, <1>3, TakeKeeps DEF GateGrant
  <2>2. Typed'
    BY <1>1, <1>3 DEF GateGrant, Goto, loop, Typed, Stages
  <2>3. Frame(r)
    BY <1>1, <1>3 DEF GateGrant, Goto, loop, Frame, Typed, Counted
  <2>4. Own(r)'
    BY <1>1, <1>2, <1>3 DEF GateGrant, Goto, loop, Own, Typed
  <2> QED
    BY <2>1, <2>2, <2>3, <2>4, Together
<1>4. CASE GateRefuse(r)
  <2>1. /\ UNCHANGED <<chain, via, hop, healthy, hold>> /\ Counted(free', hold')
        /\ last' = [last EXCEPT ![r] = "saturated"] /\ "saturated" \in Lasts
        /\ NextModel(r) \/ NextAttempt(r)
    BY <1>1, <1>4 DEF GateRefuse, Lasts
  <2> QED
    BY <1>2, <2>1, NextModelKeeps, NextAttemptKeeps
<1> QED
  BY <1>3, <1>4

\* What the upstream does: no answer, a status to retry, or the answer.
LEMMA UpstreamKeeps ==
    ASSUME IInv, NEW r \in Requests, Upstream(r)
    PROVE  IInv'
<1>1. Typed /\ Own(r) /\ Counted(free, hold)
  BY IInvParts
<1>2. /\ stage[r] = "sent" /\ healthy' = healthy
      /\ idx[r] <= Len(chain[r]) /\ attempt[r] <= MaxRetries
  BY <1>1 DEF Upstream, NoAnswer, RetryableStatus, OtherStatus, Own
<1>3. ASSUME DropGuard(r)
      PROVE  /\ Counted(free', hold') /\ hold'[r] = NoBackend
             /\ hold' = [hold EXCEPT ![r] = NoBackend]
  BY <1>1, <1>3, DropGuardKeeps DEF DropGuard
<1>4. ASSUME NEW allowed \in BOOLEAN, NoAnswer(r, allowed) PROVE IInv'
  <2>1. /\ UNCHANGED <<chain, via, hop, healthy>> /\ DropGuard(r)
        /\ last' = [last EXCEPT ![r] = "unreachable"] /\ "unreachable" \in Lasts
        /\ NextModel(r) \/ NextAttempt(r)
    BY <1>4 DEF NoAnswer, Lasts
  <2> QED
    BY <1>2, <1>3, <2>1, NextModelKeeps, NextAttemptKeeps
<1>5. ASSUME NEW allowed \in BOOLEAN, RetryableStatus(r, allowed) PROVE IInv'
  <2>1. CASE /\ attempt[r] < MaxRetries /\ HasCandidate(r)
             /\ last' = [last EXCEPT ![r] = "status"]
             /\ Goto(r, "backoff")
             /\ UNCHANGED <<chain, via, loop, hop, hold, free>>
    <3>1. Typed'
      BY <1>1, <1>2, <2>1 DEF Goto, loop, Typed, Stages, Lasts
    <3>2. Frame(r)
      BY <1>1, <2>1 DEF Goto, loop, Frame, Typed
    <3>3. Own(r)'
      BY <1>1, <1>2, <2>1 DEF Goto, loop, Own, Typed, HasCandidate, PoolOf
    <3> QED
      BY <1>1, <2>1, <3>1, <3>2, <3>3, Together
  <2>2. CASE /\ MoreModels(r) /\ last' = [last EXCEPT ![r] = "status"] /\ DropGuard(r)
             /\ NextModel(r) /\ UNCHANGED <<chain, via, hop>>
    <3>1. "status" \in Lasts
      BY DEF Lasts
    <3> QED
      BY <1>2, <1>3, <2>2, <3>1, NextModelKeeps
  <2>3. CASE Leave(r, "answering", "upstream") /\ UNCHANGED <<hold, free>>
    BY <1>1, <1>2, <2>3, LeaveKeeps DEF Answers
  <2> QED
    BY <1>5, <2>1, <2>2, <2>3 DEF RetryableStatus
<1>6. CASE OtherStatus(r)
  <2>1. PICK what \in {"ok", "upstream"} : Leave(r, "answering", what)
    BY <1>6 DEF OtherStatus
  <2>2. what \in Answers /\ UNCHANGED <<hold, free>>
    BY <1>6 DEF OtherStatus, Answers
  <2> QED
    BY <1>1, <1>2, <2>1, <2>2, LeaveKeeps
<1> QED
  BY <1>4, <1>5, <1>6 DEF Upstream

\* The pause is over, with an attempt and a backend left.
LEMMA BackoffKeeps ==
    ASSUME IInv, NEW r \in Requests, BackoffOver(r)
    PROVE  IInv'
<1>1. Typed /\ Own(r) /\ Counted(free, hold)
  BY IInvParts
<1>2. /\ Counted(free', hold') /\ hold'[r] = NoBackend
      /\ hold' = [hold EXCEPT ![r] = NoBackend]
  BY <1>1, DropGuardKeeps DEF DropGuard, BackoffOver
<1>3. /\ stage[r] = "backoff" /\ NextAttempt(r) /\ UNCHANGED <<chain, via, hop, healthy>>
      /\ last' = [last EXCEPT ![r] = last[r]] /\ last[r] \in Lasts
      /\ attempt[r] < MaxRetries /\ HasCandidate(r)
  BY <1>1 DEF BackoffOver, Own, Typed
<1> QED
  BY <1>2, <1>3, NextAttemptKeeps

\* After the loops, and after the answer.
LEMMA EndKeeps ==
    ASSUME IInv, NEW r \in Requests,
           GiveUp(r) \/ ForwardToPeer(r) \/ BodyThrough(r) \/ ClientGone(r)
    PROVE  IInv'
<1>1. Typed /\ Own(r) /\ Counted(free, hold)
  BY IInvParts
<1>2. CASE GiveUp(r)
  <2>1. PICK what \in Answers : Leave(r, "done", what)
    BY <1>2 DEF GiveUp, Finish, Answers
  <2>2. hold[r] = NoBackend /\ UNCHANGED <<hold, free, healthy>>
    BY <1>1, <1>2 DEF GiveUp, Own
  <2> QED
    BY <1>1, <2>1, <2>2, LeaveKeeps
<1>3. CASE ForwardToPeer(r)
  <2>1. Typed'
    BY <1>1, <1>3, PathAssumption DEF ForwardToPeer, Goto, Typed, Stages, Lasts
  <2>2. Frame(r)
    BY <1>1, <1>3 DEF ForwardToPeer, Goto, Frame, Typed
  <2>3. Own(r)'
    <3>1. /\ chain' = chain /\ via' = via /\ hold' = hold /\ stage'[r] = "body"
          /\ idx'[r] = 1 /\ attempt'[r] = 0 /\ tried'[r] = {} /\ last'[r] = "none"
      BY <1>1, <1>3 DEF ForwardToPeer, Goto, Typed
    <3>2. Len(chain[r]) \in Nat /\ hold[r] = NoBackend
      BY <1>1, <1>3 DEF Typed, Own, ForwardToPeer
    <3> QED
      BY <1>1, <3>1, <3>2 DEF Own
  <2> QED
    BY <1>1, <1>3, <2>1, <2>2, <2>3, Together DEF ForwardToPeer
<1>4. CASE BodyThrough(r)
  <2>1. Counted(free', hold') /\ hold' = [hold EXCEPT ![r] = NoBackend]
    BY <1>1, <1>4, DropGuardKeeps DEF BodyThrough, DropGuard
  <2>2. Typed'
    BY <1>1, <1>4 DEF BodyThrough, locals, loop, Typed, Stages, Answers
  <2>3. Frame(r)
    BY <1>1, <1>4, <2>1 DEF BodyThrough, locals, loop, Frame, Typed, Counted
  <2>4. Own(r)'
    BY <1>1, <1>4, <2>1 DEF BodyThrough, locals, loop, Own, Typed, Counted
  <2> QED
    BY <2>1, <2>2, <2>3, <2>4, Together
<1>5. CASE ClientGone(r)
  <2>1. /\ Counted(free', hold') /\ hold'[r] = NoBackend
        /\ hold' = [hold EXCEPT ![r] = NoBackend]
    BY <1>1, <1>5, DropGuardKeeps DEF ClientGone, DropGuard
  <2> QED
    BY <1>5, <2>1, LeaveKeeps DEF ClientGone, Finish, Answers
<1> QED
  BY <1>2, <1>3, <1>4, <1>5

\* The inductive step.
LEMMA NextIInv == IInv /\ [Next]_vars => IInv'
<1> SUFFICES ASSUME IInv, [Next]_vars PROVE IInv'
  OBVIOUS
<1>1. CASE UNCHANGED vars
  <2>1. Typed /\ Counted(free, hold) /\ \A r \in Requests : Own(r)
    BY IInvParts
  <2>2. Typed' /\ Counted(free', hold')
    BY <2>1, <1>1 DEF vars, Typed
  <2>3. \A r \in Requests : Own(r)'
    BY <2>1, <1>1 DEF vars, Own, HasCandidate, MoreModels, PoolOf
  <2> QED
    BY <2>2, <2>3, IInvPartsNext
<1>2. CASE HealthChanges
  <2>1. Typed /\ Counted(free, hold) /\ \A r \in Requests : Own(r)
    BY IInvParts
  <2>2. Typed' /\ Counted(free', hold')
    BY <2>1, <1>2 DEF HealthChanges, loop, Typed
  <2>3. \A r \in Requests : Own(r)'
    BY <2>1, <1>2 DEF HealthChanges, loop, Own, HasCandidate, MoreModels, PoolOf
  <2> QED
    BY <2>2, <2>3, IInvPartsNext
<1>3. ASSUME NEW r \in Requests, Step(r) \/ BodyThrough(r) \/ ClientGone(r) PROVE IInv'
  BY <1>3, BeforeLoops, PickNoneKeeps, PickOneKeeps, GateKeeps, UpstreamKeeps, BackoffKeeps,
     EndKeeps DEF Step
<1> QED
  BY <1>1, <1>2, <1>3 DEF Next

\* The inductive invariant holds throughout.
LEMMA PathInvariant == Spec => []IInv
BY InitIInv, NextIInv, PTL DEF Spec

-----------------------------------------------------------------------------

\* However requests fail over, hang up or wait, for any number of requests and
\* slots: every slot is free or in one request's guard, no gate has more free
\* slots than slots, and nobody waits at a gate with another gate's slot in
\* hand (InflightGuard, admit_to_gate).
THEOREM SlotsNeverLost == Spec => []SlotsSound
<1>1. IInv => SlotsSound
  <2> SUFFICES ASSUME IInv PROVE SlotsSound
    OBVIOUS
  <2>1. NoHoldAndWait
    BY DEF IInv, GuardPlace, NoHoldAndWait
  <2> QED
    BY <2>1 DEF IInv, SlotsSound
<1> QED
  BY <1>1, PathInvariant, PTL

\* Failover never replaces a status the upstream gave by a synthetic error,
\* whatever health does meanwhile, and never reaches a model the caller was not
\* granted, for any pools, routes, grants and retries (proxy_request).
THEOREM FailoverIsHonest == Spec => []FailoverHonest
<1>1. IInv => FailoverHonest
  <2> SUFFICES ASSUME IInv PROVE FailoverHonest
    OBVIOUS
  <2>1. GrantedOnly
    <3> SUFFICES ASSUME NEW r \in Requests, stage[r] \in {"gate", "sent", "backoff"}, ~via[r]
                 PROVE  chain[r][idx[r]] \in Granted
      BY DEF GrantedOnly
    <3>1. idx[r] \in 1..Len(chain[r])
      BY DEF IInv, TypeOK, LoopBounds
    <3> QED
      BY <3>1 DEF IInv, ChainFiltered
  <2> QED
    BY <2>1 DEF IInv, FailoverHonest
<1> QED
  BY <1>1, PathInvariant, PTL

-----------------------------------------------------------------------------
(***************************************************************************)
(* The bytes of a map.                                                     *)
(***************************************************************************)

\* A map as the cache keeps it: finite, and every entry of a size.
Sized(f) == IsFiniteSet(DOMAIN f) /\ \A k \in DOMAIN f : f[k].size \in Nat

\* What is in the bytes of a map.
LEMMA InBytes ==
    ASSUME NEW f, NEW x
    PROVE  x \in BytesIn(f) <=> \E k \in DOMAIN f : x \in {k} \X (1 .. f[k].size)
BY DEF BytesIn

\* The bytes of one entry.
LEMMA EntryBytes ==
    ASSUME NEW k, NEW n \in Nat
    PROVE  /\ IsFiniteSet({k} \X (1 .. n))
           /\ Cardinality({k} \X (1 .. n)) = n
<1>1. IsFiniteSet(1 .. n) /\ Cardinality(1 .. n) = n
  BY FS_Interval
<1>2. IsFiniteSet({k}) /\ Cardinality({k}) = 1
  BY FS_Singleton
<1>3. /\ IsFiniteSet({k} \X (1 .. n))
      /\ Cardinality({k} \X (1 .. n)) = Cardinality({k}) * Cardinality(1 .. n)
  BY <1>1, <1>2, FS_Product
<1> QED
  BY <1>1, <1>2, <1>3

\* A map of the cache holds finitely many bytes.
LEMMA BytesFinite ==
    ASSUME NEW f, Sized(f)
    PROVE  IsFiniteSet(BytesIn(f)) /\ BytesOf(f) \in Nat
<1> DEFINE parts == {{k} \X (1 .. f[k].size) : k \in DOMAIN f}
           part == [k \in DOMAIN f |-> {k} \X (1 .. f[k].size)]
<1>1. part \in Surjection(DOMAIN f, parts)
  BY DEF Surjection
<1>2. IsFiniteSet(parts)
  BY <1>1, FS_Surjection DEF Sized
<1>3. \A T \in parts : IsFiniteSet(T)
  BY EntryBytes DEF Sized
<1> HIDE DEF parts, part
<1>4. IsFiniteSet(UNION parts)
  BY <1>2, <1>3, FS_UNION
<1>5. IsFiniteSet(BytesIn(f))
  BY <1>4 DEF BytesIn, parts
<1> QED
  BY <1>5, FS_CardinalityType DEF BytesOf

\* The empty map holds none.
LEMMA BytesEmpty ==
    ASSUME NEW f, DOMAIN f = {}
    PROVE  BytesOf(f) = 0
<1>1. BytesIn(f) = {}
  BY InBytes
<1> QED
  BY <1>1, FS_EmptySet DEF BytesOf

\* Part of a map holds no more than the map.
LEMMA BytesMonotone ==
    ASSUME NEW f, NEW g, Sized(g), DOMAIN f \subseteq DOMAIN g, \A k \in DOMAIN f : f[k] = g[k]
    PROVE  BytesOf(f) <= BytesOf(g)
<1>1. BytesIn(f) \in SUBSET BytesIn(g)
  BY InBytes
<1>2. IsFiniteSet(BytesIn(g))
  BY BytesFinite
<1> QED
  BY <1>1, <1>2, FS_Subset DEF BytesOf

\* Maps that agree hold the same.
LEMMA BytesSame ==
    ASSUME NEW f, NEW g, DOMAIN f = DOMAIN g, \A k \in DOMAIN f : f[k] = g[k]
    PROVE  BytesOf(f) = BytesOf(g)
<1>1. \A x : x \in BytesIn(f) <=> x \in BytesIn(g)
  BY InBytes
<1>2. BytesIn(f) = BytesIn(g)
  BY <1>1, Zenon
<1> QED
  BY <1>2 DEF BytesOf

\* An entry counts its size.
LEMMA BytesEntry ==
    ASSUME NEW f, NEW g, Sized(g), NEW k \in DOMAIN g,
           DOMAIN f = DOMAIN g \ {k}, \A x \in DOMAIN f : f[x] = g[x]
    PROVE  BytesOf(g) = BytesOf(f) + g[k].size
<1> DEFINE own == {k} \X (1 .. g[k].size)
<1>1. Sized(f)
  BY FS_Subset DEF Sized
<1>2. IsFiniteSet(own) /\ Cardinality(own) = g[k].size
  BY EntryBytes DEF Sized
<1>3. BytesIn(g) = BytesIn(f) \cup own
  BY InBytes
<1>4. BytesIn(f) \cap own = {}
  BY InBytes
<1>5. IsFiniteSet(BytesIn(f)) /\ BytesOf(f) \in Nat
  BY <1>1, BytesFinite
<1> HIDE DEF own
<1>6. Cardinality(BytesIn(f) \cup own) = Cardinality(BytesIn(f)) + Cardinality(own) - Cardinality({})
  BY <1>2, <1>4, <1>5, FS_Union
<1>7. Cardinality({}) = 0
  BY FS_EmptySet
<1>8. g[k].size \in Nat
  BY DEF Sized
<1> QED
  BY <1>2, <1>3, <1>5, <1>6, <1>7, <1>8 DEF BytesOf

-----------------------------------------------------------------------------
(***************************************************************************)
(* The counter.                                                            *)
(***************************************************************************)

\* A value below the word is its own residue.
LEMMA NoWrap ==
    ASSUME CacheConstants, NEW n \in Nat, n < Word
    PROVE  n % Word = n /\ (n + Word) % Word = n
BY DEF CacheConstants

\* A residue is a natural number.
LEMMA Residue ==
    ASSUME CacheConstants, NEW n \in Nat
    PROVE  n % Word \in Nat
<1>1. Word \in Nat /\ Word > 0
  BY DEF CacheConstants
<1> QED
  BY <1>1

\* Adding within the word, and taking away what is there.
LEMMA Counter ==
    ASSUME CacheConstants, NEW a \in Nat, NEW b \in Nat
    PROVE  /\ a + b < Word => Plus(a, b) = a + b
           /\ b <= a /\ a < Word => Minus(a, b) = a - b
           /\ Plus(a, b) \in Nat
           /\ b < Word => Minus(a, b) \in Nat
<1>1. Word \in Nat /\ Word > 0
  BY DEF CacheConstants
<1>2. a + b < Word => Plus(a, b) = a + b
  BY NoWrap DEF Plus
<1>3. ASSUME b <= a, a < Word PROVE Minus(a, b) = a - b
  <2>1. a - b \in Nat /\ a - b < Word /\ a + Word - b = (a - b) + Word
    BY <1>1, <1>3
  <2> QED
    BY <2>1, NoWrap DEF Minus
<1>4. Plus(a, b) \in Nat
  BY <1>1 DEF Plus
<1>5. b < Word => Minus(a, b) \in Nat
  BY <1>1 DEF Minus
<1> QED
  BY <1>2, <1>3, <1>4, <1>5
-----------------------------------------------------------------------------
(***************************************************************************)
(* The invariant.                                                          *)
(***************************************************************************)

\* What the invariant says of sizes.
LEMMA CacheHeld ==
    ASSUME CacheConstants, CacheIInv
    PROVE  /\ Sized(entries) /\ Total \in Nat
           /\ \A k \in DOMAIN entries : /\ entries[k].size \in Nat /\ entries[k].size <= MaxEntryBytes
                                        /\ entries[k].size < Word /\ entries[k].size <= Total
           /\ \A r \in Calls : req[r] # Idle => /\ req[r].size \in Nat /\ req[r].size <= MaxEntryBytes
                                                   /\ req[r].size < Word
<1>1. \A k \in DOMAIN entries : entries[k].size \in Nat /\ entries[k].size <= MaxEntryBytes /\ entries[k].size < Word
  BY DEF CacheIInv, CacheTypeOK, CacheConstants
<1>2. Sized(entries)
  BY <1>1 DEF CacheIInv, CacheTypeOK, Sized
<1>3. Total \in Nat
  BY <1>2, BytesFinite DEF Total
<1>4. ASSUME NEW k \in DOMAIN entries PROVE entries[k].size <= Total
  <2> DEFINE rest == Drop(entries, {k})
  <2>1. DOMAIN rest = DOMAIN entries \ {k} /\ \A x \in DOMAIN rest : rest[x] = entries[x]
    BY DEF Drop
  <2> HIDE DEF rest
  <2>2. Total = BytesOf(rest) + entries[k].size
    BY <1>2, <2>1, BytesEntry DEF Total
  <2>3. Sized(rest)
    BY <1>2, <2>1, FS_Subset DEF Sized
  <2>4. BytesOf(rest) \in Nat
    BY <2>3, BytesFinite
  <2> QED
    BY <1>1, <2>2, <2>4
<1>5. ASSUME NEW r \in Calls, req[r] # Idle
      PROVE  req[r].size \in Nat /\ req[r].size <= MaxEntryBytes /\ req[r].size < Word
  BY <1>5 DEF CacheIInv, CacheTypeOK, CacheConstants
<1> QED
  BY <1>1, <1>2, <1>3, <1>4, <1>5

\* A step of one request that leaves the map, the counter and the lock alone,
\* outside put before and after.
LEMMA OutsideKeeps ==
    ASSUME CacheConstants, CacheIInv, NEW r \in Calls,
           NEW to \in {Idle} \cup [at : {"get", "sent", "put"}, key : Keys, size : 0 .. MaxEntryBytes,
                                   clock : Nat, reg : Nat],
           req[r].at \notin InPut, req' = [req EXCEPT ![r] = to],
           UNCHANGED <<entries, bytes, lock, snap, reg, applying, now, applied, overtaken>>
    PROVE  CacheIInv'
<1>1. /\ req'[r] = to /\ to.at \in {"idle", "get", "sent", "put"}
      /\ \A q \in Calls : q # r => req'[q] = req[q]
  BY DEF CacheIInv, CacheTypeOK, Idle
<1>2. Total' = Total
  BY DEF Total
<1>3. CacheTypeOK'
  BY DEF CacheIInv, CacheTypeOK
<1>4. LockHeld'
  BY <1>1 DEF CacheIInv, LockHeld, InPut
<1>5. Numbered' /\ AllSince'
  BY DEF CacheIInv, Numbered, AllSince
<1>6. RoomChecked'
  BY <1>1, <1>2 DEF CacheIInv, RoomChecked
<1>7. BytesCounted'
  BY <1>1, <1>2 DEF CacheIInv, BytesCounted, InPut
<1> QED
  BY <1>3, <1>4, <1>5, <1>6, <1>7 DEF CacheIInv

\* A request begins.
LEMMA BeginKeeps ==
    ASSUME CacheConstants, CacheIInv, NEW r \in Calls, Begin(r)
    PROVE  CacheIInv'
<1>1. PICK k \in Keys : req' = [req EXCEPT ![r] = [at |-> "get", key |-> k, size |-> 0, clock |-> 0, reg |-> reg]]
  BY DEF Begin
<1>2. [at |-> "get", key |-> k, size |-> 0, clock |-> 0, reg |-> reg]
         \in [at : {"get", "sent", "put"}, key : Keys, size : 0 .. MaxEntryBytes, clock : Nat, reg : Nat]
  BY DEF CacheIInv, CacheTypeOK, CacheConstants
<1>3. req[r].at \notin InPut
  BY DEF Begin, Idle, InPut
<1> QED
  BY <1>1, <1>2, <1>3, OutsideKeeps DEF Begin

\* An answer is collected to be kept, or not kept.
LEMMA CollectedKeeps ==
    ASSUME CacheConstants, CacheIInv, NEW r \in Calls, Collected(r) \/ NotKept(r)
    PROVE  CacheIInv'
<1>0. req[r].at = "sent"
  BY DEF Collected, NotKept
<1>1. req[r].at = "sent" /\ req[r].at \notin InPut /\ req[r] # Idle
  BY <1>0 DEF Idle, InPut
<1>2. CASE NotKept(r)
  BY <1>1, <1>2, OutsideKeeps DEF NotKept
<1>3. CASE Collected(r)
  <2>1. PICK n \in Sizes :
           req' = [req EXCEPT ![r] = IF n > MaxEntryBytes THEN Idle
                                     ELSE [@ EXCEPT !.at = "put", !.size = n, !.clock = now]]
    BY <1>3 DEF Collected
  <2>2. CASE n > MaxEntryBytes
    BY <1>1, <1>3, <2>1, <2>2, OutsideKeeps DEF Collected
  <2>3. CASE ~(n > MaxEntryBytes)
    <3> DEFINE to == [req[r] EXCEPT !.at = "put", !.size = n, !.clock = now]
    <3>0. n \in Nat /\ MaxEntryBytes \in Nat
      BY DEF CacheConstants
    <3>1. n \in 0 .. MaxEntryBytes /\ now \in Nat
      BY <2>3, <3>0 DEF CacheIInv, CacheTypeOK
    <3>2. to \in [at : {"get", "sent", "put"}, key : Keys, size : 0 .. MaxEntryBytes, clock : Nat, reg : Nat]
      BY <1>1, <3>1 DEF CacheIInv, CacheTypeOK
    <3>3. req' = [req EXCEPT ![r] = to]
      BY <2>1, <2>3
    <3> HIDE DEF to
    <3> QED
      BY <1>1, <1>3, <3>2, <3>3, OutsideKeeps DEF Collected
  <2> QED
    BY <2>2, <2>3
<1> QED
  BY <1>2, <1>3

\* get: a miss goes on to the backend, and takes an expired entry out.
LEMMA GetKeeps ==
    ASSUME CacheConstants, CacheIInv, NEW r \in Calls, get(r)
    PROVE  CacheIInv'
<1> DEFINE k == req[r].key
           there == k \in DOMAIN entries
           live == there /\ entries[k].until > now
           sent == [req[r] EXCEPT !.at = "sent", !.reg = reg]
<1>1. /\ req[r].at = "get" /\ lock = None /\ req[r].at \notin InPut /\ req[r] # Idle
      /\ req' = [req EXCEPT ![r] = IF live THEN Idle ELSE sent]
      /\ entries' = IF there /\ ~live THEN Drop(entries, {k}) ELSE entries
      /\ bytes' = IF there /\ ~live THEN Minus(bytes, entries[k].size) ELSE bytes
      /\ UNCHANGED <<lock, snap, reg, applying, now, applied, overtaken>>
  BY DEF get, Idle, InPut
<1>2. sent \in [at : {"get", "sent", "put"}, key : Keys, size : 0 .. MaxEntryBytes, clock : Nat, reg : Nat]
  BY <1>1 DEF CacheIInv, CacheTypeOK
<1> HIDE DEF sent
<1>3. CASE live
  BY <1>1, <1>3, OutsideKeeps
<1>4. CASE ~there
  BY <1>1, <1>2, <1>4, OutsideKeeps
<1>5. CASE there /\ ~live
  <2>1. /\ entries' = Drop(entries, {k}) /\ bytes' = Minus(bytes, entries[k].size)
        /\ req' = [req EXCEPT ![r] = sent] /\ k \in DOMAIN entries
    BY <1>1, <1>5
  <2> HIDE DEF k, there, live
  <2>2. DOMAIN entries' = DOMAIN entries \ {k} /\ \A x \in DOMAIN entries' : entries'[x] = entries[x]
    BY <2>1 DEF Drop
  <2>3. /\ req'[r] = sent /\ sent.at \in {"get", "sent", "put"}
        /\ \A q \in Calls : q # r => req'[q] = req[q]
    BY <1>2, <2>1 DEF CacheIInv, CacheTypeOK
  <2>4. /\ Sized(entries) /\ Total \in Nat /\ entries[k].size \in Nat /\ entries[k].size < Word
        /\ entries[k].size <= Total
    BY <2>1, CacheHeld
  <2>5. Sized(entries')
    BY <2>2, <2>4, FS_Subset DEF Sized
  <2>6. Total = Total' + entries[k].size /\ Total' \in Nat
    BY <2>1, <2>2, <2>4, <2>5, BytesEntry, BytesFinite DEF Total
  <2>7. bytes' \in Nat /\ (bytes = Total /\ Total < Word => bytes' = bytes - entries[k].size)
    BY <2>1, <2>4, Counter DEF CacheIInv, CacheTypeOK
  <2>8. /\ Cardinality(DOMAIN entries') <= Cardinality(DOMAIN entries)
        /\ Cardinality(DOMAIN entries') \in Nat /\ Cardinality(DOMAIN entries) \in Nat
    BY <2>2, <2>4, <2>5, FS_Subset, FS_CardinalityType DEF Sized
  <2>9. CacheTypeOK'
    <3>1. req' \in [Calls -> {Idle} \cup [at : {"get", "sent", "put"} \cup InPut, key : Keys,
                                            size : 0 .. MaxEntryBytes, clock : Nat, reg : Nat]]
      BY <1>2, <2>1 DEF CacheIInv, CacheTypeOK
    <3>2. IsFiniteSet(DOMAIN entries')
      BY <2>5 DEF Sized
    <3> QED
      BY <1>1, <2>2, <2>7, <3>1, <3>2 DEF CacheIInv, CacheTypeOK
  <2>10. LockHeld'
    BY <1>1, <2>3 DEF CacheIInv, LockHeld, InPut
  <2>11. Numbered' /\ AllSince'
    BY <1>1, <2>2 DEF CacheIInv, Numbered, AllSince
  <2>12. RoomChecked'
    <3>1. \A q \in Calls : req[q].at \notin InPut
      BY <1>1 DEF CacheIInv, LockHeld, CacheConstants
    <3>2. \A q \in Calls : req'[q].at # "insert"
      BY <2>3, <3>1 DEF InPut
    <3> QED
      BY <2>8, <3>2 DEF CacheIInv, RoomChecked, CacheConstants
  <2>13. BytesCounted'
    <3>1. \A q \in Calls : req[q].at # "count" /\ req'[q].at # "count"
      BY <1>1, <2>3 DEF CacheIInv, LockHeld, CacheConstants, InPut
    <3>2. ASSUME ~overtaken PROVE applying # "emptied" /\ bytes = Total /\ Total <= MaxBytes /\ Total < Word
      BY <2>1, <2>4, <3>1, <3>2 DEF CacheIInv, BytesCounted, CacheConstants
    <3>3. ASSUME ~overtaken PROVE bytes' = Total' /\ Total' <= MaxBytes
      BY <2>4, <2>6, <2>7, <3>2, <3>3 DEF CacheConstants
    <3> QED
      BY <1>1, <3>1, <3>2, <3>3 DEF BytesCounted
  <2> QED
    BY <2>9, <2>10, <2>11, <2>12, <2>13 DEF CacheIInv
<1> QED
  BY <1>3, <1>4, <1>5

\* What a step of a put that goes on is made of: its request moves, and the
\* rest of the requests stay outside put.
LEMMA Inside ==
    ASSUME CacheConstants, CacheIInv, NEW r \in Calls, req[r].at \in InPut
    PROVE  /\ lock = r /\ req[r] # Idle
           /\ \A q \in Calls : q # r => req[q].at \notin InPut
           /\ req[r].key \in Keys /\ req[r].size \in 0 .. MaxEntryBytes /\ req[r].clock \in Nat /\ req[r].reg \in Nat
<1>1. lock = r /\ \A q \in Calls : q # r => req[q].at \notin InPut
  BY DEF CacheIInv, LockHeld
<1>2. req[r] # Idle
  BY DEF Idle, InPut
<1> QED
  BY <1>1, <1>2 DEF CacheIInv, CacheTypeOK

\* Moving a request to another stage.
LEMMA Moves ==
    ASSUME CacheIInv, NEW r \in Calls, req[r] # Idle, NEW to \in {"get", "sent", "put"} \cup InPut, CacheGoto(r, to)
    PROVE  /\ req'[r] = [req[r] EXCEPT !.at = to] /\ req'[r].at = to /\ req'[r].size = req[r].size
           /\ \A q \in Calls : q # r => req'[q] = req[q]
           /\ req' \in [Calls -> {Idle} \cup [at : {"get", "sent", "put"} \cup InPut, key : Keys,
                                                size : 0 .. MaxEntryBytes, clock : Nat, reg : Nat]]
BY DEF CacheIInv, CacheTypeOK, CacheGoto

\* The end of a put.
LEMMA Ends ==
    ASSUME CacheIInv, NEW r \in Calls, req' = [req EXCEPT ![r] = Idle]
    PROVE  /\ req'[r].at = "idle"
           /\ \A q \in Calls : q # r => req'[q] = req[q]
           /\ req' \in [Calls -> {Idle} \cup [at : {"get", "sent", "put"} \cup InPut, key : Keys,
                                                size : 0 .. MaxEntryBytes, clock : Nat, reg : Nat]]
BY DEF CacheIInv, CacheTypeOK, Idle

\* What ~Full says: room for one more entry, and for its bytes while the
\* counter is within the limit.
LEMMA NotFull ==
    ASSUME CacheConstants, CacheIInv, NEW n \in 0 .. MaxEntryBytes, ~Full(n)
    PROVE  /\ Cardinality(DOMAIN entries) < MaxEntries
           /\ bytes <= MaxBytes => bytes + n <= MaxBytes
<1>1. Cardinality(DOMAIN entries) \in Nat
  BY FS_CardinalityType DEF CacheIInv, CacheTypeOK
<1>2. /\ ~(Cardinality(DOMAIN entries) >= MaxEntries) /\ ~(Plus(bytes, n) > MaxBytes)
  BY DEF Full
<1>3. n \in Nat /\ bytes \in Nat /\ MaxBytes \in Nat /\ MaxEntryBytes \in Nat /\ n <= MaxEntryBytes
      /\ MaxBytes + MaxEntryBytes < Word /\ Word \in Nat /\ MaxEntries \in Nat
  BY DEF CacheConstants, CacheIInv, CacheTypeOK
<1>4. bytes <= MaxBytes => Plus(bytes, n) = bytes + n
  BY <1>3, Counter
<1> QED
  BY <1>1, <1>2, <1>3, <1>4

\* put takes the mutex and looks whether there is room.
LEMMA PutCheckKeeps ==
    ASSUME CacheConstants, CacheIInv, NEW r \in Calls, PutCheck(r)
    PROVE  CacheIInv'
<1> DEFINE to == IF Full(req[r].size) THEN "sweep" ELSE "insert"
<1>1. /\ req[r].at = "put" /\ lock = None /\ lock' = r /\ CacheGoto(r, to)
      /\ UNCHANGED <<entries, bytes, snap, reg, applying, now, applied, overtaken>>
  BY DEF PutCheck
<1>2. req[r] # Idle /\ to \in InPut /\ to # "count"
  BY <1>1 DEF Idle, InPut
<1>3. \A q \in Calls : req[q].at \notin InPut
  BY <1>1 DEF CacheIInv, LockHeld, CacheConstants
<1>4. to = "insert" => ~Full(req[r].size)
  OBVIOUS
<1> HIDE DEF to
<1>5. /\ req'[r].at = to /\ req'[r].size = req[r].size
      /\ \A q \in Calls : q # r => req'[q] = req[q]
      /\ req' \in [Calls -> {Idle} \cup [at : {"get", "sent", "put"} \cup InPut, key : Keys,
                                           size : 0 .. MaxEntryBytes, clock : Nat, reg : Nat]]
  BY <1>1, <1>2, Moves
<1>6. Total' = Total
  BY <1>1 DEF Total
<1>7. CacheTypeOK'
  BY <1>1, <1>5 DEF CacheIInv, CacheTypeOK
<1>8. LockHeld'
  BY <1>1, <1>2, <1>3, <1>5 DEF LockHeld
<1>9. Numbered' /\ AllSince'
  BY <1>1 DEF CacheIInv, Numbered, AllSince
<1>10. RoomChecked'
  <2>1. ASSUME to = "insert"
        PROVE  /\ Cardinality(DOMAIN entries) < MaxEntries
               /\ ~overtaken => Total + req[r].size <= MaxBytes
    <3>1. req[r].size \in 0 .. MaxEntryBytes
      BY <1>2 DEF CacheIInv, CacheTypeOK
    <3>2. /\ Cardinality(DOMAIN entries) < MaxEntries
          /\ bytes <= MaxBytes => bytes + req[r].size <= MaxBytes
      BY <1>4, <2>1, <3>1, NotFull
    <3>3. ASSUME ~overtaken PROVE Total + req[r].size <= MaxBytes
      <4>1. bytes <= MaxBytes /\ bytes \in Nat /\ req[r].size \in Nat /\ MaxBytes \in Nat
        BY <3>1, <3>3 DEF CacheIInv, BytesCounted, CacheTypeOK, CacheConstants
      <4>2. CASE applying # "emptied"
        <5>1. bytes = Total
          BY <1>3, <3>3, <4>2 DEF CacheIInv, BytesCounted, InPut
        <5> QED
          BY <3>2, <4>1, <5>1
      <4>3. CASE applying = "emptied"
        <5>1. Total = 0
          BY <3>3, <4>3, BytesEmpty DEF CacheIInv, BytesCounted, Total
        <5> QED
          BY <3>2, <4>1, <5>1
      <4> QED
        BY <4>2, <4>3
    <3> QED
      BY <3>2, <3>3
  <2> QED
    BY <1>1, <1>3, <1>5, <1>6, <2>1 DEF CacheIInv, RoomChecked, InPut
<1>11. BytesCounted'
  BY <1>1, <1>2, <1>3, <1>5, <1>6 DEF CacheIInv, BytesCounted, InPut
<1> QED
  BY <1>7, <1>8, <1>9, <1>10, <1>11 DEF CacheIInv

\* put, the cache being full: what has expired goes.
LEMMA PutSweepKeeps ==
    ASSUME CacheConstants, CacheIInv, NEW r \in Calls, PutSweep(r)
    PROVE  CacheIInv'
<1> DEFINE dead == {k \in DOMAIN entries : entries[k].until <= req[r].clock}
<1>1. /\ req[r].at = "sweep" /\ CacheGoto(r, "recheck") /\ entries' = Drop(entries, dead)
      /\ bytes' = IF dead # {} THEN BytesOf(entries') % Word ELSE bytes
      /\ UNCHANGED <<lock, snap, reg, applying, now, applied, overtaken>>
  BY DEF PutSweep
<1>2. req[r].at \in InPut /\ dead \subseteq DOMAIN entries
  BY <1>1 DEF InPut
<1> HIDE DEF dead
<1>3. /\ lock = r /\ req[r] # Idle
      /\ \A q \in Calls : q # r => req[q].at \notin InPut
  BY <1>2, Inside
<1>4. /\ req'[r].at = "recheck"
      /\ \A q \in Calls : q # r => req'[q] = req[q]
      /\ req' \in [Calls -> {Idle} \cup [at : {"get", "sent", "put"} \cup InPut, key : Keys,
                                           size : 0 .. MaxEntryBytes, clock : Nat, reg : Nat]]
  BY <1>1, <1>3, Moves DEF InPut
<1>5. DOMAIN entries' = DOMAIN entries \ dead /\ \A x \in DOMAIN entries' : entries'[x] = entries[x]
  BY <1>1 DEF Drop
<1>6. Sized(entries) /\ Total \in Nat
  BY CacheHeld
<1>7. Sized(entries')
  BY <1>5, <1>6, FS_Subset DEF Sized
<1>8. Total' \in Nat /\ Total' <= Total
  BY <1>5, <1>6, <1>7, BytesFinite, BytesMonotone DEF Total
<1>9. dead = {} => Total' = Total
  BY <1>5, BytesSame DEF Total
<1>10. bytes' \in Nat /\ (dead # {} /\ Total' < Word => bytes' = Total') /\ (dead = {} => bytes' = bytes)
  <2>1. Word \in Nat /\ Word > 0
    BY DEF CacheConstants
  <2>2. dead # {} => bytes' = Total' % Word
    BY <1>1 DEF Total
  <2>3. Total' % Word \in Nat
    BY <1>8, Residue
  <2>4. Total' < Word => Total' % Word = Total'
    BY <1>8, NoWrap
  <2> QED
    BY <1>1, <2>2, <2>3, <2>4 DEF CacheIInv, CacheTypeOK
<1>11. /\ Cardinality(DOMAIN entries') <= Cardinality(DOMAIN entries)
       /\ Cardinality(DOMAIN entries') \in Nat /\ Cardinality(DOMAIN entries) \in Nat
  BY <1>5, <1>6, <1>7, FS_Subset, FS_CardinalityType DEF Sized
<1>12. CacheTypeOK'
  <2>1. IsFiniteSet(DOMAIN entries')
    BY <1>7 DEF Sized
  <2> QED
    BY <1>1, <1>4, <1>5, <1>10, <2>1 DEF CacheIInv, CacheTypeOK
<1>13. LockHeld'
  BY <1>1, <1>3, <1>4 DEF CacheIInv, LockHeld, InPut
<1>14. Numbered' /\ AllSince'
  BY <1>1, <1>5 DEF CacheIInv, Numbered, AllSince
<1>15. RoomChecked'
  BY <1>3, <1>4, <1>11 DEF CacheIInv, RoomChecked, CacheConstants, InPut
<1>16. BytesCounted'
  <2>1. \A q \in Calls : req[q].at # "count" /\ req'[q].at # "count"
    BY <1>1, <1>3, <1>4 DEF InPut
  <2>2. ASSUME ~overtaken PROVE Total' <= MaxBytes /\ Total' < Word /\ Total <= MaxBytes /\ bytes <= MaxBytes
    BY <1>6, <1>8, <2>2 DEF CacheIInv, BytesCounted, CacheConstants
  <2>3. ASSUME ~overtaken PROVE bytes' <= MaxBytes
    BY <1>10, <2>2, <2>3
  <2>4. ASSUME ~overtaken, applying = "emptied" PROVE DOMAIN entries' = {}
    BY <1>5, <2>4 DEF CacheIInv, BytesCounted
  <2>5. ASSUME ~overtaken, applying # "emptied" PROVE bytes' = Total'
    BY <1>9, <1>10, <2>1, <2>2, <2>5 DEF CacheIInv, BytesCounted
  <2> QED
    BY <1>1, <2>1, <2>2, <2>3, <2>4, <2>5 DEF BytesCounted
<1> QED
  BY <1>12, <1>13, <1>14, <1>15, <1>16 DEF CacheIInv

\* put looks again.
LEMMA PutRecheckKeeps ==
    ASSUME CacheConstants, CacheIInv, NEW r \in Calls, PutRecheck(r)
    PROVE  CacheIInv'
<1>1. /\ req[r].at = "recheck" /\ req[r].at \in InPut
      /\ UNCHANGED <<entries, bytes, snap, reg, applying, now, applied, overtaken>>
  BY DEF PutRecheck, InPut
<1>2. /\ lock = r /\ req[r] # Idle /\ req[r].size \in 0 .. MaxEntryBytes
      /\ \A q \in Calls : q # r => req[q].at \notin InPut
  BY <1>1, Inside
<1>3. Total' = Total
  BY <1>1 DEF Total
<1>4. Numbered' /\ AllSince'
  BY <1>1 DEF CacheIInv, Numbered, AllSince
<1>5. CASE Full(req[r].size)
  <2>1. lock' = None /\ req' = [req EXCEPT ![r] = Idle]
    BY <1>5 DEF PutRecheck
  <2>2. /\ req'[r].at = "idle"
        /\ \A q \in Calls : q # r => req'[q] = req[q]
        /\ req' \in [Calls -> {Idle} \cup [at : {"get", "sent", "put"} \cup InPut, key : Keys,
                                             size : 0 .. MaxEntryBytes, clock : Nat, reg : Nat]]
    BY <2>1, Ends
  <2>3. CacheTypeOK'
    BY <1>1, <2>1, <2>2 DEF CacheIInv, CacheTypeOK
  <2>4. LockHeld'
    BY <1>2, <2>1, <2>2 DEF LockHeld, InPut, CacheConstants
  <2>5. RoomChecked'
    BY <1>1, <1>2, <1>3, <2>2 DEF CacheIInv, RoomChecked, InPut
  <2>6. BytesCounted'
    BY <1>1, <1>2, <1>3, <2>2 DEF CacheIInv, BytesCounted, InPut
  <2> QED
    BY <1>4, <2>3, <2>4, <2>5, <2>6 DEF CacheIInv
<1>6. CASE ~Full(req[r].size)
  <2>1. lock' = lock /\ CacheGoto(r, "insert")
    BY <1>6 DEF PutRecheck
  <2>2. /\ req'[r].at = "insert" /\ req'[r].size = req[r].size
        /\ \A q \in Calls : q # r => req'[q] = req[q]
        /\ req' \in [Calls -> {Idle} \cup [at : {"get", "sent", "put"} \cup InPut, key : Keys,
                                             size : 0 .. MaxEntryBytes, clock : Nat, reg : Nat]]
    BY <1>2, <2>1, Moves DEF InPut
  <2>3. CacheTypeOK'
    BY <1>1, <2>1, <2>2 DEF CacheIInv, CacheTypeOK
  <2>4. LockHeld'
    BY <1>1, <1>2, <2>1, <2>2 DEF CacheIInv, LockHeld, InPut
  <2>5. /\ Cardinality(DOMAIN entries) < MaxEntries
        /\ bytes <= MaxBytes => bytes + req[r].size <= MaxBytes
    BY <1>2, <1>6, NotFull
  <2>6. ASSUME ~overtaken PROVE Total + req[r].size <= MaxBytes
    <3>1. /\ bytes <= MaxBytes /\ bytes \in Nat /\ req[r].size \in Nat /\ MaxBytes \in Nat
          /\ \A q \in Calls : req[q].at # "count"
      BY <1>1, <1>2, <2>6 DEF CacheIInv, BytesCounted, CacheTypeOK, CacheConstants, InPut
    <3>2. CASE applying # "emptied"
      <4>1. bytes = Total
        BY <2>6, <3>1, <3>2 DEF CacheIInv, BytesCounted
      <4> QED
        BY <2>5, <3>1, <4>1
    <3>3. CASE applying = "emptied"
      <4>1. Total = 0
        BY <2>6, <3>3, BytesEmpty DEF CacheIInv, BytesCounted, Total
      <4> QED
        BY <2>5, <3>1, <4>1
    <3> QED
      BY <3>2, <3>3
  <2>7. RoomChecked'
    BY <1>1, <1>2, <1>3, <2>2, <2>5, <2>6 DEF CacheIInv, RoomChecked, InPut
  <2>8. BytesCounted'
    BY <1>1, <1>2, <1>3, <2>2 DEF CacheIInv, BytesCounted, InPut
  <2> QED
    BY <1>4, <2>3, <2>4, <2>7, <2>8 DEF CacheIInv
<1> QED
  BY <1>5, <1>6

\* put: the entry is in, and not yet counted.
LEMMA PutInsertKeeps ==
    ASSUME CacheConstants, CacheIInv, NEW r \in Calls, PutInsert(r)
    PROVE  CacheIInv'
<1> DEFINE k == req[r].key
           n == req[r].size
           e == [size |-> n, until |-> req[r].clock + Ttl, reg |-> req[r].reg, since |-> applied]
           rest == Drop(entries, {k})
<1>1. /\ req[r].at = "insert" /\ req[r].at \in InPut
      /\ entries' = [x \in DOMAIN entries \cup {k} |-> IF x = k THEN e ELSE entries[x]]
      /\ bytes' = IF k \in DOMAIN entries THEN Minus(bytes, entries[k].size) ELSE bytes
      /\ CacheGoto(r, "count") /\ overtaken' = (overtaken \/ applying = "emptied")
      /\ UNCHANGED <<lock, snap, reg, applying, now, applied>>
  BY DEF PutInsert, InPut
<1>2. /\ lock = r /\ req[r] # Idle /\ n \in 0 .. MaxEntryBytes /\ req[r].clock \in Nat /\ req[r].reg \in Nat
      /\ \A q \in Calls : q # r => req[q].at \notin InPut
  BY <1>1, Inside
<1>3. /\ req'[r].at = "count" /\ req'[r].size = n
      /\ \A q \in Calls : q # r => req'[q] = req[q]
      /\ req' \in [Calls -> {Idle} \cup [at : {"get", "sent", "put"} \cup InPut, key : Keys,
                                           size : 0 .. MaxEntryBytes, clock : Nat, reg : Nat]]
  BY <1>1, <1>2, Moves DEF InPut
<1>4. e \in [size : 0 .. MaxEntryBytes, until : Nat, reg : Nat, since : Nat] /\ e.size = n /\ e.since = applied
  BY <1>2 DEF CacheIInv, CacheTypeOK, CacheConstants
<1>5. n \in Nat /\ MaxEntryBytes \in Nat /\ MaxBytes \in Nat /\ MaxEntries \in Nat
  BY <1>2 DEF CacheConstants
<1> HIDE DEF n, e
<1>6. /\ DOMAIN entries' = DOMAIN entries \cup {k} /\ entries'[k] = e
      /\ \A x \in DOMAIN entries : x # k => entries'[x] = entries[x]
      /\ DOMAIN rest = DOMAIN entries \ {k} /\ \A x \in DOMAIN rest : rest[x] = entries[x]
  BY <1>1 DEF Drop
<1> HIDE DEF k, rest
<1>7. /\ Sized(entries) /\ Total \in Nat
      /\ \A x \in DOMAIN entries : entries[x].size \in Nat /\ entries[x].size < Word /\ entries[x].size <= Total
  BY CacheHeld
<1>8. /\ IsFiniteSet(DOMAIN entries') /\ Cardinality(DOMAIN entries') <= Cardinality(DOMAIN entries) + 1
      /\ Cardinality(DOMAIN entries) \in Nat /\ Cardinality(DOMAIN entries') \in Nat
  <2>1. IsFiniteSet(DOMAIN entries) /\ Cardinality(DOMAIN entries) \in Nat
    BY <1>7, FS_CardinalityType DEF Sized
  <2>2. /\ IsFiniteSet(DOMAIN entries \cup {k})
        /\ Cardinality(DOMAIN entries \cup {k})
             = IF k \in DOMAIN entries THEN Cardinality(DOMAIN entries) ELSE Cardinality(DOMAIN entries) + 1
    BY <2>1, FS_AddElement
  <2> QED
    BY <1>6, <2>1, <2>2
<1>9. Sized(entries') /\ Sized(rest)
  <2>1. Sized(entries')
    BY <1>4, <1>5, <1>6, <1>7, <1>8 DEF Sized
  <2>2. Sized(rest)
    BY <1>6, <1>7, FS_Subset DEF Sized
  <2> QED
    BY <2>1, <2>2
<1>10. /\ Total' = BytesOf(rest) + n /\ BytesOf(rest) \in Nat /\ Total' \in Nat
       /\ k \in DOMAIN entries => Total = BytesOf(rest) + entries[k].size
       /\ k \notin DOMAIN entries => Total = BytesOf(rest)
  <2>1. DOMAIN rest = DOMAIN entries' \ {k} /\ (\A x \in DOMAIN rest : rest[x] = entries'[x]) /\ k \in DOMAIN entries'
    BY <1>6
  <2>2. BytesOf(entries') = BytesOf(rest) + entries'[k].size
    BY <1>9, <2>1, BytesEntry
  <2>3. BytesOf(rest) \in Nat
    BY <1>9, BytesFinite
  <2>4. ASSUME k \in DOMAIN entries PROVE Total = BytesOf(rest) + entries[k].size
    BY <1>6, <1>7, <2>4, BytesEntry DEF Total
  <2>5. ASSUME k \notin DOMAIN entries PROVE Total = BytesOf(rest)
    <3>1. DOMAIN rest = DOMAIN entries
      BY <1>6, <2>5
    <3> QED
      BY <1>6, <3>1, BytesSame DEF Total
  <2> QED
    BY <1>4, <1>5, <1>6, <2>2, <2>3, <2>4, <2>5 DEF Total
<1>11. bytes' \in Nat
  BY <1>1, <1>7, Counter DEF CacheIInv, CacheTypeOK
<1>12. CacheTypeOK'
  BY <1>1, <1>3, <1>4, <1>6, <1>8, <1>11 DEF CacheIInv, CacheTypeOK
<1>13. LockHeld'
  BY <1>1, <1>2, <1>3 DEF CacheIInv, LockHeld, InPut
<1>14. Numbered'
  BY <1>1 DEF CacheIInv, Numbered
<1>15. AllSince'
  <2>1. applied \in Nat
    BY DEF CacheIInv, CacheTypeOK
  <2> QED
    BY <1>1, <1>4, <1>6, <2>1 DEF CacheIInv, AllSince
<1>16. RoomChecked'
  <2>1. Cardinality(DOMAIN entries) < MaxEntries
    BY <1>1 DEF CacheIInv, RoomChecked
  <2>2. Cardinality(DOMAIN entries') <= MaxEntries
    BY <1>5, <1>8, <2>1
  <2> QED
    BY <1>2, <1>3, <2>2 DEF RoomChecked, InPut
<1>17. BytesCounted'
  <2>1. SUFFICES ASSUME ~overtaken'
                 PROVE  /\ Total' <= MaxBytes /\ bytes' <= MaxBytes
                        /\ bytes' + n = Total'
    BY <1>1, <1>2, <1>3, <2>1 DEF BytesCounted, InPut
  <2>2. ~overtaken /\ applying # "emptied"
    BY <1>1, <2>1
  <2>3. /\ bytes = Total /\ Total <= MaxBytes /\ Total + n <= MaxBytes
    BY <1>1, <1>2, <2>2 DEF CacheIInv, BytesCounted, RoomChecked, InPut, n
  <2>4. Total < Word
    BY <1>7, <2>3 DEF CacheConstants
  <2>5. bytes' = BytesOf(rest)
    <3>1. CASE k \in DOMAIN entries
      <4>1. bytes' = bytes - entries[k].size
        BY <1>1, <1>7, <2>3, <2>4, <3>1, Counter
      <4> QED
        BY <1>7, <1>10, <2>3, <3>1, <4>1
    <3>2. CASE k \notin DOMAIN entries
      BY <1>1, <1>10, <2>3, <3>2
    <3> QED
      BY <3>1, <3>2
  <2>6. BytesOf(rest) <= Total
    BY <1>7, <1>10
  <2> QED
    BY <1>5, <1>7, <1>10, <2>3, <2>5, <2>6
<1> QED
  BY <1>12, <1>13, <1>14, <1>15, <1>16, <1>17 DEF CacheIInv

\* put: the entry is counted.
LEMMA PutCountKeeps ==
    ASSUME CacheConstants, CacheIInv, NEW r \in Calls, PutCount(r)
    PROVE  CacheIInv'
<1>1. /\ req[r].at = "count" /\ req[r].at \in InPut
      /\ bytes' = Plus(bytes, req[r].size) /\ lock' = None /\ req' = [req EXCEPT ![r] = Idle]
      /\ overtaken' = (overtaken \/ applying = "emptied")
      /\ UNCHANGED <<entries, snap, reg, applying, now, applied>>
  BY DEF PutCount, InPut
<1>2. /\ lock = r /\ req[r].size \in 0 .. MaxEntryBytes
      /\ \A q \in Calls : q # r => req[q].at \notin InPut
  BY <1>1, Inside
<1>3. /\ req'[r].at = "idle"
      /\ \A q \in Calls : q # r => req'[q] = req[q]
      /\ req' \in [Calls -> {Idle} \cup [at : {"get", "sent", "put"} \cup InPut, key : Keys,
                                           size : 0 .. MaxEntryBytes, clock : Nat, reg : Nat]]
  BY <1>1, Ends
<1>4. Total' = Total /\ Total \in Nat
  BY <1>1, CacheHeld DEF Total
<1>5. bytes \in Nat /\ req[r].size \in Nat
  BY <1>2 DEF CacheIInv, CacheTypeOK
<1>6. bytes' \in Nat
  BY <1>1, <1>5, Counter
<1>7. CacheTypeOK'
  BY <1>1, <1>3, <1>6 DEF CacheIInv, CacheTypeOK
<1>8. LockHeld'
  BY <1>1, <1>2, <1>3 DEF LockHeld, InPut, CacheConstants
<1>9. Numbered' /\ AllSince'
  BY <1>1 DEF CacheIInv, Numbered, AllSince
<1>10. RoomChecked'
  BY <1>1, <1>2, <1>3 DEF CacheIInv, RoomChecked, InPut
<1>11. BytesCounted'
  <2>1. SUFFICES ASSUME ~overtaken'
                 PROVE  Total' <= MaxBytes /\ bytes' <= MaxBytes /\ bytes' = Total' /\ applying' # "emptied"
    BY <1>2, <1>3, <2>1 DEF BytesCounted, InPut
  <2>2. ~overtaken /\ applying # "emptied"
    BY <1>1, <2>1
  <2>3. bytes + req[r].size = Total /\ Total <= MaxBytes
    BY <1>1, <2>2 DEF CacheIInv, BytesCounted
  <2>4. bytes' = bytes + req[r].size
    <3>1. bytes + req[r].size < Word
      BY <1>4, <2>3 DEF CacheConstants
    <3> QED
      BY <1>1, <1>5, <3>1, Counter
  <2> QED
    BY <1>1, <1>4, <2>2, <2>3, <2>4
<1> QED
  BY <1>7, <1>8, <1>9, <1>10, <1>11 DEF CacheIInv

\* apply_snapshot and the clock, but for the two halves of clear.
LEMMA ApplyKeeps ==
    ASSUME CacheConstants, CacheIInv, ApplyBegin \/ StoreSnapshot \/ StoreRegistry \/ Clock
    PROVE  CacheIInv'
<1>1. UNCHANGED <<entries, bytes, lock, req, overtaken>>
  BY DEF ApplyBegin, StoreSnapshot, StoreRegistry, Clock
<1>2. Total' = Total
  BY <1>1 DEF Total
<1>3. applying' = "emptied" <=> applying = "emptied"
  BY DEF ApplyBegin, StoreSnapshot, StoreRegistry, Clock
<1>4. CacheTypeOK'
  BY <1>1 DEF CacheIInv, CacheTypeOK, ApplyBegin, StoreSnapshot, StoreRegistry, Clock
<1>5. Numbered'
  BY DEF CacheIInv, CacheTypeOK, Numbered, ApplyBegin, StoreSnapshot, StoreRegistry, Clock
<1>6. AllSince'
  BY <1>1 DEF CacheIInv, AllSince, ApplyBegin, StoreSnapshot, StoreRegistry, Clock, is_empty
<1>7. LockHeld' /\ RoomChecked'
  BY <1>1, <1>2 DEF CacheIInv, LockHeld, RoomChecked
<1>8. BytesCounted'
  BY <1>1, <1>2, <1>3 DEF CacheIInv, BytesCounted
<1> QED
  BY <1>4, <1>5, <1>6, <1>7, <1>8 DEF CacheIInv

\* clear.
LEMMA ClearKeeps ==
    ASSUME CacheConstants, CacheIInv, ClearEntries \/ ClearBytes
    PROVE  CacheIInv'
<1>1. CASE ClearEntries
  <2>1. /\ applying = "full" /\ lock = None /\ applying' = "emptied"
        /\ DOMAIN entries' = {}
        /\ UNCHANGED <<bytes, lock, req, snap, reg, now, applied, overtaken>>
    BY <1>1 DEF ClearEntries
  <2>2. Total' = 0
    BY <2>1, BytesEmpty DEF Total
  <2>3. IsFiniteSet(DOMAIN entries') /\ Cardinality(DOMAIN entries') = 0
    BY <2>1, FS_EmptySet
  <2>4. \A q \in Calls : req[q].at \notin InPut
    BY <2>1 DEF CacheIInv, LockHeld, CacheConstants
  <2>5. CacheTypeOK'
    BY <2>1, <2>3 DEF CacheIInv, CacheTypeOK
  <2>6. LockHeld' /\ Numbered' /\ AllSince'
    BY <2>1 DEF CacheIInv, LockHeld, Numbered, AllSince
  <2>7. RoomChecked'
    BY <2>1, <2>3, <2>4 DEF RoomChecked, InPut, CacheConstants
  <2>8. BytesCounted'
    BY <2>1, <2>2, <2>4 DEF CacheIInv, BytesCounted, InPut, CacheConstants
  <2> QED
    BY <2>5, <2>6, <2>7, <2>8 DEF CacheIInv
<1>2. CASE ClearBytes
  <2>1. /\ applying = "emptied" /\ bytes' = 0 /\ applying' = "clean"
        /\ UNCHANGED <<entries, lock, req, snap, reg, now, applied, overtaken>>
    BY <1>2 DEF ClearBytes
  <2>2. Total' = Total
    BY <2>1 DEF Total
  <2>3. CacheTypeOK'
    BY <2>1 DEF CacheIInv, CacheTypeOK
  <2>4. LockHeld' /\ Numbered' /\ AllSince' /\ RoomChecked'
    BY <2>1, <2>2 DEF CacheIInv, LockHeld, Numbered, AllSince, RoomChecked
  <2>5. BytesCounted'
    <3>1. ASSUME ~overtaken PROVE Total = 0 /\ \A q \in Calls : req[q].at # "count"
      BY <2>1, <3>1, BytesEmpty DEF CacheIInv, BytesCounted, Total
    <3> QED
      BY <2>1, <2>2, <3>1 DEF BytesCounted, CacheConstants
  <2> QED
    BY <2>3, <2>4, <2>5 DEF CacheIInv
<1> QED
  BY <1>1, <1>2

\* The cache starts empty.
LEMMA InitHolds == ASSUME CacheConstants, CacheInit PROVE CacheIInv
<1>1. DOMAIN entries = {} /\ IsFiniteSet(DOMAIN entries) /\ Cardinality(DOMAIN entries) = 0
  BY FS_EmptySet DEF CacheInit
<1>2. Total = 0
  BY <1>1, BytesEmpty DEF Total
<1>3. \A r \in Calls : req[r].at = "idle"
  BY DEF CacheInit, Idle
<1>4. CacheTypeOK
  BY <1>1 DEF CacheInit, CacheTypeOK
<1>5. LockHeld /\ Numbered /\ AllSince
  BY <1>1, <1>3 DEF CacheInit, LockHeld, Numbered, AllSince, InPut, CacheConstants
<1>6. RoomChecked
  BY <1>1, <1>3 DEF RoomChecked, CacheConstants
<1>7. BytesCounted
  BY <1>1, <1>2, <1>3 DEF CacheInit, BytesCounted, CacheConstants
<1> QED
  BY <1>4, <1>5, <1>6, <1>7 DEF CacheIInv

\* Every step keeps the invariant.
LEMMA NextKeeps == ASSUME CacheConstants, CacheIInv, [CacheNext]_caching PROVE CacheIInv'
<1>1. CASE UNCHANGED caching
  <2>1. Total' = Total
    BY <1>1 DEF caching, Total
  <2> QED
    BY <1>1, <2>1 DEF caching, CacheIInv, CacheTypeOK, LockHeld, Numbered, AllSince, RoomChecked, BytesCounted
<1>2. ASSUME NEW r \in Calls,
             \/ Begin(r) \/ get(r) \/ Collected(r) \/ NotKept(r)
             \/ PutCheck(r) \/ PutSweep(r) \/ PutRecheck(r) \/ PutInsert(r) \/ PutCount(r)
      PROVE  CacheIInv'
  BY <1>2, BeginKeeps, GetKeeps, CollectedKeeps, PutCheckKeeps, PutSweepKeeps, PutRecheckKeeps,
     PutInsertKeeps, PutCountKeeps
<1>3. CASE ApplyBegin \/ ClearEntries \/ ClearBytes \/ StoreSnapshot \/ StoreRegistry \/ Clock
  BY <1>3, ApplyKeeps, ClearKeeps
<1> QED
  BY <1>1, <1>2, <1>3 DEF CacheNext

\* The invariant holds throughout: the counter follows the map, but for clear's
\* two halves, and an entry of the map is never older than the last application
\* that found or made it empty.
THEOREM CacheInvariant == CacheSpec => []CacheIInv
<1>1. CacheInit => CacheIInv
  BY CacheAssumption, InitHolds
<1>2. CacheIInv /\ [CacheNext]_caching => CacheIInv'
  BY CacheAssumption, NextKeeps
<1> QED
  BY <1>1, <1>2, PTL DEF CacheSpec

\* No answer of an older policy survives its change, unless its request was
\* under way; both limits hold and the counter is the sum of the map, unless a
\* put went on between clear's two halves (put, get, clear, apply_snapshot).
THEOREM CacheIsSound == CacheSpec => []CacheSound
<1>1. CacheIInv => NoneSurvives
  BY DEF CacheIInv, NoneSurvives, Numbered, AllSince
<1>2. CacheIInv => Bounded
  <2> SUFFICES ASSUME CacheIInv PROVE Bounded
    OBVIOUS
  <2>1. lock = None => \A r \in Calls : req[r].at # "count"
    BY CacheAssumption DEF CacheIInv, LockHeld, CacheConstants, InPut
  <2> QED
    BY <2>1 DEF CacheIInv, Bounded, RoomChecked, BytesCounted
<1>3. CacheIInv => CacheSound
  BY <1>1, <1>2 DEF CacheSound
<1> QED
  BY <1>3, CacheInvariant, PTL
=============================================================================
