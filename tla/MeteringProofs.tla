---------------------------- MODULE MeteringProofs ----------------------------
(***************************************************************************)
(* Theorems about usage accounting, for any proxies, requests, outcomes,   *)
(* queue and batch sizes: losses are counted, and the charts implement the *)
(* ledger (UsageLedger); and about the rate limiter, for any replicas,     *)
(* requests, plans and lengths of the minute: the limit holds (RateLimit). *)
(* Both are proved with the same lemmas about sums.                        *)
(***************************************************************************)
EXTENDS Metering, RateLimit, FiniteSetTheorems, SequenceTheorems, NaturalsInduction, TLAPS

-----------------------------------------------------------------------------
(***************************************************************************)
(* Sums.                                                                   *)
(***************************************************************************)

\* Finitely many numbers to sum.
Summable(S, f) == IsFiniteSet(S) /\ \A x \in S : f[x] \in Nat

\* What a tally is.
LEMMA InTallies ==
    ASSUME NEW S, NEW f, NEW t
    PROVE  t \in Tallies(S, f) <=> \E x \in S : t \in {x} \X (1 .. f[x])
BY DEF Tallies

\* The tallies of one number.
LEMMA OwnTallies ==
    ASSUME NEW x, NEW n \in Nat
    PROVE  IsFiniteSet({x} \X (1 .. n)) /\ Cardinality({x} \X (1 .. n)) = n
<1>1. IsFiniteSet(1 .. n) /\ Cardinality(1 .. n) = n
  BY FS_Interval
<1>2. IsFiniteSet({x}) /\ Cardinality({x}) = 1
  BY FS_Singleton
<1>3. /\ IsFiniteSet({x} \X (1 .. n))
      /\ Cardinality({x} \X (1 .. n)) = Cardinality({x}) * Cardinality(1 .. n)
  BY <1>1, <1>2, FS_Product
<1> QED
  BY <1>1, <1>2, <1>3

\* A finite sum is a number.
LEMMA SumType ==
    ASSUME NEW S, NEW f, Summable(S, f)
    PROVE  IsFiniteSet(Tallies(S, f)) /\ SumOf(S, f) \in Nat
<1> DEFINE parts == {{x} \X (1 .. f[x]) : x \in S}
           part == [x \in S |-> {x} \X (1 .. f[x])]
<1>1. part \in Surjection(S, parts)
  BY DEF Surjection
<1>2. IsFiniteSet(parts)
  BY <1>1, FS_Surjection DEF Summable
<1>3. \A T \in parts : IsFiniteSet(T)
  <2>1. \A x \in S : f[x] \in Nat
    BY DEF Summable
  <2>2. \A x \in S : IsFiniteSet({x} \X (1 .. f[x]))
    BY <2>1, OwnTallies
  <2> QED
    BY <2>2
<1> HIDE DEF parts, part
<1>4. IsFiniteSet(UNION parts)
  BY <1>2, <1>3, FS_UNION
<1>5. IsFiniteSet(Tallies(S, f))
  BY <1>4 DEF Tallies, parts
<1> QED
  BY <1>5, FS_CardinalityType DEF SumOf

\* Equal numbers have equal sums; so have numbers that differ in zeros.
LEMMA SumSame ==
    ASSUME NEW S, NEW f, NEW T, NEW g, S \subseteq T,
           \A x \in S : f[x] = g[x], \A x \in T \ S : g[x] = 0
    PROVE  SumOf(S, f) = SumOf(T, g)
<1>1. \A x \in T \ S : 1 .. g[x] = {}
  OBVIOUS
<1>2. \A t : t \in Tallies(S, f) <=> t \in Tallies(T, g)
  BY <1>1, InTallies
<1>3. Tallies(S, f) = Tallies(T, g)
  BY <1>2, Zenon
<1> QED
  BY <1>3 DEF SumOf

\* A sum of zeros.
LEMMA SumZero ==
    ASSUME NEW S, NEW f, \A x \in S : f[x] = 0
    PROVE  SumOf(S, f) = 0
<1>1. \A x \in S : 1 .. f[x] = {}
  OBVIOUS
<1>2. Tallies(S, f) = {}
  BY <1>1, InTallies
<1> QED
  BY <1>2, FS_EmptySet DEF SumOf

\* A sum is the sum of its parts.
LEMMA SumSplit ==
    ASSUME NEW S, NEW T, NEW f, Summable(S, f), Summable(T, f), S \cap T = {}
    PROVE  SumOf(S \cup T, f) = SumOf(S, f) + SumOf(T, f)
<1>1. IsFiniteSet(Tallies(S, f)) /\ IsFiniteSet(Tallies(T, f)) /\ SumOf(S, f) \in Nat /\ SumOf(T, f) \in Nat
  BY SumType
<1>2. \A t : t \in Tallies(S \cup T, f) <=> t \in Tallies(S, f) \/ t \in Tallies(T, f)
  BY InTallies
<1>3. Tallies(S \cup T, f) = Tallies(S, f) \cup Tallies(T, f)
  BY <1>2, Zenon
<1>4. Tallies(S, f) \cap Tallies(T, f) = {}
  BY InTallies
<1>5. Cardinality(Tallies(S, f) \cup Tallies(T, f))
        = Cardinality(Tallies(S, f)) + Cardinality(Tallies(T, f)) - Cardinality({})
  BY <1>1, <1>4, FS_Union
<1>6. Cardinality({}) = 0
  BY FS_EmptySet
<1>7. SumOf(S \cup T, f) = SumOf(S, f) + SumOf(T, f) - 0
  BY <1>3, <1>5, <1>6 DEF SumOf
<1> QED
  BY <1>1, <1>7

\* Numbers of at most one sum to at most their number.
LEMMA SumOnes ==
    ASSUME NEW S, NEW f, Summable(S, f), \A x \in S : f[x] <= 1
    PROVE  SumOf(S, f) <= Cardinality(S)
<1> DEFINE first == [t \in Tallies(S, f) |-> t[1]]
<1>1. \A t \in Tallies(S, f) : t[1] \in S /\ t = <<t[1], 1>>
  <2>1. ASSUME NEW t \in Tallies(S, f) PROVE t[1] \in S /\ t = <<t[1], 1>>
    <3>1. PICK x \in S : t \in {x} \X (1 .. f[x])
      BY InTallies
    <3>2. f[x] \in Nat /\ f[x] <= 1
      BY DEF Summable
    <3>3. t = <<t[1], t[2]>> /\ t[1] = x /\ t[2] \in 1 .. f[x]
      BY <3>1
    <3>4. t[2] = 1
      BY <3>2, <3>3
    <3> QED
      BY <3>3, <3>4
  <2> QED
    BY <2>1
<1>2. first \in Injection(Tallies(S, f), S)
  BY <1>1 DEF Injection, IsInjective
<1>3. Cardinality(Tallies(S, f)) <= Cardinality(S)
  BY <1>2, FS_Injection DEF Summable
<1> QED
  BY <1>3 DEF SumOf

\* The sum of sums of two.
LEMMA SumPlus ==
    ASSUME NEW S, NEW f, NEW g, NEW h, Summable(S, f), Summable(S, g), \A x \in S : h[x] = f[x] + g[x]
    PROVE  SumOf(S, h) = SumOf(S, f) + SumOf(S, g)
<1> DEFINE up == [t \in Tallies(S, g) |-> <<t[1], f[t[1]] + t[2]>>]
           over == {<<t[1], f[t[1]] + t[2]>> : t \in Tallies(S, g)}
<1>1. /\ IsFiniteSet(Tallies(S, f)) /\ IsFiniteSet(Tallies(S, g))
      /\ SumOf(S, f) \in Nat /\ SumOf(S, g) \in Nat
  BY SumType
<1>2. \A t \in Tallies(S, g) : /\ t = <<t[1], t[2]>> /\ t[1] \in S /\ t[2] \in Nat
                               /\ t[2] >= 1 /\ t[2] <= g[t[1]] /\ f[t[1]] \in Nat /\ g[t[1]] \in Nat
  BY InTallies DEF Summable
<1>3. up \in Bijection(Tallies(S, g), over)
  <2>1. up \in Surjection(Tallies(S, g), over)
    BY DEF Surjection
  <2>2. up \in Injection(Tallies(S, g), over)
    <3>1. ASSUME NEW t \in Tallies(S, g), NEW u \in Tallies(S, g), up[t] = up[u] PROVE t = u
      <4>1. t[1] = u[1] /\ f[t[1]] + t[2] = f[u[1]] + u[2]
        BY <3>1
      <4>2. t[2] = u[2]
        BY <1>2, <4>1
      <4> QED
        BY <1>2, <4>1, <4>2
    <3> QED
      BY <3>1 DEF Injection, IsInjective
  <2> QED
    BY <2>1, <2>2 DEF Bijection
<1>4. IsFiniteSet(over) /\ Cardinality(over) = Cardinality(Tallies(S, g))
  BY <1>1, <1>3, FS_Bijection DEF ExistsBijection
<1>5. ASSUME NEW t PROVE t \in Tallies(S, h) <=> t \in Tallies(S, f) \/ t \in over
  <2>1. ASSUME t \in Tallies(S, h) PROVE t \in Tallies(S, f) \/ t \in over
    <3>1. PICK x \in S : t \in {x} \X (1 .. h[x])
      BY <2>1, InTallies
    <3>2. t = <<x, t[2]>> /\ t[2] \in 1 .. h[x] /\ f[x] \in Nat /\ g[x] \in Nat /\ h[x] = f[x] + g[x]
      BY <3>1 DEF Summable
    <3>3. CASE t[2] <= f[x]
      <4>1. t[2] \in 1 .. f[x]
        BY <3>2, <3>3
      <4>2. t \in {x} \X (1 .. f[x])
        BY <3>2, <4>1
      <4> QED
        BY <4>2, InTallies
    <3>4. CASE ~(t[2] <= f[x])
      <4> DEFINE u == <<x, t[2] - f[x]>>
      <4>1. t[2] - f[x] \in 1 .. g[x]
        BY <3>2, <3>4
      <4>2. u \in Tallies(S, g)
        BY <4>1, InTallies
      <4>3. t = <<u[1], f[u[1]] + u[2]>>
        <5>1. f[x] + (t[2] - f[x]) = t[2]
          BY <3>2
        <5> QED
          BY <3>2, <5>1
      <4> QED
        BY <4>2, <4>3
    <3> QED
      BY <3>3, <3>4
  <2>2. ASSUME t \in Tallies(S, f) PROVE t \in Tallies(S, h)
    <3>1. PICK x \in S : t \in {x} \X (1 .. f[x])
      BY <2>2, InTallies
    <3>2. t[2] \in 1 .. h[x]
      <4>1. t[2] \in 1 .. f[x] /\ f[x] \in Nat /\ g[x] \in Nat /\ h[x] = f[x] + g[x]
        BY <3>1 DEF Summable
      <4> QED
        BY <4>1
    <3>3. t \in {x} \X (1 .. h[x])
      BY <3>1, <3>2
    <3> QED
      BY <3>3, InTallies
  <2>3. ASSUME t \in over PROVE t \in Tallies(S, h)
    <3>1. PICK u \in Tallies(S, g) : t = <<u[1], f[u[1]] + u[2]>>
      BY <2>3
    <3>2. /\ u[1] \in S /\ u[2] \in Nat /\ u[2] >= 1 /\ u[2] <= g[u[1]]
          /\ f[u[1]] \in Nat /\ g[u[1]] \in Nat /\ h[u[1]] = f[u[1]] + g[u[1]]
      BY <1>2
    <3>3. f[u[1]] + u[2] \in 1 .. h[u[1]]
      BY <3>2
    <3>4. t \in {u[1]} \X (1 .. h[u[1]])
      BY <3>1, <3>3
    <3> QED
      BY <3>2, <3>4, InTallies
  <2> QED
    BY <2>1, <2>2, <2>3
<1>6. Tallies(S, h) = Tallies(S, f) \cup over
  BY <1>5, Zenon
<1>7. Tallies(S, f) \cap over = {}
  <2>1. ASSUME NEW t \in Tallies(S, f), t \in over PROVE FALSE
    <3>1. PICK u \in Tallies(S, g) : t = <<u[1], f[u[1]] + u[2]>>
      BY <2>1
    <3>2. PICK x \in S : t \in {x} \X (1 .. f[x])
      BY InTallies
    <3>3. x = u[1] /\ f[u[1]] + u[2] <= f[u[1]]
      BY <3>1, <3>2
    <3> QED
      BY <1>2, <3>3
  <2> QED
    BY <2>1
<1> HIDE DEF over, up
<1>8. Cardinality(Tallies(S, f) \cup over)
        = Cardinality(Tallies(S, f)) + Cardinality(over) - Cardinality({})
  BY <1>1, <1>4, <1>7, FS_Union
<1>9. Cardinality({}) = 0
  BY FS_EmptySet
<1> QED
  BY <1>1, <1>4, <1>6, <1>8, <1>9 DEF SumOf

\* Summing by groups: the sum of the sums of disjoint groups is the sum over
\* all of them.
LEMMA SumGroups ==
    ASSUME NEW H, NEW G, NEW S, NEW f, NEW g, Summable(S, f),
           \A h \in H : G[h] \subseteq S, \A h, k \in H : h # k => G[h] \cap G[k] = {},
           \A x \in S : \E h \in H : x \in G[h],
           \A h \in H : g[h] = SumOf(G[h], f), IsFiniteSet(H)
    PROVE  SumOf(H, g) = SumOf(S, f)
<1> DEFINE b == [h \in H |-> CHOOSE c : c \in Bijection(1 .. g[h], Tallies(G[h], f))]
           all == [t \in Tallies(H, g) |-> b[t[1]][t[2]]]
<1>1. ASSUME NEW h \in H
      PROVE  g[h] \in Nat /\ b[h] \in Bijection(1 .. g[h], Tallies(G[h], f))
  <2>1. Summable(G[h], f)
    <3>1. G[h] \in SUBSET S
      OBVIOUS
    <3> QED
      BY <3>1, FS_Subset DEF Summable
  <2>2. IsFiniteSet(Tallies(G[h], f)) /\ g[h] \in Nat /\ g[h] = Cardinality(Tallies(G[h], f))
    BY <2>1, SumType DEF SumOf
  <2>3. ExistsBijection(1 .. g[h], Tallies(G[h], f))
    BY <2>2, FS_CardinalityType
  <2>4. \E c : c \in Bijection(1 .. g[h], Tallies(G[h], f))
    BY <2>3 DEF ExistsBijection
  <2> QED
    BY <2>2, <2>4
<1> HIDE DEF b
<1>2. ASSUME NEW t \in Tallies(H, g)
      PROVE  /\ t = <<t[1], t[2]>> /\ t[1] \in H /\ t[2] \in 1 .. g[t[1]]
             /\ b[t[1]][t[2]] \in Tallies(G[t[1]], f)
  <2>1. PICK h \in H : t \in {h} \X (1 .. g[h])
    BY InTallies
  <2>2. t = <<t[1], t[2]>> /\ t[1] = h /\ t[2] \in 1 .. g[h]
    BY <2>1
  <2>3. b[h][t[2]] \in Tallies(G[h], f)
    BY <1>1, <2>2 DEF Bijection, Injection
  <2> QED
    BY <2>2, <2>3
<1>3. ASSUME NEW h \in H, NEW t \in Tallies(G[h], f)
      PROVE  t \in Tallies(S, f) /\ t[1] \in G[h]
  <2>1. PICK x \in G[h] : t \in {x} \X (1 .. f[x])
    BY InTallies
  <2> QED
    BY <2>1, InTallies
<1>4. ASSUME NEW t \in Tallies(S, f) PROVE \E h \in H : t \in Tallies(G[h], f)
  <2>1. PICK x \in S : t \in {x} \X (1 .. f[x])
    BY InTallies
  <2>2. PICK h \in H : x \in G[h]
    OBVIOUS
  <2> QED
    BY <2>1, <2>2, InTallies
<1>5. all \in [Tallies(H, g) -> Tallies(S, f)]
  BY <1>2, <1>3
<1>6. ASSUME NEW t \in Tallies(H, g), NEW u \in Tallies(H, g), all[t] = all[u] PROVE t = u
  <2>1. b[t[1]][t[2]] = b[u[1]][u[2]]
    BY <1>6
  <2>2. t[1] = u[1]
    <3>1. b[t[1]][t[2]][1] \in G[t[1]] /\ b[u[1]][u[2]][1] \in G[u[1]]
      BY <1>2, <1>3
    <3>2. t[1] \in H /\ u[1] \in H
      BY <1>2
    <3> QED
      BY <2>1, <3>1, <3>2
  <2>3. t[2] = u[2]
    <3>1. t[1] \in H /\ t[2] \in 1 .. g[t[1]] /\ u[2] \in 1 .. g[t[1]] /\ b[t[1]][t[2]] = b[t[1]][u[2]]
      BY <1>2, <2>1, <2>2
    <3>2. b[t[1]] \in Injection(1 .. g[t[1]], Tallies(G[t[1]], f))
      BY <1>1, <3>1 DEF Bijection
    <3> QED
      BY <3>1, <3>2 DEF Injection, IsInjective
  <2> QED
    BY <1>2, <2>2, <2>3
<1>7. ASSUME NEW t \in Tallies(S, f) PROVE \E u \in Tallies(H, g) : all[u] = t
  <2>1. PICK h \in H : t \in Tallies(G[h], f)
    BY <1>4
  <2>2. b[h] \in Surjection(1 .. g[h], Tallies(G[h], f))
    BY <1>1 DEF Bijection
  <2>3. PICK j \in 1 .. g[h] : b[h][j] = t
    BY <2>1, <2>2 DEF Surjection
  <2>4. <<h, j>> \in Tallies(H, g)
    BY InTallies
  <2>5. all[<<h, j>>] = t
    BY <2>3, <2>4
  <2> QED
    BY <2>4, <2>5
<1> HIDE DEF all
<1>8. all \in Bijection(Tallies(H, g), Tallies(S, f))
  BY <1>5, <1>6, <1>7 DEF Bijection, Injection, IsInjective, Surjection
<1>9. Summable(H, g)
  BY <1>1 DEF Summable
<1>10. IsFiniteSet(Tallies(H, g))
  BY <1>9, SumType
<1> QED
  BY <1>8, <1>10, FS_Bijection DEF ExistsBijection, SumOf

-----------------------------------------------------------------------------
(***************************************************************************)
(* What a sequence holds.                                                  *)
(***************************************************************************)

\* An event more.
LEMMA RangeAppend ==
    ASSUME NEW S, NEW s \in Seq(S), NEW e \in S
    PROVE  Append(s, e) \in Seq(S) /\ Range(Append(s, e)) = Range(s) \cup {e}
<1>1. Append(s, e) = s \o <<e>> /\ Append(s, e) \in Seq(S) /\ <<e>> \in Seq(S)
  BY AppendIsConcat
<1>2. Range(s \o <<e>>) = Range(s) \cup Range(<<e>>)
  BY <1>1, RangeConcatenation
<1>3. Range(<<e>>) = {e}
  BY DEF Range
<1> QED
  BY <1>1, <1>2, <1>3

\* The first event and the rest.
LEMMA RangeTail ==
    ASSUME NEW S, NEW s \in Seq(S), s # <<>>
    PROVE  Head(s) \in S /\ Tail(s) \in Seq(S) /\ Range(s) = {Head(s)} \cup Range(Tail(s))
<1>1. /\ Head(s) \in S /\ Tail(s) \in Seq(S) /\ Len(Tail(s)) = Len(s) - 1
      /\ \A i \in 1 .. Len(Tail(s)) : Tail(s)[i] = s[i + 1]
  BY HeadTailProperties
<1>2. Len(s) \in Nat /\ Len(s) > 0 /\ Head(s) = s[1]
  BY EmptySeq
<1>3. Range(s) = {s[i] : i \in 1 .. Len(s)} /\ Range(Tail(s)) = {Tail(s)[i] : i \in 1 .. Len(Tail(s))}
  BY <1>1, RangeEquality
<1>4. ASSUME NEW x PROVE x \in Range(s) <=> x = Head(s) \/ x \in Range(Tail(s))
  <2>1. ASSUME x \in Range(s) PROVE x = Head(s) \/ x \in Range(Tail(s))
    <3>1. PICK i \in 1 .. Len(s) : x = s[i]
      BY <1>3, <2>1
    <3>2. CASE i = 1
      BY <1>2, <3>1, <3>2
    <3>3. CASE i # 1
      <4>1. i - 1 \in 1 .. Len(Tail(s)) /\ (i - 1) + 1 = i
        BY <1>1, <1>2, <3>3
      <4>2. Tail(s)[i - 1] = x
        BY <1>1, <3>1, <4>1
      <4> QED
        BY <1>3, <4>1, <4>2
    <3> QED
      BY <3>2, <3>3
  <2>2. ASSUME x = Head(s) PROVE x \in Range(s)
    <3>1. 1 \in 1 .. Len(s)
      BY <1>2
    <3> QED
      BY <1>2, <1>3, <2>2, <3>1
  <2>3. ASSUME x \in Range(Tail(s)) PROVE x \in Range(s)
    <3>1. PICK i \in 1 .. Len(Tail(s)) : x = Tail(s)[i]
      BY <1>3, <2>3
    <3>2. i + 1 \in 1 .. Len(s) /\ x = s[i + 1]
      BY <1>1, <1>2, <3>1
    <3> QED
      BY <1>3, <3>2
  <2> QED
    BY <2>1, <2>2, <2>3
<1> QED
  BY <1>1, <1>4, Zenon

\* Cutting the oldest n events off loses at most n.
LEMMA RangeCut ==
    ASSUME NEW S, NEW s \in Seq(S), NEW n \in Nat, n <= Len(s)
    PROVE  /\ SubSeq(s, n + 1, Len(s)) \in Seq(S) /\ Range(SubSeq(s, n + 1, Len(s))) \subseteq Range(s)
           /\ IsFiniteSet(Range(s) \ Range(SubSeq(s, n + 1, Len(s))))
           /\ Cardinality(Range(s) \ Range(SubSeq(s, n + 1, Len(s)))) <= n
<1> DEFINE cut == SubSeq(s, n + 1, Len(s))
           oldest == [i \in 1 .. n |-> s[i]]
           lost == {s[i] : i \in 1 .. n}
<1>1. Len(s) \in Nat /\ n + 1 \in Int /\ Len(s) \in Int /\ \A i \in (n + 1) .. Len(s) : s[i] \in S
  BY LenProperties, ElementOfSeq
<1>2. /\ cut \in Seq(S) /\ Len(cut) = IF n + 1 <= Len(s) THEN Len(s) - (n + 1) + 1 ELSE 0
      /\ \A i \in 1 .. Len(s) - (n + 1) + 1 : cut[i] = s[(n + 1) + i - 1]
  BY <1>1, SubSeqProperties
<1> HIDE DEF cut
<1>3. Len(cut) = Len(s) - n /\ \A i \in 1 .. Len(cut) : cut[i] = s[n + i] /\ n + i \in 1 .. Len(s)
  <2>1. Len(cut) = Len(s) - n
    BY <1>1, <1>2
  <2>2. ASSUME NEW i \in 1 .. Len(cut) PROVE cut[i] = s[n + i] /\ n + i \in 1 .. Len(s)
    <3>1. i \in 1 .. Len(s) - (n + 1) + 1 /\ (n + 1) + i - 1 = n + i /\ n + i \in 1 .. Len(s)
      BY <1>1, <2>1
    <3> QED
      BY <1>2, <3>1
  <2> QED
    BY <2>1, <2>2
<1>4. Range(s) = {s[i] : i \in 1 .. Len(s)} /\ Range(cut) = {cut[i] : i \in 1 .. Len(cut)}
  BY <1>2, RangeEquality
<1>5. Range(cut) \subseteq Range(s)
  BY <1>3, <1>4
<1>6. Range(s) \ Range(cut) \subseteq lost
  <2>1. ASSUME NEW i \in 1 .. Len(s), s[i] \notin Range(cut) PROVE i \in 1 .. n
    <3>1. CASE i > n
      <4>1. i - n \in 1 .. Len(cut) /\ n + (i - n) = i
        BY <1>1, <1>3, <3>1
      <4>2. cut[i - n] = s[i]
        BY <1>3, <4>1
      <4> QED
        BY <1>4, <2>1, <4>1, <4>2
    <3> QED
      BY <1>1, <3>1
  <2> QED
    BY <1>4, <2>1
<1>7. oldest \in Surjection(1 .. n, lost)
  BY DEF Surjection
<1>8. IsFiniteSet(1 .. n) /\ Cardinality(1 .. n) = n
  BY FS_Interval
<1>9. IsFiniteSet(lost) /\ Cardinality(lost) <= n
  BY <1>7, <1>8, FS_Surjection
<1> HIDE DEF lost, oldest
<1>10. /\ IsFiniteSet(Range(s) \ Range(cut)) /\ Cardinality(Range(s) \ Range(cut)) <= Cardinality(lost)
       /\ Cardinality(Range(s) \ Range(cut)) \in Nat /\ Cardinality(lost) \in Nat
  BY <1>6, <1>9, FS_Subset, FS_CardinalityType
<1> QED
  BY <1>2, <1>5, <1>9, <1>10 DEF cut

-----------------------------------------------------------------------------
(***************************************************************************)
(* The parts of the invariant.                                             *)
(***************************************************************************)

ReporterTypes ==
    /\ dropped \in Nat /\ queue \in [Proxies -> Seq(Events)] /\ batch \in [Proxies -> Seq(Events)]
    /\ sending \in [Proxies -> Nat \cup {Null}] /\ backoff \in [Proxies -> BOOLEAN]
    /\ life \in [Proxies -> {"up", "flushing", "stopped"}]

DeliveryTypes ==
    /\ IsFiniteSet(DOMAIN ingest) /\ DOMAIN ingest \subseteq Proxies \X Nat
    /\ \A i \in DOMAIN ingest : ingest[i] \in [events : SUBSET Events, step : {"sent", "inserted", "taken", "refused"}]

RecordTypes ==
    /\ clock \in 0 .. MaxClock /\ lastUsed \in Nat
    /\ kind \in [Events -> Outcomes \cup {Null}] /\ at \in [Events -> 0 .. MaxClock]
    /\ raw \in [Events -> Nat] /\ rolled \in [Hours -> Buckets]
    /\ orphans \subseteq Events /\ landed \subseteq Events /\ gone \subseteq Events

\* What the reporters, the deliveries and the rows have to keep.
ReporterInv ==
    /\ ReporterTypes /\ (\A p \in Proxies : Held(p) \subseteq Happened)
    /\ Cardinality(Unheld) <= dropped

DeliveryInv ==
    /\ DeliveryTypes /\ (\A i \in DOMAIN ingest : ingest[i].events \subseteq Happened /\ ingest[i].events # {})
    /\ WaitsForItsBatch /\ InsertedIsOnRecord

RecordInv == RecordTypes /\ (\A e \in Events : raw[e] > 0 => e \in Happened) /\ BucketsSound

\* The invariant is these three.
LEMMA Parts == IInv <=> ReporterInv /\ DeliveryInv /\ RecordInv
BY DEF IInv, TypeOK, NothingInvented, ReporterInv, DeliveryInv, RecordInv, ReporterTypes, DeliveryTypes, RecordTypes

LEMMA PartsPrimed == ASSUME ReporterInv', DeliveryInv', RecordInv' PROVE IInv'
BY DEF IInv, TypeOK, NothingInvented, ReporterInv, DeliveryInv, RecordInv, ReporterTypes, DeliveryTypes, RecordTypes

\* Finite, because there are finitely many requests.
LEMMA UnheldFinite == IsFiniteSet(Unheld) /\ Cardinality(Unheld) \in Nat
<1>1. Unheld \in SUBSET Events
  BY DEF Unheld, Happened
<1>2. IsFiniteSet(Unheld)
  BY <1>1, MeteringAssumption, FS_Subset
<1> QED
  BY <1>2, FS_CardinalityType

\* A step of the reporter of p, which ends up holding no more than before: what
\* it lets go of is on record, gone, or among the n that it counts.
LEMMA ReporterStep ==
    ASSUME IInv, ReporterTypes', NEW p \in Proxies,
           \A q \in Proxies : q # p => queue'[q] = queue[q] /\ batch'[q] = batch[q],
           Held(p)' \subseteq Held(p), UNCHANGED <<kind, landed>>, gone \subseteq gone',
           NEW X, IsFiniteSet(X), NEW n \in Nat, Cardinality(X) <= n, dropped' = dropped + n,
           Held(p) \subseteq Held(p)' \cup gone' \cup landed \cup X
    PROVE  ReporterInv'
<1>1. Happened' = Happened
  BY DEF Happened
<1>2. \A q \in Proxies : q # p => Held(q)' = Held(q)
  BY DEF Held
<1>3. \A q \in Proxies : (Held(q) \subseteq Happened)'
  BY <1>1, <1>2, Parts DEF ReporterInv
<1>4. Unheld' \subseteq Unheld \cup X
  <2>1. ASSUME NEW e \in Unheld', e \notin X PROVE e \in Unheld
    <3>1. /\ e \in Happened /\ e \notin gone' /\ e \notin landed
          /\ \A q \in Proxies : e \notin Held(q)'
      BY <1>1, <2>1 DEF Unheld
    <3>2. e \notin Held(p)
      BY <2>1, <3>1
    <3>3. \A q \in Proxies : e \notin Held(q)
      BY <1>2, <3>1, <3>2
    <3> QED
      BY <3>1, <3>3 DEF Unheld
  <2> QED
    BY <2>1
<1>5. IsFiniteSet(Unheld) /\ Cardinality(Unheld) \in Nat
  BY UnheldFinite
<1>6. /\ IsFiniteSet(Unheld \cup X)
      /\ Cardinality(Unheld \cup X) = Cardinality(Unheld) + Cardinality(X) - Cardinality(Unheld \cap X)
  BY <1>5, FS_Union
<1>7. Cardinality(X) \in Nat /\ Cardinality(Unheld \cap X) \in Nat /\ Cardinality(Unheld \cup X) \in Nat
  BY <1>5, <1>6, FS_Intersection, FS_CardinalityType
<1>8. Cardinality(Unheld') <= Cardinality(Unheld \cup X) /\ Cardinality(Unheld') \in Nat
  BY <1>4, <1>6, FS_Subset, FS_CardinalityType
<1>9. Cardinality(Unheld) <= dropped /\ dropped \in Nat
  BY Parts DEF ReporterInv, ReporterTypes
<1>10. Cardinality(Unheld)' <= dropped'
  BY <1>5, <1>6, <1>7, <1>8, <1>9
<1> QED
  BY <1>3, <1>10 DEF ReporterInv

\* A step that is not the reporters'.
LEMMA ReporterKept ==
    ASSUME IInv, UNCHANGED <<queue, batch, sending, backoff, life, dropped, kind>>,
           landed \subseteq landed', gone \subseteq gone'
    PROVE  ReporterInv'
<1>1. Happened' = Happened /\ \A p \in Proxies : Held(p)' = Held(p)
  BY DEF Happened, Held
<1>2. Unheld' \subseteq Unheld
  BY <1>1 DEF Unheld
<1>3. Cardinality(Unheld') <= Cardinality(Unheld) /\ Cardinality(Unheld') \in Nat /\ Cardinality(Unheld) \in Nat
  BY <1>2, UnheldFinite, FS_Subset, FS_CardinalityType
<1>4. Cardinality(Unheld)' <= dropped'
  BY <1>3, Parts DEF ReporterInv, ReporterTypes
<1> QED
  BY <1>1, <1>4, Parts DEF ReporterInv, ReporterTypes

\* A step that leaves the deliveries alone, and every batch that waits for one.
LEMMA DeliveryKept ==
    ASSUME IInv, UNCHANGED <<ingest, sending>>, Happened \subseteq Happened',
           landed \subseteq landed', gone \subseteq gone',
           \A p \in Proxies : sending[p] # Null => batch'[p] = batch[p]
    PROVE  DeliveryInv'
BY Parts DEF DeliveryInv, DeliveryTypes, WaitsForItsBatch, InsertedIsOnRecord

\* A step that leaves the rows alone.
LEMMA RecordKept ==
    ASSUME IInv, UNCHANGED <<clock, lastUsed, kind, at, raw, rolled, orphans, landed>>, gone' \subseteq Events
    PROVE  RecordInv'
<1>1. Happened' = Happened /\ Hours' = Hours
  BY DEF Happened, Hours
<1> QED
  BY <1>1, Parts DEF RecordInv, RecordTypes, BucketsSound, SumOf, Tallies

-----------------------------------------------------------------------------
(***************************************************************************)
(* Deliveries.                                                             *)
(***************************************************************************)

\* There is always a number for a new delivery.
LEMMA FreshNumber ==
    ASSUME DeliveryTypes, NEW p
    PROVE  \E n \in 1 .. Cardinality(DOMAIN ingest) + 1 : <<p, n>> \notin DOMAIN ingest
<1> DEFINE k == Cardinality(DOMAIN ingest)
           numbered == [n \in 1 .. k + 1 |-> <<p, n>>]
<1>1. IsFiniteSet(DOMAIN ingest) /\ k \in Nat
  BY FS_CardinalityType DEF DeliveryTypes
<1> HIDE DEF k
<1>2. IsFiniteSet(1 .. k + 1) /\ Cardinality(1 .. k + 1) = k + 1
  BY <1>1, FS_Interval
<1>3. SUFFICES ASSUME \A n \in 1 .. k + 1 : <<p, n>> \in DOMAIN ingest PROVE FALSE
  BY DEF k
<1>4. numbered \in Injection(1 .. k + 1, DOMAIN ingest)
  BY <1>3 DEF Injection, IsInjective
<1>5. Cardinality(1 .. k + 1) <= Cardinality(DOMAIN ingest)
  BY <1>1, <1>4, FS_Injection
<1> QED
  BY <1>1, <1>2, <1>5 DEF k

\* What Deliver does.
LEMMA Delivered ==
    ASSUME IInv, NEW p \in Proxies, NEW ev, Deliver(p, ev)
    PROVE  \E n \in Nat : /\ <<p, n>> \notin DOMAIN ingest /\ sending' = [sending EXCEPT ![p] = n]
                          /\ DOMAIN ingest' = DOMAIN ingest \cup {<<p, n>>}
                          /\ ingest'[<<p, n>>] = [events |-> ev, step |-> "sent"]
                          /\ \A i \in DOMAIN ingest : ingest'[i] = ingest[i]
<1> DEFINE n == CHOOSE n \in 1 .. Cardinality(DOMAIN ingest) + 1 : <<p, n>> \notin DOMAIN ingest
<1>1. DeliveryTypes /\ Cardinality(DOMAIN ingest) \in Nat
  BY Parts, FS_CardinalityType DEF DeliveryInv, DeliveryTypes
<1>2. n \in 1 .. Cardinality(DOMAIN ingest) + 1 /\ <<p, n>> \notin DOMAIN ingest
  BY <1>1, FreshNumber
<1>3. /\ sending' = [sending EXCEPT ![p] = n]
      /\ ingest' = [i \in DOMAIN ingest \cup {<<p, n>>} |->
                       IF i = <<p, n>> THEN [events |-> ev, step |-> "sent"] ELSE ingest[i]]
  BY DEF Deliver
<1>4. n \in Nat
  BY <1>1, <1>2
<1> HIDE DEF n
<1> QED
  BY <1>2, <1>3, <1>4

\* A new delivery, of the batch its reporter now holds.
LEMMA DeliverStep ==
    ASSUME IInv, NEW p \in Proxies, NEW ev, Deliver(p, ev), ev \subseteq Happened, ev # {},
           Range(batch'[p]) = ev, \A q \in Proxies : q # p => batch'[q] = batch[q],
           UNCHANGED <<kind, landed, gone>>
    PROVE  DeliveryInv' /\ sending' \in [Proxies -> Nat \cup {Null}]
<1>1. PICK n \in Nat : /\ <<p, n>> \notin DOMAIN ingest /\ sending' = [sending EXCEPT ![p] = n]
                       /\ DOMAIN ingest' = DOMAIN ingest \cup {<<p, n>>}
                       /\ ingest'[<<p, n>>] = [events |-> ev, step |-> "sent"]
                       /\ \A i \in DOMAIN ingest : ingest'[i] = ingest[i]
  BY Delivered
<1>2. Happened' = Happened /\ Happened \subseteq Events
  BY DEF Happened
<1>3. sending \in [Proxies -> Nat \cup {Null}]
  BY Parts DEF ReporterInv, ReporterTypes
<1>4. /\ sending' \in [Proxies -> Nat \cup {Null}] /\ sending'[p] = n
      /\ \A q \in Proxies : q # p => sending'[q] = sending[q]
  BY <1>1, <1>3
<1>5. ingest'[<<p, n>>].events = ev /\ ingest'[<<p, n>>].step = "sent"
  BY <1>1
<1>6. DeliveryTypes'
  <2>1. IsFiniteSet(DOMAIN ingest') /\ DOMAIN ingest' \subseteq Proxies \X Nat
    <3>1. IsFiniteSet(DOMAIN ingest) /\ DOMAIN ingest \subseteq Proxies \X Nat
      BY Parts DEF DeliveryInv, DeliveryTypes
    <3>2. IsFiniteSet(DOMAIN ingest \cup {<<p, n>>})
      BY <3>1, FS_AddElement
    <3> QED
      BY <1>1, <3>1, <3>2
  <2>2. ingest'[<<p, n>>] \in [events : SUBSET Events, step : {"sent", "inserted", "taken", "refused"}]
    BY <1>1, <1>2
  <2>3. \A i \in DOMAIN ingest : ingest'[i] \in [events : SUBSET Events, step : {"sent", "inserted", "taken", "refused"}]
    BY <1>1, Parts DEF DeliveryInv, DeliveryTypes
  <2>4. \A i \in DOMAIN ingest' : ingest'[i] \in [events : SUBSET Events, step : {"sent", "inserted", "taken", "refused"}]
    BY <1>1, <2>2, <2>3
  <2> QED
    BY <2>1, <2>4 DEF DeliveryTypes
<1>7. \A i \in DOMAIN ingest' : ingest'[i].events \subseteq Happened' /\ ingest'[i].events # {}
  <2>1. \A i \in DOMAIN ingest : ingest[i].events \subseteq Happened /\ ingest[i].events # {}
    BY Parts DEF DeliveryInv
  <2> QED
    BY <1>1, <1>2, <1>5, <2>1
<1>8. WaitsForItsBatch'
  <2>1. ASSUME NEW q \in Proxies, sending'[q] # Null
        PROVE  <<q, sending'[q]>> \in DOMAIN ingest' /\ ingest'[<<q, sending'[q]>>].events = Range(batch'[q])
    <3>1. CASE q = p
      BY <1>1, <1>4, <1>5, <3>1
    <3>2. CASE q # p
      <4>1. <<q, sending[q]>> \in DOMAIN ingest /\ ingest[<<q, sending[q]>>].events = Range(batch[q])
        BY <1>4, <2>1, <3>2, Parts DEF DeliveryInv, WaitsForItsBatch
      <4> QED
        BY <1>1, <1>4, <3>2, <4>1
    <3> QED
      BY <3>1, <3>2
  <2> QED
    BY <2>1 DEF WaitsForItsBatch
<1>9. InsertedIsOnRecord'
  <2>1. \A i \in DOMAIN ingest : ingest[i].step \in {"inserted", "taken"} => ingest[i].events \subseteq landed \cup gone
    BY Parts DEF DeliveryInv, InsertedIsOnRecord
  <2> QED
    BY <1>1, <1>5, <2>1 DEF InsertedIsOnRecord
<1> QED
  BY <1>4, <1>6, <1>7, <1>8, <1>9 DEF DeliveryInv

\* Deliveries that end: what is left is as it was, and nobody waits for another.
LEMMA DeliveryEnds ==
    ASSUME IInv, UNCHANGED <<kind, landed>>, gone \subseteq gone',
           DOMAIN ingest' \subseteq DOMAIN ingest, \A i \in DOMAIN ingest' : ingest'[i] = ingest[i],
           \A p \in Proxies : \/ sending'[p] = Null
                              \/ sending'[p] = sending[p] /\ batch'[p] = batch[p]
                                 /\ <<p, sending[p]>> \in DOMAIN ingest'
    PROVE  DeliveryInv'
<1>1. Happened' = Happened
  BY DEF Happened
<1>2. DeliveryTypes'
  <2>1. IsFiniteSet(DOMAIN ingest')
    BY Parts, FS_Subset DEF DeliveryInv, DeliveryTypes
  <2> QED
    BY <2>1, Parts DEF DeliveryInv, DeliveryTypes
<1>3. \A i \in DOMAIN ingest' : ingest'[i].events \subseteq Happened' /\ ingest'[i].events # {}
  BY <1>1, Parts DEF DeliveryInv
<1>4. WaitsForItsBatch'
  BY Parts DEF DeliveryInv, WaitsForItsBatch
<1>5. InsertedIsOnRecord'
  BY Parts DEF DeliveryInv, InsertedIsOnRecord
<1> QED
  BY <1>2, <1>3, <1>4, <1>5 DEF DeliveryInv

-----------------------------------------------------------------------------
(***************************************************************************)
(* The reporter's steps.                                                   *)
(***************************************************************************)

\* A request is recorded, or counted as dropped.
LEMMA RecordStep ==
    ASSUME IInv, NEW p \in Proxies, record(p)
    PROVE  IInv'
<1>1. PICK e \in Events :
         /\ kind[e] = Null
         /\ kind' = [kind EXCEPT ![e] = IF pub >= BudgetLimit THEN "budget" ELSE Served[e]]
         /\ at' = [at EXCEPT ![e] = clock]
         /\ IF Len(queue[p]) < QueueCapacity
            THEN queue' = [queue EXCEPT ![p] = Append(@, e)] /\ UNCHANGED dropped
            ELSE dropped' = dropped + 1 /\ UNCHANGED queue
  BY DEF record
<1>2. UNCHANGED <<clock, faults, batch, sending, backoff, life, gone, orphans, ingest, raw, rolled, budget, read,
                  pub, lastUsed, landed>>
  BY DEF record, ServerKept
<1>3. PICK o \in Outcomes : kind' = [kind EXCEPT ![e] = o]
  <2>1. (IF pub >= BudgetLimit THEN "budget" ELSE Served[e]) \in Outcomes
    BY MeteringAssumption
  <2> QED
    BY <1>1, <2>1
<1>4. Happened' = Happened \cup {e} /\ e \notin Happened
  BY <1>1, <1>3, Parts, MeteringAssumption DEF Happened, RecordInv, RecordTypes
<1>5. RecordInv'
  <2>1. RecordTypes'
    BY <1>1, <1>2, <1>3, Parts DEF RecordInv, RecordTypes, Hours
  <2>2. BucketsSound'
    BY <1>2, Parts DEF RecordInv, BucketsSound, Hours, SumOf, Tallies
  <2> QED
    BY <1>2, <1>4, <2>1, <2>2, Parts DEF RecordInv
<1>6. DeliveryInv'
  BY <1>2, <1>4, DeliveryKept
<1>7. ReporterInv'
  <2>1. ReporterInv /\ ReporterTypes
    BY Parts DEF ReporterInv
  <2>2. IsFiniteSet(Unheld) /\ Cardinality(Unheld) \in Nat
    BY UnheldFinite
  <2>3. CASE queue' = [queue EXCEPT ![p] = Append(queue[p], e)] /\ dropped' = dropped
    <3>1. /\ Append(queue[p], e) \in Seq(Events) /\ Range(Append(queue[p], e)) = Range(queue[p]) \cup {e}
      BY <2>1, RangeAppend DEF ReporterTypes
    <3>2. /\ queue' \in [Proxies -> Seq(Events)] /\ queue'[p] = Append(queue[p], e)
          /\ \A q \in Proxies : q # p => queue'[q] = queue[q]
      BY <2>1, <2>3, <3>1 DEF ReporterTypes
    <3>3. /\ Held(p)' = Held(p) \cup {e}
          /\ \A q \in Proxies : q # p => Held(q)' = Held(q)
      BY <1>2, <3>1, <3>2 DEF Held
    <3>4. Unheld' \subseteq Unheld
      BY <1>2, <1>4, <3>3 DEF Unheld
    <3>5. Cardinality(Unheld') <= Cardinality(Unheld) /\ Cardinality(Unheld') \in Nat
      BY <2>2, <3>4, FS_Subset, FS_CardinalityType
    <3>6. Cardinality(Unheld)' <= dropped'
      BY <2>1, <2>2, <2>3, <3>5 DEF ReporterInv, ReporterTypes
    <3>7. ReporterTypes'
      BY <1>2, <2>1, <2>3, <3>2 DEF ReporterTypes
    <3>8. \A q \in Proxies : (Held(q) \subseteq Happened)'
      BY <1>4, <2>1, <3>3 DEF ReporterInv
    <3> QED
      BY <3>6, <3>7, <3>8 DEF ReporterInv
  <2>4. CASE dropped' = dropped + 1 /\ queue' = queue
    <3>1. \A q \in Proxies : Held(q)' = Held(q)
      BY <1>2, <2>4 DEF Held
    <3>2. Unheld' \subseteq Unheld \cup {e}
      BY <1>2, <1>4, <3>1 DEF Unheld
    <3>3. /\ IsFiniteSet(Unheld \cup {e}) /\ Cardinality(Unheld \cup {e}) \in Nat
          /\ Cardinality(Unheld \cup {e}) <= Cardinality(Unheld) + 1
      <4>1. /\ IsFiniteSet(Unheld \cup {e})
            /\ Cardinality(Unheld \cup {e}) = IF e \in Unheld THEN Cardinality(Unheld) ELSE Cardinality(Unheld) + 1
        BY <2>2, FS_AddElement
      <4> QED
        BY <2>2, <4>1
    <3>4. Cardinality(Unheld') <= Cardinality(Unheld \cup {e}) /\ Cardinality(Unheld') \in Nat
      BY <3>2, <3>3, FS_Subset, FS_CardinalityType
    <3>5. Cardinality(Unheld)' <= dropped'
      BY <2>1, <2>2, <2>4, <3>3, <3>4 DEF ReporterInv, ReporterTypes
    <3>6. ReporterTypes'
      BY <1>2, <2>1, <2>4 DEF ReporterTypes
    <3>7. \A q \in Proxies : (Held(q) \subseteq Happened)'
      BY <1>4, <2>1, <3>1 DEF ReporterInv
    <3> QED
      BY <3>5, <3>6, <3>7 DEF ReporterInv
  <2> QED
    BY <1>1, <2>3, <2>4
<1> QED
  BY <1>5, <1>6, <1>7, PartsPrimed

\* A delivery or none, of the batch now held.
LEMMA ReceiveStep ==
    ASSUME IInv, NEW p \in Proxies, Receive(p)
    PROVE  IInv'
<1> DEFINE held == Append(batch[p], Head(queue[p]))
<1>1. /\ Free(p) /\ queue[p] # <<>> /\ batch' = [batch EXCEPT ![p] = held]
      /\ (IF Len(held) >= BatchMax /\ ~backoff[p] THEN Deliver(p, Range(held)) ELSE UNCHANGED <<sending, ingest>>)
      /\ queue' = [queue EXCEPT ![p] = Tail(queue[p])]
      /\ UNCHANGED <<clock, faults, kind, at, backoff, life, dropped, orphans, raw, rolled, budget, read, pub, lastUsed,
                     landed, gone>>
  BY DEF Receive
<1>2. ReporterInv /\ ReporterTypes /\ RecordInv /\ RecordTypes /\ queue[p] \in Seq(Events) /\ batch[p] \in Seq(Events)
  BY Parts DEF ReporterInv, ReporterTypes, RecordInv
<1>3. /\ Head(queue[p]) \in Events /\ Tail(queue[p]) \in Seq(Events)
      /\ Range(queue[p]) = {Head(queue[p])} \cup Range(Tail(queue[p]))
  BY <1>1, <1>2, RangeTail
<1>4. held \in Seq(Events) /\ Range(held) = Range(batch[p]) \cup {Head(queue[p])}
  BY <1>2, <1>3, RangeAppend
<1> HIDE DEF held
<1>5. /\ queue' \in [Proxies -> Seq(Events)] /\ batch' \in [Proxies -> Seq(Events)]
      /\ queue'[p] = Tail(queue[p]) /\ batch'[p] = held
      /\ \A q \in Proxies : q # p => queue'[q] = queue[q] /\ batch'[q] = batch[q]
  BY <1>1, <1>2, <1>3, <1>4 DEF ReporterTypes
<1>6. Held(p)' = Held(p)
  BY <1>3, <1>4, <1>5 DEF Held
<1>7. Range(held) \subseteq Happened /\ Range(held) # {}
  BY <1>2, <1>3, <1>4 DEF ReporterInv, Held
<1>8. DeliveryInv' /\ sending' \in [Proxies -> Nat \cup {Null}]
  <2>1. CASE Deliver(p, Range(held))
    BY <1>1, <1>5, <1>7, <2>1, DeliverStep
  <2>2. CASE UNCHANGED <<sending, ingest>>
    <3>1. \A q \in Proxies : sending[q] # Null => batch'[q] = batch[q]
      BY <1>1, <1>5 DEF Free
    <3>2. Happened' = Happened
      BY <1>1 DEF Happened
    <3> QED
      BY <1>1, <1>2, <2>2, <3>1, <3>2, DeliveryKept DEF ReporterTypes
  <2> QED
    BY <1>1, <2>1, <2>2
<1>9. ReporterInv'
  <2>1. ReporterTypes'
    BY <1>1, <1>2, <1>5, <1>8 DEF ReporterTypes
  <2>2. IsFiniteSet({}) /\ Cardinality({}) <= 0
    BY FS_EmptySet
  <2>3. dropped' = dropped + 0
    BY <1>1, <1>2 DEF ReporterTypes
  <2> QED
    BY <1>1, <1>5, <1>6, <2>1, <2>2, <2>3, ReporterStep
<1>10. RecordInv'
  BY <1>1, <1>2, RecordKept DEF RecordTypes
<1> QED
  BY <1>8, <1>9, <1>10, PartsPrimed

\* The tick sends the batch.
LEMMA FlushTickStep ==
    ASSUME IInv, NEW p \in Proxies, FlushTick(p)
    PROVE  IInv'
<1>1. /\ batch[p] # <<>> /\ Deliver(p, Range(batch[p]))
      /\ UNCHANGED <<clock, faults, kind, at, queue, batch, backoff, life, dropped, orphans, raw, rolled, budget, read,
                     pub, lastUsed, landed, gone>>
  BY DEF FlushTick
<1>2. ReporterInv /\ ReporterTypes /\ RecordTypes /\ batch[p] \in Seq(Events)
  BY Parts DEF ReporterInv, ReporterTypes, RecordInv
<1>3. Range(batch[p]) \subseteq Happened /\ Range(batch[p]) # {}
  <2>1. Range(batch[p]) = {Head(batch[p])} \cup Range(Tail(batch[p]))
    BY <1>1, <1>2, RangeTail
  <2> QED
    BY <1>2, <2>1 DEF ReporterInv, Held
<1>4. DeliveryInv' /\ sending' \in [Proxies -> Nat \cup {Null}]
  BY <1>1, <1>3, DeliverStep
<1>5. ReporterInv'
  <2>1. ReporterTypes' /\ dropped' = dropped + 0
    BY <1>1, <1>2, <1>4 DEF ReporterTypes
  <2>2. IsFiniteSet({}) /\ Cardinality({}) <= 0
    BY FS_EmptySet
  <2>3. Held(p)' = Held(p)
    BY <1>1 DEF Held
  <2> QED
    BY <1>1, <2>1, <2>2, <2>3, ReporterStep
<1>6. RecordInv'
  BY <1>1, <1>2, RecordKept DEF RecordTypes
<1> QED
  BY <1>4, <1>5, <1>6, PartsPrimed

\* The reporter may try again.
LEMMA BackoffStep ==
    ASSUME IInv, NEW p \in Proxies, BackoffOver(p)
    PROVE  IInv'
<1>1. /\ backoff' = [backoff EXCEPT ![p] = FALSE]
      /\ UNCHANGED <<clock, faults, kind, at, queue, batch, sending, life, dropped, gone, orphans, ingest, raw, rolled,
                     budget, read, pub, lastUsed, landed>>
  BY DEF BackoffOver, ServerKept
<1>2. ReporterTypes /\ RecordTypes
  BY Parts DEF ReporterInv, RecordInv
<1>3. ReporterInv'
  <2>1. ReporterTypes' /\ dropped' = dropped + 0
    BY <1>1, <1>2 DEF ReporterTypes
  <2>2. IsFiniteSet({}) /\ Cardinality({}) <= 0
    BY FS_EmptySet
  <2>3. Held(p)' = Held(p)
    BY <1>1 DEF Held
  <2> QED
    BY <1>1, <2>1, <2>2, <2>3, ReporterStep
<1>4. Happened' = Happened
  BY <1>1 DEF Happened
<1>5. DeliveryInv'
  BY <1>1, <1>4, DeliveryKept
<1>6. RecordInv'
  BY <1>1, <1>2, RecordKept DEF RecordTypes
<1> QED
  BY <1>3, <1>5, <1>6, PartsPrimed

\* Shutting down: everything is delivered, or there is nothing.
LEMMA FlushNowStep ==
    ASSUME IInv, NEW p \in Proxies, flush_now(p)
    PROVE  IInv'
<1>1. /\ Free(p) /\ life' = [life EXCEPT ![p] = IF Held(p) = {} THEN "stopped" ELSE "flushing"]
      /\ batch' = [batch EXCEPT ![p] = batch[p] \o queue[p]] /\ queue' = [queue EXCEPT ![p] = <<>>]
      /\ (IF Held(p) = {} THEN UNCHANGED <<sending, ingest>> ELSE Deliver(p, Held(p)))
      /\ UNCHANGED <<clock, kind, at, backoff, dropped, orphans, raw, rolled, budget, read, pub, lastUsed, landed, gone>>
  BY DEF flush_now
<1>2. ReporterInv /\ ReporterTypes /\ RecordTypes /\ queue[p] \in Seq(Events) /\ batch[p] \in Seq(Events)
  BY Parts DEF ReporterInv, ReporterTypes, RecordInv
<1>3. /\ batch[p] \o queue[p] \in Seq(Events) /\ <<>> \in Seq(Events) /\ Range(<<>>) = {}
      /\ Range(batch[p] \o queue[p]) = Range(batch[p]) \cup Range(queue[p])
  <2>1. Range(batch[p] \o queue[p]) = Range(batch[p]) \cup Range(queue[p])
    BY <1>2, RangeConcatenation
  <2>2. batch[p] \o queue[p] \in Seq(Events)
    BY <1>2
  <2>3. <<>> \in Seq(Events) /\ Range(<<>>) = {}
    BY DEF Range
  <2> QED
    BY <2>1, <2>2, <2>3
<1>4. /\ queue' \in [Proxies -> Seq(Events)] /\ batch' \in [Proxies -> Seq(Events)]
      /\ queue'[p] = <<>> /\ batch'[p] = batch[p] \o queue[p]
      /\ \A q \in Proxies : q # p => queue'[q] = queue[q] /\ batch'[q] = batch[q]
  BY <1>1, <1>2, <1>3 DEF ReporterTypes
<1>5. Held(p)' = Held(p) /\ Range(batch'[p]) = Held(p)
  BY <1>3, <1>4 DEF Held
<1>6. DeliveryInv' /\ sending' \in [Proxies -> Nat \cup {Null}]
  <2>1. CASE Held(p) # {}
    <3>1. Held(p) \subseteq Happened /\ Deliver(p, Held(p))
      BY <1>1, <1>2, <2>1 DEF ReporterInv
    <3> QED
      BY <1>1, <1>4, <1>5, <2>1, <3>1, DeliverStep
  <2>2. CASE Held(p) = {}
    <3>1. \A q \in Proxies : sending[q] # Null => batch'[q] = batch[q]
      BY <1>1, <1>4 DEF Free
    <3>2. Happened' = Happened
      BY <1>1 DEF Happened
    <3> QED
      BY <1>1, <1>2, <2>2, <3>1, <3>2, DeliveryKept DEF ReporterTypes
  <2> QED
    BY <2>1, <2>2
<1>7. ReporterInv'
  <2>1. ReporterTypes' /\ dropped' = dropped + 0
    BY <1>1, <1>2, <1>4, <1>6 DEF ReporterTypes
  <2>2. IsFiniteSet({}) /\ Cardinality({}) <= 0
    BY FS_EmptySet
  <2> QED
    BY <1>1, <1>4, <1>5, <2>1, <2>2, ReporterStep
<1>8. RecordInv'
  BY <1>1, <1>2, RecordKept DEF RecordTypes
<1> QED
  BY <1>6, <1>7, <1>8, PartsPrimed

\* The reporter lets the batch go: it is on record, or gone.
LEMMA AnsweredStep ==
    ASSUME IInv, NEW p \in Proxies, Answered(p)
    PROVE  IInv'
<1>1. /\ sending[p] # Null /\ ingest[<<p, sending[p]>>].step \in {"taken", "refused"}
      /\ gone' = (IF ingest[<<p, sending[p]>>].step = "refused" THEN gone \cup Range(batch[p]) ELSE gone)
      /\ batch' = [batch EXCEPT ![p] = <<>>] /\ sending' = [sending EXCEPT ![p] = Null]
      /\ ingest' = [i \in DOMAIN ingest \ {<<p, sending[p]>>} |-> ingest[i]]
      /\ life' = [life EXCEPT ![p] = IF life[p] = "flushing" THEN "stopped" ELSE life[p]]
      /\ UNCHANGED <<clock, faults, kind, at, queue, backoff, dropped, orphans, raw, rolled, budget, read, pub, lastUsed,
                     landed>>
  BY DEF Answered, Stopped
<1>2. /\ ReporterInv /\ ReporterTypes /\ RecordTypes /\ DeliveryInv
      /\ queue[p] \in Seq(Events) /\ batch[p] \in Seq(Events)
  BY Parts DEF ReporterInv, ReporterTypes, RecordInv
<1>3. Range(batch[p]) \subseteq landed \cup gone'
  <2>1. <<p, sending[p]>> \in DOMAIN ingest /\ ingest[<<p, sending[p]>>].events = Range(batch[p])
    BY <1>1, <1>2 DEF DeliveryInv, WaitsForItsBatch
  <2>2. ingest[<<p, sending[p]>>].step = "taken" => Range(batch[p]) \subseteq landed \cup gone
    BY <1>2, <2>1 DEF DeliveryInv, InsertedIsOnRecord
  <2> QED
    BY <1>1, <2>2
<1>4. <<>> \in Seq(Events) /\ Range(<<>>) = {}
  BY DEF Range
<1>5. /\ batch' \in [Proxies -> Seq(Events)] /\ sending' \in [Proxies -> Nat \cup {Null}]
      /\ batch'[p] = <<>> /\ sending'[p] = Null
      /\ \A q \in Proxies : q # p => batch'[q] = batch[q] /\ sending'[q] = sending[q]
  BY <1>1, <1>2, <1>4 DEF ReporterTypes
<1>6. gone \subseteq gone' /\ gone' \subseteq Events
  <2>1. Range(batch[p]) \subseteq Events
    BY <1>2 DEF ReporterInv, Held, Happened
  <2> QED
    BY <1>1, <1>2, <2>1 DEF RecordTypes
<1>7. ReporterInv'
  <2>1. ReporterTypes' /\ dropped' = dropped + 0
    BY <1>1, <1>2, <1>5 DEF ReporterTypes
  <2>2. IsFiniteSet({}) /\ Cardinality({}) <= 0
    BY FS_EmptySet
  <2>3. Held(p)' \subseteq Held(p) /\ Held(p) \subseteq Held(p)' \cup gone' \cup landed
    BY <1>1, <1>3, <1>4, <1>5 DEF Held
  <2> QED
    BY <1>1, <1>5, <1>6, <2>1, <2>2, <2>3, ReporterStep
<1>8. DeliveryInv'
  <2>1. \A q \in Proxies : \/ sending'[q] = Null
                           \/ sending'[q] = sending[q] /\ batch'[q] = batch[q]
                              /\ <<q, sending[q]>> \in DOMAIN ingest'
    BY <1>1, <1>2, <1>5 DEF DeliveryInv, WaitsForItsBatch
  <2> QED
    BY <1>1, <1>6, <2>1, DeliveryEnds
<1>9. RecordInv'
  BY <1>1, <1>6, RecordKept
<1> QED
  BY <1>7, <1>8, <1>9, PartsPrimed

\* A failed attempt: what is cut off is counted.
LEMMA AttemptFailedStep ==
    ASSUME IInv, NEW p \in Proxies, attempt_failed(p)
    PROVE  IInv'
<1> DEFINE left == Retained(batch[p])
<1>1. /\ sending[p] # Null
      /\ (IF life[p] = "flushing"
          THEN gone' = gone \cup Range(batch[p]) /\ batch' = [batch EXCEPT ![p] = <<>>] /\ UNCHANGED <<dropped, backoff>>
          ELSE /\ batch' = [batch EXCEPT ![p] = left.kept] /\ dropped' = dropped + left.excess
               /\ backoff' = [backoff EXCEPT ![p] = TRUE] /\ UNCHANGED gone)
      /\ sending' = [sending EXCEPT ![p] = Null]
      /\ \/ ingest' = ingest
         \/ ingest' = [j \in DOMAIN ingest \ {<<p, sending[p]>>} |-> ingest[j]]
      /\ life' = [life EXCEPT ![p] = IF life[p] = "flushing" THEN "stopped" ELSE life[p]]
      /\ UNCHANGED <<clock, orphans, kind, at, queue, raw, rolled, budget, read, pub, lastUsed, landed>>
  BY DEF attempt_failed, Stopped
<1>2. /\ ReporterInv /\ ReporterTypes /\ RecordTypes /\ DeliveryInv
      /\ queue[p] \in Seq(Events) /\ batch[p] \in Seq(Events)
  BY Parts DEF ReporterInv, ReporterTypes, RecordInv
<1>3. /\ left.excess \in Nat /\ left.kept \in Seq(Events) /\ Range(left.kept) \subseteq Range(batch[p])
      /\ IsFiniteSet(Range(batch[p]) \ Range(left.kept))
      /\ Cardinality(Range(batch[p]) \ Range(left.kept)) <= left.excess
  <2> DEFINE n == IF Len(batch[p]) > Cap THEN Len(batch[p]) - Cap ELSE 0
  <2>1. left.excess = n /\ left.kept = SubSeq(batch[p], n + 1, Len(batch[p]))
    BY DEF Retained
  <2>2. BatchMax \in Nat /\ RetainBatches \in Nat /\ Len(batch[p]) \in Nat
    BY <1>2, MeteringAssumption, LenProperties
  <2>3. Cap \in Nat
    BY <2>2 DEF Cap
  <2>4. n \in Nat /\ n <= Len(batch[p])
    BY <2>2, <2>3
  <2> HIDE DEF n, left
  <2> QED
    BY <1>2, <2>1, <2>4, RangeCut
<1> HIDE DEF left
<1>4. <<>> \in Seq(Events) /\ Range(<<>>) = {}
  BY DEF Range
<1>5. /\ sending' \in [Proxies -> Nat \cup {Null}] /\ sending'[p] = Null
      /\ life' \in [Proxies -> {"up", "flushing", "stopped"}]
      /\ \A q \in Proxies : q # p => sending'[q] = sending[q]
  BY <1>1, <1>2 DEF ReporterTypes
<1>6. /\ ReporterInv' /\ gone \subseteq gone' /\ gone' \subseteq Events
      /\ \A q \in Proxies : q # p => batch'[q] = batch[q]
  <2>1. CASE life[p] = "flushing"
    <3>1. gone' = gone \cup Range(batch[p]) /\ batch' = [batch EXCEPT ![p] = <<>>] /\ UNCHANGED <<dropped, backoff>>
      BY <1>1, <2>1
    <3>2. /\ batch' \in [Proxies -> Seq(Events)] /\ batch'[p] = <<>>
          /\ \A q \in Proxies : q # p => batch'[q] = batch[q]
      BY <1>2, <1>4, <3>1 DEF ReporterTypes
    <3>3. ReporterTypes' /\ dropped' = dropped + 0
      BY <1>1, <1>2, <1>5, <3>1, <3>2 DEF ReporterTypes
    <3>4. IsFiniteSet({}) /\ Cardinality({}) <= 0
      BY FS_EmptySet
    <3>5. Held(p)' \subseteq Held(p) /\ Held(p) \subseteq Held(p)' \cup gone' \cup landed
      BY <1>1, <1>4, <3>1, <3>2 DEF Held
    <3>6. gone' \subseteq Events
      BY <1>2, <3>1 DEF ReporterInv, Held, Happened, RecordTypes
    <3>7. ReporterInv'
      BY <1>1, <3>1, <3>2, <3>3, <3>4, <3>5, ReporterStep
    <3> QED
      BY <3>1, <3>2, <3>6, <3>7
  <2>2. CASE life[p] # "flushing"
    <3>1. /\ batch' = [batch EXCEPT ![p] = left.kept] /\ dropped' = dropped + left.excess
          /\ backoff' = [backoff EXCEPT ![p] = TRUE] /\ UNCHANGED gone
      BY <1>1, <2>2
    <3>2. /\ batch' \in [Proxies -> Seq(Events)] /\ batch'[p] = left.kept
          /\ \A q \in Proxies : q # p => batch'[q] = batch[q]
      BY <1>2, <1>3, <3>1 DEF ReporterTypes
    <3>3. ReporterTypes'
      BY <1>1, <1>2, <1>3, <1>5, <3>1, <3>2 DEF ReporterTypes
    <3>4. /\ Held(p)' \subseteq Held(p)
          /\ Held(p) \subseteq Held(p)' \cup gone' \cup landed \cup (Range(batch[p]) \ Range(left.kept))
      BY <1>1, <1>3, <3>2 DEF Held
    <3>5. ReporterInv'
      BY <1>1, <1>3, <3>1, <3>2, <3>3, <3>4, ReporterStep
    <3> QED
      BY <1>2, <3>1, <3>2, <3>5 DEF RecordTypes
  <2> QED
    BY <2>1, <2>2
<1>7. DeliveryInv'
  <2>1. DOMAIN ingest' \subseteq DOMAIN ingest /\ \A i \in DOMAIN ingest' : ingest'[i] = ingest[i]
    BY <1>1
  <2>2. \A q \in Proxies : q # p /\ sending[q] # Null => <<q, sending[q]>> \in DOMAIN ingest'
    BY <1>1, <1>2 DEF DeliveryInv, WaitsForItsBatch
  <2> QED
    BY <1>1, <1>5, <1>6, <2>1, <2>2, DeliveryEnds
<1>8. RecordInv'
  BY <1>1, <1>6, RecordKept
<1> QED
  BY <1>6, <1>7, <1>8, PartsPrimed

\* What a crash takes is gone, and deliveries go on.
LEMMA CrashStep ==
    ASSUME IInv, NEW p \in Proxies, Crash(p)
    PROVE  IInv'
<1>1. /\ gone' = gone \cup Held(p)
      /\ queue' = [queue EXCEPT ![p] = <<>>] /\ batch' = [batch EXCEPT ![p] = <<>>]
      /\ sending' = [sending EXCEPT ![p] = Null] /\ backoff' = [backoff EXCEPT ![p] = FALSE]
      /\ life' = [life EXCEPT ![p] = "up"]
      /\ UNCHANGED <<clock, kind, at, dropped, orphans, ingest, raw, rolled, budget, read, pub, lastUsed, landed>>
  BY DEF Crash, ServerKept
<1>2. ReporterInv /\ ReporterTypes /\ RecordTypes /\ DeliveryInv
  BY Parts DEF ReporterInv, RecordInv
<1>3. <<>> \in Seq(Events) /\ Range(<<>>) = {}
  BY DEF Range
<1>4. /\ ReporterTypes' /\ batch'[p] = <<>> /\ queue'[p] = <<>> /\ sending'[p] = Null
      /\ \A q \in Proxies : q # p => batch'[q] = batch[q] /\ sending'[q] = sending[q] /\ queue'[q] = queue[q]
  BY <1>1, <1>2, <1>3 DEF ReporterTypes
<1>5. gone' \subseteq Events /\ gone \subseteq gone'
  BY <1>1, <1>2 DEF ReporterInv, RecordTypes, Happened
<1>6. ReporterInv'
  <2>1. Held(p)' \subseteq Held(p) /\ Held(p) \subseteq gone'
    BY <1>1, <1>3, <1>4 DEF Held
  <2>2. IsFiniteSet({}) /\ Cardinality({}) <= 0
    BY FS_EmptySet
  <2>3. dropped' = dropped + 0
    BY <1>1, <1>2 DEF ReporterTypes
  <2> QED
    BY <1>1, <1>4, <1>5, <2>1, <2>2, <2>3, ReporterStep
<1>7. DeliveryInv'
  <2>1. \A q \in Proxies : q # p /\ sending[q] # Null => <<q, sending[q]>> \in DOMAIN ingest'
    BY <1>1, <1>2 DEF DeliveryInv, WaitsForItsBatch
  <2> QED
    BY <1>1, <1>4, <1>5, <2>1, DeliveryEnds
<1>8. RecordInv'
  BY <1>1, <1>5, RecordKept
<1> QED
  BY <1>6, <1>7, <1>8, PartsPrimed

-----------------------------------------------------------------------------
(***************************************************************************)
(* The control plane's steps.                                              *)
(***************************************************************************)

\* A delivery moves on.
LEMMA StepChange ==
    ASSUME IInv, NEW i \in DOMAIN ingest, NEW s \in {"sent", "inserted", "taken", "refused"},
           ingest' = [ingest EXCEPT ![i].step = s], UNCHANGED <<kind, sending, batch>>,
           landed \subseteq landed', gone \subseteq gone',
           s \in {"inserted", "taken"} => ingest[i].events \subseteq landed' \cup gone'
    PROVE  DeliveryInv'
<1>1. DeliveryInv /\ DeliveryTypes
  BY Parts DEF DeliveryInv
<1>2. Happened' = Happened
  BY DEF Happened
<1>3. ingest[i] \in [events : SUBSET Events, step : {"sent", "inserted", "taken", "refused"}]
  BY <1>1 DEF DeliveryTypes
<1>4. /\ DOMAIN ingest' = DOMAIN ingest /\ ingest'[i] = [ingest[i] EXCEPT !.step = s]
      /\ \A j \in DOMAIN ingest : j # i => ingest'[j] = ingest[j]
  OBVIOUS
<1>5. /\ ingest'[i].step = s /\ ingest'[i].events = ingest[i].events
      /\ ingest'[i] \in [events : SUBSET Events, step : {"sent", "inserted", "taken", "refused"}]
  BY <1>3, <1>4
<1>6. \A j \in DOMAIN ingest : ingest'[j].events = ingest[j].events
  BY <1>4, <1>5
<1>7. DeliveryTypes'
  BY <1>1, <1>4, <1>5 DEF DeliveryTypes
<1>8. \A j \in DOMAIN ingest' : ingest'[j].events \subseteq Happened' /\ ingest'[j].events # {}
  BY <1>1, <1>2, <1>4, <1>6 DEF DeliveryInv
<1>9. WaitsForItsBatch'
  BY <1>1, <1>4, <1>6 DEF DeliveryInv, WaitsForItsBatch
<1>10. InsertedIsOnRecord'
  <2>1. ASSUME NEW j \in DOMAIN ingest, ingest'[j].step \in {"inserted", "taken"}
        PROVE  ingest'[j].events \subseteq landed' \cup gone'
    <3>1. CASE j = i
      BY <1>5, <2>1, <3>1
    <3>2. CASE j # i
      BY <1>1, <1>4, <2>1, <3>2 DEF DeliveryInv, InsertedIsOnRecord
    <3> QED
      BY <3>1, <3>2
  <2> QED
    BY <1>4, <2>1 DEF InsertedIsOnRecord
<1> QED
  BY <1>7, <1>8, <1>9, <1>10 DEF DeliveryInv

\* A delivery ends: its reporter hears of it, or nobody waits.
LEMMA EndStep ==
    ASSUME IInv, NEW i \in DOMAIN ingest, NEW s \in {"taken", "refused"}, End(i, s),
           UNCHANGED <<kind, sending, batch, landed, gone>>,
           s = "taken" => ingest[i].step = "inserted"
    PROVE  DeliveryInv'
<1>1. DeliveryInv /\ DeliveryTypes
  BY Parts DEF DeliveryInv
<1>2. CASE Waited(i)
  <2>1. ingest' = [ingest EXCEPT ![i].step = s]
    BY <1>2 DEF End
  <2>2. s \in {"inserted", "taken"} => ingest[i].events \subseteq landed' \cup gone'
    BY <1>1 DEF DeliveryInv, InsertedIsOnRecord
  <2> QED
    BY <2>1, <2>2, StepChange
<1>3. CASE ~Waited(i)
  <2>1. ingest' = [j \in DOMAIN ingest \ {i} |-> ingest[j]]
    BY <1>3 DEF End
  <2>2. i = <<i[1], i[2]>>
    BY <1>1 DEF DeliveryTypes
  <2>3. \A q \in Proxies : sending[q] # Null => <<q, sending[q]>> \in DOMAIN ingest /\ <<q, sending[q]>> # i
    BY <1>1, <1>3, <2>2 DEF Waited, DeliveryInv, WaitsForItsBatch
  <2> QED
    BY <2>1, <2>3, DeliveryEnds
<1> QED
  BY <1>2, <1>3

\* The rows of a batch are written.
LEMMA PostUsageStep ==
    ASSUME IInv, NEW i \in DOMAIN ingest, post_usage(i)
    PROVE  IInv'
<1>1. /\ raw' = [e \in Events |-> IF e \in ingest[i].events \ orphans THEN raw[e] + 1 ELSE raw[e]]
      /\ landed' = landed \cup (ingest[i].events \ orphans)
      /\ gone' = gone \cup (ingest[i].events \cap orphans)
      /\ ingest' = [ingest EXCEPT ![i].step = "inserted"]
      /\ UNCHANGED <<faults, rolled, budget, read, pub, lastUsed, clock, orphans, kind, at, queue, batch, sending,
                     backoff, life, dropped>>
  BY DEF post_usage, Step, ClientKept, reporting
<1>2. RecordInv /\ RecordTypes /\ ingest[i].events \subseteq Happened /\ Happened \subseteq Events
  BY Parts DEF DeliveryInv, RecordInv, Happened
<1>3. ReporterInv'
  BY <1>1, ReporterKept
<1>4. DeliveryInv'
  BY <1>1, StepChange
<1>5. RecordInv'
  <2>1. Happened' = Happened /\ Hours' = Hours
    BY <1>1 DEF Happened, Hours
  <2>2. raw' \in [Events -> Nat] /\ \A e \in Events : raw'[e] > 0 => e \in Happened
    BY <1>1, <1>2 DEF RecordInv, RecordTypes
  <2>3. RecordTypes'
    BY <1>1, <1>2, <2>1, <2>2 DEF RecordTypes
  <2>4. BucketsSound'
    BY <1>1, <1>2, <2>1 DEF RecordInv, BucketsSound, SumOf, Tallies
  <2> QED
    BY <2>1, <2>2, <2>3, <2>4 DEF RecordInv
<1> QED
  BY <1>3, <1>4, <1>5, PartsPrimed

\* A batch is refused.
LEMMA RefusedStep ==
    ASSUME IInv, NEW i \in DOMAIN ingest, post_usage_refused(i)
    PROVE  IInv'
<1>1. /\ End(i, "refused")
      /\ UNCHANGED <<raw, rolled, budget, read, pub, lastUsed, landed, gone, clock, orphans, kind, at, queue, batch,
                     sending, backoff, life, dropped>>
  BY DEF post_usage_refused, ClientKept, reporting
<1>2. ReporterInv'
  BY <1>1, ReporterKept
<1>3. DeliveryInv'
  BY <1>1, EndStep
<1>4. RecordInv'
  BY <1>1, RecordKept, Parts DEF RecordInv, RecordTypes
<1> QED
  BY <1>2, <1>3, <1>4, PartsPrimed

\* A set of naturals that is not empty has a least member.
LEMMA LeastNat ==
    ASSUME NEW T \in SUBSET Nat, T # {}
    PROVE  \E x \in T : \A y \in T : x <= y
<1>1. IsWellFoundedOn(OpToRel(<, Nat), Nat)
  BY NatLessThanWellFounded
<1>2. \E x \in T : \A y \in T : ~(<<y, x>> \in OpToRel(<, Nat))
  BY <1>1, WFMin
<1>3. \E x \in T : \A y \in T : ~(y < x)
  BY <1>2 DEF OpToRel
<1> QED
  BY <1>3

\* Times have a latest.
LEMMA MaxIsMember ==
    ASSUME NEW N \in Nat, NEW T \in SUBSET Nat, \A x \in T : x <= N, T # {}
    PROVE  Max(T) \in T /\ \A y \in T : Max(T) >= y
<1> DEFINE U == {N - x : x \in T}
<1>1. U \in SUBSET Nat /\ U # {}
  <2>1. \A x \in T : N - x \in Nat
    OBVIOUS
  <2>2. PICK x : x \in T
    OBVIOUS
  <2>3. N - x \in U
    BY <2>2
  <2>4. \A u \in U : u \in Nat
    BY <2>1
  <2> QED
    BY <2>3, <2>4
<1>2. PICK u \in U : \A y \in U : u <= y
  BY <1>1, LeastNat
<1>3. PICK x \in T : u = N - x
  BY <1>2
<1>4. ASSUME NEW y \in T PROVE x >= y
  <2>1. N - y \in U
    OBVIOUS
  <2>2. N - x <= N - y
    BY <1>2, <1>3, <2>1
  <2> QED
    BY <2>2
<1> QED
  BY <1>4 DEF Max

\* What the key's last use becomes.
LEMMA LastUse ==
    ASSUME IInv, NEW ev, ev \subseteq Events, ev # {}, stamp_key_last_used(ev)
    PROVE  lastUsed' \in Nat /\ lastUsed' >= lastUsed
<1> DEFINE T == {at[e] : e \in ev}
<1>1. lastUsed \in Nat /\ at \in [Events -> 0 .. MaxClock] /\ MaxClock \in Nat
  BY Parts, MeteringAssumption DEF RecordInv, RecordTypes
<1>2. T \in SUBSET Nat /\ T # {} /\ \A x \in T : x <= MaxClock
  BY <1>1
<1>3. Max(T) \in Nat
  BY <1>1, <1>2, MaxIsMember
<1>4. lastUsed' = Max({lastUsed, Max(T)})
  BY DEF stamp_key_last_used, Latest
<1> HIDE DEF T
<1>5. PICK N \in Nat : lastUsed <= N /\ Max(T) <= N
  <2>1. lastUsed + Max(T) \in Nat /\ lastUsed <= lastUsed + Max(T) /\ Max(T) <= lastUsed + Max(T)
    BY <1>1, <1>3
  <2> QED
    BY <2>1
<1>6. /\ {lastUsed, Max(T)} \in SUBSET Nat /\ {lastUsed, Max(T)} # {}
      /\ \A x \in {lastUsed, Max(T)} : x <= N
  BY <1>1, <1>3, <1>5
<1>7. /\ Max({lastUsed, Max(T)}) \in {lastUsed, Max(T)}
      /\ \A y \in {lastUsed, Max(T)} : Max({lastUsed, Max(T)}) >= y
  BY <1>6, MaxIsMember
<1> QED
  BY <1>1, <1>3, <1>4, <1>7

\* The budget and the key are updated, or the update fails.
LEMMA ApplyUsageStep ==
    ASSUME IInv, NEW i \in DOMAIN ingest, apply_usage_to_budgets(i)
    PROVE  IInv' /\ lastUsed' >= lastUsed
<1>1. /\ ingest[i].step = "inserted" /\ stamp_key_last_used(ingest[i].events) /\ End(i, "taken")
      /\ UNCHANGED <<raw, rolled, read, pub, landed, gone, clock, orphans, kind, at, queue, batch, sending, backoff, life,
                     dropped>>
  BY DEF apply_usage_to_budgets, ClientKept, reporting
<1>2. ReporterInv'
  BY <1>1, ReporterKept
<1>3. DeliveryInv'
  BY <1>1, EndStep
<1>4. lastUsed' \in Nat /\ lastUsed' >= lastUsed
  <2>1. ingest[i].events \subseteq Events /\ ingest[i].events # {}
    BY Parts DEF DeliveryInv, Happened
  <2> QED
    BY <1>1, <2>1, LastUse
<1>5. RecordInv'
  <2>1. Happened' = Happened /\ Hours' = Hours
    BY <1>1 DEF Happened, Hours
  <2> QED
    BY <1>1, <1>4, <2>1, Parts DEF RecordInv, RecordTypes, BucketsSound, SumOf, Tallies
<1> QED
  BY <1>2, <1>3, <1>4, <1>5, PartsPrimed

\* A build reads the budget and publishes.
LEMMA BuildStep ==
    ASSUME IInv, Build
    PROVE  IInv'
<1>1. UNCHANGED <<faults, ingest, raw, rolled, lastUsed, landed, gone, clock, orphans, kind, at, queue, batch, sending,
                  backoff, life, dropped>>
  BY DEF Build, BuildRead, roll_over_and_load_budgets, ClientKept, reporting
<1>2. Happened' = Happened
  BY <1>1 DEF Happened
<1>3. ReporterInv' /\ DeliveryInv'
  BY <1>1, <1>2, ReporterKept, DeliveryKept
<1>4. RecordInv'
  BY <1>1, RecordKept, Parts DEF RecordInv, RecordTypes
<1> QED
  BY <1>3, <1>4, PartsPrimed

\* Time passes.
LEMMA TickStep ==
    ASSUME IInv, Tick
    PROVE  IInv'
<1>1. /\ clock < MaxClock /\ clock' = clock + 1
      /\ UNCHANGED <<faults, kind, at, queue, batch, sending, backoff, life, dropped, gone, orphans, ingest, raw, rolled,
                     budget, read, pub, lastUsed, landed>>
  BY DEF Tick, reporting, ServerKept
<1>2. Happened' = Happened /\ Hours' = Hours
  BY <1>1 DEF Happened, Hours
<1>3. ReporterInv' /\ DeliveryInv'
  BY <1>1, <1>2, ReporterKept, DeliveryKept
<1>4. clock' \in 0 .. MaxClock
  BY <1>1, Parts, MeteringAssumption DEF RecordInv, RecordTypes
<1>5. RecordInv'
  BY <1>1, <1>2, <1>4, Parts DEF RecordInv, RecordTypes, BucketsSound, SumOf, Tallies
<1> QED
  BY <1>3, <1>5, PartsPrimed

-----------------------------------------------------------------------------
(***************************************************************************)
(* Rolling up.                                                             *)
(***************************************************************************)

Failing == Outcomes \ {"ok"}

\* Rows can be counted by outcome.
LEMMA RowsCounted ==
    ASSUME RecordTypes, NEW S \in SUBSET Events
    PROVE  Summable(S, raw) /\ AllRows(S) \in Nat /\ \A o : RowsOf(S, o) \in Nat
<1>1. IsFiniteSet(S) /\ \A e \in S : raw[e] \in Nat
  BY MeteringAssumption, FS_Subset DEF RecordTypes
<1>2. Summable(S, raw)
  BY <1>1 DEF Summable
<1>3. ASSUME NEW o PROVE RowsOf(S, o) \in Nat
  <2>1. {e \in S : kind[e] = o} \in SUBSET S
    OBVIOUS
  <2>2. Summable({e \in S : kind[e] = o}, raw)
    BY <1>1, <2>1, FS_Subset DEF Summable
  <2> QED
    BY <2>2, SumType DEF RowsOf
<1> QED
  BY <1>2, <1>3, SumType DEF AllRows

\* The rows are those that succeeded and, by outcome, those that failed.
LEMMA RowsByOutcome ==
    ASSUME RecordTypes, NEW S \in SUBSET Happened, NEW g, \A o \in Failing : g[o] = RowsOf(S, o)
    PROVE  /\ Summable(Failing, g) /\ SumOf(Failing, g) \in Nat
           /\ AllRows(S) = RowsOf(S, "ok") + SumOf(Failing, g)
<1> DEFINE bad == {e \in S : kind[e] # "ok"}
           good == {e \in S : kind[e] = "ok"}
           G == [o \in Failing |-> {e \in S : kind[e] = o}]
<1>1. S \in SUBSET Events /\ \A e \in S : kind[e] \in Outcomes
  BY DEF Happened, RecordTypes
<1>2. Summable(S, raw) /\ \A o : RowsOf(S, o) \in Nat
  BY <1>1, RowsCounted
<1>3. bad \in SUBSET Events /\ good \in SUBSET Events /\ bad \cap good = {} /\ S = good \cup bad
  BY <1>1
<1>4. Summable(bad, raw) /\ Summable(good, raw)
  BY <1>3, RowsCounted
<1>5. IsFiniteSet(Failing)
  BY MeteringAssumption, FS_Subset DEF Failing
<1>6. Summable(Failing, g)
  BY <1>2, <1>5 DEF Summable
<1>7. SumOf(Failing, g) = SumOf(bad, raw)
  <2>1. \A o \in Failing : G[o] \subseteq bad /\ g[o] = SumOf(G[o], raw)
    BY DEF Failing, RowsOf
  <2>2. \A o, u \in Failing : o # u => G[o] \cap G[u] = {}
    OBVIOUS
  <2>3. \A e \in bad : \E o \in Failing : e \in G[o]
    BY <1>1 DEF Failing
  <2> HIDE DEF bad, good, G
  <2> QED
    BY <1>4, <1>5, <2>1, <2>2, <2>3, SumGroups
<1>8. RowsOf(S, "ok") = SumOf(good, raw)
  BY DEF RowsOf
<1>9. SumOf(good \cup bad, raw) = SumOf(good, raw) + SumOf(bad, raw)
  <2> HIDE DEF bad, good
  <2> QED
    BY <1>3, <1>4, SumSplit
<1> HIDE DEF bad, good, G
<1> QED
  BY <1>3, <1>6, <1>7, <1>8, <1>9, SumType DEF AllRows

\* Folding rows into a bucket keeps every outcome's count.
LEMMA Folding ==
    ASSUME RecordTypes, BucketsSound, NEW h \in Hours, NEW S \in SUBSET Happened
    PROVE  /\ Folded(h, S) \in Buckets
           /\ SumOf(Failing, Folded(h, S).failed) <= Folded(h, S).requests
           /\ \A o \in Failing : Folded(h, S).failed[o] = rolled[h].failed[o] + RowsOf(S, o)
           /\ Succeeded(Folded(h, S)) = Succeeded(rolled[h]) + RowsOf(S, "ok")
<1> DEFINE g == [o \in Failing |-> RowsOf(S, o)]
           b == rolled[h]
           c == Folded(h, S)
<1>1. S \in SUBSET Events
  BY DEF Happened
<1>2. AllRows(S) \in Nat /\ \A o : RowsOf(S, o) \in Nat
  BY <1>1, RowsCounted
<1>3. /\ Summable(Failing, g) /\ SumOf(Failing, g) \in Nat
      /\ AllRows(S) = RowsOf(S, "ok") + SumOf(Failing, g)
  BY RowsByOutcome
<1>4. b \in Buckets /\ b.requests \in Nat /\ b.failed \in [Failing -> Nat]
  BY DEF RecordTypes, Buckets, Failing
<1>5. /\ c = [requests |-> b.requests + AllRows(S), failed |-> [o \in Failing |-> b.failed[o] + RowsOf(S, o)]]
      /\ c.requests = b.requests + AllRows(S)
      /\ \A o \in Failing : c.failed[o] = b.failed[o] + g[o]
  BY DEF Folded, Failing
<1>6. c \in Buckets
  <2>1. b.requests + AllRows(S) \in Nat /\ \A o \in Failing : b.failed[o] + RowsOf(S, o) \in Nat
    BY <1>2, <1>4
  <2> QED
    BY <1>5, <2>1 DEF Buckets, Failing
<1>7. Summable(Failing, b.failed)
  BY <1>3, <1>4 DEF Summable
<1>8. SumOf(Failing, b.failed) \in Nat /\ SumOf(Failing, b.failed) <= b.requests
  BY <1>7, SumType DEF BucketsSound, Failing
<1>9. /\ Succeeded(c) = c.requests - SumOf(Failing, c.failed)
      /\ Succeeded(b) = b.requests - SumOf(Failing, b.failed)
  BY DEF Succeeded, Failing
<1>10. \A o \in Failing : c.failed[o] = b.failed[o] + RowsOf(S, o)
  BY <1>5
<1> HIDE DEF g, b, c
<1>11. SumOf(Failing, c.failed) = SumOf(Failing, b.failed) + SumOf(Failing, g)
  BY <1>3, <1>5, <1>7, SumPlus
<1>12. /\ SumOf(Failing, c.failed) <= c.requests
       /\ Succeeded(c) = Succeeded(b) + RowsOf(S, "ok")
  BY <1>2, <1>3, <1>4, <1>5, <1>8, <1>9, <1>11
<1> QED
  BY <1>6, <1>10, <1>12 DEF b, c

\* Old rows are rolled up and deleted.
LEMMA RollUpStep ==
    ASSUME IInv, roll_up_and_prune_usage
    PROVE  IInv'
<1> DEFINE old == Old(clock - Retention + 1)
           In(h) == {e \in old : Hour(e) = h}
<1>1. /\ old \in SUBSET Happened
      /\ raw' = [e \in Events |-> IF e \in old THEN 0 ELSE raw[e]]
      /\ DOMAIN rolled' = Hours /\ rolled' = [h \in Hours |-> rolled'[h]]
      /\ \A h \in Hours : rolled'[h] = IF In(h) = {} THEN rolled[h] ELSE Folded(h, In(h))
      /\ UNCHANGED <<faults, ingest, budget, read, pub, lastUsed, landed, gone, clock, orphans, kind, at, queue,
                     batch, sending, backoff, life, dropped>>
  BY DEF roll_up_and_prune_usage, Old, ClientKept, reporting
<1>2. RecordInv /\ RecordTypes /\ BucketsSound
  BY Parts DEF RecordInv
<1>3. Happened' = Happened /\ Hours' = Hours
  BY <1>1 DEF Happened, Hours
<1>4. ReporterInv' /\ DeliveryInv'
  BY <1>1, <1>3, ReporterKept, DeliveryKept
<1>5. \A h \in Hours : In(h) \in SUBSET Happened
  BY <1>1
<1> HIDE DEF old, In
<1>6. ASSUME NEW h \in Hours PROVE rolled'[h] \in Buckets /\ SumOf(Failing, rolled'[h].failed) <= rolled'[h].requests
  <2>1. CASE In(h) = {}
    BY <1>1, <1>2, <2>1 DEF RecordTypes, BucketsSound, Failing
  <2>2. CASE In(h) # {}
    BY <1>1, <1>2, <1>5, <2>2, Folding
  <2> QED
    BY <2>1, <2>2
<1>7. rolled' \in [Hours -> Buckets]
  BY <1>1, <1>6
<1>8. raw' \in [Events -> Nat] /\ \A e \in Events : raw'[e] > 0 => e \in Happened
  BY <1>1, <1>2 DEF RecordInv, RecordTypes
<1>9. BucketsSound'
  BY <1>3, <1>6 DEF BucketsSound, Failing, SumOf, Tallies
<1>10. RecordTypes'
  BY <1>1, <1>2, <1>3, <1>7, <1>8 DEF RecordTypes, Buckets
<1>11. RecordInv'
  BY <1>3, <1>8, <1>9, <1>10 DEF RecordInv
<1> QED
  BY <1>4, <1>11, PartsPrimed

-----------------------------------------------------------------------------
(***************************************************************************)
(* The invariant.                                                          *)
(***************************************************************************)

\* Nothing happened yet.
LEMMA InitIInv == Init => IInv
<1> SUFFICES ASSUME Init PROVE IInv
  OBVIOUS
<1>1. Happened = {} /\ Unheld = {} /\ Cardinality(Unheld) = 0
  <2>1. Happened = {}
    BY DEF Init, Happened
  <2>2. Unheld = {}
    BY <2>1 DEF Unheld
  <2> QED
    BY <2>1, <2>2, FS_EmptySet
<1>2. <<>> \in Seq(Events) /\ Range(<<>>) = {}
  BY DEF Range
<1>3. ReporterInv
  <2>1. ReporterTypes
    BY <1>2 DEF Init, ReporterTypes
  <2>2. \A p \in Proxies : Held(p) = {}
    BY <1>2 DEF Init, Held
  <2> QED
    BY <1>1, <2>1, <2>2 DEF ReporterInv, Init
<1>4. DeliveryInv
  <2>1. DOMAIN ingest = {} /\ IsFiniteSet(DOMAIN ingest)
    <3>1. ingest = <<>>
      BY DEF Init
    <3>2. DOMAIN ingest = {}
      BY <3>1
    <3> QED
      BY <3>2, FS_EmptySet
  <2>2. \A p \in Proxies : sending[p] = Null
    BY DEF Init
  <2> QED
    BY <2>1, <2>2 DEF DeliveryInv, DeliveryTypes, WaitsForItsBatch, InsertedIsOnRecord
<1>5. RecordInv
  <2>1. RecordTypes
    BY MeteringAssumption DEF Init, RecordTypes, Buckets
  <2>2. ASSUME NEW h \in Hours PROVE SumOf(Outcomes \ {"ok"}, rolled[h].failed) <= rolled[h].requests
    <3>1. rolled[h].requests = 0 /\ \A o \in Outcomes \ {"ok"} : rolled[h].failed[o] = 0
      BY DEF Init
    <3>2. SumOf(Outcomes \ {"ok"}, rolled[h].failed) = 0
      BY <3>1, SumZero
    <3> QED
      BY <3>1, <3>2
  <2>3. \A e \in Events : raw[e] = 0
    BY DEF Init
  <2> QED
    BY <2>1, <2>2, <2>3 DEF RecordInv, BucketsSound
<1> QED
  BY <1>3, <1>4, <1>5, Parts

\* The parts of Next.
LEMMA NextCases ==
    ASSUME Next
    PROVE  \/ \E p \in Proxies : record(p)
           \/ \E p \in Proxies : Receive(p) \/ FlushTick(p) \/ BackoffOver(p) \/ Answered(p) \/ flush_now(p)
                                 \/ attempt_failed(p) \/ Crash(p)
           \/ \E i \in DOMAIN ingest : post_usage(i)
           \/ \E i \in DOMAIN ingest : apply_usage_to_budgets(i)
           \/ \E i \in DOMAIN ingest : post_usage_refused(i)
           \/ Build \/ roll_up_and_prune_usage \/ Tick
BY DEF Next, Reporter, Ingestion

\* One case per action.
LEMMA NextIInv == IInv /\ [Next]_vars => IInv'
<1> SUFFICES ASSUME IInv, [Next]_vars PROVE IInv'
  OBVIOUS
<1>1. CASE UNCHANGED vars
  <2>1. UNCHANGED <<clock, orphans, kind, at, queue, batch, sending, backoff, life, dropped, ingest, raw, rolled,
                    lastUsed, landed, gone>>
    BY <1>1 DEF vars, reporting
  <2>2. Happened' = Happened
    BY <2>1 DEF Happened
  <2> QED
    BY <2>1, <2>2, ReporterKept, DeliveryKept, RecordKept, PartsPrimed, Parts DEF RecordInv, RecordTypes
<1>2. CASE \E p \in Proxies : record(p)
  BY <1>2, RecordStep
<1>3. CASE \E p \in Proxies : Receive(p) \/ FlushTick(p) \/ BackoffOver(p) \/ Answered(p) \/ flush_now(p)
                              \/ attempt_failed(p) \/ Crash(p)
  BY <1>3, ReceiveStep, FlushTickStep, BackoffStep, AnsweredStep, FlushNowStep, AttemptFailedStep, CrashStep
<1>4. CASE \E i \in DOMAIN ingest : post_usage(i)
  BY <1>4, PostUsageStep
<1>5. CASE \E i \in DOMAIN ingest : apply_usage_to_budgets(i)
  BY <1>5, ApplyUsageStep
<1>6. CASE \E i \in DOMAIN ingest : post_usage_refused(i)
  BY <1>6, RefusedStep
<1>7. CASE Build \/ roll_up_and_prune_usage \/ Tick
  BY <1>7, BuildStep, RollUpStep, TickStep
<1> QED
  BY <1>1, <1>2, <1>3, <1>4, <1>5, <1>6, <1>7, NextCases

\* The inductive invariant of usage accounting: what is held, delivered or on
\* record did happen, a reporter waits for the delivery of the very batch it
\* holds, and what it let go of uncounted is on record or gone.
THEOREM MeteringInvariant == Spec => []IInv
BY InitIInv, NextIInv, PTL DEF Spec

\* A request whose usage reached nobody is one that a counter shows, for any
\* number of proxies and requests, queue and batch sizes (LossesCounted;
\* UsageReporter::dropped, attempt).
THEOREM LossesAreCounted == Spec => []LossesCounted
<1>1. IInv => LossesCounted
  <2> SUFFICES ASSUME IInv PROVE LossesCounted
    OBVIOUS
  <2> DEFINE lost == {e \in Happened \ (gone \cup landed) :
                        /\ ~\E p \in Proxies : e \in Held(p)
                        /\ ~\E i \in DOMAIN ingest : e \in ingest[i].events}
  <2>1. lost \subseteq Unheld
    BY DEF Unheld
  <2>2. IsFiniteSet(Unheld) /\ Cardinality(Unheld) \in Nat
    BY UnheldFinite
  <2>3. Cardinality(lost) <= Cardinality(Unheld) /\ Cardinality(lost) \in Nat
    BY <2>1, <2>2, FS_Subset, FS_CardinalityType
  <2>4. Cardinality(Unheld) <= dropped /\ dropped \in Nat
    BY Parts DEF ReporterInv, ReporterTypes
  <2> HIDE DEF lost
  <2>5. Cardinality(lost) <= dropped
    BY <2>2, <2>3, <2>4
  <2> QED
    BY <2>5 DEF LossesCounted, lost
<1> QED
  BY <1>1, MeteringInvariant, PTL

\* A key's last use never moves back, in whatever order batches of whatever
\* proxies come in (LastUseAdvances; stamp_key_last_used).
THEOREM LastUseOnlyAdvances == Spec => LastUseAdvances
<1>1. IInv /\ [Next]_vars => [lastUsed' >= lastUsed]_vars
  <2> SUFFICES ASSUME IInv, Next PROVE lastUsed' >= lastUsed
    OBVIOUS
  <2>1. lastUsed \in Nat
    BY Parts DEF RecordInv, RecordTypes
  <2>2. CASE \E i \in DOMAIN ingest : apply_usage_to_budgets(i)
    BY <2>2, ApplyUsageStep
  <2>3. CASE lastUsed' = lastUsed
    BY <2>1, <2>3
  <2> QED
    BY <2>2, <2>3, NextCases DEF record, Receive, FlushTick, BackoffOver, Answered, flush_now, attempt_failed, Crash,
       ServerKept, post_usage, post_usage_refused, Build, BuildRead, roll_over_and_load_budgets,
       roll_up_and_prune_usage, Tick
<1> QED
  BY <1>1, MeteringInvariant, PTL DEF Spec, LastUseAdvances

-----------------------------------------------------------------------------
(***************************************************************************)
(* The ledger.                                                             *)
(***************************************************************************)

\* What the buckets say of an outcome, hour by hour.
Hourly(o) == [h \in Hours |-> IF o # "ok" THEN rolled[h].failed[o] ELSE Succeeded(rolled[h])]

\* The charts are numbers.
LEMMA ChartsCount ==
    ASSUME RecordTypes, BucketsSound, NEW o \in Outcomes
    PROVE  /\ Summable(Hours, Hourly(o)) /\ SumOf(Hours, Hourly(o)) \in Nat /\ RowsOf(Happened, o) \in Nat
           /\ timeseries_rows(o) = RowsOf(Happened, o) + SumOf(Hours, Hourly(o))
           /\ timeseries_rows(o) \in Nat
<1>1. IsFiniteSet(Hours)
  <2>1. MaxClock \div 2 \in Int
    BY MeteringAssumption
  <2> QED
    BY <2>1, FS_Interval DEF Hours
<1>2. ASSUME NEW h \in Hours PROVE Hourly(o)[h] \in Nat
  <2>1. rolled[h] \in Buckets /\ rolled[h].requests \in Nat /\ rolled[h].failed \in [Failing -> Nat]
    BY DEF RecordTypes, Buckets, Failing
  <2>2. IsFiniteSet(Failing)
    BY MeteringAssumption, FS_Subset DEF Failing
  <2>3. Summable(Failing, rolled[h].failed)
    BY <2>1, <2>2 DEF Summable
  <2>4. SumOf(Failing, rolled[h].failed) \in Nat /\ SumOf(Failing, rolled[h].failed) <= rolled[h].requests
    BY <2>3, SumType DEF BucketsSound, Failing
  <2>5. Succeeded(rolled[h]) \in Nat
    BY <2>1, <2>4 DEF Succeeded, Failing
  <2>6. o # "ok" => rolled[h].failed[o] \in Nat
    BY <2>1 DEF Failing
  <2> QED
    BY <2>5, <2>6 DEF Hourly
<1>3. Summable(Hours, Hourly(o))
  BY <1>1, <1>2 DEF Summable
<1>4. SumOf(Hours, Hourly(o)) \in Nat
  BY <1>3, SumType
<1>5. RowsOf(Happened, o) \in Nat
  <2>1. Happened \in SUBSET Events
    BY DEF Happened
  <2> QED
    BY <2>1, RowsCounted
<1>6. timeseries_rows(o) = RowsOf(Happened, o) + SumOf(Hours, Hourly(o))
  BY DEF timeseries_rows, Hourly
<1> QED
  BY <1>3, <1>4, <1>5, <1>6

\* Nothing has happened and nothing is charted.
LEMMA LedgerInit == Init => Ledger!Init
<1> SUFFICES ASSUME Init PROVE Ledger!Init
  OBVIOUS
<1>1. Happened = {}
  BY DEF Init, Happened
<1>2. ASSUME NEW o \in Outcomes PROVE Count(Happened, o) = 0 /\ timeseries_rows(o) = 0
  <2>1. {e \in Happened : kind[e] = o} = {}
    BY <1>1
  <2>2. Count(Happened, o) = 0
    BY <2>1, FS_EmptySet DEF Count
  <2>3. RowsOf(Happened, o) = 0
    BY <2>1, SumZero DEF RowsOf
  <2>4. ASSUME NEW h \in Hours PROVE Hourly(o)[h] = 0
    <3>1. rolled[h].requests = 0 /\ \A u \in Outcomes \ {"ok"} : rolled[h].failed[u] = 0
      BY DEF Init
    <3>2. SumOf(Outcomes \ {"ok"}, rolled[h].failed) = 0
      BY <3>1, SumZero
    <3>3. Succeeded(rolled[h]) = 0
      BY <3>1, <3>2 DEF Succeeded
    <3> QED
      BY <3>1, <3>3 DEF Hourly
  <2>5. SumOf(Hours, Hourly(o)) = 0
    BY <2>4, SumZero
  <2> QED
    BY <2>2, <2>3, <2>5 DEF timeseries_rows, Hourly
<1>3. HappenedBy = [o \in Outcomes |-> 0] /\ ChartedBy = [o \in Outcomes |-> 0]
  BY <1>2 DEF HappenedBy, ChartedBy
<1> QED
  BY <1>3 DEF Ledger!Init

\* A step that touches neither requests nor rows.
LEMMA LedgerStutter ==
    ASSUME UNCHANGED <<kind, raw, rolled>>
    PROVE  HappenedBy' = HappenedBy /\ ChartedBy' = ChartedBy
<1>1. Happened' = Happened /\ Hours' = Hours
  BY DEF Happened, Hours
<1>2. HappenedBy' = HappenedBy
  BY <1>1 DEF HappenedBy, Count
<1>3. ChartedBy' = ChartedBy
  BY <1>1 DEF ChartedBy, timeseries_rows, RowsOf, SumOf, Tallies, Succeeded
<1> QED
  BY <1>2, <1>3

\* A request that happens is not charted before its batch.
LEMMA LedgerHappen ==
    ASSUME IInv, NEW p \in Proxies, record(p)
    PROVE  \E o \in Outcomes : Ledger!Happen(o)
<1>1. PICK e \in Events : /\ kind[e] = Null
                          /\ kind' = [kind EXCEPT ![e] = IF pub >= BudgetLimit THEN "budget" ELSE Served[e]]
  BY DEF record
<1>2. UNCHANGED <<raw, rolled>>
  BY DEF record, ServerKept
<1>3. PICK o \in Outcomes : kind' = [kind EXCEPT ![e] = o]
  <2>1. (IF pub >= BudgetLimit THEN "budget" ELSE Served[e]) \in Outcomes
    BY MeteringAssumption
  <2> QED
    BY <1>1, <2>1
<1>4. RecordInv /\ RecordTypes
  BY Parts DEF RecordInv
<1>5. kind'[e] = o /\ \A d \in Events : d # e => kind'[d] = kind[d]
  BY <1>3, <1>4 DEF RecordTypes
<1>6. Happened' = Happened \cup {e} /\ e \notin Happened /\ Happened \subseteq Events
  BY <1>1, <1>5, MeteringAssumption DEF Happened
<1>7. raw[e] = 0
  BY <1>4, <1>6 DEF RecordInv, RecordTypes
<1> DEFINE Of(u) == {d \in Happened : kind[d] = u}
           Now(u) == {d \in Happened' : kind'[d] = u}
<1>8. Now(o) = Of(o) \cup {e} /\ e \notin Of(o)
  BY <1>5, <1>6
<1>9. \A u \in Outcomes : u # o => Now(u) = Of(u)
  BY <1>5, <1>6
<1>10. \A u : Of(u) \in SUBSET Events
  BY <1>6
<1>11. /\ \A u : Count(Happened, u) = Cardinality(Of(u))
       /\ \A u : Count(Happened, u)' = Cardinality(Now(u))
       /\ \A u : RowsOf(Happened, u) = SumOf(Of(u), raw)
       /\ \A u : RowsOf(Happened, u)' = SumOf(Now(u), raw)
  BY <1>2 DEF Count, RowsOf, SumOf, Tallies
<1> HIDE DEF Of, Now
<1>12. IsFiniteSet(Of(o)) /\ Cardinality(Of(o)) \in Nat /\ Cardinality(Now(o)) = Cardinality(Of(o)) + 1
  <2>1. IsFiniteSet(Of(o))
    BY <1>10, MeteringAssumption, FS_Subset
  <2> QED
    BY <1>8, <2>1, FS_AddElement, FS_CardinalityType
<1>13. \A u \in Outcomes : Count(Happened, u)' = IF u = o THEN Count(Happened, u) + 1 ELSE Count(Happened, u)
  BY <1>9, <1>11, <1>12
<1>14. SumOf(Now(o), raw) = SumOf(Of(o), raw)
  <2>1. Of(o) \subseteq Now(o) /\ \A d \in Now(o) \ Of(o) : raw[d] = 0
    BY <1>7, <1>8
  <2> QED
    BY <2>1, SumSame
<1>15. \A u \in Outcomes : RowsOf(Happened, u)' = RowsOf(Happened, u)
  BY <1>9, <1>11, <1>14
<1>16. \A u \in Outcomes : SumOf(Hours, Hourly(u))' = SumOf(Hours, Hourly(u))
  BY <1>2 DEF Hourly, SumOf, Tallies, Succeeded, Hours
<1>17. \A u \in Outcomes : timeseries_rows(u)' = timeseries_rows(u)
  BY <1>15, <1>16 DEF timeseries_rows, Hourly
<1>18. ChartedBy' = ChartedBy
  BY <1>17 DEF ChartedBy
<1>19. HappenedBy' = [HappenedBy EXCEPT ![o] = HappenedBy[o] + 1]
  BY <1>13 DEF HappenedBy
<1> QED
  BY <1>18, <1>19 DEF Ledger!Happen

\* A batch that is written is charted: each request in it once, the deleted
\* principal's not at all.
LEMMA LedgerCharge ==
    ASSUME IInv, NEW i \in DOMAIN ingest, post_usage(i)
    PROVE  Ledger!Charge \/ (HappenedBy' = HappenedBy /\ ChartedBy' = ChartedBy)
<1> DEFINE new == ingest[i].events \ orphans
           one == [e \in Events |-> IF e \in new THEN 1 ELSE 0]
           Of(o) == {e \in Happened : kind[e] = o}
<1>1. raw' = [e \in Events |-> IF e \in new THEN raw[e] + 1 ELSE raw[e]] /\ UNCHANGED <<kind, rolled>>
  BY DEF post_usage, ClientKept
<1>2. RecordInv /\ RecordTypes /\ BucketsSound /\ RecordInv'
  <2>1. IInv'
    BY PostUsageStep
  <2>2. RecordInv'
    BY <2>1 DEF IInv, TypeOK, NothingInvented, RecordInv, RecordTypes
  <2> QED
    BY <2>2, Parts DEF RecordInv
<1>3. Happened' = Happened /\ Happened \subseteq Events
  BY <1>1 DEF Happened
<1>4. HappenedBy' = HappenedBy
  BY <1>1, <1>3 DEF HappenedBy, Count
<1>5. ASSUME NEW o \in Outcomes
      PROVE  /\ timeseries_rows(o) \in Nat /\ timeseries_rows(o)' \in Nat
             /\ timeseries_rows(o) <= timeseries_rows(o)'
             /\ timeseries_rows(o)' - timeseries_rows(o) <= Count(Happened, o)
  <2>1. Of(o) \in SUBSET Events
    BY <1>3
  <2>2. IsFiniteSet(Of(o)) /\ Summable(Of(o), raw)
    BY <1>2, <2>1, RowsCounted DEF Summable
  <2>3. Summable(Of(o), one) /\ \A e \in Of(o) : one[e] <= 1
    BY <2>1, <2>2 DEF Summable
  <2>4. \A e \in Of(o) : raw'[e] = raw[e] + one[e]
    BY <1>1, <1>2, <2>1 DEF RecordTypes
  <2>5. RowsOf(Happened, o) = SumOf(Of(o), raw) /\ RowsOf(Happened, o)' = SumOf(Of(o), raw')
    BY <1>1, <1>3 DEF RowsOf, SumOf, Tallies
  <2>6. Count(Happened, o) = Cardinality(Of(o))
    BY DEF Count
  <2> HIDE DEF one, Of, new
  <2>7. SumOf(Of(o), raw') = SumOf(Of(o), raw) + SumOf(Of(o), one)
    BY <2>2, <2>3, <2>4, SumPlus
  <2>8. SumOf(Of(o), one) \in Nat /\ SumOf(Of(o), one) <= Cardinality(Of(o)) /\ Cardinality(Of(o)) \in Nat
    BY <2>2, <2>3, SumType, SumOnes, FS_CardinalityType
  <2>9. /\ SumOf(Hours, Hourly(o)) \in Nat /\ RowsOf(Happened, o) \in Nat
        /\ timeseries_rows(o) = RowsOf(Happened, o) + SumOf(Hours, Hourly(o))
    BY <1>2, ChartsCount
  <2>10. timeseries_rows(o)' = RowsOf(Happened, o)' + SumOf(Hours, Hourly(o))
    <3>1. SumOf(Hours, Hourly(o))' = SumOf(Hours, Hourly(o))
      BY <1>1 DEF Hourly, SumOf, Tallies, Succeeded, Hours
    <3>2. timeseries_rows(o)' = RowsOf(Happened, o)' + SumOf(Hours, Hourly(o))'
      BY DEF timeseries_rows, Hourly
    <3> QED
      BY <3>1, <3>2
  <2> QED
    BY <2>5, <2>6, <2>7, <2>8, <2>9, <2>10
<1>6. /\ ChartedBy' \in [Outcomes -> Nat]
      /\ \A o \in Outcomes : ChartedBy[o] <= ChartedBy'[o] /\ ChartedBy'[o] - ChartedBy[o] <= HappenedBy[o]
  BY <1>5 DEF ChartedBy, HappenedBy
<1> QED
  BY <1>4, <1>6 DEF Ledger!Charge

\* Rolling up moves rows into buckets and changes no count.
LEMMA LedgerRollUp ==
    ASSUME IInv, roll_up_and_prune_usage
    PROVE  HappenedBy' = HappenedBy /\ ChartedBy' = ChartedBy
<1> DEFINE old == Old(clock - Retention + 1)
           In(h) == {e \in old : Hour(e) = h}
<1>1. /\ old \in SUBSET Happened
      /\ raw' = [e \in Events |-> IF e \in old THEN 0 ELSE raw[e]]
      /\ \A h \in Hours : rolled'[h] = IF In(h) = {} THEN rolled[h] ELSE Folded(h, In(h))
      /\ UNCHANGED <<kind, at>>
  BY DEF roll_up_and_prune_usage, Old, ClientKept
<1>2. RecordInv /\ RecordTypes /\ BucketsSound
  BY Parts DEF RecordInv
<1>3. Happened' = Happened /\ Hours' = Hours /\ Happened \subseteq Events
  BY <1>1 DEF Happened, Hours
<1>4. HappenedBy' = HappenedBy
  BY <1>1, <1>3 DEF HappenedBy, Count
<1>5. /\ \A h \in Hours : In(h) \in SUBSET Happened
      /\ \A h, k \in Hours : h # k => In(h) \cap In(k) = {}
      /\ \A e \in old : e \in In(Hour(e))
  BY <1>1
<1>6. \A e \in old : Hour(e) \in Hours
  BY <1>1, <1>2, <1>3, MeteringAssumption DEF Hour, Hours, RecordTypes
<1>7. \A h \in Hours, e \in old : e \in In(h) => e \in old
  OBVIOUS
<1>8. \A h \in Hours : In(h) \subseteq old
  OBVIOUS
<1> HIDE DEF old, In
<1>9. ASSUME NEW o \in Outcomes PROVE timeseries_rows(o)' = timeseries_rows(o)
  <2> DEFINE moved == [h \in Hours |-> RowsOf(In(h), o)]
             Of(S) == {e \in S : kind[e] = o}
             G == [h \in Hours |-> Of(In(h))]
  <2>1. ASSUME NEW h \in Hours
        PROVE  (IF o # "ok" THEN rolled'[h].failed[o] ELSE Succeeded(rolled'[h])) = Hourly(o)[h] + moved[h]
    <3>1. Hourly(o)[h] = IF o # "ok" THEN rolled[h].failed[o] ELSE Succeeded(rolled[h])
      BY DEF Hourly
    <3>2. Hourly(o)[h] \in Nat
      BY <1>2, ChartsCount DEF Summable
    <3>3. CASE In(h) = {}
      <4>1. moved[h] = 0
        <5>1. Of(In(h)) = {}
          BY <3>3
        <5> QED
          BY <5>1, SumZero DEF RowsOf
      <4> QED
        BY <1>1, <3>1, <3>2, <3>3, <4>1
    <3>4. CASE In(h) # {}
      <4>1. rolled'[h] = Folded(h, In(h))
        BY <1>1, <3>4
      <4>2. /\ \A u \in Failing : Folded(h, In(h)).failed[u] = rolled[h].failed[u] + RowsOf(In(h), u)
            /\ Succeeded(Folded(h, In(h))) = Succeeded(rolled[h]) + RowsOf(In(h), "ok")
        BY <1>2, <1>5, Folding
      <4> QED
        BY <3>1, <4>1, <4>2 DEF Failing
    <3> QED
      BY <3>3, <3>4
  <2>2. \A h \in Hours : Hourly(o)'[h] = Hourly(o)[h] + moved[h]
    BY <1>3, <2>1 DEF Hourly, Succeeded, SumOf, Tallies
  <2>3. /\ Summable(Hours, Hourly(o)) /\ SumOf(Hours, Hourly(o)) \in Nat /\ RowsOf(Happened, o) \in Nat
        /\ timeseries_rows(o) = RowsOf(Happened, o) + SumOf(Hours, Hourly(o))
    BY <1>2, ChartsCount
  <2>4. Of(old) \in SUBSET Events /\ Of(Happened \ old) \in SUBSET Events /\ Of(old) \cap Of(Happened \ old) = {}
    BY <1>1, <1>3
  <2>5. Of(Happened) = Of(old) \cup Of(Happened \ old)
    BY <1>1
  <2>6. Summable(Of(old), raw) /\ Summable(Of(Happened \ old), raw)
    BY <1>2, <2>4, RowsCounted
  <2>7. SumOf(Hours, moved) = SumOf(Of(old), raw) /\ Summable(Hours, moved)
    <3>1. \A h \in Hours : G[h] \subseteq Of(old) /\ moved[h] = SumOf(G[h], raw) /\ moved[h] \in Nat
      <4>1. \A h \in Hours : In(h) \in SUBSET Events
        BY <1>3, <1>5
      <4> QED
        BY <1>2, <1>8, <4>1, RowsCounted DEF RowsOf
    <3>2. \A h, k \in Hours : h # k => G[h] \cap G[k] = {}
      BY <1>5
    <3>3. \A e \in Of(old) : \E h \in Hours : e \in G[h]
      BY <1>5, <1>6
    <3>4. IsFiniteSet(Hours)
      BY <2>3 DEF Summable
    <3>5. Summable(Hours, moved)
      BY <3>1, <3>4 DEF Summable
    <3> HIDE DEF moved, Of, G
    <3> QED
      BY <2>6, <3>1, <3>2, <3>3, <3>4, <3>5, SumGroups
  <2>8. RowsOf(Happened, o) = SumOf(Of(Happened), raw) /\ RowsOf(Happened, o)' = SumOf(Of(Happened), raw')
    BY <1>1, <1>3 DEF RowsOf, SumOf, Tallies
  <2>9. SumOf(Of(Happened \ old), raw) = SumOf(Of(Happened), raw')
    <3>1. /\ Of(Happened \ old) \subseteq Of(Happened)
          /\ \A e \in Of(Happened \ old) : raw[e] = raw'[e]
          /\ \A e \in Of(Happened) \ Of(Happened \ old) : raw'[e] = 0
      BY <1>1, <1>3
    <3> HIDE DEF Of
    <3> QED
      BY <3>1, SumSame
  <2> HIDE DEF Of, moved, G
  <2>10. SumOf(Of(Happened), raw) = SumOf(Of(old), raw) + SumOf(Of(Happened \ old), raw)
    BY <2>4, <2>5, <2>6, SumSplit
  <2>11. SumOf(Hours, Hourly(o)') = SumOf(Hours, Hourly(o)) + SumOf(Hours, moved)
    BY <2>2, <2>3, <2>7, SumPlus
  <2>12. SumOf(Of(old), raw) \in Nat /\ SumOf(Of(Happened \ old), raw) \in Nat
    BY <2>6, SumType
  <2>13. timeseries_rows(o)' = RowsOf(Happened, o)' + SumOf(Hours, Hourly(o)')
    BY <1>3 DEF timeseries_rows, Hourly, SumOf, Tallies
  <2> QED
    BY <2>3, <2>7, <2>8, <2>9, <2>10, <2>11, <2>12, <2>13
<1>10. ChartedBy' = ChartedBy
  BY <1>9 DEF ChartedBy
<1> QED
  BY <1>4, <1>10

\* Every step is the ledger's or none.
LEMMA LedgerStep == IInv /\ [Next]_vars => [Ledger!Next]_<<HappenedBy, ChartedBy>>
<1> SUFFICES ASSUME IInv, [Next]_vars
             PROVE  Ledger!Next \/ (HappenedBy' = HappenedBy /\ ChartedBy' = ChartedBy)
  OBVIOUS
<1>1. CASE UNCHANGED <<kind, raw, rolled>>
  BY <1>1, LedgerStutter
<1>2. CASE \E p \in Proxies : record(p)
  BY <1>2, LedgerHappen DEF Ledger!Next
<1>3. CASE \E i \in DOMAIN ingest : post_usage(i)
  BY <1>3, LedgerCharge DEF Ledger!Next
<1>4. CASE roll_up_and_prune_usage
  BY <1>4, LedgerRollUp
<1>5. CASE UNCHANGED vars
  BY <1>1, <1>5 DEF vars
<1>6. ASSUME NEW p \in Proxies,
             Receive(p) \/ FlushTick(p) \/ BackoffOver(p) \/ Answered(p) \/ flush_now(p) \/ attempt_failed(p) \/ Crash(p)
      PROVE  UNCHANGED <<kind, raw, rolled>>
  BY <1>6 DEF Receive, FlushTick, BackoffOver, Answered, flush_now, attempt_failed, Crash, ServerKept
<1>7. ASSUME NEW i \in DOMAIN ingest, apply_usage_to_budgets(i) \/ post_usage_refused(i)
      PROVE  UNCHANGED <<kind, raw, rolled>>
  BY <1>7 DEF apply_usage_to_budgets, post_usage_refused, ClientKept
<1>8. ASSUME Build \/ Tick PROVE UNCHANGED <<kind, raw, rolled>>
  BY <1>8 DEF Build, BuildRead, roll_over_and_load_budgets, Tick, ClientKept, ServerKept
<1> QED
  BY <1>1, <1>2, <1>3, <1>4, <1>5, <1>6, <1>7, <1>8, NextCases

\* The charts implement the ledger, for every set of proxies, requests and
\* outcomes: retries, crashes, roll-ups and the way buckets are stored and taken
\* apart never lose or invent a request in any outcome's count
\* (ChartsKeepLedger; post_usage, roll_up_and_prune_usage, timeseries_rows).
THEOREM ChartsImplementLedger == Spec => ChartsKeepLedger
BY LedgerInit, LedgerStep, MeteringInvariant, PTL DEF Spec, ChartsKeepLedger, Ledger!Spec

-----------------------------------------------------------------------------
(***************************************************************************)
(* RateLimit.  Numbers.                                                    *)
(***************************************************************************)

\* Multiplication by what is not negative keeps the order.
LEMMA MulMono ==
    ASSUME NEW a \in Int, NEW b \in Int, NEW m \in Nat, a <= b
    PROVE  m * a <= m * b /\ a * m <= b * m
OBVIOUS

\* The quotient rounds down.
LEMMA DivDef ==
    ASSUME NEW x \in Int, NEW m \in Nat \ {0}
    PROVE  x \div m \in Int /\ m * (x \div m) <= x /\ x < m * (x \div m) + m
OBVIOUS

LEMMA DivLeast ==
    ASSUME NEW x \in Int, NEW m \in Nat \ {0}, NEW q \in Int, m * q <= x
    PROVE  q <= x \div m
<1> DEFINE z == x \div m
<1>1. z \in Int /\ m * z <= x /\ x < m * z + m
  BY DivDef
<1> HIDE DEF z
<1>2. CASE q >= z + 1
  <2>1. m * (z + 1) <= m * q
    BY <1>1, <1>2, MulMono
  <2>2. m * (z + 1) = m * z + m
    BY <1>1
  <2> QED
    BY <1>1, <2>1, <2>2
<1> QED
  BY <1>1, <1>2 DEF z

LEMMA DivPlus ==
    ASSUME NEW x \in Int, NEW y \in Int, NEW m \in Nat \ {0}
    PROVE  (x \div m) + (y \div m) <= (x + y) \div m
<1> DEFINE p == x \div m
           q == y \div m
<1>1. p \in Int /\ m * p <= x /\ q \in Int /\ m * q <= y
  BY DivDef
<1> HIDE DEF p, q
<1>2. m * (p + q) = m * p + m * q
  BY <1>1
<1>3. p + q <= (x + y) \div m
  BY <1>1, <1>2, DivLeast
<1> QED
  BY <1>3 DEF p, q

LEMMA DivMono ==
    ASSUME NEW x \in Int, NEW y \in Int, NEW m \in Nat \ {0}, x <= y
    PROVE  x \div m <= y \div m
<1> DEFINE p == x \div m
<1>1. p \in Int /\ m * p <= x
  BY DivDef
<1> HIDE DEF p
<1>2. p <= y \div m
  BY <1>1, DivLeast
<1> QED
  BY <1>2 DEF p

\* A sum of one.
LEMMA SumSingle ==
    ASSUME NEW x, NEW f, f[x] \in Nat
    PROVE  SumOf({x}, f) = f[x]
<1>1. Tallies({x}, f) = {x} \X (1 .. f[x])
  BY DEF Tallies
<1> QED
  BY <1>1, OwnTallies DEF SumOf

\* One more to add.
LEMMA SumAdd ==
    ASSUME NEW S, NEW x, x \notin S, NEW f, Summable(S, f), f[x] \in Nat
    PROVE  Summable(S \cup {x}, f) /\ SumOf(S \cup {x}, f) = SumOf(S, f) + f[x]
<1>1. Summable({x}, f)
  BY FS_Singleton DEF Summable
<1>2. Summable(S \cup {x}, f)
  BY <1>1, FS_Union DEF Summable
<1>3. SumOf(S \cup {x}, f) = SumOf(S, f) + SumOf({x}, f)
  BY <1>1, SumSplit
<1> QED
  BY <1>2, <1>3, SumSingle

\* What is added is within the sum.
LEMMA SumMember ==
    ASSUME NEW S, NEW x \in S, NEW f, Summable(S, f)
    PROVE  f[x] \in Nat /\ f[x] <= SumOf(S, f)
<1> DEFINE T == S \ {x}
<1>1. T \cup {x} = S /\ x \notin T /\ Summable(T, f) /\ f[x] \in Nat
  BY FS_Difference DEF Summable
<1>2. SumOf(T, f) \in Nat
  BY <1>1, SumType
<1>3. SumOf(T \cup {x}, f) = SumOf(T, f) + f[x]
  <2> HIDE DEF T
  <2> QED
    BY <1>1, SumAdd
<1>4. SumOf(S, f) = SumOf(T, f) + f[x]
  BY <1>1, <1>3
<1> HIDE DEF T
<1> QED
  BY <1>1, <1>2, <1>4

\* What holds of each number, up to a constant, holds of the sum, up to as many
\* constants: a least set of which it did not hold would lose a member.
LEMMA SumBelow ==
    ASSUME NEW S, NEW f, NEW g, Summable(S, f), Summable(S, g), NEW a \in Nat, NEW b \in Nat, NEW t \in Nat,
           \A x \in S : a * f[x] <= b * g[x] + t
    PROVE  a * SumOf(S, f) <= b * SumOf(S, g) + t * Cardinality(S)
<1> DEFINE Holds(T) == a * SumOf(T, f) <= b * SumOf(T, g) + t * Cardinality(T)
           bad == {n \in Nat : \E T \in SUBSET S : Cardinality(T) = n /\ ~Holds(T)}
<1>1. ASSUME NEW T \in SUBSET S PROVE Summable(T, f) /\ Summable(T, g) /\ IsFiniteSet(T) /\ Cardinality(T) \in Nat
  BY FS_Subset, FS_CardinalityType DEF Summable
<1>2. CASE bad # {}
  <2>1. PICK n \in bad : \A k \in bad : n <= k
    BY <1>2, LeastNat
  <2>2. PICK T \in SUBSET S : Cardinality(T) = n /\ ~Holds(T)
    BY <2>1
  <2>3. CASE T = {}
    <3>1. SumOf(T, f) = 0 /\ SumOf(T, g) = 0
      BY <2>3, SumZero
    <3>2. Cardinality(T) = 0
      BY <2>3, FS_EmptySet
    <3> QED
      BY <2>2, <3>1, <3>2
  <2>4. CASE T # {}
    <3>1. PICK x : x \in T
      BY <2>4
    <3> DEFINE U == T \ {x}
    <3>2. U \in SUBSET S /\ x \notin U /\ U \cup {x} = T /\ x \in S
      BY <3>1
    <3>3. Cardinality(U) = n - 1 /\ n \in Nat /\ n - 1 \in Nat
      <4>1. Cardinality(U) = Cardinality(T) - 1
        BY <1>1, <3>1, FS_RemoveElement
      <4>2. Cardinality(U) \in Nat
        BY <1>1, <3>2
      <4> QED
        BY <2>2, <4>1, <4>2
    <3> HIDE DEF U
    <3>4. Holds(U)
      <4>1. n - 1 \notin bad
        BY <2>1, <3>3
      <4> QED
        BY <3>2, <3>3, <4>1
    <3>5. /\ Summable(U, f) /\ Summable(U, g) /\ f[x] \in Nat /\ g[x] \in Nat
          /\ SumOf(U, f) \in Nat /\ SumOf(U, g) \in Nat
      BY <1>1, <3>2, SumType DEF Summable
    <3>6. SumOf(T, f) = SumOf(U, f) + f[x] /\ SumOf(T, g) = SumOf(U, g) + g[x]
      BY <3>2, <3>5, SumAdd
    <3>7. a * SumOf(T, f) = a * SumOf(U, f) + a * f[x] /\ b * SumOf(T, g) = b * SumOf(U, g) + b * g[x]
      BY <3>5, <3>6
    <3>8. t * Cardinality(T) = t * Cardinality(U) + t
      <4>1. Cardinality(T) = Cardinality(U) + 1
        BY <2>2, <3>3
      <4> QED
        BY <3>3, <4>1
    <3>9. a * f[x] <= b * g[x] + t
      BY <3>2
    <3>10. /\ a * SumOf(U, f) \in Int /\ a * f[x] \in Int /\ b * SumOf(U, g) \in Int /\ b * g[x] \in Int
           /\ t * Cardinality(U) \in Int
      BY <3>3, <3>5
    <3> QED
      BY <2>2, <3>4, <3>7, <3>8, <3>9, <3>10
  <2> QED
    BY <2>3, <2>4
<1>3. CASE bad = {}
  <2>1. Cardinality(S) \in Nat /\ S \in SUBSET S
    BY <1>1
  <2> QED
    BY <1>3, <2>1
<1> QED
  BY <1>2, <1>3

\* A share is a part of the whole: in proportion to the demand, rounded to
\* nearest, and for the idle an equal one.
LEMMA ShareBounds ==
    ASSUME NEW mine \in Nat, NEW total \in Nat, mine <= total, NEW live \in Nat \ {0}
    PROVE  /\ share_of(mine, total, live) \in 0 .. Scale
           /\ total # 0 /\ mine # 0 => (2 * total) * share_of(mine, total, live) <= (2 * Scale) * mine + total
           /\ total # 0 /\ mine = 0 => (2 * live) * share_of(mine, total, live) <= 2 * Scale + live
<1> DEFINE s == share_of(mine, total, live)
<1>0. Scale \in Nat /\ Scale # 0
  BY RateLimitAssumption
<1>1. CASE total = 0
  BY <1>0, <1>1 DEF share_of
<1>2. CASE total # 0 /\ mine = 0
  <2>1. s = (2 * Scale + live) \div (2 * live)
    BY <1>2 DEF share_of
  <2>2. 2 * Scale + live \in Nat /\ 2 * live \in Nat \ {0}
    BY <1>0
  <2> HIDE DEF s
  <2> DEFINE n == 2 * Scale + live
             m == 2 * live
  <2>3. s \in Int /\ m * s <= n /\ n < m * s + m
    <3>1. n \in Int /\ m \in Nat \ {0} /\ s = n \div m
      BY <2>1, <2>2
    <3> HIDE DEF n, m
    <3> QED
      BY <3>1, DivDef
  <2>4. 0 <= s
    <3>1. CASE s <= -1
      <4>1. (2 * live) * s <= (2 * live) * (-1)
        BY <2>2, <2>3, <3>1, MulMono
      <4> QED
        BY <1>0, <2>2, <2>3, <4>1
    <3> QED
      BY <2>3, <3>1
  <2>5. s <= Scale
    <3>1. CASE s >= Scale + 1
      <4>1. (2 * live) * (Scale + 1) <= (2 * live) * s
        BY <1>0, <2>2, <2>3, <3>1, MulMono
      <4>2. (2 * live) * (Scale + 1) = 2 * (live * Scale) + 2 * live
        BY <1>0
      <4>3. 1 * Scale <= live * Scale
        BY <1>0, MulMono
      <4> QED
        BY <1>0, <2>3, <4>1, <4>2, <4>3
    <3> QED
      BY <1>0, <2>3, <3>1
  <2> QED
    BY <1>0, <1>2, <2>3, <2>4, <2>5 DEF s
<1>3. CASE total # 0 /\ mine # 0
  <2>1. s = (2 * mine * Scale + total) \div (2 * total)
    BY <1>3 DEF share_of
  <2>2. 2 * mine * Scale + total \in Nat /\ 2 * total \in Nat \ {0} /\ 2 * mine * Scale = (2 * Scale) * mine
    BY <1>0, <1>3
  <2> HIDE DEF s
  <2> DEFINE n == (2 * Scale) * mine + total
             m == 2 * total
  <2>3. s \in Int /\ m * s <= n /\ n < m * s + m
    <3>1. n \in Int /\ m \in Nat \ {0} /\ s = n \div m
      BY <2>1, <2>2
    <3> HIDE DEF n, m
    <3> QED
      BY <3>1, DivDef
  <2>4. 0 <= s
    <3>1. CASE s <= -1
      <4>1. (2 * total) * s <= (2 * total) * (-1)
        BY <2>2, <2>3, <3>1, MulMono
      <4> QED
        BY <1>0, <2>2, <2>3, <4>1
    <3> QED
      BY <2>3, <3>1
  <2>5. s <= Scale
    <3>1. CASE s >= Scale + 1
      <4>1. (2 * total) * (Scale + 1) <= (2 * total) * s
        BY <1>0, <2>2, <2>3, <3>1, MulMono
      <4>2. (2 * total) * (Scale + 1) = (2 * Scale) * total + 2 * total
        BY <1>0
      <4>3. (2 * Scale) * mine <= (2 * Scale) * total
        BY <1>0, MulMono
      <4>4. (2 * Scale) * mine \in Int /\ (2 * Scale) * total \in Int
        BY <1>0
      <4> QED
        BY <1>3, <2>3, <4>1, <4>2, <4>3, <4>4
    <3> QED
      BY <1>0, <2>3, <3>1
  <2> QED
    BY <1>0, <1>3, <2>3, <2>4, <2>5 DEF s
<1> QED
  BY <1>1, <1>2, <1>3

LEMMA MulCancel ==
    ASSUME NEW a \in Int, NEW b \in Int, NEW m \in Nat \ {0}, m * a <= m * b
    PROVE  a <= b
<1>1. CASE a >= b + 1
  <2>1. m * (b + 1) <= m * a
    BY <1>1, MulMono
  <2>2. m * (b + 1) = m * b + m
    OBVIOUS
  <2>3. m * a \in Int /\ m * b \in Int
    OBVIOUS
  <2> QED
    BY <2>1, <2>2, <2>3
<1> QED
  BY <1>1

-----------------------------------------------------------------------------
(***************************************************************************)
(* RateLimit.  The shares.                                                 *)
(***************************************************************************)

\* What the control plane adds up.
LEMMA Totals ==
    ASSUME NEW t \in [Replicas -> Reports \cup {None}], NEW d \in Dims
    PROVE  /\ IsFiniteSet(Live(t)) /\ Cardinality(Live(t)) \in Nat
           /\ Live(t) # {} => Cardinality(Live(t)) # 0
           /\ Summable(Live(t), [r \in Live(t) |-> t[r].counts[d]])
           /\ Total(t, d) \in Nat
           /\ \A r \in Live(t) : t[r] \in Reports /\ t[r].counts[d] \in Nat /\ t[r].counts[d] <= Total(t, d)
<1> DEFINE c == [r \in Live(t) |-> t[r].counts[d]]
<1>1. Live(t) \in SUBSET Replicas /\ \A r \in Live(t) : t[r] \in Reports /\ t[r].counts[d] \in Nat
  BY DEF Live, Reports
<1>2. IsFiniteSet(Live(t)) /\ Cardinality(Live(t)) \in Nat
  BY <1>1, FS_Subset, FS_CardinalityType, RateLimitAssumption
<1>3. Live(t) # {} => Cardinality(Live(t)) # 0
  BY <1>2, FS_EmptySet
<1>4. Summable(Live(t), c)
  BY <1>1, <1>2 DEF Summable
<1> HIDE DEF c
<1>5. SumOf(Live(t), c) \in Nat /\ \A r \in Live(t) : c[r] <= SumOf(Live(t), c)
  BY <1>4, SumType, SumMember
<1> QED
  BY <1>1, <1>2, <1>3, <1>4, <1>5 DEF c, Total

\* No replica is handed more than the whole.
LEMMA ShareType ==
    ASSUME NEW t \in [Replicas -> Reports \cup {None}], NEW r \in Live(t)
    PROVE  Share(t, r) \in [Dims -> 0 .. Scale]
<1>1. ASSUME NEW d \in Dims PROVE share_of(t[r].counts[d], Total(t, d), Cardinality(Live(t))) \in 0 .. Scale
  <2>1. /\ t[r].counts[d] \in Nat /\ Total(t, d) \in Nat /\ t[r].counts[d] <= Total(t, d)
        /\ Cardinality(Live(t)) \in Nat \ {0}
    BY Totals
  <2> QED
    BY <2>1, ShareBounds
<1> QED
  BY <1>1 DEF Share

LEMMA KeptType ==
    ASSUME NEW t \in [Replicas -> Reports \cup {None}]
    PROVE  Kept(t) \in [Replicas -> Reports \cup {None}]
BY DEF Kept

\* What a report leaves, and that its sender is among the living.
LEMMA ReportedType ==
    ASSUME NEW t \in [Replicas -> Reports \cup {None}], NEW r \in Replicas, NEW counts \in [Dims -> Nat]
    PROVE  /\ Reported(t, r, counts) \in [Replicas -> Reports \cup {None}]
           /\ r \in Live(Reported(t, r, counts))
<1> DEFINE mine == [counts |-> counts, age |-> 0]
           u == [t EXCEPT ![r] = mine]
<1>1. StaleAfter \in Nat /\ 0 < StaleAfter
  BY RateLimitAssumption
<1>2. mine \in Reports /\ mine.age = 0
  BY <1>1 DEF Reports
<1>3. mine # None
  BY <1>2, RateLimitAssumption
<1> HIDE DEF mine
<1>4. u \in [Replicas -> Reports \cup {None}] /\ u[r] = mine
  BY <1>2
<1>5. Reported(t, r, counts) = Kept(u)
  BY DEF Reported, mine
<1> HIDE DEF u
<1>6. Kept(u)[r] = mine
  BY <1>1, <1>2, <1>3, <1>4 DEF Kept
<1> QED
  BY <1>3, <1>4, <1>5, <1>6, KeptType DEF Live

\* The shares of a set of busy replicas, and of a set of idle ones.
LEMMA SharesSummed ==
    ASSUME NEW live, NEW f, NEW c, Summable(live, f), Summable(live, c),
           NEW n \in Nat \ {0}, n = Cardinality(live), NEW total \in Nat \ {0}, total = SumOf(live, c),
           NEW idle, idle = {r \in live : c[r] = 0},
           \A r \in live : c[r] # 0 => (2 * total) * f[r] <= (2 * Scale) * c[r] + total,
           \A r \in live : c[r] = 0 => (2 * n) * f[r] <= 2 * Scale + n
    PROVE  SumOf(live, f) <= Scale + n + (Scale * Cardinality(idle)) \div n
<1> DEFINE busy == live \ idle
           B == Cardinality(busy)
           I == Cardinality(idle)
           SB == SumOf(busy, f)
           SI == SumOf(idle, f)
           CB == SumOf(busy, c)
<1>0. Scale \in Nat
  BY RateLimitAssumption
<1>1. idle \in SUBSET live /\ busy \in SUBSET live /\ idle \cap busy = {} /\ busy \cup idle = live
  OBVIOUS
<1>2. Summable(idle, f) /\ Summable(busy, f) /\ Summable(idle, c) /\ Summable(busy, c)
  BY <1>1, FS_Subset DEF Summable
<1>6. \A r \in busy : (2 * total) * f[r] <= (2 * Scale) * c[r] + total
  OBVIOUS
<1>7. \A r \in idle : (2 * n) * f[r] <= 0 * c[r] + (2 * Scale + n)
  BY <1>0, <1>2 DEF Summable
<1> HIDE DEF busy
<1>3. IsFiniteSet(busy) /\ IsFiniteSet(idle) /\ B \in Nat /\ I \in Nat /\ SB \in Nat /\ SI \in Nat /\ CB \in Nat
  BY <1>2, SumType, FS_CardinalityType DEF Summable
<1>4. B + I = n
  <2>1. Cardinality(busy \cup idle) = B + I - Cardinality({})
    BY <1>1, <1>3, FS_Union
  <2>2. n = B + I - 0
    BY <1>1, <2>1, FS_EmptySet
  <2> QED
    BY <1>3, <2>2
<1>5. SumOf(live, f) = SB + SI /\ CB <= total
  <2>1. SumOf(busy \cup idle, f) = SB + SI /\ SumOf(busy \cup idle, c) = CB + SumOf(idle, c)
    BY <1>1, <1>2, SumSplit
  <2>2. SumOf(idle, c) \in Nat
    BY <1>2, SumType
  <2>3. SumOf(live, f) = SB + SI /\ total = CB + SumOf(idle, c)
    BY <1>1, <2>1
  <2> QED
    BY <1>3, <2>2, <2>3
<1>8. (2 * total) * SB <= (2 * Scale) * CB + total * B
  <2>1. 2 * total \in Nat /\ 2 * Scale \in Nat /\ total \in Nat
    BY <1>0
  <2> QED
    BY <1>2, <1>6, <2>1, SumBelow
<1>9. (2 * n) * SI <= (2 * Scale + n) * I
  <2>1. 0 \in Nat /\ 2 * n \in Nat /\ 2 * Scale + n \in Nat
    BY <1>0
  <2>2. (2 * n) * SI <= 0 * SumOf(idle, c) + (2 * Scale + n) * I
    BY <1>2, <1>7, <2>1, SumBelow
  <2>3. SumOf(idle, c) \in Nat
    BY <1>2, SumType
  <2> QED
    BY <1>0, <1>3, <2>2, <2>3
<1> HIDE DEF B, I, SB, SI, CB
<1>10. 2 * SB <= 2 * Scale + B
  <2>1. (2 * Scale) * CB <= (2 * Scale) * total
    BY <1>0, <1>3, <1>5, MulMono
  <2>2. (2 * total) * SB = total * (2 * SB) /\ (2 * Scale) * total + total * B = total * (2 * Scale + B)
    BY <1>0, <1>3
  <2>3. (2 * Scale) * CB \in Int /\ (2 * Scale) * total \in Int /\ total * B \in Int
    BY <1>0, <1>3
  <2>4. (2 * total) * SB <= (2 * Scale) * total + total * B
    <3>1. (2 * total) * SB \in Int
      BY <1>3
    <3> QED
      BY <1>8, <2>1, <2>3, <3>1
  <2>5. 2 * SB \in Int /\ 2 * Scale + B \in Int
    BY <1>0, <1>3
  <2> QED
    BY <2>2, <2>4, <2>5, MulCancel
<1>11. n * (2 * SB) <= n * (2 * Scale + B)
  BY <1>0, <1>3, <1>10, MulMono
<1> DEFINE q == SB + SI - Scale - n
<1>12. n * q <= Scale * I
  <2>1. n * (2 * SB) = 2 * (n * SB) /\ n * (2 * Scale + B) = 2 * (n * Scale) + n * B
    BY <1>0, <1>3
  <2>2. (2 * n) * SI = 2 * (n * SI) /\ (2 * Scale + n) * I = 2 * (Scale * I) + n * I
    BY <1>0, <1>3
  <2>3. n * B + n * I = n * n
    <3>1. n * B + n * I = n * (B + I)
      BY <1>3
    <3> QED
      BY <1>4, <3>1
  <2>4. n * q = n * SB + n * SI - n * Scale - n * n
    BY <1>0, <1>3
  <2>5. /\ n * SB \in Int /\ n * SI \in Int /\ n * Scale \in Int /\ n * B \in Int /\ n * I \in Int
        /\ Scale * I \in Int /\ n * n \in Nat
    BY <1>0, <1>3
  <2> QED
    BY <1>9, <1>11, <2>1, <2>2, <2>3, <2>4, <2>5
<1>13. q \in Int /\ Scale * I \in Int
  BY <1>0, <1>3
<1> HIDE DEF q
<1>14. q <= (Scale * I) \div n
  BY <1>12, <1>13, DivLeast
<1>15. (Scale * I) \div n \in Int
  BY <1>13, DivDef
<1>16. SB + SI <= Scale + n + (Scale * I) \div n
  BY <1>0, <1>3, <1>14, <1>15 DEF q
<1> QED
  BY <1>5, <1>16 DEF I

\* The shares the counts call for add up to the whole, but for the floor of the
\* idle replicas and the rounding.
LEMMA SharesAreTight == LimiterTypeOK => SharesTight
<1> SUFFICES ASSUME LimiterTypeOK, NEW d \in Dims, Live(Kept(table)) # {}, Total(Kept(table), d) # 0
             PROVE  LET t == Kept(table)
                        live == Live(t)
                        idle == {r \in live : t[r].counts[d] = 0}
                    IN  SumOf(live, [r \in live |-> share_of(t[r].counts[d], Total(t, d), Cardinality(live))])
                          <= Scale + Cardinality(live) + (Scale * Cardinality(idle)) \div Cardinality(live)
  BY DEF SharesTight
<1> DEFINE t == Kept(table)
           live == Live(t)
           n == Cardinality(live)
           total == Total(t, d)
           c == [r \in live |-> t[r].counts[d]]
           f == [r \in live |-> share_of(t[r].counts[d], total, n)]
           idle == {r \in live : c[r] = 0}
<1>1. t \in [Replicas -> Reports \cup {None}]
  BY KeptType DEF LimiterTypeOK
<1> HIDE DEF t
<1>2. /\ n \in Nat \ {0} /\ IsFiniteSet(live) /\ Summable(live, c) /\ total \in Nat \ {0}
      /\ \A r \in live : c[r] \in Nat /\ c[r] <= total
  BY <1>1, Totals DEF t
<1>3. total = SumOf(live, c)
  BY DEF Total
<1>4. idle = {r \in live : t[r].counts[d] = 0}
  OBVIOUS
<1>5. ASSUME NEW r \in live
      PROVE  /\ f[r] \in Nat
             /\ c[r] # 0 => (2 * total) * f[r] <= (2 * Scale) * c[r] + total
             /\ c[r] = 0 => (2 * n) * f[r] <= 2 * Scale + n
  <2>1. f[r] = share_of(c[r], total, n)
    OBVIOUS
  <2> HIDE DEF f, c, total, n, live
  <2>2. c[r] \in Nat /\ c[r] <= total /\ total \in Nat \ {0} /\ n \in Nat \ {0}
    BY <1>2
  <2>3. Scale \in Nat
    BY RateLimitAssumption
  <2> DEFINE m == c[r]
  <2>4. m \in Nat /\ m <= total /\ f[r] = share_of(m, total, n)
    BY <2>1, <2>2
  <2> HIDE DEF m
  <2>5. /\ share_of(m, total, n) \in 0 .. Scale
        /\ m # 0 => (2 * total) * share_of(m, total, n) <= (2 * Scale) * m + total
        /\ m = 0 => (2 * n) * share_of(m, total, n) <= 2 * Scale + n
    BY <2>2, <2>4, ShareBounds
  <2>6. f[r] \in 0 .. Scale
    BY <2>4, <2>5
  <2> QED
    BY <2>3, <2>4, <2>5, <2>6 DEF m
<1>6. Summable(live, f)
  BY <1>2, <1>5 DEF Summable
<1>7. SumOf(live, f) <= Scale + n + (Scale * Cardinality(idle)) \div n
  <2> HIDE DEF live, n, total, c, f, idle
  <2>1. n = Cardinality(live) /\ idle = {r \in live : c[r] = 0}
    BY DEF n, idle
  <2> QED
    BY <1>2, <1>3, <1>5, <1>6, <2>1, SharesSummed
<1> QED
  BY <1>4, <1>7 DEF t

-----------------------------------------------------------------------------
(***************************************************************************)
(* RateLimit.  A bucket.                                                   *)
(***************************************************************************)

\* A refill is within the capacity, and pays no more than its time.
LEMMA RefilledBounds ==
    ASSUME NEW b, b.available \in Nat, NEW capacity \in Nat, NEW elapsed \in Nat
    PROVE  /\ refilled(b, capacity, elapsed) \in Nat
           /\ refilled(b, capacity, elapsed) <= capacity
           /\ refilled(b, capacity, elapsed) <= b.available + (elapsed * capacity) \div Minute
<1> DEFINE n == elapsed * capacity
           q == n \div Minute
<1>1. Minute \in Nat \ {0} /\ n \in Nat
  BY RateLimitAssumption
<1>2. q \in Int /\ Minute * 0 <= n
  <2> HIDE DEF n
  <2> QED
    BY <1>1, DivDef
<1>3. 0 <= q
  <2> HIDE DEF n
  <2> QED
    BY <1>1, <1>2, DivLeast
<1>4. refilled(b, capacity, elapsed) = IF b.available + q > capacity THEN capacity ELSE b.available + q
  BY DEF refilled, Bounded
<1>5. q = (elapsed * capacity) \div Minute
  OBVIOUS
<1> HIDE DEF q
<1> QED
  BY <1>2, <1>3, <1>4, <1>5

\* Who waits as long as peek says finds enough.
LEMMA WaitingPays ==
    ASSUME NEW b, b.available \in Nat, b.since \in Nat, NEW capacity \in Nat, NEW amount \in Nat,
           amount <= capacity, ~peek(b, amount, capacity, 0)
    PROVE  refilled(b, capacity, Elapsed(b, 0) + retry_after(b, amount, capacity, 0)) >= amount
<1> DEFINE e == Elapsed(b, 0)
           n == e * capacity
           q == n \div Minute
           deficit == amount - refilled(b, capacity, e)
           k == deficit * Minute + capacity - 1
           w == k \div capacity
<1>1. Minute \in Nat \ {0} /\ e \in Nat
  BY RateLimitAssumption DEF Elapsed
<1>2. refilled(b, capacity, e) < amount /\ refilled(b, capacity, e) \in Nat
  <2>1. refilled(b, capacity, e) \in Nat
    <3> HIDE DEF e
    <3> QED
      BY <1>1, RefilledBounds
  <2> QED
    BY <2>1 DEF peek
<1>3. capacity # 0 /\ deficit \in Nat /\ deficit # 0
  BY <1>2
<1>4. retry_after(b, amount, capacity, 0) = w
  BY <1>3 DEF retry_after
<1> HIDE DEF e
<1>5. n \in Int /\ q \in Int /\ Minute * q <= n
  <2>1. n \in Int
    BY <1>1
  <2> HIDE DEF n
  <2> QED
    BY <1>1, <2>1, DivDef
<1>6. refilled(b, capacity, e) = b.available + q
  <2>1. refilled(b, capacity, e) = IF b.available + q > capacity THEN capacity ELSE b.available + q
    BY DEF refilled, Bounded
  <2> HIDE DEF q
  <2> QED
    BY <1>2, <2>1
<1>7. deficit = amount - (b.available + q)
  BY <1>6
<1> HIDE DEF deficit
<1>8. w \in Int /\ capacity * w >= Minute * deficit
  <2>1. k \in Int /\ capacity \in Nat \ {0}
    BY <1>1, <1>3
  <2>2. k + 1 = Minute * deficit + capacity
    BY <1>1, <1>3
  <2> HIDE DEF k
  <2>3. w \in Int /\ k < capacity * w + capacity
    BY <2>1, DivDef
  <2> HIDE DEF w
  <2>4. Minute * deficit \in Int /\ capacity * w \in Int
    BY <1>1, <1>3, <2>3
  <2> QED
    BY <2>1, <2>2, <2>3, <2>4
<1> DEFINE m == (e + w) * capacity
           z == m \div Minute
<1> HIDE DEF w
<1>9. m \in Int /\ Minute * (q + deficit) <= m
  <2>1. m = n + capacity * w
    BY <1>1, <1>8
  <2> HIDE DEF n, q
  <2>2. Minute * (q + deficit) = Minute * q + Minute * deficit
    BY <1>1, <1>3, <1>5
  <2>3. Minute * q \in Int /\ Minute * deficit \in Int /\ capacity * w \in Int
    BY <1>1, <1>3, <1>5, <1>8
  <2> QED
    BY <1>5, <1>8, <2>1, <2>2, <2>3
<1>10. q + deficit <= z /\ z \in Int
  <2> HIDE DEF m, q
  <2>1. q + deficit \in Int
    BY <1>3, <1>5
  <2> QED
    BY <1>1, <1>9, <2>1, DivLeast, DivDef
<1>11. refilled(b, capacity, e + w) = IF b.available + z > capacity THEN capacity ELSE b.available + z
  BY DEF refilled, Bounded
<1> HIDE DEF z, q
<1>12. refilled(b, capacity, e + w) >= amount
  BY <1>3, <1>5, <1>7, <1>10, <1>11
<1> QED
  BY <1>4, <1>12 DEF e

\* What an entry may hold of a plan.
LEMMA CapacityType ==
    ASSUME NEW e \in Entries, NEW plan \in Plans, NEW d \in Dims, plan[d] # None
    PROVE  Capacity(e, plan, d) \in Nat /\ plan[d] \in Nat
<1>1. plan[d] \in Nat /\ e.share[d] \in Nat /\ Minute \in Nat
  BY RateLimitAssumption DEF Entries
<1> QED
  BY <1>1 DEF Capacity, effective_capacity

LEMMA AmountType ==
    ASSUME NEW d \in Dims, NEW cost \in Costs
    PROVE  Amount(d, cost) \in Nat /\ Whole \in Nat /\ Amount(d, cost) * Whole \in Nat
<1>1. cost \in Nat /\ Minute \in Nat /\ Scale \in Nat
  BY RateLimitAssumption
<1>2. Amount(d, cost) \in Nat /\ Whole \in Nat
  BY <1>1 DEF Amount, Whole
<1> QED
  BY <1>2

\* No entry is a stand-in for nothing.
LEMMA EntryType ==
    ASSUME LimiterTypeOK, NEW r \in Replicas, entry[r] # None
    PROVE  entry[r] \in Entries
BY DEF LimiterTypeOK

LEMMA RetryAfterIsEnough == LimiterTypeOK => RetryAfterEnough
<1> SUFFICES ASSUME LimiterTypeOK, NEW r \in Replicas, NEW d \in Dims, NEW cost \in Costs, entry[r] # None, limits[d] # None,
                    Amount(d, cost) * Whole <= Capacity(entry[r], limits, d),
                    ~peek(entry[r].bucket[d], Amount(d, cost) * Whole, Capacity(entry[r], limits, d), 0)
             PROVE  LET b == entry[r].bucket[d]
                        capacity == Capacity(entry[r], limits, d)
                        amount == Amount(d, cost) * Whole
                    IN  refilled(b, capacity, Elapsed(b, 0) + retry_after(b, amount, capacity, 0)) >= amount
  BY DEF RetryAfterEnough
<1> DEFINE b == entry[r].bucket[d]
           capacity == Capacity(entry[r], limits, d)
           amount == Amount(d, cost) * Whole
<1>1. capacity \in Nat
  BY EntryType, CapacityType DEF LimiterTypeOK
<1>2. amount \in Nat
  BY AmountType
<1>3. b.available \in Nat /\ b.since \in Nat
  BY EntryType DEF Entries
<1> HIDE DEF b, capacity, amount
<1>4. amount <= capacity /\ ~peek(b, amount, capacity, 0)
  BY DEF amount, capacity, b
<1>5. refilled(b, capacity, Elapsed(b, 0) + retry_after(b, amount, capacity, 0)) >= amount
  BY <1>1, <1>2, <1>3, <1>4, WaitingPays
<1> QED
  BY <1>5 DEF amount, capacity, b

-----------------------------------------------------------------------------
(***************************************************************************)
(* RateLimit.  The log.                                                    *)
(***************************************************************************)

\* What is summed over a log is numbers.
LEMMA LogSummable ==
    ASSUME NEW log \in Seq(Admissions), NEW d \in Dims, NEW S \in SUBSET DOMAIN log
    PROVE  /\ Summable(S, [i \in DOMAIN log |-> Amount(d, log[i].cost)])
           /\ Summable(S, [i \in DOMAIN log |-> log[i].late[d]])
           /\ Spent(log, S, d) \in Nat /\ Late(log, S, d) \in Nat
<1> DEFINE f == [i \in DOMAIN log |-> Amount(d, log[i].cost)]
           g == [i \in DOMAIN log |-> log[i].late[d]]
<1>1. DOMAIN log = 1 .. Len(log) /\ Len(log) \in Nat /\ \A i \in DOMAIN log : log[i] \in Admissions
  OBVIOUS
<1>2. IsFiniteSet(S)
  <2>1. IsFiniteSet(1 .. Len(log))
    BY <1>1, FS_Interval
  <2> QED
    BY <1>1, <2>1, FS_Subset
<1>3. \A i \in S : f[i] \in Nat /\ g[i] \in Nat
  BY <1>1, AmountType DEF Admissions
<1>4. Summable(S, f) /\ Summable(S, g)
  BY <1>2, <1>3 DEF Summable
<1> HIDE DEF f, g
<1>5. SumOf(S, f) \in Nat /\ SumOf(S, g) \in Nat
  BY <1>4, SumType
<1> QED
  BY <1>4, <1>5 DEF f, g, Spent, Late

\* Logs that agree on some admissions agree on what those spent.
LEMMA LogSame ==
    ASSUME NEW log, NEW new, NEW d, NEW S, S \subseteq DOMAIN log, S \subseteq DOMAIN new,
           \A i \in S : new[i].cost = log[i].cost /\ new[i].late = log[i].late
    PROVE  Spent(new, S, d) = Spent(log, S, d) /\ Late(new, S, d) = Late(log, S, d)
<1>1. \A i \in S : [j \in DOMAIN new |-> Amount(d, new[j].cost)][i] = [j \in DOMAIN log |-> Amount(d, log[j].cost)][i]
  BY DEF Amount
<1>2. \A i \in S : [j \in DOMAIN new |-> new[j].late[d]][i] = [j \in DOMAIN log |-> log[j].late[d]][i]
  OBVIOUS
<1>3. Spent(new, S, d) = Spent(log, S, d)
  BY <1>1, SumSame DEF Spent
<1> QED
  BY <1>2, <1>3, SumSame DEF Late

\* One more admission.
LEMMA LogAppend ==
    ASSUME NEW log \in Seq(Admissions), NEW a \in Admissions, NEW d \in Dims, NEW i \in 1 .. Len(log) + 1
    PROVE  LET new == Append(log, a)
           IN  /\ Spent(new, i .. Len(new), d) = Spent(log, i .. Len(log), d) + Amount(d, a.cost)
               /\ Late(new, i .. Len(new), d) = Late(log, i .. Len(log), d) + a.late[d]
<1> DEFINE new == Append(log, a)
           n == Len(log)
           S == i .. n
           f == [j \in DOMAIN new |-> Amount(d, new[j].cost)]
           g == [j \in DOMAIN new |-> new[j].late[d]]
<1>1. /\ n \in Nat /\ new \in Seq(Admissions) /\ Len(new) = n + 1 /\ new[n + 1] = a
      /\ DOMAIN new = 1 .. n + 1 /\ DOMAIN log = 1 .. n /\ \A j \in 1 .. n : new[j] = log[j]
  OBVIOUS
<1>2. S \subseteq DOMAIN log /\ S \subseteq DOMAIN new /\ n + 1 \notin S /\ i .. n + 1 = S \cup {n + 1} /\ n + 1 \in DOMAIN new
  BY <1>1
<1>3. Summable(S, f) /\ Summable(S, g)
  BY <1>1, <1>2, LogSummable
<1>4. f[n + 1] = Amount(d, a.cost) /\ g[n + 1] = a.late[d]
  BY <1>1, <1>2
<1>5. f[n + 1] \in Nat /\ g[n + 1] \in Nat
  BY <1>4, AmountType DEF Admissions
<1>6. Spent(new, S, d) = Spent(log, S, d) /\ Late(new, S, d) = Late(log, S, d)
  <2>1. \A j \in S : new[j].cost = log[j].cost /\ new[j].late = log[j].late
    BY <1>1, <1>2
  <2> HIDE DEF new, S
  <2> QED
    BY <1>2, <2>1, LogSame
<1>7. SumOf(S, f) = Spent(new, S, d) /\ SumOf(S, g) = Late(new, S, d)
  BY DEF Spent, Late
<1>8. SumOf(S \cup {n + 1}, f) = Spent(new, S \cup {n + 1}, d) /\ SumOf(S \cup {n + 1}, g) = Late(new, S \cup {n + 1}, d)
  BY DEF Spent, Late
<1> HIDE DEF f, g, S, new
<1>9. SumOf(S \cup {n + 1}, f) = SumOf(S, f) + f[n + 1] /\ SumOf(S \cup {n + 1}, g) = SumOf(S, g) + g[n + 1]
  BY <1>2, <1>3, <1>5, SumAdd
<1>10. /\ Spent(new, i .. Len(new), d) = Spent(log, S, d) + Amount(d, a.cost)
       /\ Late(new, i .. Len(new), d) = Late(log, S, d) + a.late[d]
  BY <1>1, <1>2, <1>4, <1>6, <1>7, <1>8, <1>9
<1> QED
  BY <1>10 DEF S, new

\* No plan and no share gives more than the largest plan.
LEMMA WithinLargest ==
    ASSUME NEW p \in Plans, NEW q \in Plans, NEW d \in Dims, Largest(p, d), NEW share \in 0 .. Scale
    PROVE  /\ q[d] # None /\ effective_capacity(q[d], share) <= effective_capacity(p[d], Scale)
           /\ effective_capacity(p[d], Scale) \in Nat
<1>1. p[d] \in Nat /\ q[d] \in Nat /\ q[d] # None /\ q[d] <= p[d] /\ Minute \in Nat /\ Scale \in Nat /\ share \in Nat /\ share <= Scale
  BY RateLimitAssumption DEF Largest
<1>2. q[d] * share <= p[d] * share
  BY <1>1, MulMono
<1>3. p[d] * share <= p[d] * Scale
  BY <1>1, MulMono
<1>4. q[d] * share \in Nat /\ p[d] * share \in Nat /\ p[d] * Scale \in Nat
  BY <1>1
<1>5. q[d] * share <= p[d] * Scale
  BY <1>2, <1>3, <1>4
<1>6. (q[d] * share) * Minute <= (p[d] * Scale) * Minute /\ (p[d] * Scale) * Minute \in Nat
  BY <1>1, <1>4, <1>5, MulMono
<1> QED
  BY <1>1, <1>6 DEF effective_capacity

\* A charge: what was left and the refill pay for it.
LEMMA ChargePays ==
    ASSUME NEW b, b.available \in Nat, b.since \in Nat, NEW log \in Seq(Admissions), NEW d \in Dims, NEW L \in Nat,
           Pays(b, log, d, L), NEW capacity \in Nat, capacity <= L, NEW age \in 0 .. MaxSkew, NEW a \in Admissions,
           a.age = 0, a.late[d] = Rewound(b, age), NEW amount \in Nat, amount = Amount(d, a.cost) * Whole
    PROVE  Pays(commit(b, amount, capacity, age), Append(log, a), d, L)
<1> DEFINE new == Append(log, a)
           e == Elapsed(b, age)
           w == Rewound(b, age)
           R == refilled(b, capacity, e)
           c == commit(b, amount, capacity, age)
<1>1. e \in Nat /\ w \in Nat /\ e - w = b.since - age /\ age \in Nat /\ MaxSkew \in Nat /\ age <= MaxSkew
  BY RateLimitAssumption DEF Elapsed, Rewound
<1>2. Minute \in Nat \ {0} /\ Whole \in Nat
  BY RateLimitAssumption DEF Whole
<1>3. c.available = R - amount /\ c.since = age
  BY DEF commit
<1> HIDE DEF e, w
<1>4. R \in Nat /\ R <= capacity /\ R <= b.available + (e * capacity) \div Minute
  BY <1>1, RefilledBounds
<1>5. (e * capacity) \div Minute <= (e * L) \div Minute
  <2>1. e * capacity <= e * L /\ e * capacity \in Int /\ e * L \in Int
    BY <1>1, MulMono
  <2> QED
    BY <1>2, <2>1, DivMono
<1> HIDE DEF R, c
<1>6. c.available <= L
  BY <1>3, <1>4
<1>7. /\ Len(log) \in Nat /\ Len(new) = Len(log) + 1 /\ DOMAIN new = 1 .. Len(log) + 1 /\ DOMAIN log = 1 .. Len(log)
      /\ new[Len(log) + 1] = a /\ \A j \in 1 .. Len(log) : new[j] = log[j] /\ log[j] \in Admissions
  OBVIOUS
<1>8. ASSUME NEW i \in Recent(new)
      PROVE  Spent(new, i .. Len(new), d) * Whole + c.available
               <= L + ((new[i].age + MaxSkew - c.since + Late(new, i .. Len(new), d)) * L) \div Minute
  <2> DEFINE S == Spent(log, i .. Len(log), d)
             T == Late(log, i .. Len(log), d)
             U == Spent(new, i .. Len(new), d)
             V == Late(new, i .. Len(new), d)
             A == new[i].age
             X == A + MaxSkew - age + V
  <2>1. i \in 1 .. Len(log) + 1 /\ i .. Len(log) \in SUBSET DOMAIN log
    BY <1>7 DEF Recent
  <2>2. S \in Nat /\ T \in Nat
    BY <2>1, LogSummable
  <2>3. U = S + Amount(d, a.cost) /\ V = T + w
    BY <2>1, LogAppend DEF w
  <2>4. Amount(d, a.cost) \in Nat
    BY AmountType DEF Admissions
  <2>5. U * Whole = S * Whole + amount /\ S * Whole \in Nat
    BY <1>2, <2>2, <2>3, <2>4
  <2>6. A \in Nat
    BY <1>7, <2>1, RateLimitAssumption DEF Admissions
  <2> HIDE DEF S, T, U, V, A
  <2>7. X \in Int /\ X * L \in Int /\ (X * L) \div Minute \in Int
    <3>1. X \in Int
      BY <1>1, <2>2, <2>3, <2>6
    <3> HIDE DEF X
    <3>2. X * L \in Int
      BY <3>1
    <3> QED
      BY <1>2, <3>1, <3>2, DivDef
  <2>8. CASE i \in 1 .. Len(log)
    <3> DEFINE Y == A + MaxSkew - b.since + T
    <3>1. i \in Recent(log) /\ new[i] = log[i]
      BY <1>7, <2>8 DEF Recent
    <3>2. S * Whole + b.available <= L + (Y * L) \div Minute
      BY <3>1 DEF Pays, S, T, A
    <3>3. Y \in Int /\ X = Y + e
      <4>1. age \in Int /\ b.since \in Int /\ T \in Int /\ A \in Int /\ MaxSkew \in Int /\ w \in Int /\ e = b.since - age + w /\ V = T + w
        BY <1>1, <2>2, <2>3, <2>6
      <4>2. Y \in Int
        BY <4>1
      <4>3. X = A + MaxSkew - age + (T + w)
        BY <4>1
      <4>4. \A k, m, s, t, u, v \in Int : k + m - u + (t + v) = (k + m - s + t) + (s - u + v)
        OBVIOUS
      <4>5. A + MaxSkew - age + (T + w) = Y + (b.since - age + w)
        BY <4>1, <4>4
      <4> QED
        BY <4>1, <4>2, <4>3, <4>5
    <3> HIDE DEF X, Y
    <3>4. X * L = Y * L + e * L /\ Y * L \in Int /\ e * L \in Int
      BY <1>1, <3>3
    <3>5. (Y * L) \div Minute + (e * L) \div Minute <= (X * L) \div Minute
      BY <1>2, <3>4, DivPlus
    <3>6. (Y * L) \div Minute \in Int /\ (e * L) \div Minute \in Int /\ (e * capacity) \div Minute \in Int
      <4>1. e * capacity \in Int
        BY <1>1
      <4> QED
        BY <1>2, <3>4, <4>1, DivDef
    <3>7. U * Whole + c.available = S * Whole + R
      BY <1>3, <1>4, <2>5
    <3>8. S * Whole + R <= L + (X * L) \div Minute
      <4> DEFINE x == (X * L) \div Minute
                 y == (Y * L) \div Minute
                 z == (e * L) \div Minute
                 v == (e * capacity) \div Minute
                 s == S * Whole
      <4>1. /\ x \in Int /\ y \in Int /\ z \in Int /\ v \in Int /\ s \in Int
            /\ R <= b.available + v /\ v <= z /\ s + b.available <= L + y /\ y + z <= x
        BY <1>4, <1>5, <2>5, <2>7, <3>2, <3>5, <3>6
      <4> HIDE DEF x, y, z, v, s
      <4>2. s + R <= L + x
        BY <1>4, <4>1
      <4> QED
        BY <4>2 DEF x, s
    <3> QED
      BY <1>3, <3>7, <3>8 DEF X, A, U, V
  <2>9. CASE i = Len(log) + 1
    <3>1. S = 0
      <4>1. i .. Len(log) = {}
        BY <1>7, <2>9
      <4> QED
        BY <4>1, SumZero DEF Spent, S
    <3>2. 0 <= X
      BY <1>1, <2>2, <2>3, <2>6
    <3> HIDE DEF X
    <3>3. Minute * 0 <= X * L
      <4>1. L * 0 <= L * X
        BY <2>7, <3>2, MulMono
      <4> QED
        BY <1>2, <2>7, <4>1
    <3>4. 0 <= (X * L) \div Minute
      BY <1>2, <2>7, <3>3, DivLeast
    <3>5. U * Whole + c.available = R
      BY <1>2, <1>3, <1>4, <2>5, <3>1
    <3>6. U * Whole + c.available <= L + (X * L) \div Minute
      BY <1>4, <2>7, <3>4, <3>5
    <3> QED
      BY <1>3, <3>6 DEF X, A, U, V
  <2> QED
    BY <1>7, <2>1, <2>8, <2>9
<1> QED
  BY <1>6, <1>8 DEF Pays, c

\* A tick of the log: it is emptied, or every admission is a tick older.
LEMMA AgedLog ==
    ASSUME NEW log \in Seq(Admissions)
    PROVE  /\ Aged(log) \in Seq(Admissions)
           /\ \/ Aged(log) = <<>>
              \/ /\ DOMAIN Aged(log) = DOMAIN log /\ Len(Aged(log)) = Len(log)
                 /\ \A i \in DOMAIN log : /\ Aged(log)[i].cost = log[i].cost /\ Aged(log)[i].late = log[i].late
                                          /\ Aged(log)[i].age = Bounded(log[i].age + 1, Minute)
           /\ \A i \in Recent(Aged(log)) : i \in Recent(log) /\ Aged(log)[i].age = log[i].age + 1
<1> DEFINE older == [i \in DOMAIN log |-> [log[i] EXCEPT !.age = Bounded(@ + 1, Minute)]]
<1>0. Minute \in Nat
  BY RateLimitAssumption
<1>1. DOMAIN log = 1 .. Len(log) /\ Len(log) \in Nat /\ \A i \in DOMAIN log : log[i] \in Admissions
  OBVIOUS
<1>2. ASSUME NEW i \in DOMAIN log
      PROVE  /\ older[i] \in Admissions /\ older[i].cost = log[i].cost /\ older[i].late = log[i].late
             /\ older[i].age = Bounded(log[i].age + 1, Minute) /\ log[i].age \in 0 .. Minute
  <2> DEFINE v == Bounded(log[i].age + 1, Minute)
  <2>1. log[i] \in [age : 0 .. Minute, cost : Costs, late : [Dims -> Nat]]
    BY <1>1 DEF Admissions
  <2>2. v \in 0 .. Minute
    BY <1>0, <2>1 DEF Bounded
  <2>3. older[i] = [log[i] EXCEPT !.age = v]
    OBVIOUS
  <2> HIDE DEF older, v
  <2>4. /\ older[i] \in [age : 0 .. Minute, cost : Costs, late : [Dims -> Nat]] /\ older[i].age = v
        /\ older[i].cost = log[i].cost /\ older[i].late = log[i].late
    BY <2>1, <2>2, <2>3
  <2> QED
    BY <2>1, <2>4 DEF Admissions, v
<1>3. older \in Seq(Admissions) /\ DOMAIN older = DOMAIN log /\ Len(older) = Len(log)
  <2>1. older \in [1 .. Len(log) -> Admissions]
    BY <1>1, <1>2
  <2>2. DOMAIN older = 1 .. Len(log)
    BY <1>1
  <2> HIDE DEF older
  <2>3. older \in Seq(Admissions)
    BY <1>1, <2>1
  <2> QED
    BY <1>1, <2>2, <2>3
<1>4. Aged(log) = IF Recent(older) = {} THEN <<>> ELSE older
  BY DEF Aged
<1> HIDE DEF older
<1>5. ASSUME NEW i \in Recent(older) PROVE i \in Recent(log) /\ older[i].age = log[i].age + 1
  <2>1. i \in DOMAIN log /\ older[i].age < Minute
    BY <1>3, <1>5 DEF Recent
  <2>2. older[i].age = Bounded(log[i].age + 1, Minute) /\ log[i].age \in 0 .. Minute
    BY <1>2, <2>1
  <2> QED
    BY <1>0, <2>1, <2>2 DEF Bounded, Recent
<1>6. Recent(<<>>) = {} /\ <<>> \in Seq(Admissions)
  BY DEF Recent
<1>7. CASE Recent(older) = {}
  BY <1>4, <1>6, <1>7
<1>8. CASE Recent(older) # {}
  BY <1>2, <1>3, <1>4, <1>5, <1>8
<1> QED
  BY <1>7, <1>8

\* A tick of a bucket: what was spent is paid by as much time, or more.
LEMMA TickPays ==
    ASSUME NEW b \in [available : Nat, since : 0 .. IdleAfter], NEW log \in Seq(Admissions), NEW d \in Dims, NEW L \in Nat,
           Pays(b, log, d, L)
    PROVE  Pays([b EXCEPT !.since = Bounded(@ + 1, IdleAfter)], Aged(log), d, L)
<1> DEFINE c == [b EXCEPT !.since = Bounded(@ + 1, IdleAfter)]
           new == Aged(log)
<1>0. Minute \in Nat \ {0} /\ MaxSkew \in Nat /\ Whole \in Nat /\ IdleAfter \in Nat
  BY RateLimitAssumption DEF Whole
<1>1. c.available = b.available /\ c.since \in Nat /\ c.since <= b.since + 1 /\ b.available \in Nat /\ b.since \in Nat
  BY <1>0 DEF Bounded
<1> HIDE DEF c
<1>2. ASSUME NEW i \in Recent(new)
      PROVE  Spent(new, i .. Len(new), d) * Whole + c.available
               <= L + ((new[i].age + MaxSkew - c.since + Late(new, i .. Len(new), d)) * L) \div Minute
  <2>1. new # <<>>
    BY <1>2 DEF Recent
  <2>2. /\ DOMAIN new = DOMAIN log /\ Len(new) = Len(log) /\ i \in Recent(log) /\ new[i].age = log[i].age + 1
        /\ \A j \in DOMAIN log : new[j].cost = log[j].cost /\ new[j].late = log[j].late
    BY <1>2, <2>1, AgedLog
  <2> HIDE DEF new
  <2> DEFINE I == i .. Len(log)
  <2>3. I \in SUBSET DOMAIN log /\ log[i] \in Admissions
    BY <2>2 DEF Recent
  <2>4. Spent(new, I, d) = Spent(log, I, d) /\ Late(new, I, d) = Late(log, I, d)
    <3>1. \A j \in I : new[j].cost = log[j].cost /\ new[j].late = log[j].late
      BY <2>2, <2>3
    <3> HIDE DEF I
    <3> QED
      BY <2>2, <2>3, <3>1, LogSame
  <2> DEFINE S == Spent(log, I, d)
             T == Late(log, I, d)
             A == log[i].age
             Y == A + MaxSkew - b.since + T
             X == A + 1 + MaxSkew - c.since + T
  <2>5. S \in Nat /\ T \in Nat
    <3> HIDE DEF I
    <3> QED
      BY <2>3, LogSummable
  <2>6. A \in Nat
    BY <1>0, <2>3 DEF Admissions
  <2>7. S * Whole + b.available <= L + (Y * L) \div Minute
    BY <2>2 DEF Pays
  <2> HIDE DEF S, T, A, I
  <2>8. X \in Int /\ Y \in Int /\ Y <= X
    <3>1. \A k, m, s, u, v \in Int : u <= s + 1 =>
             /\ k + m - s + v \in Int /\ k + 1 + m - u + v \in Int /\ k + m - s + v <= k + 1 + m - u + v
      OBVIOUS
    <3>2. A \in Int /\ MaxSkew \in Int /\ b.since \in Int /\ c.since \in Int /\ T \in Int /\ c.since <= b.since + 1
      BY <1>0, <1>1, <2>5, <2>6
    <3> QED
      BY <3>1, <3>2
  <2> HIDE DEF X, Y
  <2>9. Y * L \in Int /\ X * L \in Int /\ Y * L <= X * L
    BY <2>8, MulMono
  <2>10. (Y * L) \div Minute <= (X * L) \div Minute /\ (Y * L) \div Minute \in Int /\ (X * L) \div Minute \in Int
    BY <1>0, <2>9, DivMono, DivDef
  <2>11. S * Whole \in Int
    BY <1>0, <2>5
  <2>12. S * Whole + c.available <= L + (X * L) \div Minute
    BY <1>1, <2>7, <2>10, <2>11
  <2>13. new[i].age = A + 1 /\ Spent(new, i .. Len(new), d) = S /\ Late(new, i .. Len(new), d) = T
    BY <2>2, <2>4 DEF A, S, T, I
  <2> QED
    BY <2>12, <2>13 DEF X
<1>3. c.available <= L
  BY <1>1 DEF Pays
<1> QED
  BY <1>2, <1>3 DEF Pays, c

-----------------------------------------------------------------------------
(***************************************************************************)
(* RateLimit.  A replica.                                                  *)
(***************************************************************************)

\* An entry and the log beside it.
ReplicaSound(e, log) ==
    /\ \A i, j \in DOMAIN log : i <= j => log[j].age <= log[i].age
    /\ \A i \in Recent(log) : e # None /\ e.idle <= log[i].age + MaxSkew
    /\ \A d \in Dims, p \in Plans :
          Largest(p, d) /\ e # None => Pays(e.bucket[d], log, d, effective_capacity(p[d], Scale))

LEMMA BySound ==
    LimiterIInv <=> LimiterTypeOK /\ ChecksKeepEntry /\ \A r \in Replicas : ReplicaSound(entry[r], admitted[r])
BY DEF LimiterIInv, LogOrdered, SweptIsQuiet, BucketPays, ReplicaSound

LEMMA BySoundPrimed ==
    ASSUME LimiterTypeOK', ChecksKeepEntry', \A r \in Replicas : ReplicaSound(entry'[r], admitted'[r])
    PROVE  LimiterIInv'
BY DEF LimiterIInv, LogOrdered, SweptIsQuiet, BucketPays, ReplicaSound

\* An entry with the same buckets, touched since or not.
LEMMA SoundTouched ==
    ASSUME NEW e, NEW f, NEW log \in Seq(Admissions), ReplicaSound(e, log), e # None, f # None, f.bucket = e.bucket,
           e.idle \in Nat, f.idle \in Nat, f.idle <= e.idle
    PROVE  ReplicaSound(f, log)
<1>1. ASSUME NEW i \in Recent(log) PROVE log[i].age \in Nat
  <2>1. i \in DOMAIN log
    BY DEF Recent
  <2>2. log[i] \in Admissions
    BY <2>1
  <2> QED
    BY <2>2, RateLimitAssumption DEF Admissions
<1>2. MaxSkew \in Nat
  BY RateLimitAssumption
<1>3. \A i \in Recent(log) : f # None /\ f.idle <= log[i].age + MaxSkew
  BY <1>1, <1>2 DEF ReplicaSound
<1> QED
  BY <1>3 DEF ReplicaSound

\* A full bucket beside a log with nothing in the last minute.
LEMMA SoundFull ==
    ASSUME NEW e, NEW log, Recent(log) = {}, \A i, j \in DOMAIN log : i <= j => log[j].age <= log[i].age,
           \A d \in Dims, p \in Plans : Largest(p, d) => e.bucket[d].available <= effective_capacity(p[d], Scale)
    PROVE  ReplicaSound(e, log)
BY DEF ReplicaSound, Pays

\* PrincipalState::new.
LEMMA FreshSound ==
    ASSUME limits \in Plans
    PROVE  /\ Fresh \in Entries /\ Fresh # None /\ Fresh.idle = 0 /\ \A d \in Dims : Fresh.bucket[d].since = 0
           /\ \A d \in Dims, p \in Plans : Largest(p, d) => Fresh.bucket[d].available <= effective_capacity(p[d], Scale)
<1>0. Scale \in Nat /\ IdleAfter \in Nat /\ Minute \in Nat
  BY RateLimitAssumption
<1>1. \A d \in Dims : limits[d] = None \/ limits[d] \in Nat
  BY RateLimitAssumption
<1>2. \A d \in Dims : limits[d] # None => effective_capacity(limits[d], Scale) \in Nat
  BY <1>0, <1>1 DEF effective_capacity
<1>3. Fresh \in Entries
  BY <1>0, <1>2 DEF Fresh, Entries
<1>4. Fresh.idle = 0 /\ \A d \in Dims : Fresh.bucket[d].since = 0
  BY DEF Fresh
<1>5. ASSUME NEW d \in Dims, NEW p \in Plans, Largest(p, d)
      PROVE  Fresh.bucket[d].available <= effective_capacity(p[d], Scale)
  <2>1. Scale \in 0 .. Scale
    BY <1>0
  <2>2. limits[d] # None /\ effective_capacity(limits[d], Scale) <= effective_capacity(p[d], Scale)
    BY <1>5, <2>1, WithinLargest
  <2>3. Fresh.bucket[d].available = effective_capacity(limits[d], Scale)
    BY <2>2 DEF Fresh
  <2> QED
    BY <2>2, <2>3
<1> QED
  BY <1>3, <1>4, <1>5, RateLimitAssumption

\* An admitted request: its entry is charged and the log has it.
LEMMA ChargeSound ==
    ASSUME NEW e \in Entries, NEW log \in Seq(Admissions), ReplicaSound(e, log), NEW k, k.cost \in Costs,
           k.age \in 0 .. MaxSkew, k.limits \in Plans, e.idle <= k.age, Short(e, k) = {},
           NEW a, a = [age |-> 0, cost |-> k.cost, late |-> [d \in Dims |-> Rewound(e.bucket[d], k.age)]]
    PROVE  /\ a \in Admissions /\ Append(log, a) \in Seq(Admissions)
           /\ Charged(e, k) \in Entries /\ Charged(e, k).idle = e.idle
           /\ ReplicaSound(Charged(e, k), Append(log, a))
<1> DEFINE new == Append(log, a)
           f == Charged(e, k)
           amount(d) == Amount(d, k.cost) * Whole
           c(d) == IF k.limits[d] = None THEN e.bucket[d]
                   ELSE commit(e.bucket[d], amount(d), Capacity(e, k.limits, d), k.age)
<1>0. /\ Minute \in Nat \ {0} /\ MaxSkew \in Nat /\ IdleAfter \in Nat /\ MaxSkew <= IdleAfter /\ k.age \in Nat
      /\ k.age <= MaxSkew /\ Scale \in Nat
  BY RateLimitAssumption
<1>1. \A d \in Dims : e.bucket[d] \in [available : Nat, since : 0 .. IdleAfter]
  BY DEF Entries
<1>2. \A d \in Dims : Rewound(e.bucket[d], k.age) \in Nat
  BY <1>0, <1>1 DEF Rewound
<1>3. a \in Admissions /\ a.age = 0 /\ a.cost = k.cost /\ \A d \in Dims : a.late[d] = Rewound(e.bucket[d], k.age)
  BY <1>0, <1>2 DEF Admissions
<1>4. f = [e EXCEPT !.bucket = [d \in Dims |-> c(d)]]
  BY DEF Charged
<1>5. ASSUME NEW d \in Dims
      PROVE  /\ c(d) \in [available : Nat, since : 0 .. IdleAfter]
             /\ k.limits[d] # None => Capacity(e, k.limits, d) \in Nat
             /\ amount(d) \in Nat
  <2>1. amount(d) \in Nat
    BY AmountType
  <2>2. CASE k.limits[d] = None
    BY <1>1, <2>1, <2>2
  <2>3. CASE k.limits[d] # None
    <3> DEFINE b == e.bucket[d]
               m == amount(d)
               cap == Capacity(e, k.limits, d)
               left == refilled(b, cap, Elapsed(b, k.age))
    <3>1. cap \in Nat
      BY <2>3, CapacityType
    <3>2. b.available \in Nat /\ b.since \in Nat
      BY <1>0, <1>1
    <3>3. Elapsed(b, k.age) \in Nat
      <4> HIDE DEF b
      <4> QED
        BY <1>0, <3>2 DEF Elapsed
    <3>4. left \in Nat
      <4> HIDE DEF b, cap
      <4> QED
        BY <3>1, <3>2, <3>3, RefilledBounds
    <3>5. left >= m
      <4>1. peek(b, m, cap, k.age)
        BY <2>3 DEF Short
      <4> QED
        BY <4>1 DEF peek
    <3>6. c(d) = [available |-> left - m, since |-> k.age]
      BY <2>3 DEF commit
    <3> HIDE DEF left, m, cap, b, c
    <3>7. left - m \in Nat /\ k.age \in 0 .. IdleAfter
      BY <1>0, <2>1, <3>4, <3>5 DEF m
    <3> QED
      BY <2>1, <3>1, <3>6, <3>7 DEF cap
  <2> QED
    BY <2>2, <2>3
<1> HIDE DEF c, f
<1>6. f \in Entries /\ f.idle = e.idle /\ \A d \in Dims : f.bucket[d] = c(d)
  BY <1>4, <1>5 DEF Entries
<1>7. f # None
  BY <1>6, RateLimitAssumption
<1>8. /\ Len(log) \in Nat /\ DOMAIN new = 1 .. Len(log) + 1 /\ DOMAIN log = 1 .. Len(log) /\ new \in Seq(Admissions)
      /\ new[Len(log) + 1] = a /\ \A j \in 1 .. Len(log) : new[j] = log[j] /\ log[j] \in Admissions
  BY <1>3
<1>9. \A j \in 1 .. Len(log) : log[j].age \in Nat
  BY <1>0, <1>8 DEF Admissions
<1> HIDE DEF new
<1>10. ASSUME NEW i \in DOMAIN new, NEW j \in DOMAIN new, i <= j PROVE new[j].age <= new[i].age
  <2>1. CASE j \in 1 .. Len(log)
    <3>1. i \in 1 .. Len(log)
      BY <1>8, <1>10, <2>1
    <3> QED
      BY <1>8, <1>10, <2>1, <3>1 DEF ReplicaSound
  <2>2. CASE j = Len(log) + 1
    BY <1>3, <1>8, <1>9, <2>2
  <2> QED
    BY <1>8, <2>1, <2>2
<1>11. ASSUME NEW i \in Recent(new) PROVE f # None /\ f.idle <= new[i].age + MaxSkew
  <2>1. e.idle \in Nat
    BY <1>0 DEF Entries
  <2>2. CASE i \in 1 .. Len(log)
    <3>1. i \in Recent(log) /\ new[i] = log[i]
      BY <1>8, <2>2, <1>11 DEF Recent
    <3> QED
      BY <1>6, <1>7, <3>1 DEF ReplicaSound
  <2>3. CASE i = Len(log) + 1
    BY <1>0, <1>3, <1>6, <1>7, <1>8, <2>1, <2>3
  <2> QED
    BY <1>8, <2>2, <2>3 DEF Recent
<1>12. ASSUME NEW d \in Dims, NEW p \in Plans, Largest(p, d)
       PROVE  Pays(f.bucket[d], new, d, effective_capacity(p[d], Scale))
  <2> DEFINE L == effective_capacity(p[d], Scale)
             cap == Capacity(e, k.limits, d)
             b == e.bucket[d]
             m == amount(d)
  <2>1. e.share[d] \in 0 .. Scale
    BY DEF Entries
  <2>2. k.limits[d] # None /\ cap <= L /\ L \in Nat
    BY <1>12, <2>1, WithinLargest DEF Capacity
  <2>3. e # None
    BY RateLimitAssumption
  <2>4. Pays(b, log, d, L)
    BY <1>12, <2>3 DEF ReplicaSound
  <2>5. b.available \in Nat /\ b.since \in Nat
    BY <1>0, <1>1
  <2>6. a.late[d] = Rewound(b, k.age) /\ m \in Nat /\ m = Amount(d, a.cost) * Whole /\ cap \in Nat
    BY <1>3, <1>5, <2>2
  <2>7. f.bucket[d] = commit(b, m, cap, k.age)
    BY <1>6, <2>2 DEF c
  <2> HIDE DEF L, cap, b, m
  <2>8. Pays(commit(b, m, cap, k.age), Append(log, a), d, L)
    BY <1>3, <2>2, <2>4, <2>5, <2>6, ChargePays
  <2> QED
    BY <2>7, <2>8 DEF L, new
<1> QED
  BY <1>3, <1>6, <1>8, <1>10, <1>11, <1>12 DEF ReplicaSound, f, new

-----------------------------------------------------------------------------
(***************************************************************************)
(* RateLimit.  The steps.                                                  *)
(***************************************************************************)

\* A step that touches no bucket, and no check.
LEMMA BucketsKept ==
    ASSUME LimiterIInv, LimiterTypeOK', call' = call, admitted' = admitted,
           \A r \in Replicas : /\ entry[r] = None => entry'[r] = None
                               /\ entry[r] # None => /\ entry'[r] # None /\ entry'[r].bucket = entry[r].bucket
                                                     /\ entry'[r].idle = entry[r].idle
    PROVE  LimiterIInv'
<1>1. ChecksKeepEntry'
  <2>1. \A c \in Callers : call[c] # None => call[c].at \in Replicas
    BY DEF LimiterIInv, LimiterTypeOK, Calls
  <2> QED
    BY <2>1 DEF LimiterIInv, ChecksKeepEntry
<1>2. ASSUME NEW r \in Replicas PROVE ReplicaSound(entry'[r], admitted'[r])
  <2>1. ReplicaSound(entry[r], admitted[r]) /\ admitted[r] \in Seq(Admissions)
    BY BySound DEF LimiterTypeOK
  <2>2. CASE entry[r] = None
    BY <2>1, <2>2
  <2>3. CASE entry[r] # None
    <3>1. entry[r].idle \in Nat
      <4>1. entry[r] \in Entries
        BY <2>3, EntryType DEF LimiterIInv
      <4> QED
        BY <4>1, RateLimitAssumption DEF Entries
    <3> QED
      BY <2>1, <2>3, <3>1, SoundTouched
  <2> QED
    BY <2>2, <2>3
<1> QED
  BY <1>1, <1>2, BySoundPrimed

LEMMA ReloadStep ==
    ASSUME LimiterIInv, NEW plan \in Plans, Reload(plan)
    PROVE  LimiterIInv'
<1>1. LimiterTypeOK'
  BY DEF LimiterIInv, LimiterTypeOK, Reload
<1> QED
  BY <1>1, BucketsKept DEF Reload

LEMMA RestartControlStep ==
    ASSUME LimiterIInv, RestartControl
    PROVE  LimiterIInv'
<1>1. LimiterTypeOK'
  BY DEF LimiterIInv, LimiterTypeOK, RestartControl
<1> QED
  BY <1>1, BucketsKept DEF RestartControl

LEMMA AnswerLostStep ==
    ASSUME LimiterIInv, NEW r \in Replicas, AnswerLost(r)
    PROVE  LimiterIInv'
<1>1. LimiterTypeOK'
  BY DEF LimiterIInv, LimiterTypeOK, AnswerLost
<1> QED
  BY <1>1, BucketsKept DEF AnswerLost

\* Draining zeroes the counts.
LEMMA DrainedEntry ==
    ASSUME LimiterTypeOK, NEW r \in Replicas, entry[r] # None, entry' = Drained(r)
    PROVE  /\ entry' \in [Replicas -> Entries \cup {None}] /\ entry[r].used \in [Dims -> Nat]
           /\ \A q \in Replicas : /\ entry[q] = None => entry'[q] = None
                                  /\ entry[q] # None => /\ entry'[q] # None /\ entry'[q].bucket = entry[q].bucket
                                                        /\ entry'[q].idle = entry[q].idle
<1> DEFINE f == [entry[r] EXCEPT !.used = [d \in Dims |-> 0]]
<1>1. entry[r] \in Entries
  BY EntryType
<1>2. f \in Entries /\ f.bucket = entry[r].bucket /\ f.idle = entry[r].idle
  BY <1>1 DEF Entries
<1>3. entry' = [entry EXCEPT ![r] = f]
  BY DEF Drained
<1> HIDE DEF f
<1>4. f # None /\ entry[r].used \in [Dims -> Nat]
  BY <1>1, <1>2, RateLimitAssumption DEF Entries
<1> QED
  BY <1>2, <1>3, <1>4 DEF LimiterTypeOK

LEMMA SendReportStep ==
    ASSUME LimiterIInv, NEW r \in Replicas, SendReport(r)
    PROVE  LimiterIInv'
<1>0. LimiterTypeOK /\ entry[r] # None /\ entry' = Drained(r) /\ call' = call /\ admitted' = admitted
  BY DEF LimiterIInv, SendReport
<1>1. /\ entry' \in [Replicas -> Entries \cup {None}] /\ entry[r].used \in [Dims -> Nat]
      /\ \A q \in Replicas : /\ entry[q] = None => entry'[q] = None
                             /\ entry[q] # None => /\ entry'[q] # None /\ entry'[q].bucket = entry[q].bucket
                                                   /\ entry'[q].idle = entry[q].idle
  BY <1>0, DrainedEntry
<1>2. table' \in [Replicas -> Reports \cup {None}] /\ r \in Live(table')
  <2>1. table \in [Replicas -> Reports \cup {None}] /\ table' = Reported(table, r, entry[r].used)
    BY DEF LimiterIInv, LimiterTypeOK, SendReport
  <2> QED
    BY <1>1, <2>1, ReportedType
<1>3. Share(table', r) \in [Dims -> 0 .. Scale]
  BY <1>2, ShareType
<1>4. report' \in [Replicas -> Answers \cup {None, Done}]
  <2>1. [kind |-> "answered", share |-> Share(table', r)] \in Answers
    BY <1>3 DEF Answers
  <2>2. report' = [report EXCEPT ![r] = [kind |-> "answered", share |-> Share(table', r)]]
    BY DEF SendReport
  <2> QED
    BY <1>0, <2>1, <2>2 DEF LimiterTypeOK
<1>5. LimiterTypeOK'
  BY <1>0, <1>1, <1>2, <1>4 DEF LimiterTypeOK, SendReport
<1> QED
  BY <1>0, <1>1, <1>5, BucketsKept

LEMMA ReportLostStep ==
    ASSUME LimiterIInv, NEW r \in Replicas, ReportLost(r)
    PROVE  LimiterIInv'
<1>0. LimiterTypeOK /\ entry[r] # None /\ entry' = Drained(r) /\ call' = call /\ admitted' = admitted
  BY DEF LimiterIInv, ReportLost
<1>1. /\ entry' \in [Replicas -> Entries \cup {None}]
      /\ \A q \in Replicas : /\ entry[q] = None => entry'[q] = None
                             /\ entry[q] # None => /\ entry'[q] # None /\ entry'[q].bucket = entry[q].bucket
                                                   /\ entry'[q].idle = entry[q].idle
  BY <1>0, DrainedEntry
<1>2. LimiterTypeOK'
  BY <1>0, <1>1 DEF LimiterTypeOK, ReportLost
<1> QED
  BY <1>0, <1>1, <1>2, BucketsKept

LEMMA ApplyAllowancesStep ==
    ASSUME LimiterIInv, NEW r \in Replicas, apply_allowances(r)
    PROVE  LimiterIInv'
<1>0. LimiterTypeOK /\ call' = call /\ admitted' = admitted
  BY DEF LimiterIInv, apply_allowances
<1>1. report[r] \in Answers /\ report' \in [Replicas -> Answers \cup {None, Done}]
  BY <1>0 DEF LimiterTypeOK, apply_allowances, InFlight
<1>2. CASE entry[r] = None
  <2>1. entry' = entry
    BY <1>2 DEF apply_allowances
  <2>2. LimiterTypeOK'
    BY <1>0, <1>1, <2>1 DEF LimiterTypeOK, apply_allowances
  <2> QED
    BY <1>0, <2>1, <2>2, BucketsKept
<1>3. CASE entry[r] # None
  <2> DEFINE f == [entry[r] EXCEPT !.share = report[r].share]
  <2>1. entry[r] \in Entries /\ report[r].share \in [Dims -> 0 .. Scale]
    BY <1>0, <1>1, <1>3, EntryType DEF Answers
  <2>2. f \in Entries /\ f.bucket = entry[r].bucket /\ f.idle = entry[r].idle
    BY <2>1 DEF Entries
  <2>3. entry' = [entry EXCEPT ![r] = f]
    BY <1>3 DEF apply_allowances
  <2> HIDE DEF f
  <2>4. f # None
    BY <2>2, RateLimitAssumption
  <2>5. entry' \in [Replicas -> Entries \cup {None}] /\ entry'[r] = f /\ \A q \in Replicas \ {r} : entry'[q] = entry[q]
    BY <1>0, <2>2, <2>3 DEF LimiterTypeOK
  <2>6. LimiterTypeOK'
    BY <1>0, <1>1, <2>5 DEF LimiterTypeOK, apply_allowances
  <2>7. \A q \in Replicas : /\ entry[q] = None => entry'[q] = None
                            /\ entry[q] # None => /\ entry'[q] # None /\ entry'[q].bucket = entry[q].bucket
                                                  /\ entry'[q].idle = entry[q].idle
    BY <1>3, <2>2, <2>4, <2>5
  <2> QED
    BY <1>0, <2>6, <2>7, BucketsKept
<1> QED
  BY <1>2, <1>3

LEMMA ArriveStep ==
    ASSUME LimiterIInv, NEW c \in Callers, NEW r \in Replicas, NEW cost \in Costs, Arrive(c, r, cost)
    PROVE  LimiterIInv'
<1> DEFINE e == IF entry[r] = None THEN Fresh ELSE entry[r]
           used == [d \in Dims |-> IF d \in Limited THEN e.used[d] + Amount(d, cost) ELSE e.used[d]]
           f == [e EXCEPT !.idle = 0, !.used = used]
           k == [at |-> r, cost |-> cost, age |-> 0, limits |-> limits]
<1>0. LimiterTypeOK /\ admitted' = admitted /\ limits \in Plans /\ IdleAfter \in Nat /\ MaxSkew \in Nat
  BY RateLimitAssumption DEF LimiterIInv, LimiterTypeOK, Arrive
<1>1. e \in Entries
  BY <1>0, FreshSound, EntryType
<1>2. entry' = [entry EXCEPT ![r] = f] /\ call' = [call EXCEPT ![c] = k]
  BY DEF Arrive
<1>3. used \in [Dims -> Nat]
  <2>1. \A d \in Dims : Amount(d, cost) \in Nat
    BY AmountType
  <2>2. e.used \in [Dims -> Nat]
    BY <1>1 DEF Entries
  <2> HIDE DEF e
  <2> QED
    BY <2>1, <2>2
<1>4. f \in Entries /\ f.bucket = e.bucket /\ f.idle = 0
  <2>1. 0 \in 0 .. IdleAfter
    BY <1>0
  <2> HIDE DEF e, used
  <2> DEFINE g == [e EXCEPT !.idle = 0]
  <2>2. g \in Entries /\ g.bucket = e.bucket /\ g.idle = 0
    BY <1>1, <2>1 DEF Entries
  <2>3. f = [g EXCEPT !.used = used]
    OBVIOUS
  <2> HIDE DEF g, f
  <2>4. f \in Entries /\ f.bucket = g.bucket /\ f.idle = g.idle
    BY <1>3, <2>2, <2>3 DEF Entries
  <2> QED
    BY <2>2, <2>4
<1>5. f # None
  BY <1>4, RateLimitAssumption
<1>6. k \in Calls /\ k.at = r /\ k.age = 0
  BY <1>0 DEF Calls
<1> HIDE DEF f, k
<1>7. /\ entry' \in [Replicas -> Entries \cup {None}] /\ entry'[r] = f /\ \A q \in Replicas \ {r} : entry'[q] = entry[q]
      /\ call' \in [Callers -> Calls \cup {None}] /\ call'[c] = k /\ \A x \in Callers \ {c} : call'[x] = call[x]
  BY <1>0, <1>2, <1>4, <1>6 DEF LimiterTypeOK
<1>8. LimiterTypeOK'
  BY <1>0, <1>7 DEF LimiterTypeOK, Arrive
<1>9. ChecksKeepEntry'
  <2> SUFFICES ASSUME NEW x \in Callers, call'[x] # None
               PROVE  entry'[call'[x].at] # None /\ entry'[call'[x].at].idle <= call'[x].age
    BY DEF ChecksKeepEntry
  <2>1. call'[x] \in Calls
    BY <1>7
  <2>2. call'[x].at \in Replicas /\ call'[x].age \in Nat
    BY <1>0, <2>1 DEF Calls
  <2>3. CASE call'[x].at = r
    BY <1>4, <1>5, <1>7, <2>2, <2>3
  <2>4. CASE call'[x].at # r
    <3>1. call'[x] = call[x] /\ entry'[call'[x].at] = entry[call[x].at]
      BY <1>6, <1>7, <2>2, <2>4
    <3> QED
      BY <3>1 DEF LimiterIInv, ChecksKeepEntry
  <2> QED
    BY <2>3, <2>4
<1>10. ASSUME NEW q \in Replicas PROVE ReplicaSound(entry'[q], admitted'[q])
  <2>1. ReplicaSound(entry[q], admitted[q]) /\ admitted[q] \in Seq(Admissions)
    BY BySound DEF LimiterTypeOK
  <2>2. CASE q # r
    BY <1>0, <1>7, <2>1, <2>2
  <2>3. CASE q = r /\ entry[r] # None
    <3>1. e = entry[r] /\ e.idle \in Nat
      BY <1>0, <1>1, <2>3 DEF Entries
    <3> QED
      BY <1>0, <1>4, <1>5, <1>7, <2>1, <2>3, <3>1, SoundTouched
  <2>4. CASE q = r /\ entry[r] = None
    <3>1. e = Fresh
      BY <2>4
    <3>2. Recent(admitted[r]) = {} /\ \A i, j \in DOMAIN admitted[r] : i <= j => admitted[r][j].age <= admitted[r][i].age
      BY <2>1, <2>4 DEF ReplicaSound
    <3>3. \A d \in Dims, p \in Plans : Largest(p, d) => f.bucket[d].available <= effective_capacity(p[d], Scale)
      BY <1>0, <1>4, <3>1, FreshSound
    <3> QED
      BY <1>0, <1>7, <2>4, <3>2, <3>3, SoundFull
  <2> QED
    BY <2>2, <2>3, <2>4
<1> QED
  BY <1>8, <1>9, <1>10, BySoundPrimed

\* A refused request leaves its entry as it was.
LEMMA RefusedEntry ==
    ASSUME NEW e \in Entries, NEW k, Short(e, k) # {}
    PROVE  Charged(e, k) = e
<1>1. [d \in Dims |-> IF k.limits[d] = None \/ Short(e, k) # {} THEN e.bucket[d]
                      ELSE commit(e.bucket[d], Amount(d, k.cost) * Whole, Capacity(e, k.limits, d), k.age)] = e.bucket
  <2>1. e.bucket = [d \in Dims |-> e.bucket[d]]
    BY DEF Entries
  <2> QED
    BY <2>1
<1>2. [e EXCEPT !.bucket = e.bucket] = e
  BY DEF Entries
<1> QED
  BY <1>1, <1>2 DEF Charged

LEMMA DecideStep ==
    ASSUME LimiterIInv, NEW c \in Callers, Decide(c)
    PROVE  LimiterIInv'
<1> DEFINE k == call[c]
           r == k.at
           e == entry[r]
           f == Charged(e, k)
           a == [age |-> 0, cost |-> k.cost, late |-> [d \in Dims |-> Rewound(e.bucket[d], k.age)]]
<1>0. LimiterTypeOK /\ k # None /\ call' = [call EXCEPT ![c] = None]
  BY DEF LimiterIInv, Decide
<1>1. k \in Calls
  BY <1>0 DEF LimiterTypeOK
<1>2. r \in Replicas /\ k.cost \in Costs /\ k.age \in 0 .. MaxSkew /\ k.limits \in Plans
  BY <1>1 DEF Calls
<1>3. e # None /\ e.idle <= k.age
  BY <1>0 DEF LimiterIInv, ChecksKeepEntry
<1>4. e \in Entries
  BY <1>0, <1>2, <1>3, EntryType
<1>5. ReplicaSound(e, admitted[r]) /\ admitted[r] \in Seq(Admissions)
  BY <1>2, BySound DEF LimiterTypeOK
<1>6. /\ entry' = [entry EXCEPT ![r] = f]
      /\ admitted' = IF Short(e, k) # {} THEN admitted ELSE [admitted EXCEPT ![r] = Append(@, a)]
  BY DEF Decide
<1>7. /\ f \in Entries /\ f.idle = e.idle /\ admitted' \in [Replicas -> Seq(Admissions)]
      /\ ReplicaSound(f, admitted'[r]) /\ \A q \in Replicas \ {r} : admitted'[q] = admitted[q]
  <2>1. CASE Short(e, k) # {}
    <3>1. f = e
      BY <1>4, <2>1, RefusedEntry
    <3> QED
      BY <1>0, <1>4, <1>5, <1>6, <2>1, <3>1 DEF LimiterTypeOK
  <2>2. CASE Short(e, k) = {}
    <3> DEFINE log == admitted[r]
    <3> HIDE DEF a, e, k, log, f, r
    <3>1. /\ Append(log, a) \in Seq(Admissions)
          /\ Charged(e, k) \in Entries /\ Charged(e, k).idle = e.idle
          /\ ReplicaSound(Charged(e, k), Append(log, a))
      <4>1. a = [age |-> 0, cost |-> k.cost, late |-> [d \in Dims |-> Rewound(e.bucket[d], k.age)]]
        BY DEF a
      <4>2. log \in Seq(Admissions) /\ ReplicaSound(e, log)
        BY <1>5 DEF log
      <4> QED
        BY <1>2, <1>3, <1>4, <2>2, <4>1, <4>2, ChargeSound
    <3>2. admitted' = [admitted EXCEPT ![r] = Append(log, a)]
      BY <1>6, <2>2 DEF log
    <3>3. admitted'[r] = Append(log, a) /\ \A q \in Replicas \ {r} : admitted'[q] = admitted[q]
      BY <1>0, <1>2, <3>2 DEF LimiterTypeOK
    <3>4. admitted' \in [Replicas -> Seq(Admissions)]
      BY <1>0, <1>2, <3>1, <3>2 DEF LimiterTypeOK
    <3> QED
      BY <3>1, <3>3, <3>4 DEF f
  <2> QED
    BY <2>1, <2>2
<1> HIDE DEF f, a, e, r
<1>8. f # None
  BY <1>7, RateLimitAssumption
<1>9. /\ entry' \in [Replicas -> Entries \cup {None}] /\ entry'[r] = f /\ \A q \in Replicas \ {r} : entry'[q] = entry[q]
      /\ call' \in [Callers -> Calls \cup {None}] /\ call'[c] = None /\ \A x \in Callers \ {c} : call'[x] = call[x]
  BY <1>0, <1>2, <1>6, <1>7 DEF LimiterTypeOK
<1>10. LimiterTypeOK'
  BY <1>0, <1>7, <1>9 DEF LimiterTypeOK, Decide
<1>11. ChecksKeepEntry'
  <2> SUFFICES ASSUME NEW x \in Callers, call'[x] # None
               PROVE  entry'[call'[x].at] # None /\ entry'[call'[x].at].idle <= call'[x].age
    BY DEF ChecksKeepEntry
  <2>1. call'[x] = call[x]
    BY <1>9
  <2>2. call[x].at \in Replicas /\ entry[call[x].at] # None /\ entry[call[x].at].idle <= call[x].age
    BY <1>0, <2>1 DEF LimiterIInv, LimiterTypeOK, ChecksKeepEntry, Calls
  <2>3. CASE call[x].at = r
    BY <1>7, <1>8, <1>9, <2>1, <2>2, <2>3 DEF e
  <2>4. CASE call[x].at # r
    BY <1>9, <2>1, <2>2, <2>4
  <2> QED
    BY <2>3, <2>4
<1>12. \A q \in Replicas : ReplicaSound(entry'[q], admitted'[q])
  BY <1>7, <1>9, BySound
<1> QED
  BY <1>10, <1>11, <1>12, BySoundPrimed

\* A log beside no entry.
LEMMA SoundWithout ==
    ASSUME NEW log, Recent(log) = {}, \A i, j \in DOMAIN log : i <= j => log[j].age <= log[i].age
    PROVE  ReplicaSound(None, log)
BY DEF ReplicaSound

LEMMA EvictIdleStep ==
    ASSUME LimiterIInv, NEW r \in Replicas, evict_idle(r)
    PROVE  LimiterIInv'
<1>0. /\ LimiterTypeOK /\ admitted' = admitted /\ call' = call /\ entry' = [entry EXCEPT ![r] = None]
      /\ entry[r] # None /\ entry[r].idle >= IdleAfter
  BY DEF LimiterIInv, evict_idle
<1>1. /\ MaxSkew \in Nat /\ Minute \in Nat \ {0} /\ IdleAfter \in Nat /\ IdleAfter >= Minute + MaxSkew
      /\ entry[r].idle \in Nat
  <2>1. entry[r] \in Entries
    BY <1>0, EntryType
  <2> QED
    BY <2>1, RateLimitAssumption DEF Entries
<1>2. /\ entry' \in [Replicas -> Entries \cup {None}] /\ entry'[r] = None
      /\ \A q \in Replicas \ {r} : entry'[q] = entry[q]
  BY <1>0 DEF LimiterTypeOK
<1>3. LimiterTypeOK'
  BY <1>0, <1>2 DEF LimiterTypeOK, evict_idle
<1>4. ChecksKeepEntry'
  <2> SUFFICES ASSUME NEW x \in Callers, call[x] # None
               PROVE  entry'[call[x].at] # None /\ entry'[call[x].at].idle <= call[x].age
    BY <1>0 DEF ChecksKeepEntry
  <2>1. call[x] \in Calls
    BY <1>0 DEF LimiterTypeOK
  <2>2. call[x].at \in Replicas /\ call[x].age \in 0 .. MaxSkew
    BY <2>1 DEF Calls
  <2>3. entry[call[x].at] # None /\ entry[call[x].at].idle <= call[x].age
    BY DEF LimiterIInv, ChecksKeepEntry
  <2>4. call[x].at # r
    BY <1>0, <1>1, <2>2, <2>3
  <2> QED
    BY <1>2, <2>2, <2>3, <2>4
<1>5. ASSUME NEW q \in Replicas PROVE ReplicaSound(entry'[q], admitted'[q])
  <2>1. ReplicaSound(entry[q], admitted[q]) /\ admitted[q] \in Seq(Admissions)
    BY BySound DEF LimiterTypeOK
  <2>2. CASE q # r
    BY <1>0, <1>2, <2>1, <2>2
  <2>3. CASE q = r
    <3>1. ASSUME NEW i \in Recent(admitted[r]) PROVE FALSE
      <4>1. i \in DOMAIN admitted[r] /\ admitted[r][i].age < Minute
        BY <3>1 DEF Recent
      <4>2. admitted[r][i] \in Admissions
        BY <2>1, <2>3, <4>1
      <4>3. admitted[r][i].age \in Nat
        BY <1>1, <4>2 DEF Admissions
      <4>4. entry[r].idle <= admitted[r][i].age + MaxSkew
        BY <2>1, <2>3, <3>1 DEF ReplicaSound
      <4> QED
        BY <1>0, <1>1, <4>1, <4>3, <4>4
    <3>2. Recent(admitted[r]) = {}
      BY <3>1
    <3>3. \A i, j \in DOMAIN admitted[r] : i <= j => admitted[r][j].age <= admitted[r][i].age
      BY <2>1, <2>3 DEF ReplicaSound
    <3> QED
      BY <1>0, <1>2, <2>3, <3>2, <3>3, SoundWithout
  <2> QED
    BY <2>2, <2>3
<1> QED
  BY <1>3, <1>4, <1>5, BySoundPrimed

LEMMA RestartStep ==
    ASSUME LimiterIInv, NEW r \in Replicas, Restart(r)
    PROVE  LimiterIInv'
<1>0. /\ LimiterTypeOK /\ entry' = [entry EXCEPT ![r] = None] /\ admitted' = [admitted EXCEPT ![r] = <<>>]
      /\ call' = [c \in Callers |-> IF call[c] # None /\ call[c].at = r THEN None ELSE call[c]]
  BY DEF LimiterIInv, Restart
<1>1. <<>> \in Seq(Admissions) /\ Recent(<<>>) = {} /\ DOMAIN <<>> = {}
  BY DEF Recent
<1>2. /\ entry' \in [Replicas -> Entries \cup {None}] /\ entry'[r] = None
      /\ \A q \in Replicas \ {r} : entry'[q] = entry[q]
      /\ admitted' \in [Replicas -> Seq(Admissions)] /\ admitted'[r] = <<>>
      /\ \A q \in Replicas \ {r} : admitted'[q] = admitted[q]
      /\ call' \in [Callers -> Calls \cup {None}]
  BY <1>0, <1>1 DEF LimiterTypeOK
<1>3. LimiterTypeOK'
  BY <1>0, <1>2 DEF LimiterTypeOK, Restart
<1>4. ChecksKeepEntry'
  <2> SUFFICES ASSUME NEW x \in Callers, call'[x] # None
               PROVE  entry'[call'[x].at] # None /\ entry'[call'[x].at].idle <= call'[x].age
    BY DEF ChecksKeepEntry
  <2>1. call'[x] = call[x] /\ call[x] # None /\ call[x].at # r
    BY <1>0
  <2>2. call[x].at \in Replicas
    BY <1>0, <2>1 DEF LimiterTypeOK, Calls
  <2> QED
    BY <1>2, <2>1, <2>2 DEF LimiterIInv, ChecksKeepEntry
<1>5. ReplicaSound(None, <<>>)
  BY <1>1, SoundWithout
<1>6. \A q \in Replicas : ReplicaSound(entry'[q], admitted'[q])
  BY <1>2, <1>5, BySound
<1> QED
  BY <1>3, <1>4, <1>6, BySoundPrimed

\* An age that stops at a bound keeps the order.
LEMMA BoundedMono ==
    ASSUME NEW m \in Int, NEW n \in Int, m <= n, NEW most \in Int
    PROVE  Bounded(m, most) <= Bounded(n, most) /\ Bounded(m, most) <= m
BY DEF Bounded

\* A tick for an entry.
LEMMA TickedEntry ==
    ASSUME NEW e \in Entries, NEW f,
           f = [e EXCEPT !.idle = Bounded(@ + 1, IdleAfter),
                         !.bucket = [d \in Dims |-> Unfilled(@[d])]]
    PROVE  /\ f \in Entries /\ f.idle <= e.idle + 1
           /\ \A d \in Dims : f.bucket[d] = Unfilled(e.bucket[d])
<1> DEFINE idle == Bounded(e.idle + 1, IdleAfter)
           bucket == [d \in Dims |-> Unfilled(e.bucket[d])]
           g == [e EXCEPT !.idle = idle]
<1>0. IdleAfter \in Nat
  BY RateLimitAssumption
<1>1. ASSUME NEW n \in 0 .. IdleAfter PROVE Bounded(n + 1, IdleAfter) \in 0 .. IdleAfter /\ Bounded(n + 1, IdleAfter) <= n + 1
  BY <1>0 DEF Bounded
<1>2. e.idle \in 0 .. IdleAfter /\ \A d \in Dims : e.bucket[d] \in [available : Nat, since : 0 .. IdleAfter]
  BY DEF Entries
<1>3. idle \in 0 .. IdleAfter /\ idle <= e.idle + 1
  BY <1>1, <1>2
<1>4. bucket \in [Dims -> [available : Nat, since : 0 .. IdleAfter]]
  <2>1. ASSUME NEW d \in Dims
        PROVE  Unfilled(e.bucket[d]) \in [available : Nat, since : 0 .. IdleAfter]
    <3> DEFINE b == e.bucket[d]
    <3>1. b \in [available : Nat, since : 0 .. IdleAfter] /\ Bounded(b.since + 1, IdleAfter) \in 0 .. IdleAfter
      BY <1>1, <1>2
    <3> HIDE DEF b
    <3>2. Unfilled(b) \in [available : Nat, since : 0 .. IdleAfter]
      BY <3>1 DEF Unfilled
    <3> QED
      BY <3>2 DEF b
  <2> QED
    BY <2>1
<1>5. f = [e EXCEPT !.idle = idle, !.bucket = bucket]
  OBVIOUS
<1>6. \A d \in Dims : bucket[d] = Unfilled(e.bucket[d])
  OBVIOUS
<1> HIDE DEF idle, bucket
<1>7. g \in Entries /\ g.idle = idle
  BY <1>3 DEF Entries
<1>8. f = [g EXCEPT !.bucket = bucket]
  BY <1>5
<1> HIDE DEF g
<1>9. f \in Entries /\ f.idle = g.idle /\ f.bucket = bucket
  BY <1>4, <1>7, <1>8 DEF Entries
<1> QED
  BY <1>3, <1>6, <1>7, <1>9

\* A tick for an entry and its log.
LEMMA TickSound ==
    ASSUME NEW e, e = None \/ e \in Entries, NEW log \in Seq(Admissions), ReplicaSound(e, log), NEW f,
           f = IF e = None THEN None
               ELSE [e EXCEPT !.idle = Bounded(@ + 1, IdleAfter),
                              !.bucket = [d \in Dims |-> Unfilled(@[d])]]
    PROVE  ReplicaSound(f, Aged(log)) /\ Aged(log) \in Seq(Admissions)
<1> DEFINE new == Aged(log)
<1>0. Minute \in Nat \ {0} /\ MaxSkew \in Nat /\ IdleAfter \in Nat
  BY RateLimitAssumption
<1>1. \A i \in DOMAIN log : log[i].age \in Nat
  <2>1. \A i \in DOMAIN log : log[i] \in Admissions
    OBVIOUS
  <2> QED
    BY <1>0, <2>1 DEF Admissions
<1>2. /\ new \in Seq(Admissions)
      /\ \/ new = <<>>
         \/ DOMAIN new = DOMAIN log /\ \A i \in DOMAIN log : new[i].age = Bounded(log[i].age + 1, Minute)
      /\ \A i \in Recent(new) : i \in Recent(log) /\ new[i].age = log[i].age + 1
  BY AgedLog
<1> HIDE DEF new
<1>3. ASSUME NEW i \in DOMAIN new, NEW j \in DOMAIN new, i <= j PROVE new[j].age <= new[i].age
  <2>1. /\ i \in DOMAIN log /\ j \in DOMAIN log
        /\ new[i].age = Bounded(log[i].age + 1, Minute) /\ new[j].age = Bounded(log[j].age + 1, Minute)
    BY <1>2
  <2>2. log[j].age <= log[i].age
    BY <1>3, <2>1 DEF ReplicaSound
  <2>3. log[i].age + 1 \in Int /\ log[j].age + 1 \in Int /\ log[j].age + 1 <= log[i].age + 1 /\ Minute \in Int
    BY <1>0, <1>1, <2>1, <2>2
  <2> QED
    BY <2>1, <2>3, BoundedMono
<1>4. e # None => /\ f \in Entries /\ f # None /\ f.idle <= e.idle + 1 /\ f.idle \in Nat /\ e.idle \in Nat
                  /\ \A d \in Dims : f.bucket[d] = Unfilled(e.bucket[d])
  <2> SUFFICES ASSUME e # None
               PROVE  /\ f \in Entries /\ f # None /\ f.idle <= e.idle + 1 /\ f.idle \in Nat /\ e.idle \in Nat
                      /\ \A d \in Dims : f.bucket[d] = Unfilled(e.bucket[d])
    OBVIOUS
  <2>1. /\ e \in Entries
        /\ f = [e EXCEPT !.idle = Bounded(@ + 1, IdleAfter),
                         !.bucket = [d \in Dims |-> Unfilled(@[d])]]
    OBVIOUS
  <2>2. /\ f \in Entries /\ f.idle <= e.idle + 1
        /\ \A d \in Dims : f.bucket[d] = Unfilled(e.bucket[d])
    BY <2>1, TickedEntry
  <2>3. f # None
    BY <2>2, RateLimitAssumption
  <2>4. f.idle \in Nat /\ e.idle \in Nat
    <3>1. e \in Entries /\ f \in Entries
      BY <2>1, <2>2
    <3> QED
      BY ONLY <1>0, <3>1 DEF Entries
  <2> QED
    BY <2>2, <2>3, <2>4
<1>5. ASSUME NEW i \in Recent(new) PROVE f # None /\ f.idle <= new[i].age + MaxSkew
  <2>1. i \in Recent(log) /\ new[i].age = log[i].age + 1
    BY <1>2
  <2>2. e # None /\ e.idle <= log[i].age + MaxSkew
    BY <2>1 DEF ReplicaSound
  <2>3. log[i].age \in Nat
    BY <1>1, <2>1 DEF Recent
  <2>4. f.idle <= e.idle + 1 /\ f.idle \in Nat /\ e.idle \in Nat /\ f # None
    BY <1>4, <2>2
  <2> QED
    BY <1>0, <2>1, <2>2, <2>3, <2>4
<1>6. ASSUME NEW d \in Dims, NEW p \in Plans, Largest(p, d), f # None
      PROVE  Pays(f.bucket[d], new, d, effective_capacity(p[d], Scale))
  <2> DEFINE b == e.bucket[d]
             L == effective_capacity(p[d], Scale)
  <2>1. e # None
    BY <1>6
  <2>2. Pays(b, log, d, L)
    BY <1>6, <2>1 DEF ReplicaSound
  <2>3. b \in [available : Nat, since : 0 .. IdleAfter]
    BY <2>1 DEF Entries
  <2>4. L \in Nat
    <3>1. Scale \in 0 .. Scale
      BY RateLimitAssumption
    <3> QED
      BY <1>6, <3>1, WithinLargest
  <2>5. f.bucket[d] = Unfilled(b)
    BY <1>4, <2>1
  <2> HIDE DEF b, L
  <2>6. Pays(Unfilled(b), Aged(log), d, L)
    BY <2>2, <2>3, <2>4, TickPays DEF Unfilled
  <2> QED
    BY <2>5, <2>6 DEF L, new
<1> QED
  BY <1>2, <1>3, <1>5, <1>6 DEF ReplicaSound, new

LEMMA LimiterTickStep ==
    ASSUME LimiterIInv, LimiterTick
    PROVE  LimiterIInv'
<1> DEFINE old(r) == IF entry[r] = None THEN None
                     ELSE [entry[r] EXCEPT !.idle = Bounded(@ + 1, IdleAfter),
                                           !.bucket = [d \in Dims |-> Unfilled(@[d])]]
<1>0. /\ LimiterTypeOK /\ limits' = limits /\ report' = [r \in Replicas |-> None]
      /\ entry' = [r \in Replicas |-> old(r)]
      /\ admitted' = [r \in Replicas |-> Aged(admitted[r])]
  BY DEF LimiterIInv, LimiterTick
<1>1. MaxSkew \in Nat /\ StaleAfter \in Nat /\ IdleAfter \in Nat
  BY RateLimitAssumption
<1>2. ASSUME NEW r \in Replicas
      PROVE  /\ ReplicaSound(old(r), Aged(admitted[r])) /\ Aged(admitted[r]) \in Seq(Admissions)
             /\ entry[r] = None => old(r) = None
             /\ entry[r] # None => /\ old(r) \in Entries /\ old(r) # None /\ old(r).idle <= entry[r].idle + 1
                                   /\ old(r).idle \in Nat /\ entry[r].idle \in Nat
  <2>1. ReplicaSound(entry[r], admitted[r]) /\ admitted[r] \in Seq(Admissions) /\ (entry[r] = None \/ entry[r] \in Entries)
    BY BySound DEF LimiterTypeOK
  <2>2. ReplicaSound(old(r), Aged(admitted[r])) /\ Aged(admitted[r]) \in Seq(Admissions)
    BY <2>1, TickSound
  <2>3. ASSUME entry[r] # None
        PROVE  /\ old(r) \in Entries /\ old(r) # None /\ old(r).idle <= entry[r].idle + 1
               /\ old(r).idle \in Nat /\ entry[r].idle \in Nat
    <3>1. /\ entry[r] \in Entries
          /\ old(r) = [entry[r] EXCEPT !.idle = Bounded(@ + 1, IdleAfter), !.bucket = [d \in Dims |-> Unfilled(@[d])]]
      BY <2>1, <2>3
    <3> HIDE DEF old
    <3>2. old(r) \in Entries /\ old(r).idle <= entry[r].idle + 1
      BY <3>1, TickedEntry
    <3>3. entry[r] \in Entries
      BY <3>1
    <3> QED
      BY ONLY <1>1, <3>2, <3>3, RateLimitAssumption DEF Entries
  <2> QED
    BY <2>2, <2>3
<1> HIDE DEF old
<1>3. /\ entry' \in [Replicas -> Entries \cup {None}] /\ \A r \in Replicas : entry'[r] = old(r)
      /\ admitted' \in [Replicas -> Seq(Admissions)] /\ \A r \in Replicas : admitted'[r] = Aged(admitted[r])
  BY <1>0, <1>2
<1>4. /\ call' \in [Callers -> Calls \cup {None}]
      /\ \A c \in Callers : /\ call[c] = None => call'[c] = None
                            /\ call[c] # None => /\ call[c] \in Calls /\ call'[c].at = call[c].at
                                                 /\ call'[c].age = call[c].age + 1
  <2>1. ASSUME NEW c \in Callers, call[c] # None
        PROVE  LET k == [call[c] EXCEPT !.age = @ + 1]
               IN  k \in Calls /\ k.at = call[c].at /\ k.age = call[c].age + 1
    <3>1. call[c] \in Calls /\ call[c].age < MaxSkew
      BY <1>0, <2>1 DEF LimiterTypeOK, LimiterTick
    <3>2. call[c].age + 1 \in 0 .. MaxSkew
      BY <1>1, <3>1 DEF Calls
    <3> QED
      BY <3>1, <3>2 DEF Calls
  <2>2. call' = [c \in Callers |-> IF call[c] = None THEN None ELSE [call[c] EXCEPT !.age = @ + 1]]
    BY DEF LimiterTick
  <2>3. \A c \in Callers : call[c] # None => call[c] \in Calls
    BY <1>0 DEF LimiterTypeOK
  <2> QED
    BY <2>1, <2>2, <2>3
<1>5. table' \in [Replicas -> Reports \cup {None}]
  <2>1. ASSUME NEW r \in Replicas, table[r] # None
        PROVE  [table[r] EXCEPT !.age = Bounded(@ + 1, StaleAfter)] \in Reports
    <3>1. table[r] \in Reports
      BY <1>0, <2>1 DEF LimiterTypeOK
    <3>2. Bounded(table[r].age + 1, StaleAfter) \in 0 .. StaleAfter
      BY <1>1, <3>1 DEF Reports, Bounded
    <3> QED
      BY <3>1, <3>2 DEF Reports
  <2>2. table' = [r \in Replicas |-> IF table[r] = None THEN None
                                     ELSE [table[r] EXCEPT !.age = Bounded(@ + 1, StaleAfter)]]
    BY DEF LimiterTick
  <2> QED
    BY <2>1, <2>2
<1>6. LimiterTypeOK'
  BY <1>0, <1>3, <1>4, <1>5 DEF LimiterTypeOK
<1>7. ChecksKeepEntry'
  <2> SUFFICES ASSUME NEW c \in Callers, call'[c] # None
               PROVE  entry'[call'[c].at] # None /\ entry'[call'[c].at].idle <= call'[c].age
    BY DEF ChecksKeepEntry
  <2>1. call[c] # None /\ call[c] \in Calls /\ call'[c].at = call[c].at /\ call'[c].age = call[c].age + 1
    BY <1>4
  <2>2. call[c].at \in Replicas /\ call[c].age \in Nat
    BY <1>1, <2>1 DEF Calls
  <2>3. entry[call[c].at] # None /\ entry[call[c].at].idle <= call[c].age
    BY <2>1 DEF LimiterIInv, ChecksKeepEntry
  <2>4. /\ entry'[call[c].at] # None /\ entry'[call[c].at].idle <= entry[call[c].at].idle + 1
        /\ entry'[call[c].at].idle \in Nat /\ entry[call[c].at].idle \in Nat
    BY <1>2, <1>3, <2>2, <2>3
  <2> QED
    BY <2>1, <2>2, <2>3, <2>4
<1>8. \A r \in Replicas : ReplicaSound(entry'[r], admitted'[r])
  BY <1>2, <1>3
<1> QED
  BY <1>6, <1>7, <1>8, BySoundPrimed

LEMMA LimiterInitially == LimiterInit => LimiterIInv
<1> SUFFICES ASSUME LimiterInit PROVE LimiterIInv
  OBVIOUS
<1>0. limits \in Plans /\ Recent(<<>>) = {} /\ DOMAIN <<>> = {} /\ <<>> \in Seq(Admissions)
  BY DEF LimiterInit, Recent
<1>1. PICK cost \in Costs :
        LET k == [cost |-> cost, age |-> 0, limits |-> limits] IN
        /\ Short(Fresh, k) = {}
        /\ entry = [r \in Replicas |->
             [Charged(Fresh, k) EXCEPT !.used =
                [d \in Dims |-> IF d \in Limited THEN Amount(d, cost) ELSE 0]]]
        /\ admitted = [r \in Replicas |->
             <<[age |-> 0, cost |-> cost, late |-> [d \in Dims |-> 0]]>>]
  BY DEF LimiterInit
<1> DEFINE k == [cost |-> cost, age |-> 0, limits |-> limits]
           a == [age |-> 0, cost |-> cost, late |-> [d \in Dims |-> 0]]
           g == Charged(Fresh, k)
           used == [d \in Dims |-> IF d \in Limited THEN Amount(d, cost) ELSE 0]
           f == [g EXCEPT !.used = used]
<1>2. entry = [r \in Replicas |-> f] /\ admitted = [r \in Replicas |-> <<a>>] /\ Short(Fresh, k) = {}
  BY <1>1
<1>3. k.cost = cost /\ k.age = 0 /\ k.limits = limits
  OBVIOUS
<1>4. Fresh \in Entries /\ Fresh # None /\ Fresh.idle = 0
  BY <1>0, FreshSound
<1>5. a = [age |-> 0, cost |-> k.cost, late |-> [d \in Dims |-> Rewound(Fresh.bucket[d], k.age)]]
  <2>1. \A d \in Dims : Rewound(Fresh.bucket[d], k.age) = 0
    BY <1>0, FreshSound DEF Rewound
  <2> QED
    BY <2>1
<1> HIDE DEF k, a
<1>6. ReplicaSound(Fresh, <<>>)
  BY <1>0, FreshSound, SoundFull
<1>7. /\ Append(<<>>, a) \in Seq(Admissions) /\ g \in Entries /\ g.idle = Fresh.idle
      /\ ReplicaSound(g, Append(<<>>, a))
  <2>1. k.cost \in Costs /\ k.age \in 0 .. MaxSkew /\ k.limits \in Plans /\ Fresh.idle <= k.age
    BY <1>0, <1>3, <1>4, RateLimitAssumption
  <2> QED
    BY <1>0, <1>2, <1>4, <1>5, <1>6, <2>1, ChargeSound
<1>8. Append(<<>>, a) = <<a>>
  OBVIOUS
<1>9. used \in [Dims -> Nat]
  <2>1. \A d \in Dims : Amount(d, cost) \in Nat
    BY AmountType
  <2> QED
    BY <2>1
<1> HIDE DEF g, used
<1>10. f \in Entries /\ f.bucket = g.bucket /\ f.idle = g.idle
  BY <1>7, <1>9 DEF Entries
<1> HIDE DEF f
<1>11. f # None /\ g # None /\ f.idle \in Nat /\ g.idle \in Nat /\ f.idle <= g.idle
  BY <1>4, <1>7, <1>10, RateLimitAssumption
<1>12. ReplicaSound(f, <<a>>) /\ <<a>> \in Seq(Admissions)
  BY <1>7, <1>8, <1>10, <1>11, SoundTouched
<1>13. LimiterTypeOK /\ ChecksKeepEntry
  <2>1. entry \in [Replicas -> Entries \cup {None}] /\ admitted \in [Replicas -> Seq(Admissions)]
    BY <1>2, <1>10, <1>12
  <2> QED
    BY <1>0, <2>1 DEF LimiterInit, LimiterTypeOK, ChecksKeepEntry
<1>14. \A r \in Replicas : ReplicaSound(entry[r], admitted[r])
  BY <1>2, <1>12
<1> QED
  BY <1>13, <1>14, BySound

LEMMA LimiterStep == LimiterIInv /\ [LimiterNext]_limiter => LimiterIInv'
<1> SUFFICES ASSUME LimiterIInv, [LimiterNext]_limiter PROVE LimiterIInv'
  OBVIOUS
<1>1. ASSUME NEW c \in Callers, NEW r \in Replicas, NEW cost \in Costs, Arrive(c, r, cost) PROVE LimiterIInv'
  BY <1>1, ArriveStep
<1>2. ASSUME NEW c \in Callers, Decide(c) PROVE LimiterIInv'
  BY <1>2, DecideStep
<1>3. ASSUME NEW r \in Replicas, evict_idle(r) PROVE LimiterIInv'
  BY <1>3, EvictIdleStep
<1>4. ASSUME NEW r \in Replicas, SendReport(r) PROVE LimiterIInv'
  BY <1>4, SendReportStep
<1>5. ASSUME NEW r \in Replicas, apply_allowances(r) PROVE LimiterIInv'
  BY <1>5, ApplyAllowancesStep
<1>6. ASSUME NEW r \in Replicas, ReportLost(r) PROVE LimiterIInv'
  BY <1>6, ReportLostStep
<1>7. ASSUME NEW r \in Replicas, AnswerLost(r) PROVE LimiterIInv'
  BY <1>7, AnswerLostStep
<1>8. ASSUME NEW r \in Replicas, Restart(r) PROVE LimiterIInv'
  BY <1>8, RestartStep
<1>9. ASSUME NEW plan \in Plans, Reload(plan) PROVE LimiterIInv'
  BY <1>9, ReloadStep
<1>10. CASE RestartControl
  BY <1>10, RestartControlStep
<1>11. CASE LimiterTick
  BY <1>11, LimiterTickStep
<1>12. CASE UNCHANGED limiter
  <2>1. LimiterTypeOK'
    BY <1>12 DEF LimiterIInv, LimiterTypeOK, limiter
  <2> QED
    BY <1>12, <2>1, BucketsKept DEF limiter
<1> QED
  BY <1>1, <1>2, <1>3, <1>4, <1>5, <1>6, <1>7, <1>8, <1>9, <1>10, <1>11, <1>12 DEF LimiterNext

\* The admissions of the last minute are the end of the log.
LEMMA RecentIsSuffix ==
    ASSUME NEW log \in Seq(Admissions), \A i, j \in DOMAIN log : i <= j => log[j].age <= log[i].age, Recent(log) # {}
    PROVE  \E i \in Recent(log) : Recent(log) = i .. Len(log)
<1>0. Minute \in Nat /\ Len(log) \in Nat /\ DOMAIN log = 1 .. Len(log) /\ Recent(log) \in SUBSET Nat
  BY RateLimitAssumption DEF Recent
<1>1. PICK i \in Recent(log) : \A j \in Recent(log) : i <= j
  BY <1>0, LeastNat
<1>2. i \in DOMAIN log /\ log[i].age < Minute
  BY DEF Recent
<1>3. \A j \in DOMAIN log : log[j].age \in Nat
  <2>1. \A j \in DOMAIN log : log[j] \in Admissions
    OBVIOUS
  <2> QED
    BY <1>0, <2>1 DEF Admissions
<1>4. ASSUME NEW j \in i .. Len(log) PROVE j \in Recent(log)
  <2>1. j \in DOMAIN log /\ i <= j
    BY <1>0, <1>2
  <2>2. log[j].age <= log[i].age
    BY <1>2, <2>1
  <2> QED
    BY <1>0, <1>2, <1>3, <2>1, <2>2 DEF Recent
<1>5. ASSUME NEW j \in Recent(log) PROVE j \in i .. Len(log)
  <2>1. j \in 1 .. Len(log) /\ i \in 1 .. Len(log) /\ i <= j
    BY <1>0, <1>1, <1>2 DEF Recent
  <2> QED
    BY <1>0, <2>1
<1> QED
  BY <1>4, <1>5

LEMMA WindowIsBounded == LimiterIInv => WindowBound
<1> SUFFICES ASSUME LimiterIInv, NEW r \in Replicas, NEW d \in Dims, NEW p \in Plans, Largest(p, d)
             PROVE  LET log     == admitted[r]
                        largest == effective_capacity(p[d], Scale)
                        refill  == (Minute - 1 + MaxSkew + Late(log, Recent(log), d)) * largest
                    IN  Spent(log, Recent(log), d) * Whole <= largest + refill \div Minute
  BY DEF WindowBound
<1> DEFINE log == admitted[r]
           R == Recent(log)
           L == effective_capacity(p[d], Scale)
           S == Spent(log, R, d)
           W == Late(log, R, d)
           most == (Minute - 1 + MaxSkew + W) * L
<1>0. Minute \in Nat \ {0} /\ MaxSkew \in Nat /\ Whole \in Nat
  BY RateLimitAssumption DEF Whole
<1>1. L \in Nat
  <2>1. Scale \in 0 .. Scale
    BY RateLimitAssumption
  <2> QED
    BY <2>1, WithinLargest
<1>2. log \in Seq(Admissions) /\ ReplicaSound(entry[r], log) /\ LimiterTypeOK
  BY BySound DEF LimiterTypeOK
<1> HIDE DEF log, L
<1>3. R \in SUBSET DOMAIN log /\ \A i \in R : log[i].age < Minute
  BY DEF Recent
<1>4. S \in Nat /\ W \in Nat
  BY <1>2, <1>3, LogSummable
<1>5. CASE R = {}
  <2>1. S = 0
    BY <1>5, SumZero DEF Spent
  <2>2. Minute - 1 + MaxSkew + W \in Nat
    BY <1>0, <1>4
  <2>3. most \in Nat
    BY <1>1, <2>2
  <2> HIDE DEF most, S
  <2>4. 0 <= most \div Minute /\ most \div Minute \in Int
    BY <1>0, <2>3, DivLeast, DivDef
  <2>5. S * Whole <= L + most \div Minute
    BY <1>0, <1>1, <2>1, <2>4
  <2> QED
    BY <2>5 DEF most, S, log, L
<1>6. CASE R # {}
  <2>1. PICK i \in R : R = i .. Len(log)
    BY <1>2, <1>6, RecentIsSuffix DEF ReplicaSound
  <2>2. entry[r] # None
    BY <1>2, <2>1 DEF ReplicaSound
  <2> DEFINE b == entry[r].bucket[d]
             paid == (log[i].age + MaxSkew - b.since + W) * L
  <2>3. b.available \in Nat /\ b.since \in Nat
    <3>1. entry[r] \in Entries
      BY <1>2, <2>2, EntryType
    <3> QED
      BY <3>1, RateLimitAssumption DEF Entries
  <2>4. S * Whole + b.available <= L + paid \div Minute
    <3>1. Pays(b, log, d, L)
      BY <1>2, <2>2 DEF ReplicaSound, L
    <3>2. /\ i \in Recent(log)
          /\ S = Spent(log, i .. Len(log), d) /\ W = Late(log, i .. Len(log), d)
      BY <2>1
    <3> HIDE DEF b, S, W
    <3> QED
      BY <3>1, <3>2 DEF Pays
  <2>5. log[i].age \in Nat /\ log[i].age <= Minute - 1
    <3>1. log[i] \in Admissions /\ log[i].age < Minute
      BY <1>2, <1>3, <2>1
    <3> QED
      BY <1>0, <3>1 DEF Admissions
  <2> HIDE DEF b, S, W, R
  <2>6. paid \in Int /\ most \in Int /\ paid <= most
    <3>1. /\ log[i].age + MaxSkew - b.since + W \in Int /\ Minute - 1 + MaxSkew + W \in Int
          /\ log[i].age + MaxSkew - b.since + W <= Minute - 1 + MaxSkew + W
      BY <1>0, <1>4, <2>3, <2>5
    <3> QED
      BY <1>1, <3>1, MulMono
  <2> HIDE DEF paid, most
  <2>7. paid \div Minute <= most \div Minute /\ paid \div Minute \in Int /\ most \div Minute \in Int
    BY <1>0, <2>6, DivMono, DivDef
  <2>8. S * Whole \in Int
    BY <1>0, <1>4
  <2>9. S * Whole <= L + most \div Minute
    BY <1>1, <2>3, <2>4, <2>7, <2>8
  <2> QED
    BY <2>9 DEF S, W, R, most, log, L
<1> QED
  BY <1>5, <1>6

\* The rate limiter keeps its inductive invariant: a check in progress holds on
\* to the entry it found (Limiter::check against evict_idle), an entry that is
\* swept admitted nothing for a minute, and from any admission of the last
\* minute on what was spent, with what is left in the bucket, came from one full
\* bucket and the refills since (BucketState::refilled, commit).
THEOREM LimiterInvariant == LimiterSpec => []LimiterIInv
BY LimiterInitially, LimiterStep, PTL DEF LimiterSpec

\* The limit holds for any number of replicas, requests, plans and lengths of
\* the minute: a replica never admits more in a minute than a full bucket and
\* the refills it is due, the shares handed out exceed the whole by no more than
\* the floors of the idle replicas, and a refusal's Retry-After is long enough
\* (Limiter::check, BucketState::peek, share_of).
THEOREM LimitIsKept == LimiterSpec => []LimitHolds
<1>1. LimiterIInv => LimitHolds
  BY WindowIsBounded, SharesAreTight, RetryAfterIsEnough DEF LimitHolds, LimiterIInv
<1> QED
  BY <1>1, LimiterInvariant, PTL
=============================================================================
