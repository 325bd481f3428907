--------------------------------- MODULE Sums ---------------------------------
(***************************************************************************)
(* Sums over finite sets, as the number of units there are to count: what  *)
(* they need is then the library's theorems on cardinalities.              *)
(***************************************************************************)
EXTENDS Naturals, FiniteSets

\* A unit of x for each of the f[x] to be added.
Tallies(S, f) == UNION {{x} \X (1 .. f[x]) : x \in S}

\* The sum of f over S.
SumOf(S, f) == Cardinality(Tallies(S, f))
===============================================================================
