----------------------------- MODULE UsageLedger -----------------------------
(***************************************************************************)
(* What usage accounting promises: the charts count requests that happened.*)
(* A batch may be counted twice, because a delivery that timed out is      *)
(* tried again, but nothing is counted that never happened, and what was   *)
(* counted stays counted, whatever is done to the rows.                    *)
(***************************************************************************)
EXTENDS Naturals

CONSTANT Outcomes

VARIABLES happened, charged    \* requests and charted requests, by outcome

Init == happened = [o \in Outcomes |-> 0] /\ charged = [o \in Outcomes |-> 0]

Happen(o) == happened' = [happened EXCEPT ![o] = @ + 1] /\ UNCHANGED charged

\* One batch: each request in it once.
Charge ==
    /\ charged' \in [Outcomes -> Nat] /\ charged' # charged
    /\ \A o \in Outcomes : charged[o] <= charged'[o] /\ charged'[o] - charged[o] <= happened[o]
    /\ UNCHANGED happened

Next == Charge \/ \E o \in Outcomes : Happen(o)

Spec == Init /\ [][Next]_<<happened, charged>>
=============================================================================
