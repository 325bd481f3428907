---- MODULE MCRateLimit ----
(* Two replicas and two concurrent requests of one principal. *)
EXTENDS RateLimit

MCPlans == {[requests |-> 1, tokens |-> 2], [requests |-> 1, tokens |-> None]}
====
