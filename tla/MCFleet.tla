------------------------------ MODULE MCFleet ------------------------------
(***************************************************************************)
(* Two replicas, each the whole of the other's majority; one failed probe  *)
(* ejects, a report lives one interval, and two faults or client events    *)
(* happen at any point, besides every loss of an answer.                   *)
(***************************************************************************)
EXTENDS Fleet
=============================================================================
