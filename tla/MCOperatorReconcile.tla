-------------------------- MODULE MCOperatorReconcile --------------------------
(***************************************************************************)
(* Instance of OperatorReconcile for TLC: a release with a bootstrap, and  *)
(* its successor with other tuning and the optional objects.               *)
(***************************************************************************)
EXTENDS OperatorReconcile, TLC

CONSTANTS v1, v2

MCFirst ==
    [image |-> v1, tuning |-> "a", bootstrap |-> TRUE,
     replicas |-> 2, autoscaling |-> None, ingress |-> FALSE]

MCSpecs ==
    {MCFirst,
     [image |-> v2, tuning |-> "b", bootstrap |-> TRUE,
      replicas |-> 2, autoscaling |-> 1, ingress |-> TRUE]}
=============================================================================
