------------------------- MODULE MCPolicyPropagation -------------------------
(***************************************************************************)
(* Instance of PolicyPropagation for TLC: one control-plane pod, as every  *)
(* deployment of the repository has it, and models that are unroutable     *)
(* after the second write and fine again after the third.                  *)
(***************************************************************************)
EXTENDS PolicyPropagation

=============================================================================
