----------------------------- MODULE MCAdmission -----------------------------
(***************************************************************************)
(* Instance of Admission for TLC: three requests at a gate of two slots,   *)
(* one of which may wait.                                                  *)
(***************************************************************************)
EXTENDS Admission

=============================================================================
