------------------------------ MODULE MCMetering ------------------------------
(***************************************************************************)
(* One proxy and two requests that cost tokens, the principal of one of    *)
(* which may be deleted.  Symmetry is not used: liveness is checked.       *)
(***************************************************************************)
EXTENDS Metering, TLC

MCServed == ("e1" :> "ok") @@ ("e2" :> "ok")
=============================================================================
