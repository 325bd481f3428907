---------------------------- MODULE MCRequestPath ----------------------------
(***************************************************************************)
(* Instance of RequestPath for TLC: a model with two backends, one with a  *)
(* single backend that is also the deployment's fallback, and a model that *)
(* nothing serves.                                                         *)
(***************************************************************************)
EXTENDS RequestPath, TLC

CONSTANTS local, cloud, ghost, b1, b2, b3

MCModels   == {local, cloud, ghost}
MCBackends == {b1, b2, b3}
MCPool     == (local :> {b1, b2}) @@ (cloud :> {b3}) @@ (ghost :> {})
MCRoutes   == {<<local>>, <<ghost, local>>, <<cloud>>}
MCGranted  == {local}

=============================================================================
