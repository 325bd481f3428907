--------------------------- MODULE MCBackendHealth ---------------------------
(***************************************************************************)
(* Instance of BackendHealth for TLC: a request, the scraper, the prober   *)
(* and the fleet's answer, each threshold and the backoff's growth at two. *)
(***************************************************************************)
EXTENDS BackendHealth

=============================================================================
