--------------------------- MODULE MCLeaderElection ---------------------------
(***************************************************************************)
(* Instance of LeaderElection for TLC.                                     *)
(***************************************************************************)
EXTENDS LeaderElection, TLC

=============================================================================
