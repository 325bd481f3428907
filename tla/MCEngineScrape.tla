---------------------------- MODULE MCEngineScrape ----------------------------
(***************************************************************************)
(* Instance of EngineScrape for TLC: a tick stands for 100 seconds or so,  *)
(* three retries make the deadline, and a sweep may straddle a tick.       *)
(***************************************************************************)
EXTENDS EngineScrape

=============================================================================
