------------------------------ MODULE MCTimers ------------------------------
(* Instances of Timers for TLC; each .cfg gives the constants. *)
EXTENDS TimersRefinement
=============================================================================
