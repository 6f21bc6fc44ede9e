------------------------------ MODULE MCTimers ------------------------------
(* Few timers, calls and moments, for TLC. *)
EXTENDS Timers
=============================================================================
