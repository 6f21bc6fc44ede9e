---------------------------- MODULE MCOmlStartup ----------------------------
(* The start-up with a small number of timeslots, for TLC. *)
EXTENDS OmlStartup
=============================================================================
