---------------------------- MODULE MCVtySession ----------------------------
(* Two terminals, for TLC. *)
EXTENDS VtySession
=============================================================================
