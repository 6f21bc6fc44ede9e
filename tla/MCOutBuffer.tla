---------------------------- MODULE MCOutBuffer ----------------------------
(* The output of a terminal with small chunks and a small socket, for TLC. *)
EXTENDS OutBuffer
=============================================================================
