---------------------------- MODULE MCLineEditor ----------------------------
(* A short line and a short ring, for TLC. *)
EXTENDS LineEditor
=============================================================================
