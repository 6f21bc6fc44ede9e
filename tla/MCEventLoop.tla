---------------------------- MODULE MCEventLoop ----------------------------
(* The event loop with few connections, for TLC. *)
EXTENDS AnyCallbacks
=============================================================================
