---------------------------- MODULE MCTrxServer ----------------------------
(* The transceiver server with few slots, peers and descriptors, for TLC. *)
EXTENDS TrxServer
=============================================================================
