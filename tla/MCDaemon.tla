------------------------------ MODULE MCDaemon ------------------------------
(* Starting and stopping with a few processes, for TLC. *)
EXTENDS Daemon, TLC

\* Numbers of which some fit over others, and one is what then stands there.
MCPid == 1 :> <<1, 0>> @@ 2 :> <<9>> @@ 3 :> <<9, 0>>
=============================================================================
