---------------------------- MODULE MCFarmServer ----------------------------
(***************************************************************************)
(* Constants for model checking FarmServer.                                *)
(***************************************************************************)
EXTENDS FarmServer

MCPriorities == {50, 60}
MCStatuses   == {"WAITING"}
MCTimes      == {1430000000}

=============================================================================
