---------------------------- MODULE MCServerLife ----------------------------
(***************************************************************************)
(* Constants for model checking ServerLife.                                *)
(***************************************************************************)
EXTENDS ServerLife

MCPriorities == {50}
MCStatuses   == {"WAITING"}
MCTimes      == {1430000000}

\* After the server was constructed and before its loop runs.
MCBeforeRun  == {"listen", "new_loop", "run"}

=============================================================================
