----------------------------- MODULE MCTaskHeap -----------------------------
(***************************************************************************)
(* Constants for model checking TaskHeap.                                  *)
(***************************************************************************)
EXTENDS TaskHeap

MCPriorities == {40, 50, 60}

=============================================================================
