------------------------------- MODULE MCFarm -------------------------------
(***************************************************************************)
(* Constants for model checking Farm: jobs of two priorities, inserted     *)
(* waiting or paused, and one reading of the clock.  In 2015 every reading *)
(* is far more than CommitInterval + 1.                                    *)
(***************************************************************************)
EXTENDS FarmRefinement

MCPriorities == {40, 50}
MCStatuses   == {"WAITING", "PAUSED"}
MCTimes      == {1430000000}

=============================================================================
