----------------------------- MODULE MCFarmClock -----------------------------
(***************************************************************************)
(* Constants for model checking FarmClock: seven seconds of 2015.          *)
(***************************************************************************)
EXTENDS FarmClock

MCPriorities == {50}
MCStatuses   == {"WAITING"}
MCStartTime  == 1430000000
MCTimes      == MCStartTime..(MCStartTime + 6)

=============================================================================
