------------------------------ MODULE TaskPool ------------------------------
(***************************************************************************)
(* What Farm relies on from tasks_queue_: a set of entries, none of which  *)
(* is lost, that gives up one of its top entries at a time.  The second    *)
(* half of the promise is kept while "ordered", and may end for good.      *)
(***************************************************************************)
EXTENDS DispatchOrder

VARIABLES
    queued,  \* the entries in the queue
    ordered  \* only top entries leave

Init == queued = {} /\ ordered \in BOOLEAN

Push ==
    /\ queued' \in SUBSET QueueEntry
    /\ queued \subseteq queued'
    /\ ordered' => ordered

Pop(e) ==
    /\ e \in IF ordered THEN TopEntries(queued) ELSE queued
    /\ queued' = queued \ {e}
    /\ UNCHANGED ordered

Next == Push \/ \E e \in queued : Pop(e)

Spec == Init /\ [][Next]_<<queued, ordered>>

=============================================================================
