--------------------------- MODULE FarmRefinement ---------------------------
(***************************************************************************)
(* Farm over SQLiteStorage, with bulked transactions, keeps the promises   *)
(* of TaskLedger.                                                          *)
(***************************************************************************)
EXTENDS Farm

\* The records at call granularity.  A job under insertion is not yet there,
\* for the forced commit before it left "disk" with all the rest.  A dispatch
\* under way has happened: its first statement is where it takes effect.
VisibleRows ==
    CASE call.op = "insert"   -> storage_.disk
      [] call.op = "dispatch" ->
           [storage_.db EXCEPT !.jobs[call.job].status = "ACTIVE"]
      [] OTHER                -> storage_.db

Ledger == INSTANCE TaskLedger
          WITH visible <- VisibleRows, durable <- storage_.disk

\* Every behaviour of the farm is one of the ledger: calls are atomic, jobs
\* are durable when insert_job returns, and what a crash takes back is a
\* whole number of the latest dispatches.
LedgerSpec == Ledger!Spec

=============================================================================
