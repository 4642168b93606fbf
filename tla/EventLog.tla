------------------------------ MODULE EventLog ------------------------------
(***************************************************************************)
(* What the audit log promises to everything built on it: one list of      *)
(* entries that only grows, and grows by whole batches.  There is no       *)
(* position to race for, no hash and no transaction here; AuditLedger is   *)
(* shown to implement this module.                                         *)
(***************************************************************************)
EXTENDS Sequences

CONSTANT Batch          \* the batches a caller may append

VARIABLE log            \* every entry ever recorded, in order

Init == log = << >>

\* A batch is recorded: its entries follow everything recorded before, adjacent
\* and in the order they were given.
Record == \E b \in Batch : log' = log \o b

Spec == Init /\ [][Record]_log
=============================================================================
