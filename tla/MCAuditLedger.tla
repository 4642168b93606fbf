--------------------------- MODULE MCAuditLedger ----------------------------
(***************************************************************************)
(* Three requests appending batches of one and two entries to one ledger.  *)
(***************************************************************************)
EXTENDS AuditLedger

CONSTANTS r1, r2, r3    \* appenders
CONSTANTS run, decision \* entries

MCBatch == {<<run, run>>, <<decision>>}
=============================================================================
