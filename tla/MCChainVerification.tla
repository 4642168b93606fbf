------------------------ MODULE MCChainVerification -------------------------
(***************************************************************************)
(* One request after another appending to a ledger that is damaged twice   *)
(* between any two of its steps.                                           *)
(***************************************************************************)
EXTENDS ChainVerification, TLC

CONSTANTS r1                        \* the appender
CONSTANTS started, decided, other   \* entries
CONSTANTS plant, office             \* runs

MCBatch == {<<started>>, <<other>>, <<started, decided>>}
MCRunOf == started :> plant @@ decided :> plant @@ other :> office
=============================================================================
