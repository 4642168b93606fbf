-------------------------- MODULE MCClientSession ---------------------------
(***************************************************************************)
(* One capability with two controls, in three states of one draft: a       *)
(* mandate the engine leaves open over a contradiction between the two     *)
(* controls, two zones of one id in which nothing needs deciding, and an   *)
(* incomplete draft.                                                       *)
(***************************************************************************)
EXTENDS ClientSession

CONSTANTS k1, c1, c2, zone, twin
CONSTANTS mandate, twins, blank

MCComplete == {mandate, twins}
MCId == [d \in MCComplete |-> 1]
MCEngine ==
    [d \in MCComplete |->
        [rows |-> IF d = mandate THEN {zone} ELSE {zone, twin},
         key |-> [row \in Row |-> k1],
         options |-> [row \in Row |-> IF d = mandate THEN {c1, c2} ELSE {c1}],
         outstanding |-> IF d = mandate THEN {zone} ELSE {},
         contested |-> [row \in Row |-> IF d = mandate THEN {c1, c2} ELSE {}],
         compensatory |-> [row \in Row |-> IF d = twins THEN {c1} ELSE {}]]]
=============================================================================
