--------------------------- MODULE MCProfileDraft ---------------------------
(***************************************************************************)
(* One flag of nature, two requirements and two levels.  A model proposes  *)
(* a whole draft with one zone of each nature, one that is whole but for   *)
(* its texts, with a vector of nothing but nulls, or one with half of      *)
(* everything.                                                             *)
(***************************************************************************)
EXTENDS ProfileDraft

MCZone(id, level, flag, vector) ==
    [EmptyZone(id) EXCEPT !.target_sl = level, !.sl_vector = vector,
                          !.nature = [f \in NatureField |-> flag]]

MCVector(a, b) == {[fr \in FR |-> IF fr = "FR1" THEN a ELSE b]}

MCWhole ==
    [name |-> Written, case |-> 1, sectors |-> Sector,
     zones |-> <<MCZone(1, 1, 1, MCVector(1, 2)), MCZone(2, 2, 2, {})>>, conduits |-> << >>,
     criticality |-> [physical_consequence |-> Written, threat_model |-> Empty, scale |-> 1]]

MCNulls ==
    [MCWhole EXCEPT !.zones = <<MCZone(7, 1, 1, MCVector(None, None))>>,
                    !.name = Empty]

MCHalf ==
    [Blank(<<MCZone(2, None, 1, MCVector(1, None))>>) EXCEPT
        !.criticality.scale = 1, !.criticality.threat_model = Empty,
        !.conduits = <<[id |-> 1, endpoints |-> TRUE, control |-> Empty]>>]

MCProposal == {MCWhole, MCNulls, MCHalf}
=============================================================================
