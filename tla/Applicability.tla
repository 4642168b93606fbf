--------------------------- MODULE Applicability ----------------------------
(***************************************************************************)
(* Which mechanisms a zone can host: the reading of the zone               *)
(* (engine/zones.py), the scope and the premises a control declares        *)
(* (engine/applicability.py, engine/presuppositions.py), the authored      *)
(* rules (engine/gating_rules.py), and which of them decides               *)
(* (engine/gating.py).                                                     *)
(*                                                                         *)
(* Controls, capabilities and rules are ordered by their ids in many       *)
(* places of the code.  A control and a capability are numbers in the      *)
(* order of their ids, and the rules of a rule set are listed in that      *)
(* order.                                                                  *)
(***************************************************************************)
EXTENDS Gating, Sequences

CONSTANT Attributes     \* Attributes[c]: what the catalog declares of control c

ControlsAreOrdered == Control \subseteq Nat
ASSUME ControlsAssumption == ControlsAreOrdered

Sector == {"energy", "maritime", "health"}
Premise == {"general_purpose_os", "hybrid_it_ot"}
Jurisdiction == {"US", "EU", "INTL"}
Framework == {"CSF", "IEC62443", "CIS", "NIS2", "TSA", "IMO"}

\* strength is the implementation group of a CIS control, 0 for any other.
FrameworkControl ==
    [framework: Framework, control_type: {"technical", "legal"}, jurisdiction: Jurisdiction,
     strength: 0..3, applies_to_sectors: SUBSET Sector,
     presupposes: SUBSET [premise: Premise, expected: BOOLEAN]]

ASSUME AttributesAssumption == Attributes \in [Control -> FrameworkControl]

(***************************************************************************)
(* The reading of a zone                                                   *)
(***************************************************************************)
ZoneDomain == {"OT", "IT", "HYBRID"}
ConsequenceScale == {"catastrophic", "high", "moderate", "low"}

\* A zone of a profile as the operator declared it.
Zone == [purdue: {"L1", "L3", "L4", None}, nature: [Premise -> BOOLEAN],
         role: {"crown_jewel", None}, target_sl: 1..4,
         safety_out_of_scope: BOOLEAN, sectors: SUBSET Sector]

Profile == [case: {"PURE_OT", "HYBRID_IT_OT"}, scale: ConsequenceScale,
            sectors: SUBSET Sector]

ZoneContextType ==
    [domain: ZoneDomain, target_sl: 1..4, safety_relevant: BOOLEAN,
     role: {"crown_jewel", None}, nature: [Premise -> BOOLEAN], sectors: SUBSET Sector]

DomainOf(zone, profile) ==
    CASE zone.purdue = "L1" -> "OT"
      [] zone.purdue = "L4" -> "IT"
      [] zone.purdue = "L3" -> IF zone.nature["hybrid_it_ot"] THEN "HYBRID" ELSE "OT"
      [] zone.purdue = None -> IF profile.case = "PURE_OT" THEN "OT" ELSE "HYBRID"

IsSafetyRelevant(zone, profile) ==
    \/ zone.safety_out_of_scope
    \/ zone.role = "crown_jewel"
    \/ /\ DomainOf(zone, profile) = "OT"
       /\ profile.scale = "catastrophic"

\* A zone that declares no sector answers for those of the profile.
ZoneContext(zone, profile) ==
    [domain |-> DomainOf(zone, profile),
     target_sl |-> zone.target_sl,
     safety_relevant |-> IsSafetyRelevant(zone, profile),
     role |-> zone.role,
     nature |-> zone.nature,
     sectors |-> IF zone.sectors = {} THEN profile.sectors ELSE zone.sectors]

(***************************************************************************)
(* What excludes a mechanism from a zone                                   *)
(***************************************************************************)
SECTOR_APPLICABILITY_RULE_ID == "APPLIC-SECTOR"
PREMISE_RULE_ID == "GATE-PREMISE-UNMET"

\* A norm without a declared scope governs every sector, and a zone without
\* declared sectors is outside the scope of none.
ControlApplies(c, zone) ==
    LET scope == Attributes[c].applies_to_sectors
    IN  scope = {} \/ zone.sectors = {} \/ scope \cap zone.sectors # {}

FrameworkApplies(controls, zone) == \E c \in controls : ControlApplies(c, zone)

UnmetPremises(c, zone) ==
    {p \in Attributes[c].presupposes : zone.nature[p.premise] # p.expected}

\* An authored rule.  An empty set of domains, of roles or of premises asks
\* nothing, as safety_relevant = BOOLEAN does.
GatingRule ==
    [id: STRING, outcome: GatingOutcome, control_ids: SUBSET Control,
     domains: SUBSET ZoneDomain, roles: SUBSET {"crown_jewel"},
     nature: SUBSET [premise: Premise, expected: BOOLEAN],
     safety_relevant: SUBSET BOOLEAN]

RuleApplies(rule, c, zone) ==
    /\ c \in rule.control_ids
    /\ rule.domains = {} \/ zone.domain \in rule.domains
    /\ zone.safety_relevant \in rule.safety_relevant
    /\ rule.roles = {} \/ zone.role \in rule.roles
    /\ \A p \in rule.nature : zone.nature[p.premise] = p.expected

OUTCOME_PRECEDENCE ==
    [wrong_scope |-> 0, not_applicable |-> 1, objective_without_mechanism |-> 2]

RulesFor(rules, c, zone) == {i \in DOMAIN rules : RuleApplies(rules[i], c, zone)}

\* The wrong layer before the missing premise before the orphaned objective, and
\* the smallest id among equals.
Decisive(rules, matched) ==
    CHOOSE i \in matched : \A j \in matched :
        LET p == OUTCOME_PRECEDENCE[rules[i].outcome]
            q == OUTCOME_PRECEDENCE[rules[j].outcome]
        IN  p < q \/ (p = q /\ i <= j)

NoDecision == [outcome |-> None, rule_id |-> None, also_matched |-> {}]

\* What is decided against control c in a zone.  Scope comes first, then the
\* authored rules, then the premises; what else spoke against it is kept.
Decision(rules, c, zone) ==
    LET matched == RulesFor(rules, c, zone)
        ids(S) == {rules[i].id : i \in S}
        derived == IF UnmetPremises(c, zone) = {} THEN {} ELSE {PREMISE_RULE_ID}
        first == Decisive(rules, matched)
    IN  CASE ~ControlApplies(c, zone) ->
               [outcome |-> "not_applicable", rule_id |-> SECTOR_APPLICABILITY_RULE_ID,
                also_matched |-> ids(matched) \cup derived]
          [] ControlApplies(c, zone) /\ matched # {} ->
               [outcome |-> rules[first].outcome, rule_id |-> rules[first].id,
                also_matched |-> ids(matched \ {first}) \cup derived]
          [] ControlApplies(c, zone) /\ matched = {} /\ derived # {} ->
               [outcome |-> "not_applicable", rule_id |-> PREMISE_RULE_ID,
                also_matched |-> {}]
          [] OTHER -> NoDecision

\* gate_capability: every option is put to the rules, superseded or not.
Gated(o, rules, zone) ==
    [c \in DOMAIN o |-> [o[c] EXCEPT !.excluded = Decision(rules, c, zone).outcome]]
=============================================================================
