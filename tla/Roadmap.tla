------------------------------ MODULE Roadmap -------------------------------
(***************************************************************************)
(* Steps 3 and 4 of the core for one zone: what gating leaves of each      *)
(* capability (engine/gating.py), which capabilities are mandatory there,  *)
(* and when the rest is scheduled (engine/prioritization.py,               *)
(* engine/prioritization_rules.py).                                        *)
(*                                                                         *)
(* The ordinal levels LOW, MEDIUM and HIGH are the numbers 0, 1 and 2 of   *)
(* ORDINAL_RANK.                                                           *)
(***************************************************************************)
EXTENDS Conflicts

CONSTANT SLMandate      \* SLMandate[c]: the SL a control is required from

ASSUME SLMandateAssumption ==
    /\ DOMAIN SLMandate \subseteq {c \in Control : Attributes[c].framework = "IEC62443"}
    /\ \A c \in DOMAIN SLMandate : SLMandate[c] \in 1..4

OrdinalLevel == 0..2
Phase == 0..3

\* The declared dependencies and the ordinal cost of every capability.
PrioritizationRules ==
    [requires: [Capability -> SUBSET Capability], cost: [Capability -> OrdinalLevel]]

\* A rule set with a cycle does not load: every set of capabilities has one that
\* requires none of the others.
Acyclic(rules) ==
    \A S \in (SUBSET Capability) \ {{}} : \E k \in S : rules.requires[k] \cap S = {}

Unlocks(rules, k) == {d \in Capability : k \in rules.requires[d]}

(***************************************************************************)
(* Mandates                                                                *)
(***************************************************************************)
Mandate == [source: {"sl_target", "legal_obligation"}, control_id: Control]

\* Read from the controls mapped to the capability, whatever gating does to
\* them.  A norm out of the sector of the zone obliges nobody, and an overlay
\* carries no SL mandate.  The code asks the zone for its target on the
\* foundational requirement of each mandate; here a zone has one target for all.
Mandates(o, zone) ==
    LET applying == {c \in DOMAIN o : ControlApplies(c, zone)}
    IN  {[source |-> "sl_target", control_id |-> c] :
            c \in {d \in applying \cap DOMAIN SLMandate :
                      /\ o[d].mapping_type # "contextual"
                      /\ zone.target_sl >= SLMandate[d]}}
        \cup
        {[source |-> "legal_obligation", control_id |-> c] :
            c \in {d \in applying : Attributes[d].control_type = "legal"}}

(***************************************************************************)
(* The ordinal reading of a capability                                     *)
(***************************************************************************)
CoverageBand(weight) ==
    IF 10 * weight >= 9 * Full THEN 2 ELSE IF 10 * weight >= 6 * Full THEN 1 ELSE 0

LeverageBand(unlocked) == IF unlocked >= 2 THEN 2 ELSE unlocked

HIGH_CONSEQUENCE_SCALES == {"catastrophic", "high"}

\* The stronger of what it closes and what it unlocks, one step up where
\* something is missing in a zone with physical consequence.
Benefit(rules, k, o, zone, scale) ==
    LET benefit == Max({CoverageBand(Coverage(o)), LeverageBand(Cardinality(Unlocks(rules, k)))})
        uplift == zone.safety_relevant /\ scale \in HIGH_CONSEQUENCE_SCALES /\ Gap(o) # None
    IN  IF uplift /\ benefit < 2 THEN benefit + 1 ELSE benefit

\* PRIORITY_MATRIX[b + 1][c + 1]: the priority of benefit b at cost c.
PRIORITY_MATRIX == <<<<1, 0, 0>>, <<2, 1, 0>>, <<2, 2, 1>>>>

PhaseByPriority(priority) == 3 - priority

\* The lowest implementation group among the mechanisms left, 0 for none.
ImplementationGroup(o) ==
    LET groups == {Attributes[c].strength :
                      c \in {d \in Available(o) : Attributes[d].framework = "CIS"
                                                  /\ Attributes[d].strength > 0}}
    IN  IF groups = {} THEN 0 ELSE Min(groups)

\* What is read of a capability before the roadmap fixes its phase.
Assess(rules, k, o, zone, scale) ==
    LET mandates == Mandates(o, zone)
        tier == IF mandates # {} THEN "tier_0" ELSE "tier_1"
        priority == PRIORITY_MATRIX[Benefit(rules, k, o, zone, scale) + 1][rules.cost[k] + 1]
    IN  [tier |-> tier,
         mandates |-> mandates,
         priority |-> IF tier = "tier_0" THEN None ELSE priority,
         band_phase |-> IF tier = "tier_0" THEN 0 ELSE PhaseByPriority(priority),
         implementation_group |-> ImplementationGroup(o),
         outstanding |-> IsOutstanding(tier, o)]

(***************************************************************************)
(* The roadmap                                                             *)
(***************************************************************************)
\* Faulty variant: the capabilities are walked in the order of their ids.
AlphabeticalOrder(rules) == Ascending(Capability)

\* visit each of s in turn, from order on.
InTurn(visit, s, order) ==
    LET done[n \in 0..Len(s)] == IF n = 0 THEN order ELSE visit[s[n]][done[n - 1]]
    IN  done[Len(s)]

\* Prerequisites first, depth first in the order of the ids.
TopologicalOrder(rules) ==
    LET visit[k \in Capability] == [order \in Seq(Capability) |->
            IF k \in ToSet(order) THEN order
            ELSE Append(InTurn(visit, Ascending(rules.requires[k]), order), k)]
    IN  InTurn(visit, Ascending(Capability), << >>)

\* Nothing discretionary is scheduled before what enables it.  A mandate is not
\* deferred because a prerequisite is late.
ScheduledPhases(rules, assessed) ==
    LET order == TopologicalOrder(rules)
        scheduled(phases, k) ==
            IF assessed[k].tier = "tier_0" THEN phases
            ELSE [phases EXCEPT ![k] = Max({@} \cup {phases[p] : p \in rules.requires[k]})]
        upTo[n \in 0..Len(order)] ==
            IF n = 0 THEN [k \in Capability |-> assessed[k].band_phase]
            ELSE scheduled(upTo[n - 1], order[n])
    IN  upTo[Len(order)]

IG_ORDERING_DOMAINS == {"IT", "HYBRID"}

ImplementationGroupRank(item, zone) ==
    IF zone.domain \notin IG_ORDERING_DOMAINS THEN 0
    ELSE IF item.implementation_group = 0 THEN 4 ELSE item.implementation_group

\* Inside phase 0 the order is that of the ids, which is not a ranking.
OrderKey(rules, k, item, zone) ==
    IF item.tier = "tier_0" THEN <<item.phase, 0, 0, 0, k>>
    ELSE <<item.phase, -item.priority, ImplementationGroupRank(item, zone), rules.cost[k], k>>

RoadmapOrder(rules, items, zone) ==
    InOrder(Capability, {p \in Capability \X Capability :
        LexicographicallyBefore(OrderKey(rules, p[1], items[p[1]], zone),
                                OrderKey(rules, p[2], items[p[2]], zone))})

(***************************************************************************)
(* The core over one zone: a capability is resolved, gated and scheduled.  *)
(***************************************************************************)
\* request: what a run is given, the profile, its zones, and the rules.
ZoneCore(request, zone) ==
    LET built == [k \in Capability |-> BuildOptions(request.mappings, k)]
        resolved == [k \in Capability |->
                        ResolveCapability(built[k], request.contradictions, k, zone)]
        gated == [k \in Capability |-> Gated(resolved[k], request.gating, zone)]
        assessed == [k \in Capability |->
                        Assess(request.prioritization, k, gated[k], zone, request.profile.scale)]
        phases == ScheduledPhases(request.prioritization, assessed)
        item(k) == [assessed |-> assessed[k], phase |-> phases[k],
                    tier |-> assessed[k].tier, priority |-> assessed[k].priority,
                    implementation_group |-> assessed[k].implementation_group]
    IN  [zone |-> zone,
         resolved |-> resolved,
         conflicts |-> [k \in Capability |->
            ConflictsOf(built[k], request.contradictions, k, zone)],
         gated |-> gated,
         items |-> [k \in Capability |-> item(k)],
         order |-> RoadmapOrder(request.prioritization, [k \in Capability |-> item(k)], zone)]

\* Every zone of the profile, in its order.
Core(request) ==
    [i \in DOMAIN request.zones |->
        ZoneCore(request, ZoneContext(request.zones[i], request.profile))]
=============================================================================
