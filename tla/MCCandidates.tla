---------------------------- MODULE MCCandidates ----------------------------
(***************************************************************************)
(* Families of requests, each large where one part of the engine is hard   *)
(* and small elsewhere.                                                    *)
(***************************************************************************)
EXTENDS Candidates

MCControl == 1..8
Mechanism(framework, jurisdiction) ==
    [framework |-> framework, control_type |-> "technical", jurisdiction |-> jurisdiction,
     strength |-> 0, applies_to_sectors |-> {}, presupposes |-> {}]
Law(framework, jurisdiction, sectors) ==
    [Mechanism(framework, jurisdiction) EXCEPT !.control_type = "legal",
                                               !.applies_to_sectors = sectors]
MCAttributes ==
    <<Mechanism("CSF", "INTL"),
      Mechanism("IEC62443", "INTL"),
      [Mechanism("CIS", "US") EXCEPT !.strength = 1,
           !.presupposes = {[premise |-> "general_purpose_os", expected |-> TRUE]}],
      Law("NIS2", "EU", {"energy", "health"}),
      Law("TSA", "US", {"energy"}),
      [Mechanism("CIS", "US") EXCEPT !.strength = 2],
      Law("IMO", "INTL", {"maritime"}),
      [Mechanism("CIS", "US") EXCEPT !.strength = 3]>>
MCSLMandate == [c \in {2} |-> 2]

IT == <<"CIS", "CSF", "IEC62443", "NIS2", "TSA", "IMO">>
OT == <<"IEC62443", "CSF", "CIS", "NIS2", "IMO", "TSA">>
MCPrecedence == [d \in ZoneDomain |-> IF d = "IT" THEN IT ELSE OT]

Controller == [purdue |-> "L1", nature |-> [p \in Premise |-> FALSE], role |-> None,
               target_sl |-> 2, safety_out_of_scope |-> FALSE, sectors |-> {"energy"}]
Office == [Controller EXCEPT !.purdue = "L4", !.target_sl = 1, !.sectors = {},
                             !.nature = [p \in Premise |-> p = "general_purpose_os"]]
Jetty == [Controller EXCEPT !.purdue = "L3", !.target_sl = 1, !.sectors = {"maritime"},
                            !.nature = [p \in Premise |-> p = "hybrid_it_ot"]]
Plant == [case |-> "HYBRID_IT_OT", scale |-> "catastrophic", sectors |-> {}]
Depot == [Plant EXCEPT !.scale = "low"]

\* A kind of mapping: absent, or a type and a weight.
Absent == <<"none", 0>>
As(kinds) ==    \* kinds[k][c]
    UNION {{[capability |-> k, control |-> c, mapping_type |-> kinds[k][c][1],
             coverage_weight |-> kinds[k][c][2]] :
               c \in {d \in DOMAIN kinds[k] : kinds[k][d] # Absent}} : k \in DOMAIN kinds}
To1(kinds) == As(<<kinds>>)

Contra(resolution, controls) ==
    [capability |-> 1, control_ids |-> controls, domains |-> ZoneDomain,
     requires_safety_relevant_zone |-> resolution = "safety_override", resolution |-> resolution]
Prec(controls) == Contra("framework_precedence", controls)
Safe(controls) == Contra("safety_override", controls)

Rule(outcome, controls) ==
    [id |-> "GATE-1", outcome |-> outcome, control_ids |-> controls, domains |-> {},
     roles |-> {}, nature |-> {}, safety_relevant |-> BOOLEAN]

NoRequires == [k \in Capability |-> {}]
Plan(requires, cost) == [requires |-> requires, cost |-> cost]
FlatCost == [k \in Capability |-> 1]
NoRanking == [k \in Capability |-> << >>]

\* A request with every part at its simplest.
Idle == [kind |-> "none"]
Core1(mappings) ==
    [kind |-> "candidates", profile |-> Plant, zones |-> <<Controller>>, mappings |-> mappings,
     contradictions |-> << >>, gating |-> << >>, prioritization |-> Plan(NoRequires, FlatCost),
     retrieval |-> FALSE, lens |-> NoLens, ranking |-> NoRanking, explain |-> NoScope]
Alone(ask) == [asks |-> [r \in Request |-> IF r = "r1" THEN ask ELSE Idle], unsettled |-> FALSE]

(***************************************************************************)
(* Contradictions, gating and the gaps they leave                          *)
(***************************************************************************)
Kinds == {Absent, <<"total", 10>>, <<"total", 8>>, <<"partial", 5>>, <<"partial", 3>>,
          <<"contextual", 10>>}
ContradictionLists ==
    {<< >>, <<Prec({1, 2})>>, <<Prec({1, 2}), Prec({1, 3})>>, <<Safe({1, 2}), Prec({1, 2, 3})>>,
     <<Prec({1, 2}), Safe({2, 3})>>}
GatingLists ==
    {<< >>, <<Rule("wrong_scope", {1, 2, 3})>>, <<Rule("objective_without_mechanism", {2})>>,
     <<Rule("wrong_scope", {1}), [Rule("not_applicable", {2}) EXCEPT !.id = "GATE-2",
                                                                       !.domains = {"OT"}]>>}
\* The rules fit the catalog, but for one load of each family.
Fits(declared, kinds) ==
    \A i \in DOMAIN declared : \A c \in declared[i].control_ids : kinds[c] # Absent
RuleLoads ==
    {Alone([Core1({}) EXCEPT !.contradictions = <<Prec({1, 2})>>])} \cup
    {Alone([Core1(To1(kinds)) EXCEPT !.contradictions = declared, !.gating = rules,
                                     !.zones = zones]) :
        <<kinds, declared>> \in {p \in [1..3 -> Kinds] \X ContradictionLists : Fits(p[2], p[1])},
        rules \in GatingLists, zones \in {<<Controller>>, <<Office>>}}

(***************************************************************************)
(* Phases                                                                  *)
(***************************************************************************)
Relations == {requires \in [1..3 -> SUBSET (1..3)] : Acyclic([requires |-> requires])}
Costs == {FlatCost, [k \in 1..3 |-> k - 1], [k \in 1..3 |-> 3 - k]}
PhaseKinds == {[c \in 1..3 |-> IF c = 2 THEN <<"total", 10>> ELSE Absent],
               [c \in 1..3 |-> IF c = 3 THEN <<"total", 10>> ELSE Absent],
               [c \in 1..3 |-> IF c = 1 THEN <<"partial", 5>> ELSE Absent]}
PhaseLoads ==
    {Alone([Core1(As(kinds)) EXCEPT !.prioritization = Plan(requires, cost), !.profile = Depot,
                                    !.zones = <<Controller, Office>>]) :
        kinds \in [1..3 -> PhaseKinds], requires \in Relations, cost \in Costs}

(***************************************************************************)
(* Deltas                                                                  *)
(***************************************************************************)
DeltaKinds ==
    {f \in [{2, 3, 4, 5, 7} -> {Absent, <<"total", 8>>, <<"partial", 9>>, <<"contextual", 10>>}] :
        /\ f[2] \in {Absent, <<"total", 8>>}
        /\ f[3] \in {Absent, <<"partial", 9>>}
        /\ f[4] # <<"partial", 9>>
        /\ f[5] \in {Absent, <<"contextual", 10>>}
        /\ f[7] \in {Absent, <<"contextual", 10>>}}
Delta1(mappings, declared, zone, regions, mode, regime) ==
    [kind |-> "delta", profile |-> Plant, zones |-> <<Controller, Jetty>>, zone |-> zone,
     mappings |-> mappings, contradictions |-> declared, regions |-> regions,
     mode |-> mode, regime |-> regime]
DeltaRules == {<< >>, <<Prec({2, 4})>>, <<Prec({2, 3}), Safe({3, 4})>>}
DeltaLoads ==
    {Alone(Delta1({}, <<Prec({2, 4})>>, 1, <<"US", "EU">>, "cumulative", "all"))} \cup
    {Alone(Delta1(To1(kinds), declared, zone, regions, mode, regime)) :
        <<kinds, declared>> \in {p \in DeltaKinds \X DeltaRules : Fits(p[2], p[1])}, zone \in 1..3,
        regions \in {<<"US", "EU">>, <<"EU", "US">>, <<"EU", "US", "INTL">>, <<"US", "US">>},
        mode \in DeltaMode, regime \in DeltaRegime}

(***************************************************************************)
(* The cut and the lens                                                    *)
(***************************************************************************)
Indexed == {2, 3, 4, 6, 8}
Orders == {s \in [1..5 -> Indexed] : IsInjective(s)}
Ranking(order, gaps) ==
    [k \in Capability |-> IF k > 1 THEN << >> ELSE
        [i \in 1..5 |-> [control |-> order[i],
                         score |-> 20 - 3 * Cardinality({j \in gaps : j < i})]]]
Catalogs == {{}, {2}, {3, 4}}
Lenses == {NoLens, [NoLens EXCEPT !.jurisdictions = {"US"}],
           [NoLens EXCEPT !.frameworks = {"CIS", "NIS2"}]}
CutLoads ==
    {Alone([Core1(To1([c \in catalog |-> <<"total", 10>>])) EXCEPT !.retrieval = TRUE,
                !.lens = lens, !.ranking = Ranking(order, gaps), !.zones = <<zone>>]) :
        catalog \in Catalogs, lens \in Lenses, order \in Orders,
        gaps \in {{}, {2}, {1, 3}, {1, 2, 3, 4}}, zone \in {Controller, Jetty}}

(***************************************************************************)
(* Explanations, with a parse beside them and the weights moving           *)
(***************************************************************************)
Draft(c, text, basis) == [control_id |-> c, explanation |-> text, basis |-> basis]
MCDrafts ==
    {<< >>,
     <<Draft(6, "description", {"similarity"}), Draft(3, "verdict", {"control"})>>,
     <<Draft(3, "description", {"catalog_mapping", "candidate_status"}),
       Draft(3, "blank", {}), Draft(1, "description", {"control"})>>}
Explained(scope) ==
    [Core1(To1([c \in {2, 3} |-> <<"total", 10>>])) EXCEPT !.retrieval = TRUE,
        !.contradictions = <<Prec({2, 3})>>, !.ranking = Ranking(<<3, 6, 8, 2, 4>>, {1, 2, 3, 4}),
        !.explain = scope]
Parse(empty) == [kind |-> "parse", empty |-> empty]
ExplainLoads ==
    {[asks |-> [r \in Request |-> IF r = "r1" THEN Explained(scope) ELSE other],
      unsettled |-> TRUE] :
        scope \in {[zone |-> 1, capabilities |-> {1, 2}], NoScope,
                   [zone |-> 2, capabilities |-> {1}], [zone |-> 1, capabilities |-> {1, 9}]},
        other \in {Parse(FALSE), Parse(TRUE)}}

MCLoads == <<ExplainLoads, RuleLoads, PhaseLoads, DeltaLoads, CutLoads>>
=============================================================================
