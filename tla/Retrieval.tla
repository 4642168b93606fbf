----------------------------- MODULE Retrieval ------------------------------
(***************************************************************************)
(* The retrieval pass over one capability of one zone (retrieval/service,  *)
(* filters, cut and trail): what the index answers under the lens, what    *)
(* the cut keeps of it, and what is reported of the rest.                  *)
(*                                                                         *)
(* What the index knows of a capability is its ranking: every indexed      *)
(* control with its similarity, most similar first.                        *)
(***************************************************************************)
EXTENDS Roadmap

CONSTANTS RETRIEVAL_DEPTH, TOP_K, MAX_K, TIE_EPSILON, FRAMEWORK_CAP

ASSUME CutPolicyAssumption ==
    /\ RETRIEVAL_DEPTH \in Nat /\ TIE_EPSILON \in Nat
    /\ TOP_K \in Nat \ {0} /\ FRAMEWORK_CAP \in Nat \ {0}
    /\ MAX_K \in Nat /\ TOP_K <= MAX_K

IndexHit == [control: Control, score: Nat]

(***************************************************************************)
(* The lens: an empty axis asks nothing.                                   *)
(***************************************************************************)
PayloadFilter ==
    [jurisdictions: SUBSET Jurisdiction, frameworks: SUBSET Framework,
     mapping_types: SUBSET MappingType, sectors: SUBSET Sector]

NoLens == [jurisdictions |-> {}, frameworks |-> {}, mapping_types |-> {}, sectors |-> {}]
IsActive(lens) == lens # NoLens

\* The lens of the operator and the sectors of the zone.
ApplicabilityLens(zone, lens) ==
    IF zone.sectors = {} THEN lens ELSE [lens EXCEPT !.sectors = zone.sectors]

\* What kinds of mapping a control takes part in, over the whole catalog.
MappingTypesOf(mappings, c) == {m.mapping_type : m \in {n \in mappings : n.control = c}}

\* The top frameworks of the precedence of the zone, which the operator asks for.
ZoneLens(zone, frameworks) ==
    [NoLens EXCEPT !.frameworks = {Precedence[zone.domain][i] : i \in 1..frameworks}]

\* Faulty variant: a plain match, which a control without a declared scope fails.
MatchesPlainly(lens, mappings, c) ==
    /\ lens.jurisdictions = {} \/ Attributes[c].jurisdiction \in lens.jurisdictions
    /\ lens.frameworks = {} \/ Attributes[c].framework \in lens.frameworks
    /\ lens.mapping_types = {} \/ MappingTypesOf(mappings, c) \cap lens.mapping_types # {}
    /\ lens.sectors = {} \/ Attributes[c].applies_to_sectors \cap lens.sectors # {}

\* to_qdrant: the lens in the language of the index.
Matches(lens, mappings, c) ==
    /\ lens.jurisdictions = {} \/ Attributes[c].jurisdiction \in lens.jurisdictions
    /\ lens.frameworks = {} \/ Attributes[c].framework \in lens.frameworks
    /\ lens.mapping_types = {} \/ MappingTypesOf(mappings, c) \cap lens.mapping_types # {}
    /\ \/ lens.sectors = {}
       \/ Attributes[c].applies_to_sectors = {}
       \/ Attributes[c].applies_to_sectors \cap lens.sectors # {}

\* Which axes set a control aside, read on its payload.
ExcludedAxes(lens, mappings, c) ==
    {axis \in {"jurisdiction", "zone", "mapping_type", "sector"} :
        CASE axis = "jurisdiction" ->
               lens.jurisdictions # {} /\ Attributes[c].jurisdiction \notin lens.jurisdictions
          [] axis = "zone" ->
               lens.frameworks # {} /\ Attributes[c].framework \notin lens.frameworks
          [] axis = "mapping_type" ->
               lens.mapping_types # {} /\ MappingTypesOf(mappings, c) \cap lens.mapping_types = {}
          [] axis = "sector" ->
               /\ lens.sectors # {} /\ Attributes[c].applies_to_sectors # {}
               /\ Attributes[c].applies_to_sectors \cap lens.sectors = {}}

Take(s, n) == SubSeq(s, 1, Min({n, Len(s)}))

\* The hits among s of the controls in C.
HitsOf(s, C) == Only(s, {h \in ToSet(s) : h.control \in C})

Search(ranking, limit, passing) == Take(HitsOf(ranking, passing), limit)

(***************************************************************************)
(* The cut                                                                 *)
(***************************************************************************)
Tied(hits, i) == hits[i + 1].score >= hits[i].score - TIE_EPSILON

\* The floor, extended over ties up to the ceiling.
BandWidth(hits) ==
    LET floor == Min({TOP_K, Len(hits)})
        limit == Min({MAX_K, Len(hits)})
    IN  Min({k \in floor..limit : k = limit \/ ~Tied(hits, k)} \cup {limit})

NothingCut == [kept |-> << >>, rank |-> << >>, cap |-> << >>]

\* The band fills in rank order, and a framework that has its share is passed over.
FillBand(hits) ==
    LET share(kept, hit) == Cardinality({i \in DOMAIN kept :
            Attributes[kept[i].control].framework = Attributes[hit.control].framework})
        place(cut, hit) ==
            CASE Len(cut.kept) = BandWidth(hits) -> [cut EXCEPT !.rank = Append(@, hit)]
              [] Len(cut.kept) # BandWidth(hits) /\ share(cut.kept, hit) >= FRAMEWORK_CAP ->
                    [cut EXCEPT !.cap = Append(@, hit)]
              [] OTHER -> [cut EXCEPT !.kept = Append(@, hit)]
        filled[n \in 0..Len(hits)] ==
            IF n = 0 THEN NothingCut ELSE place(filled[n - 1], hits[n])
    IN  filled[Len(hits)]

\* What the cap displaced comes back, the most similar first, until the floor is
\* met, in its place of the ranking.
CapYieldsToTheFloor(hits, cut) ==
    LET missing == Max({0, Min({TOP_K, Len(hits)}) - Len(cut.kept)})
        back == ToSet(Take(cut.cap, missing))
    IN  [cut EXCEPT !.kept = Only(hits, ToSet(cut.kept) \cup back),
                    !.cap = Only(cut.cap, ToSet(cut.cap) \ back)]

ApplyCut(hits) == CapYieldsToTheFloor(hits, FillBand(hits))

(***************************************************************************)
(* The pass                                                                *)
(***************************************************************************)
\* What gating excluded from the zone, whatever the capability.
ZoneGatedControls(gated) ==
    {c \in Control : \E k \in Capability : c \in DOMAIN gated[k] /\ gated[k][c].excluded # None}

SinkGated(hits, marked) == HitsOf(hits, Control \ marked) \o HitsOf(hits, marked)

\* catalog: the options of the capability, in the order the core shows them.
RetrieveCapability(ranking, mappings, lens, catalog, gatedOut) ==
    LET limit == RETRIEVAL_DEPTH + Len(catalog)
        offered == ToSet(catalog)
        hits == Search(ranking, limit, {c \in Control : Matches(lens, mappings, c)})
        cut == ApplyCut(HitsOf(hits, Control \ offered))
        shown == Only(hits, {h \in ToSet(hits) : h.control \in offered \/ h \in ToSet(cut.kept)})
        aside == IF IsActive(lens)
                 THEN HitsOf(Search(ranking, limit, Control),
                             {c \in Control : ExcludedAxes(lens, mappings, c) # {}})
                 ELSE << >>
    IN  [catalog_control_ids |-> catalog,
         retrieved |-> SinkGated(shown, gatedOut \ offered),
         gated_out |-> {h.control : h \in ToSet(shown)} \cap (gatedOut \ offered),
         set_aside |-> aside,
         cut |-> IF shown = << >> THEN NothingCut ELSE cut,
         gap |-> IF catalog = << >> /\ cut.kept = << >>
                 THEN [kind |-> "no_candidate", coverage |-> 0, rationale |-> "retrieval"]
                 ELSE NoGap]

Widening(retrieval) ==
    HitsOf(retrieval.retrieved, Control \ ToSet(retrieval.catalog_control_ids))

\* The candidates of a capability: those of the catalog, then the suggestions.
OfferedControlIds(retrieval) ==
    LET suggested == Widening(retrieval)
    IN  retrieval.catalog_control_ids \o [i \in DOMAIN suggested |-> suggested[i].control]

\* core: the reading of one zone by the core.
RetrieveZone(request, core) ==
    LET lens == ApplicabilityLens(core.zone, request.lens)
        catalog(k) == Presented(core.resolved[k], core.zone)
    IN  [k \in Capability |->
            RetrieveCapability(request.ranking[k], request.mappings, lens, catalog(k),
                               ZoneGatedControls(core.gated))]
=============================================================================
