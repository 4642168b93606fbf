------------------------------- MODULE Delta --------------------------------
(***************************************************************************)
(* The regional delta (delta/service.py): one zone read once per region    *)
(* compared, and the difference between the readings.  Nothing of it is    *)
(* recorded.                                                               *)
(*                                                                         *)
(* What the question is not about is common ground, offered by every       *)
(* reading.                                                                *)
(***************************************************************************)
EXTENDS Conflicts

DeltaMode == {"cumulative", "symmetric"}
DeltaRegime == {"all", "legal"}

\* The regions compared, in order: parse_regions refuses fewer than two and a
\* repeated one.
AcceptedRegions(regions) == Len(regions) >= 2 /\ IsInjective(regions)

\* Faulty variant: a cumulative reading forgets the regions before it.
IncludedAlone(query, i) == {query.regions[i]}

\* query: the regions, the mode, the regime, the zone, the mappings and the
\* contradictions.
Included(query, i) ==
    IF query.mode = "symmetric" THEN {query.regions[i]}
    ELSE {query.regions[j] : j \in 1..i}

Compared(query) == ToSet(query.regions)

\* Faulty variant: a law of a jurisdiction that is not compared is on the axis.
EveryLawIsOnTheAxis(query, c) ==
    IF query.regime = "legal" THEN Attributes[c].control_type = "legal"
    ELSE Attributes[c].jurisdiction \in Compared(query)

\* A control is credited to its region if that is compared; under the legal
\* regime only a law is.
OnTheAxis(query, c) ==
    /\ Attributes[c].jurisdiction \in Compared(query)
    /\ query.regime = "legal" => Attributes[c].control_type = "legal"

Offers(query, i, c) ==
    OnTheAxis(query, c) => Attributes[c].jurisdiction \in Included(query, i)

\* A compared control that does not govern the sectors of the zone is out of the
\* comparison altogether.
SectorExcluded(query, c) ==
    Attributes[c].jurisdiction \in Compared(query) /\ ~ControlApplies(c, query.zone)

\* What one reading offers of a capability, resolved on its own.
Reading(query, k, i) ==
    LET o == BuildOptions(query.mappings, k)
        offered == {c \in DOMAIN o : ~SectorExcluded(query, c) /\ Offers(query, i, c)}
    IN  ResolveCapability(Restrict(o, offered), query.contradictions, k, query.zone)

OnlyHere(query, offered, i) ==
    LET others == IF query.mode = "symmetric" THEN DOMAIN offered \ {i} ELSE 1..(i - 1)
    IN  IF query.mode = "cumulative" /\ i = 1 THEN {}
        ELSE offered[i] \ UNION {offered[j] : j \in others}

\* One capability as every reading sees it.
CapabilityDelta(query, k) ==
    LET mapped == DOMAIN BuildOptions(query.mappings, k)
        readings == [i \in DOMAIN query.regions |-> Reading(query, k, i)]
        offered == [i \in DOMAIN readings |-> DOMAIN readings[i]]
        view(i) == [offered |-> offered[i],
                    only_here |-> OnlyHere(query, offered, i),
                    set_aside |-> {c \in mapped \ offered[i] : ~SectorExcluded(query, c)},
                    coverage |-> EffectiveCoverage(readings[i]),
                    gap |-> ResolutionGap(readings[i])]
        reporting == {i \in DOMAIN readings : query.mode = "symmetric" \/ i > 1}
        added == UNION {{[control |-> c, added_by |-> query.regions[i],
                          changes_coverage |-> readings[i][c].mapping_type # "contextual"] :
                            c \in view(i).only_here} : i \in reporting}
    IN  [common |-> {c \in offered[1] : \A i \in DOMAIN offered : c \in offered[i]},
         views |-> [i \in DOMAIN readings |-> view(i)],
         added |-> added,
         changed |-> added # {} \/ \E i \in DOMAIN offered : offered[i] # offered[1]]

\* A gap depends on the region if a reading has one and another does not, or if
\* a reading has no candidate at all.
GapIsRegional(delta) ==
    \/ Cardinality({delta.views[i].gap # NoGap : i \in DOMAIN delta.views}) > 1
    \/ \E i \in DOMAIN delta.views : delta.views[i].offered = {}

\* Which regimes of the compared regions govern the zone.
RegimeApplicability(query) ==
    LET of(f) == {c \in Control : Attributes[c].framework = f}
        legal == {c \in Control : Attributes[c].control_type = "legal"
                                  /\ Attributes[c].jurisdiction \in Compared(query)}
    IN  [f \in {Attributes[c].framework : c \in legal} |-> FrameworkApplies(of(f), query.zone)]

RegionalDelta(query) ==
    LET capabilities == [k \in Capability |-> CapabilityDelta(query, k)]
    IN  [capabilities |-> capabilities,
         changed |-> {k \in Capability : capabilities[k].changed},
         regional_gaps |-> {k \in Capability : GapIsRegional(capabilities[k])},
         regimes |-> RegimeApplicability(query)]
=============================================================================
