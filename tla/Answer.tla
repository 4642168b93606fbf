------------------------------- MODULE Answer -------------------------------
(***************************************************************************)
(* What POST /candidates answers (candidates/service.py, _assemble, and    *)
(* candidates/schemas.py): every capability of every zone with its         *)
(* options, the roadmap, and what the optional passes did or did not add.  *)
(*                                                                         *)
(* The schemas refuse an answer that loses an option of the catalog or     *)
(* leaves an empty capability without a gap; the answer then fails.        *)
(***************************************************************************)
EXTENDS Explain

RetrievalStatus == {"ok", "disabled", "unavailable"}

NotRun(status) ==
    [status |-> status, suggestions |-> 0, set_aside |-> 0, below_cut |-> 0, displaced |-> 0]

\* f(i, k) added up over the zones and the capabilities of what was retrieved.
Total(retrieved, f(_, _)) ==
    FoldLeft(+, 0, FlattenSeq([i \in DOMAIN retrieved |->
        PerCapability(LAMBDA k : <<f(i, k)>>)]))

RetrievalReport(retrieved) ==
    [status |-> "ok",
     suggestions |-> Total(retrieved, LAMBDA i, k : Len(Widening(retrieved[i][k]))),
     set_aside |-> Total(retrieved, LAMBDA i, k : Len(retrieved[i][k].set_aside)),
     below_cut |-> Total(retrieved, LAMBDA i, k :
        Len(retrieved[i][k].cut.rank) + Len(retrieved[i][k].cut.cap)),
     displaced |-> Total(retrieved, LAMBDA i, k : Len(retrieved[i][k].cut.cap))]

\* The catalog's options in the order of the core, then the suggestions.
OfferedIn(core, retrieved, i, k) ==
    IF retrieved = << >> THEN Presented(core[i].resolved[k], core[i].zone)
    ELSE OfferedControlIds(retrieved[i][k])

CapabilityCandidates(core, retrieved, i, k) ==
    [offered_control_ids |-> OfferedIn(core, retrieved, i, k),
     gap_is_declared |-> \/ ResolutionGap(core[i].resolved[k]) # NoGap
                         \/ GatingGap(core[i].gated[k]) # NoGap
                         \/ retrieved # << >> /\ retrieved[i][k].gap # NoGap]

OutstandingMandates(core, i) == {k \in Capability : core[i].items[k].assessed.outstanding}

\* The phases of the roadmap, each in the order of the zone.
Phases(core, i) ==
    [phase \in Phase |-> SelectSeq(core[i].order, LAMBDA k : core[i].items[k].phase = phase)]

OpenDecisions(core, i) ==
    PerCapability(LAMBDA k :
        SelectSeq(core[i].conflicts[k], LAMBDA c : c.requires_human_decision))

ZoneCandidates(core, retrieved, i) ==
    [capabilities |-> [k \in Capability |-> CapabilityCandidates(core, retrieved, i, k)],
     phases |-> Phases(core, i),
     open_decisions |-> OpenDecisions(core, i),
     outstanding_capability_ids |-> OutstandingMandates(core, i)]

\* report: what the retrieval pass says of itself; events: what was recorded.
CandidatesResponse(core, retrieved, report, events) ==
    [retrieval |-> report,
     zones |-> [i \in DOMAIN core |-> ZoneCandidates(core, retrieved, i)],
     tier_0_complete |-> \A i \in DOMAIN core : OutstandingMandates(core, i) = {},
     audit_events |-> events]

\* The schemas' own checks.
IsWellFormed(core, response) ==
    \A i \in DOMAIN core : \A k \in Capability :
        LET offered == response.zones[i].capabilities[k].offered_control_ids
        IN  /\ DOMAIN core[i].resolved[k] \subseteq ToSet(offered)
            /\ offered = << >> => response.zones[i].capabilities[k].gap_is_declared
=============================================================================
