----------------------------- MODULE CoreTrail ------------------------------
(***************************************************************************)
(* What the ledger records of a run: the entries audit/trail.py derives    *)
(* from the core and retrieval/trail.py from the retrieval, in the order   *)
(* they are appended.                                                      *)
(*                                                                         *)
(* An entry names its zone by its place in the profile, and its payload is *)
(* reduced to what a reader needs to follow the decision.                  *)
(***************************************************************************)
EXTENDS Retrieval

NoZone == 0
NoCapability == -1      \* no capability is negative

Recorded(event, i, k, payload) ==
    [event_type |-> event, zone |-> i, capability |-> k, payload |-> payload]

\* f(k) for every capability, in the order of the catalog.
PerCapability(f(_)) ==
    LET in_order == Ascending(Capability)
    IN  FlattenSeq([j \in DOMAIN in_order |-> f(in_order[j])])

\* f(i) for every zone of the run.
PerZone(run, f(_)) == FlattenSeq([i \in DOMAIN run |-> f(i)])

StageCompleted(i, stage) == <<Recorded("STAGE_COMPLETED", i, NoCapability, stage)>>

(***************************************************************************)
(* Mapping and conflict resolution                                         *)
(***************************************************************************)
\* Every capability leaves a mark, with its candidates as resolution left them.
MappingEntries(run, i) ==
    <<Recorded("ZONE_DERIVED", i, NoCapability, run[i].zone)>>
        \o PerCapability(LAMBDA k :
               <<Recorded("CAPABILITY_MAPPED", i, k, run[i].resolved[k])>>)
        \o StageCompleted(i, "mapping")

ConflictEntry(i, k, conflict) ==
    Recorded(IF conflict.requires_human_decision THEN "CONFLICT_ESCALATED" ELSE "CONFLICT_RESOLVED",
             i, k, conflict)

GapEntries(i, k, gap) ==
    IF gap = NoGap THEN << >> ELSE <<Recorded("GAP_DECLARED", i, k, gap)>>

\* The conflicts of a capability in the order they were met, then its gap.
ConflictResolutionEntries(run, i) ==
    LET met(k) == run[i].conflicts[k]
    IN  PerCapability(LAMBDA k : [j \in DOMAIN met(k) |-> ConflictEntry(i, k, met(k)[j])]
                                     \o GapEntries(i, k, ResolutionGap(run[i].resolved[k])))
            \o StageCompleted(i, "conflict_resolution")

(***************************************************************************)
(* Gating                                                                  *)
(***************************************************************************)
ExclusionEntries(run, i, k) ==
    LET o == run[i].gated[k]
        excluded == Ascending({c \in DOMAIN o : o[c].excluded # None})
    IN  [j \in DOMAIN excluded |->
            Recorded("MECHANISM_EXCLUDED", i, k,
                     [control |-> excluded[j], outcome |-> o[excluded[j]].excluded])]

StatusEntries(run, i, k) ==
    LET status == CapabilityStatus(run[i].gated[k])
    IN  IF status = "covered_by_mechanism" THEN << >>
        ELSE <<Recorded("CAPABILITY_STATUS_SET", i, k, status)>>

\* Faulty variant: a gap of the same kind is not declared again.
RedeclaredIfOfAnotherKind(run, i, k) ==
    IF GatingGap(run[i].gated[k]).kind = ResolutionGap(run[i].resolved[k]).kind THEN NoGap
    ELSE GatingGap(run[i].gated[k])

\* A gap equal to the one resolution declared, its sentence included, is not
\* declared again.
RedeclaredGap(run, i, k) ==
    IF GatingGap(run[i].gated[k]) = ResolutionGap(run[i].resolved[k]) THEN NoGap
    ELSE GatingGap(run[i].gated[k])

GatingEntries(run, i) ==
    PerCapability(LAMBDA k : ExclusionEntries(run, i, k) \o StatusEntries(run, i, k)
                                 \o GapEntries(i, k, RedeclaredGap(run, i, k)))
        \o StageCompleted(i, "gating")

(***************************************************************************)
(* Prioritisation                                                          *)
(***************************************************************************)
PriorityEntries(run, i) ==
    LET entries(k) ==
            LET item == run[i].items[k]
            IN  <<Recorded(IF item.tier = "tier_0" THEN "MANDATE_RECORDED" ELSE "PRIORITY_ASSIGNED",
                           i, k, item)>>
                \o IF item.assessed.outstanding
                   THEN <<Recorded("MANDATE_OUTSTANDING", i, k, item)>> ELSE << >>
    IN  FlattenSeq([j \in DOMAIN run[i].order |-> entries(run[i].order[j])])
            \o <<Recorded("ROADMAP_PHASED", i, NoCapability,
                          [k \in Capability |-> run[i].items[k].phase])>>
            \o StageCompleted(i, "prioritization")

\* The zones are walked once for the mapping, once for the conflicts, and so on.
CoreTrail(run) ==
    <<Recorded("RUN_STARTED", NoZone, NoCapability, Len(run))>>
        \o PerZone(run, LAMBDA i : MappingEntries(run, i))
        \o PerZone(run, LAMBDA i : ConflictResolutionEntries(run, i))
        \o PerZone(run, LAMBDA i : GatingEntries(run, i))
        \o PerZone(run, LAMBDA i : PriorityEntries(run, i))
        \o <<Recorded("RUN_COMPLETED", NoZone, NoCapability,
                      [i \in DOMAIN run |->
                          {k \in Capability : run[i].items[k].assessed.outstanding}])>>

(***************************************************************************)
(* Retrieval: retrieved[i][k] is what the pass added to k in zone i.       *)
(***************************************************************************)
RetrievalEntries(retrieved, i, k) ==
    LET found == retrieved[i][k]
        asides == [j \in DOMAIN found.set_aside |->
                      Recorded("CANDIDATE_SET_ASIDE", i, k, found.set_aside[j].control)]
        cut == IF found.retrieved = << >> THEN << >>
               ELSE <<Recorded("CANDIDATES_CUT", i, k, found.cut)>>
    IN  <<Recorded("CANDIDATES_RETRIEVED", i, k, OfferedControlIds(found))>>
            \o cut \o asides \o GapEntries(i, k, found.gap)

RetrievalTrail(retrieved) ==
    PerZone(retrieved, LAMBDA i :
        PerCapability(LAMBDA k : RetrievalEntries(retrieved, i, k))
            \o StageCompleted(i, "retrieval"))
=============================================================================
