------------------------------- MODULE Oscal --------------------------------
(***************************************************************************)
(* The declaration of applicability as a partial OSCAL system security     *)
(* plan (baseline/oscal.py): a zone is a component, a capability is an     *)
(* implemented requirement, and how the capability ended in a zone is one  *)
(* of the states OSCAL defines.  What OSCAL has no state for goes into     *)
(* properties only this engine understands.                                *)
(***************************************************************************)
EXTENDS Statement

CONSTANT Layouts        \* the zones and the capabilities the keys may stand for

\* layout[k]: the zone and the capability of k, which no other key shares.
ASSUME LayoutsAssumption ==
    \A layout \in Layouts : \A k, l \in Key :
        layout[k].zone = layout[l].zone /\ layout[k].capability = layout[l].capability => k = l

\* OSCAL has no state for a gap accepted in writing.
STATE_BY_OUTCOME ==
    [implemented |-> "implemented", compensated |-> "alternative", deferred |-> "not-applicable",
     accepted_gap |-> "partial", open_gap |-> "partial", roadmap |-> "planned"]

\* Only what the last word on a mechanism leaves excluded by gating.
ExcludedControls(k) == {c \in Mechanisms(k) : Disposition(k, c) \in GatingOutcome}

\* How one zone answers a requirement.
ByComponent(k) ==
    [state |-> STATE_BY_OUTCOME[Outcome(k)],
     capability_outcome |-> Outcome(k),
     tier |-> tier[k],
     in_signed_baseline |-> InSignedBaseline(k),
     selected_control |-> Included(k),
     excluded_control |-> ExcludedControls(k),
     gap_accepted |-> GapIsAccepted(k)]

\* Read off the rows of the zone, not off what the signature says of itself.
ZoneIsComplete(layout, zone) ==
    ~ \E k \in Key : layout[k].zone = zone /\ tier[k] = "tier_0" /\ Outcome(k) = "open_gap"

Component(layout, zone) ==
    [type |-> "network",
     status |-> IF ZoneIsComplete(layout, zone) THEN "operational" ELSE "other"]

\* One requirement per capability, answered by every zone that has it.
ImplementedRequirement(layout, capability) ==
    LET of == {k \in Key : layout[k].capability = capability}
    IN  [zone \in {layout[k].zone : k \in of} |->
            ByComponent(CHOOSE k \in of : layout[k].zone = zone)]

SystemSecurityPlan(layout) ==
    [components |-> [zone \in {layout[k].zone : k \in Key} |-> Component(layout, zone)],
     implemented_requirements |->
        [capability \in {layout[k].capability : k \in Key} |->
            ImplementedRequirement(layout, capability)]]

\* Of a capability gating left nothing of, the operator only rejected: whatever was
\* declared to compensate it and, outside Tier 0, possibly nothing was.
OnlyRejected(k) ==
    /\ CapabilityStatus(options[k]) = "compensatory_required"
    /\ Rejected(k) # {} /\ Selected(k) = {} /\ Declared(k) \subseteq Rejected(k)
    /\ tier[k] = "tier_0" => Declared(k) # {}

\* What an answer says of a key, read by its state alone, is in force.
AnswerSaysNoMore(k, answer) ==
    /\ answer.selected_control \cap answer.excluded_control = {}
    /\ answer.state = "implemented" => answer.selected_control # {}
    /\ answer.state \in {"partial", "planned", "not-applicable"} => answer.selected_control = {}
    /\ answer.state = "alternative" =>
          \/ answer.selected_control \cap Declared(k) # {}
          \/ answer.selected_control = {} /\ OnlyRejected(k)

\* A mandate that is partial with nobody's acceptance.
IsUnmet(answer) ==
    answer.tier = "tier_0" /\ answer.state = "partial" /\ ~answer.gap_accepted

(***************************************************************************)
(* Read by the states of OSCAL alone, without the properties of this       *)
(* engine: what is implemented names what is in force; nothing is in force *)
(* where a requirement is partial, planned or does not apply; what is met  *)
(* another way names a control declared to compensate it, but for one      *)
(* reading that says more than was signed; and a zone is operational       *)
(* unless a mandate there is partial and nobody accepted the gap.  The     *)
(* reading that says more, met another way by nothing at all: gating left  *)
(* nothing of the capability and the operator only rejected, in Tier 0     *)
(* every control declared to compensate it, in Tier 1 any candidate.       *)
(***************************************************************************)
StatesDoNotMislead ==
    Signed => \A layout \in Layouts :
        LET plan == SystemSecurityPlan(layout)
            answer(k) == plan.implemented_requirements[layout[k].capability][layout[k].zone]
        IN  /\ \A k \in Key : AnswerSaysNoMore(k, answer(k))
            /\ \A zone \in DOMAIN plan.components :
                  plan.components[zone].status = "operational" <=>
                      ~ \E k \in Key : layout[k].zone = zone /\ IsUnmet(answer(k))
=============================================================================
