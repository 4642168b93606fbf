------------------------------- MODULE Gating -------------------------------
(***************************************************************************)
(* Where one capability of one zone stands once the engine has gated it:   *)
(* what mechanisms are left, what they leave uncovered, and whether a      *)
(* mandate over it is outstanding (gating.gate_capability and              *)
(* prioritization._is_outstanding).                                        *)
(*                                                                         *)
(* Gating removes mechanisms and never the capability.                     *)
(***************************************************************************)
EXTENDS Integers, FiniteSetsExt

CONSTANTS Control,      \* the controls of the catalog
          Full          \* the coverage weight of a complete mechanism

ASSUME FullAssumption == Full \in Nat \ {0}

None == "none"

MappingType == {"total", "partial", "compensatory", "contextual"}
MECHANISM_TYPES == {"total", "partial"}
CandidateStatus == {"eligible", "superseded", "contested"}
GatingOutcome == {"not_applicable", "objective_without_mechanism", "wrong_scope"}

\* A control mapped to the capability, as conflict resolution left it, and the
\* decision gating took against it, if any.
CandidateOption ==
    [mapping_type: MappingType, coverage_weight: 0..Full,
     status: CandidateStatus, excluded: GatingOutcome \cup {None}]

\* The options of a capability: a record for every control mapped to it.
AreOptions(o) == DOMAIN o \subseteq Control /\ o \in [DOMAIN o -> CandidateOption]

\* Faulty variant: what gating excluded still counts.
AvailableIgnoringGating(o) ==
    {c \in DOMAIN o : o[c].status # "superseded" /\ o[c].mapping_type # "contextual"}

\* Neither set aside by precedence, nor a mere overlay, nor excluded.
Available(o) ==
    {c \in DOMAIN o : /\ o[c].status # "superseded"
                      /\ o[c].mapping_type # "contextual"
                      /\ o[c].excluded = None}

Retained(o) == {c \in Available(o) : o[c].mapping_type \in MECHANISM_TYPES}

Coverage(o) == Max({o[c].coverage_weight : c \in Available(o)} \cup {0})

\* Deferred only when all that could cover it is out of the scope of the zone.
CapabilityStatus(o) ==
    LET candidates == {c \in DOMAIN o : o[c].mapping_type # "contextual"}
    IN  IF Retained(o) # {}
        THEN "covered_by_mechanism"
        ELSE IF /\ Available(o) = {}
                /\ candidates # {}
                /\ \A c \in candidates : o[c].excluded = "wrong_scope"
             THEN "deferred_to_organizational_layer"
             ELSE "compensatory_required"

Gap(o) ==
    CASE CapabilityStatus(o) = "deferred_to_organizational_layer" -> None
      [] DOMAIN o = {} -> "no_candidate"
      [] DOMAIN o # {} /\ Available(o) = {} /\ CapabilityStatus(o) = "compensatory_required" ->
            "no_effective_mechanism"
      [] Available(o) # {} /\ \A c \in Available(o) : o[c].mapping_type # "total" ->
            "partial_only"
      [] OTHER -> IF Coverage(o) < Full THEN "residual_coverage" ELSE None

\* A Tier 0 capability the engine cannot close: no mechanism, or a residual.
IsOutstanding(tier, o) ==
    /\ tier = "tier_0"
    /\ CapabilityStatus(o) # "deferred_to_organizational_layer"
    /\ CapabilityStatus(o) = "compensatory_required" \/ Gap(o) # None
=============================================================================
