----------------------------- MODULE Conflicts ------------------------------
(***************************************************************************)
(* Steps 1 and 2 of the core: the controls mapped to a capability          *)
(* (engine/mapping.py), and how the declared contradictions between them   *)
(* are settled in a zone (engine/conflicts.py, engine/rules.py).           *)
(*                                                                         *)
(* Contradictions are applied one after another in the order of the rules  *)
(* file, each to what the ones before it left.                             *)
(***************************************************************************)
EXTENDS Applicability, SequencesExt

CONSTANTS Capability,
          Precedence    \* Precedence[d]: the frameworks, the first prevails in d

ASSUME CapabilityAssumption == Capability \subseteq Nat
ASSUME FiniteCatalogAssumption == IsFiniteSet(Control) /\ IsFiniteSet(Capability)
ASSUME PrecedenceAssumption ==
    /\ DOMAIN Precedence = ZoneDomain
    /\ \A d \in ZoneDomain : Precedence[d] \in Seq(Framework) /\ IsInjective(Precedence[d])
                             /\ \A f \in Framework : \E i \in DOMAIN Precedence[d] :
                                    Precedence[d][i] = f

\* A control mapped to a capability.
Mapping == [capability: Capability, control: Control, mapping_type: MappingType,
            coverage_weight: 0..Full]

\* A declared contradiction between mechanisms of one capability.
Contradiction ==
    [capability: Capability, control_ids: SUBSET Control, domains: SUBSET ZoneDomain,
     requires_safety_relevant_zone: BOOLEAN,
     resolution: {"framework_precedence", "safety_override"}]

(***************************************************************************)
(* Mapping                                                                 *)
(***************************************************************************)
PrecedenceIndex(zone, c) ==
    CHOOSE i \in DOMAIN Precedence[zone.domain] :
        Precedence[zone.domain][i] = Attributes[c].framework

ComesBefore(c, d, zone) ==
    \/ PrecedenceIndex(zone, c) < PrecedenceIndex(zone, d)
    \/ PrecedenceIndex(zone, c) = PrecedenceIndex(zone, d) /\ c <= d

MAPPING_TYPE_RANK == [total |-> 0, partial |-> 1, compensatory |-> 2, contextual |-> 3]

(***************************************************************************)
(* Orders and selections are spelled out here, because the prover knows    *)
(* SortSeq and SelectSeq by their names alone.                             *)
(***************************************************************************)
\* sorted: the elements of S in the order of R, a set of pairs.
InOrder(S, R) ==
    [i \in 1..Cardinality(S) |->
        CHOOSE c \in S : Cardinality({d \in S : <<d, c>> \in R}) = i - 1]

Ascending(S) == InOrder(S, {p \in S \X S : p[1] < p[2]})

\* The elements of s that are in X, in the order of s.
Only(s, X) ==
    LET at == Ascending({i \in DOMAIN s : s[i] \in X})
    IN  [n \in DOMAIN at |-> s[at[n]]]

\* Every control mapped to the capability; none is selected and none is dropped.
BuildOptions(mappings, k) ==
    LET of == {m \in mappings : m.capability = k}
        mapped(c) == CHOOSE m \in of : m.control = c
    IN  [c \in {m.control : m \in of} |->
            [mapping_type |-> mapped(c).mapping_type,
             coverage_weight |-> mapped(c).coverage_weight,
             status |-> "eligible", excluded |-> None]]

LexicographicallyBefore(a, b) ==
    \E i \in DOMAIN a : a[i] < b[i] /\ \A j \in 1..(i - 1) : a[j] = b[j]

ShownBefore(o, zone, c, d) ==
    LET key(x) == <<MAPPING_TYPE_RANK[o[x].mapping_type], Full - o[x].coverage_weight,
                    PrecedenceIndex(zone, x), x>>
    IN  LexicographicallyBefore(key(c), key(d))

\* The order the options are shown in: breadth, coverage, precedence, id.
Presented(o, zone) ==
    InOrder(DOMAIN o, {p \in (DOMAIN o) \X (DOMAIN o) : ShownBefore(o, zone, p[1], p[2])})

(***************************************************************************)
(* Contradictions                                                          *)
(***************************************************************************)
AppliesTo(rule, k, zone) ==
    /\ rule.capability = k
    /\ zone.domain \in rule.domains
    /\ rule.requires_safety_relevant_zone => zone.safety_relevant

\* A rule may only name mechanisms the catalog maps to its capability.
ValidateAgainst(rules, mappings) ==
    \A i \in DOMAIN rules : \A c \in rules[i].control_ids :
        \E m \in mappings : m.capability = rules[i].capability /\ m.control = c

\* The mechanisms a rule names among those on offer, which are all it names but
\* in a reading of a delta.  With fewer than two there is nothing to settle.
Involved(rule, o) == rule.control_ids \cap DOMAIN o
Materialised(rule, o) == Cardinality(Involved(rule, o)) >= 2

ContradictionsFor(rules, k, o, zone) ==
    Only(rules, {rule \in ToSet(rules) : AppliesTo(rule, k, zone) /\ Materialised(rule, o)})

\* Faulty variant: what an earlier rule superseded can no longer prevail.
PrevailingAmongStanding(rule, o, zone) ==
    LET standing == {c \in Involved(rule, o) : o[c].status # "superseded"}
        among == IF standing = {} THEN Involved(rule, o) ELSE standing
    IN  CHOOSE c \in among : \A d \in among :
            ComesBefore(c, d, zone)

\* The context of the zone decides which mechanism prevails, not its strength.
Prevailing(rule, o, zone) ==
    CHOOSE c \in Involved(rule, o) : \A d \in Involved(rule, o) :
        ComesBefore(c, d, zone)

WithStatus(o, S, status) ==
    [c \in DOMAIN o |-> IF c \in S THEN [o[c] EXCEPT !.status = status] ELSE o[c]]

ApplyFrameworkPrecedence(rule, o, zone) ==
    WithStatus(o, Involved(rule, o) \ {Prevailing(rule, o, zone)}, "superseded")

\* The engine does not choose: every mechanism involved is left to the human,
\* those an earlier rule superseded included.
ApplySafetyOverride(rule, o) == WithStatus(o, Involved(rule, o), "contested")

ResolveContradiction(rule, o, zone) ==
    IF rule.resolution = "safety_override"
    THEN ApplySafetyOverride(rule, o)
    ELSE ApplyFrameworkPrecedence(rule, o, zone)

\* Options once the contradictions declared are settled, one after another.
Settled(o, declared, zone) ==
    LET settled[n \in 0..Len(declared)] ==
            IF n = 0 THEN o ELSE ResolveContradiction(declared[n], settled[n - 1], zone)
    IN  settled[Len(declared)]

ResolveCapability(o, rules, k, zone) == Settled(o, ContradictionsFor(rules, k, o, zone), zone)

(***************************************************************************)
(* What resolution reports of a capability                                 *)
(***************************************************************************)
Conflict ==
    [conflict_type: {"contradiction", "overlap", "granularity"}, control_ids: SUBSET Control,
     superseded: SUBSET Control, requires_human_decision: BOOLEAN]

ConflictOf(type, involved, superseded, human) ==
    [conflict_type |-> type, control_ids |-> involved, superseded |-> superseded,
     requires_human_decision |-> human]

ContradictionConflict(rule, o, zone) ==
    LET safety == rule.resolution = "safety_override"
    IN  ConflictOf("contradiction", Involved(rule, o),
                   IF safety THEN {} ELSE Involved(rule, o) \ {Prevailing(rule, o, zone)},
                   safety)

\* What counts as coverage: a contested mechanism still does.
Effective(o) ==
    {c \in DOMAIN o : o[c].status # "superseded" /\ o[c].mapping_type # "contextual"}

EffectiveOf(o, types) == {c \in Effective(o) : o[c].mapping_type \in types}

\* Several complete mechanisms for the same outcome.
DetectOverlap(o) ==
    LET full == EffectiveOf(o, {"total"})
    IN  IF Cardinality(full) < 2 THEN << >> ELSE <<ConflictOf("overlap", full, {}, FALSE)>>

\* The outcome is reached by pieces, which do not add up.
DetectGranularity(o) ==
    LET pieces == EffectiveOf(o, {"partial", "compensatory"})
    IN  IF pieces = {} THEN << >> ELSE <<ConflictOf("granularity", pieces, {}, FALSE)>>

\* o: the options before the contradictions are settled.
ConflictsOf(o, rules, k, zone) ==
    LET declared == ContradictionsFor(rules, k, o, zone)
        resolved == ResolveCapability(o, rules, k, zone)
    IN  [i \in DOMAIN declared |-> ContradictionConflict(declared[i], o, zone)]
        \o DetectOverlap(resolved) \o DetectGranularity(resolved)

EffectiveCoverage(o) == Max({o[c].coverage_weight : c \in Effective(o)} \cup {0})

\* A declared gap: its kind, what is covered, and the sentence that says so.  The
\* sentence of a capability without candidates is the same wherever it is
\* declared, any other says which step declares it.
GapKind == {"no_candidate", "no_effective_mechanism", "partial_only", "residual_coverage"}
DeclaredGap(kind, coverage, by) ==
    [kind |-> kind, coverage |-> coverage,
     rationale |-> IF kind = "no_candidate" THEN "either" ELSE by]
NoGap == [kind |-> None, coverage |-> 0, rationale |-> None]

ResolutionGap(o) ==
    LET gap(kind) == DeclaredGap(kind, EffectiveCoverage(o), "conflict_resolution")
    IN  IF DOMAIN o = {} THEN gap("no_candidate")
        ELSE IF Effective(o) = {} THEN gap("no_effective_mechanism")
        ELSE IF EffectiveOf(o, {"total"}) = {} THEN gap("partial_only")
        ELSE IF EffectiveCoverage(o) < Full THEN gap("residual_coverage")
        ELSE NoGap

GatingGap(o) ==
    IF Gap(o) = None THEN NoGap ELSE DeclaredGap(Gap(o), Coverage(o), "gating")
=============================================================================
