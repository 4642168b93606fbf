---------------------------- MODULE Composition -----------------------------
(***************************************************************************)
(* What a composition is, from the decisions of the operator to the        *)
(* declaration of applicability read back off the ledger:                  *)
(*                                                                         *)
(*   choices  --checks-->  signed baseline  --trail-->  ledger  -->        *)
(*   statement                                                             *)
(*                                                                         *)
(* The baseline and the statement are two readings of the same decisions,  *)
(* made by different code (baseline/service.py, baseline/statement.py)     *)
(* from different data: the choices, and the entries they became.          *)
(***************************************************************************)
EXTENDS Gating, SequencesExt

CONSTANTS Key,          \* a capability in a zone of the profile
          Readings,     \* Readings[k]: what the engine may have made of k
          MaxChoices    \* bound: decisions in one composition

Tier == {"tier_0", "tier_1"}

ASSUME KeyAssumption == IsFiniteSet(Key) /\ None \notin Key
ASSUME ReadingsAssumption == \A k \in Key : \A o \in Readings[k] : AreOptions(o)
ASSUME MaxChoicesAssumption == MaxChoices \in Nat

VARIABLES tier,         \* tier[k]: Tier 0 (a mandate) or Tier 1
          options,      \* options[k]: the gated options of k
          choices,      \* the decisions of the request, in order
          trail         \* what signing appended to the ledger

vars == <<tier, options, choices, trail>>

(***************************************************************************)
(* The choices                                                             *)
(***************************************************************************)
ChoiceKind == {"option_selected", "option_rejected", "compensatory_declared", "gap_accepted"}
CLOSING_KINDS == ChoiceKind \ {"option_rejected"}

\* A decision names a control, and accepting a gap names none.
CompositionChoice ==
    {c \in [kind: ChoiceKind, key: Key, control: Control \cup {None}] :
        c.kind = "gap_accepted" <=> c.control = None}

Entry == [type: ChoiceKind \cup {"mechanism_ratified", "baseline_signed"},
          key: Key \cup {None}, controls: SUBSET Control, despite_gating: BOOLEAN]

TypeOK ==
    /\ tier \in [Key -> Tier]
    /\ \A k \in Key : options[k] \in Readings[k]
    /\ choices \in Seq(CompositionChoice)
    /\ trail \in Seq(Entry)

Made == {choices[i] : i \in DOMAIN choices}
Controls(kind, k) == {c.control : c \in {c \in Made : c.kind = kind /\ c.key = k}}

Selected(k) == Controls("option_selected", k)
Rejected(k) == Controls("option_rejected", k)
Declared(k) == Controls("compensatory_declared", k)
GapAccepted(k) == Controls("gap_accepted", k) # {}

(***************************************************************************)
(* The checks before a signature                                           *)
(***************************************************************************)

\* The decisions about one capability do not contradict one another.
Coherent(k) ==
    /\ Selected(k) \cap Rejected(k) = {}
    /\ GapAccepted(k) => Selected(k) \cup Declared(k) = {}

\* Faulty variant: any decision about a mandate closes it.
MandateTouched(k) ==
    IsOutstanding(tier[k], options[k]) => \E c \in Made : c.key = k

\* Every outstanding mandate is closed by a decision that can close it.
MandateClosed(k) ==
    IsOutstanding(tier[k], options[k]) =>
        \E c \in Made : c.key = k /\ c.kind \in CLOSING_KINDS

Admissible ==
    /\ choices # << >>
    /\ IsInjective(choices)
    /\ \A k \in Key : Coherent(k) /\ MandateClosed(k)

(***************************************************************************)
(* The signed baseline and its trail                                       *)
(***************************************************************************)
DecidedByHuman(k) == Selected(k) # {} \/ Declared(k) # {} \/ GapAccepted(k)

\* Faulty variant: a mandate is not ratified once any decision names it.
RatifiedUnlessTouched(k) ==
    tier[k] = "tier_0" /\ \A c \in Made : c.key # k

\* A mandate the operator did not decide about is ratified by signing.
IsRatified(k) == tier[k] = "tier_0" /\ ~DecidedByHuman(k)

\* The mechanisms the baseline puts in force for a capability.
InBaseline(k) ==
    Selected(k) \cup Declared(k) \cup (IF IsRatified(k) THEN Retained(options[k]) ELSE {})

GatingExcluded(k, c) == c \in DOMAIN options[k] /\ options[k][c].excluded # None

ChoiceEntry(c) ==
    [type |-> c.kind, key |-> c.key, controls |-> {c.control} \ {None},
     despite_gating |-> GatingExcluded(c.key, c.control)]

RatifiedEntry(k) ==
    [type |-> "mechanism_ratified", key |-> k, controls |-> Retained(options[k]),
     despite_gating |-> FALSE]

SignedEntry ==
    [type |-> "baseline_signed", key |-> None, controls |-> {}, despite_gating |-> FALSE]

\* The choices in the order they were made, the ratifications, the signature.
TrailForComposition ==
    [i \in DOMAIN choices |-> ChoiceEntry(choices[i])]
    \o SetToSeq({RatifiedEntry(k) : k \in {k \in Key : IsRatified(k)}})
    \o << SignedEntry >>

-----------------------------------------------------------------------------
\* Only a control mapped to a capability can make it mandatory.
Init ==
    /\ options \in {o \in [Key -> UNION {Readings[k] : k \in Key}] :
                       \A k \in Key : o[k] \in Readings[k]}
    /\ tier \in {t \in [Key -> Tier] : \A k \in Key : DOMAIN options[k] = {} => t[k] = "tier_1"}
    /\ choices = << >>
    /\ trail = << >>

\* The request carries one more decision.
Decide(c) ==
    /\ trail = << >>
    /\ Len(choices) < MaxChoices
    /\ choices' = Append(choices, c)
    /\ UNCHANGED <<tier, options, trail>>

\* compose: the choices as they stand are checked, signed and recorded.  When a
\* check refuses them nothing is recorded.
Compose ==
    /\ trail = << >>
    /\ Admissible
    /\ trail' = TrailForComposition
    /\ UNCHANGED <<tier, options, choices>>

Next == Compose \/ \E c \in CompositionChoice : Decide(c)

Spec == Init /\ [][Next]_vars
=============================================================================
