----------------------------- MODULE Statement ------------------------------
(***************************************************************************)
(* The declaration of applicability (baseline/statement.py): every         *)
(* capability of every zone, and every mechanism it ever had on the table, *)
(* read off the ledger.  A mechanism is what the last one to speak of it   *)
(* said: the catalog, then gating, then the operator entry by entry.       *)
(***************************************************************************)
EXTENDS Composition

Signed == trail # << >>

\* The operator's entries about mechanism c of capability k, by position.
Named(k, c) == {i \in DOMAIN trail : trail[i].key = k /\ c \in trail[i].controls}

\* Everything the catalog offered, and what the operator brought in.
Mechanisms(k) == DOMAIN options[k] \cup {c \in Control : Named(k, c) # {}}

\* Faulty variant: the first entry about a mechanism settles it.
FirstDisposition(k, c) ==
    IF Named(k, c) # {}
    THEN trail[Min(Named(k, c))].type
    ELSE IF GatingExcluded(k, c) THEN options[k][c].excluded ELSE "offered"

Disposition(k, c) ==
    IF Named(k, c) # {}
    THEN trail[Max(Named(k, c))].type
    ELSE IF GatingExcluded(k, c) THEN options[k][c].excluded ELSE "offered"

INCLUDED_DISPOSITIONS == {"option_selected", "mechanism_ratified", "compensatory_declared"}

Included(k) == {c \in Mechanisms(k) : Disposition(k, c) \in INCLUDED_DISPOSITIONS}

\* Someone decided about the mechanism with gating's exclusion in front of them.
DespiteGating(k, c) == \E i \in Named(k, c) : trail[i].despite_gating

\* All of Tier 0, and the rest the operator decided about.
InSignedBaseline(k) == tier[k] = "tier_0" \/ \E i \in DOMAIN trail : trail[i].key = k

GapIsAccepted(k) == \E i \in DOMAIN trail : trail[i].key = k /\ trail[i].type = "gap_accepted"

\* Faulty variant: a mechanism in force counts before an accepted gap is looked for.
OutcomeByStatus(k) ==
    LET status == CapabilityStatus(options[k])
    IN  CASE ~InSignedBaseline(k) -> "roadmap"
          [] InSignedBaseline(k) /\ Included(k) # {} -> "implemented"
          [] OTHER ->
               IF status = "deferred_to_organizational_layer" THEN "deferred"
               ELSE IF status = "compensatory_required" THEN "compensated"
               ELSE IF GapIsAccepted(k) THEN "accepted_gap" ELSE "open_gap"

Outcome(k) ==
    LET status == CapabilityStatus(options[k])
    IN  CASE ~InSignedBaseline(k) -> "roadmap"
          [] InSignedBaseline(k) /\ GapIsAccepted(k) -> "accepted_gap"
          [] OTHER ->
               IF \E c \in Mechanisms(k) : Disposition(k, c) = "compensatory_declared"
               THEN "compensated"
               ELSE IF Included(k) # {} THEN "implemented"
               ELSE IF status = "deferred_to_organizational_layer" THEN "deferred"
               ELSE IF status = "compensatory_required" THEN "compensated"
               ELSE "open_gap"

(***************************************************************************)
(* Properties                                                              *)
(***************************************************************************)
Mandatory == {k \in Key : tier[k] = "tier_0"}

\* baseline/trail.py: every mandate of a signed baseline has an entry by which
\* a person adopts a mechanism, compensates, accepts the gap or ratifies what
\* the engine retained.  Having rejected a candidate is not one.
MandateInSomeonesName ==
    Signed => \A k \in Mandatory : \E i \in DOMAIN trail :
                  trail[i].key = k /\ trail[i].type # "option_rejected"

\* The mechanisms the statement reads off the ledger are those the signed
\* baseline put in force, unless the operator both declared and rejected one.
StatementAgrees ==
    Signed => \A k \in Key :
        Declared(k) \cap Rejected(k) = {} => Included(k) = InBaseline(k)

Before(kind, later, k, c) ==
    \E i, j \in DOMAIN choices :
        /\ i < j
        /\ choices[i] = [kind |-> kind, key |-> k, control |-> c]
        /\ choices[j] = [kind |-> later, key |-> k, control |-> c]

\* A mandate reads as an open gap in one case only: the operator declared the
\* controls that compensate it, and afterwards rejected every one of them.
OpenGapOnlyByLaterRejection ==
    Signed => \A k \in Mandatory :
        Outcome(k) = "open_gap" =>
            /\ Declared(k) # {}
            /\ \A c \in Declared(k) : Before("compensatory_declared", "option_rejected", k, c)

\* A mandate that reads as compensated was declared so by the operator, however
\* little the engine left of it.
CompensatedByDeclaration ==
    Signed => \A k \in Mandatory : Outcome(k) = "compensated" => Declared(k) # {}

\* A mechanism gating excluded is in force only on the operator's own word, and
\* the statement says it is there in spite of gating.
NothingExcludedSilently ==
    Signed => \A k \in Key : \A c \in Included(k) :
        GatingExcluded(k, c) =>
            DespiteGating(k, c) /\ c \in Selected(k) \cup Declared(k)

(***************************************************************************)
(* What the documentation says of the program, and the program refutes     *)
(***************************************************************************)

\* baseline/service.py:260: "Two decisions about the same capability may not say
\* opposite things."  Here: what the operator rejected in writing is not in force
\* by the same signature.
RejectedIsNotInForce == Signed => \A k \in Key : Rejected(k) \cap InBaseline(k) = {}
=============================================================================
