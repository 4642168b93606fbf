------------------------------ MODULE Explain -------------------------------
(***************************************************************************)
(* The prose next to the candidates of one capability (explain/service.py, *)
(* evidence.py and guard.py): what a candidate lets the model cite, and    *)
(* what is shown of what the model wrote.                                  *)
(*                                                                         *)
(* A text is what the guard reads in it: nothing, a description, or a      *)
(* verdict.                                                                *)
(***************************************************************************)
EXTENDS CoreTrail

\* catalog_mapping stands for the four keys of an authored mapping, control for
\* those of any control.
EvidenceKey == {"catalog_mapping", "control", "candidate_status", "similarity",
                "neighbouring_mapping", "zone_context"}

\* What the model returned about a control.
ExplanationDraft ==
    [control_id: Control, explanation: {"blank", "description", "verdict"},
     basis: SUBSET EvidenceKey]

ExplanationStatus == {"generated", "withheld", "unavailable", "disabled"}

\* What the model may cite of a candidate: o, the options of the capability, and
\* found, what the retrieval reports of it.
AllowedEvidence(o, mappings, found, c) ==
    LET seen == c \in {h.control : h \in ToSet(found.retrieved)}
    IN  {"control", "zone_context"}
        \cup (IF c \in DOMAIN o
              THEN {"catalog_mapping"}
                   \cup (IF o[c].status # "eligible" THEN {"candidate_status"} ELSE {})
                   \cup (IF seen THEN {"similarity"} ELSE {})
              ELSE {"similarity"}
                   \cup (IF MappingTypesOf(mappings, c) # {} THEN {"neighbouring_mapping"} ELSE {}))

\* The guard: no language of decision, and nothing cited that is not there.
Screen(draft, allowed) == draft.explanation # "verdict" /\ draft.basis \subseteq allowed

Explanation(c, status) == [control_id |-> c, status |-> status]

\* The candidate leads.  A text that cites nothing is withheld.
ExplainCandidate(c, drafted, allowed) ==
    IF drafted = {} \/ (\E d \in drafted : d.explanation = "blank") THEN Explanation(c, "unavailable")
    ELSE IF \A d \in drafted : Screen(d, allowed) /\ d.basis # {} THEN Explanation(c, "generated")
    ELSE Explanation(c, "withheld")

\* The first draft about a control is the one that counts.
FirstDrafts(drafts, c) ==
    LET about == SelectSeq(drafts, LAMBDA d : d.control_id = c)
    IN  IF about = << >> THEN {} ELSE {Head(about)}

\* Faulty variant: the answer of the model leads.
AssembleFromDrafts(o, mappings, found, drafts) ==
    [i \in DOMAIN drafts |->
        ExplainCandidate(drafts[i].control_id, {drafts[i]},
                         AllowedEvidence(o, mappings, found, drafts[i].control_id))]

\* One explanation per candidate, in the order of the engine.  What the model
\* wrote of a control that was not offered is dropped.
AssembleExplanations(o, mappings, found, drafts) ==
    LET offered == OfferedControlIds(found)
    IN  [i \in DOMAIN offered |->
            ExplainCandidate(offered[i], FirstDrafts(drafts, offered[i]),
                             AllowedEvidence(o, mappings, found, offered[i]))]

\* Every candidate with the text of the engine.
Flat(found, status) ==
    LET offered == OfferedControlIds(found)
    IN  [i \in DOMAIN offered |-> Explanation(offered[i], status)]
=============================================================================
