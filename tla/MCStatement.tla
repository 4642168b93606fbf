---------------------------- MODULE MCStatement -----------------------------
(***************************************************************************)
(* Two controls and two capabilities.  The first capability takes every    *)
(* reading that one or two mapped controls can give, in seven forms that   *)
(* between them reach each status and each gap; the second is one the      *)
(* engine could not cover.                                                 *)
(***************************************************************************)
EXTENDS Oscal, TLC

CONSTANTS login, backup     \* capabilities in a zone
CONSTANTS c1, c2            \* controls

Form(type, weight, status, excluded) ==
    [mapping_type |-> type, coverage_weight |-> weight, status |-> status, excluded |-> excluded]

Forms ==
    {Form("total", 2, "eligible", None),
     Form("partial", 1, "contested", None),
     Form("total", 2, "superseded", None),
     Form("total", 2, "eligible", "not_applicable"),
     Form("partial", 1, "eligible", "wrong_scope"),
     Form("compensatory", 1, "eligible", None),
     Form("contextual", 0, "eligible", None)}

Uncovered == [c \in {c1} |-> Form("total", 2, "eligible", "objective_without_mechanism")]

MCReadings ==
    login :> UNION {[mapped -> Forms] : mapped \in SUBSET Control}
    @@ backup :> {Uncovered}

\* Two capabilities of one zone, or one capability in two zones.
At(zone, capability) == [zone |-> zone, capability |-> capability]
MCLayouts ==
    {login :> At("cell", "login") @@ backup :> At("cell", "backup"),
     login :> At("cell", "login") @@ backup :> At("office", "login")}
=============================================================================
