------------------------- MODULE MCCompositionFlow --------------------------
(***************************************************************************)
(* One asset in two edits, which carry the same id, and another asset; two *)
(* versions of the catalog that disagree on what is outstanding.           *)
(***************************************************************************)
EXTENDS CompositionFlow, TLC

CONSTANTS plant, plantEdited, office    \* profiles
CONSTANTS v1, v2                        \* versions
CONSTANTS login, backup                 \* capabilities

MCId == plant :> "plant" @@ plantEdited :> "plant" @@ office :> "office"

MCTier0 == [v \in Version |-> [p \in Profile |-> {login, backup}]]

MCOutstanding ==
    v1 :> (plant :> {login} @@ plantEdited :> {} @@ office :> {})
    @@ v2 :> (plant :> {} @@ plantEdited :> {login} @@ office :> {login})

MCChoices ==
    {[closed |-> {login}, rejected |-> {}],
     [closed |-> {backup}, rejected |-> {login}]}
=============================================================================
