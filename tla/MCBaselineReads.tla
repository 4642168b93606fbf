-------------------------- MODULE MCBaselineReads ---------------------------
(***************************************************************************)
(* One asset and one version of the catalog: a run, two compositions that  *)
(* may overlap over it, and one client reading meanwhile.                  *)
(***************************************************************************)
EXTENDS BaselineReads

CONSTANTS plant, v1, login, backup

MCId == [p \in Profile |-> "plant"]

MCTier0 == [v \in Version |-> [p \in Profile |-> {login, backup}]]
MCOutstanding == [v \in Version |-> [p \in Profile |-> {login}]]

MCChoices ==
    {[closed |-> {login}, rejected |-> {}],
     [closed |-> {login, backup}, rejected |-> {login}]}
=============================================================================
