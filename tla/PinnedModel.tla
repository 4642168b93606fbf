---------------------------- MODULE PinnedModel -----------------------------
(***************************************************************************)
(* The pinned weights (parse/ollama.py): the digest Ollama serves under    *)
(* the tag, and the digest this process verified, which it keeps for its   *)
(* lifetime.                                                               *)
(*                                                                         *)
(* Verifying asks Ollama once and awaits: the weights may be replaced      *)
(* between its answer and its reading, and at any time after.              *)
(***************************************************************************)
EXTENDS Naturals

CONSTANTS Weights,      \* the weights that may stand under the tag
          Pinned,       \* those the deployment was evaluated with
          MaxPulls      \* bound: how often they are replaced

ASSUME PinnedAssumption == Pinned \in Weights
ASSUME MaxPullsAssumption == MaxPulls \in Nat

NoWeights == "none"

VARIABLES weights,      \* what Ollama serves, NoWeights when nothing is pulled
          pulls,        \* how often they were replaced (history)
          verified,     \* _verified_digest
          verifiedAt    \* pulls when Ollama gave that digest (history)

modelVars == <<weights, pulls, verified, verifiedAt>>

\* What GET /api/tags answers: the digest under the tag, and when.
TagsAnswer == [digest: Weights \cup {NoWeights}, at: Nat]
Tags == [digest |-> weights, at |-> pulls]

ModelInit ==
    /\ weights \in Weights \cup {NoWeights}
    /\ pulls = 0
    /\ verified = NoWeights
    /\ verifiedAt = 0

Cached == verified # NoWeights

\* verify_model goes on with the digest of an answer, which it caches.
Accepts(answer) == answer.digest = Pinned

Keep(answer) ==
    /\ verified' = answer.digest
    /\ verifiedAt' = answer.at
    /\ UNCHANGED <<weights, pulls>>

\* An operator pulls other weights under the tag.
Pull(w) ==
    /\ pulls < MaxPulls
    /\ w # weights
    /\ weights' = w
    /\ pulls' = pulls + 1
    /\ UNCHANGED <<verified, verifiedAt>>

\* The process dies: what it verified is forgotten.
Forget ==
    /\ verified' = NoWeights
    /\ verifiedAt' = 0
    /\ UNCHANGED <<weights, pulls>>
=============================================================================
