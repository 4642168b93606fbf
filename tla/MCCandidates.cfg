CONSTANTS
    Control <- MCControl
    Full = 10
    Attributes <- MCAttributes
    Capability = {1, 2, 3}
    Precedence <- MCPrecedence
    SLMandate <- MCSLMandate
    RETRIEVAL_DEPTH = 3
    TOP_K = 2
    MAX_K = 3
    TIE_EPSILON = 1
    FRAMEWORK_CAP = 1
    Weights = {"pinned", "other"}
    Pinned = "pinned"
    MaxPulls = 2
    Request = {"r1", "r2"}
    Loads <- MCLoads
    Drafts <- MCDrafts
    EXPLAIN_ENABLED = TRUE
    MaxRestarts = 1

SPECIFICATION Spec

INVARIANTS
    RuleOrderMattersOnlyUnderSafety
    PhaseIsLatestWaitedFor
    LedgerRetellsTheRun
    ReadingsAddUp
    CoverageMovesByMechanismOrContradiction
    NothingVanishes
    ExplainedAsOffered
    ProseFromPinnedWeights
    OptionalPassesCostNothing
