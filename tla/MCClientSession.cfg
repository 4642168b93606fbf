SPECIFICATION Spec
CONSTANTS
    k1 = k1
    zone = zone
    twin = twin
    c1 = c1
    c2 = c2
    mandate = mandate
    twins = twins
    blank = blank
    NoDraft = noDraft
    Key = {k1}
    Row = {zone, twin}
    Control = {c1, c2}
    Draft = {mandate, twins, blank}
    Complete <- MCComplete
    Id <- MCId
    Engine <- MCEngine
    MaxRuns = 2
    MaxProviders = 2
    MaxChanges = 1
    MaxSignatures = 2
INVARIANTS
    SentIsCoherent
    RefusedOnlyForKnownReasons
    SignedAgainOnlyIfUnanswered
    NothingCrossesButLateAnswers
PROPERTY WorkingEnds
CHECK_DEADLOCK FALSE
