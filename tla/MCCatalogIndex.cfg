SPECIFICATION Spec
CONSTANTS
    Control = {c1, c2}
    Request = {r1, r2}
    Startup = startup
    Searches = 2
    MaxRestarts = 1
INVARIANTS
    NotWholeOnlyByOverlap
    WholeOnceSettled
PROPERTY EveryRetrievalEnds
CHECK_DEADLOCK FALSE
