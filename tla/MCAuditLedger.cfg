SPECIFICATION Spec
CONSTANTS
    r1 = r1
    r2 = r2
    r3 = r3
    run = run
    decision = decision
    Appender = {r1, r2, r3}
    Entry = {run, decision}
    Batch <- MCBatch
    MaxEvents = 5
INVARIANTS
    ChainIntact
    RefusedIffStale
PROPERTY ImplementsLog
CHECK_DEADLOCK FALSE
