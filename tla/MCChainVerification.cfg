SPECIFICATION ChainSpec
CONSTANTS
    r1 = r1
    started = started
    decided = decided
    other = other
    plant = plant
    office = office
    Appender = {r1}
    Entry = {started, decided, other}
    Batch <- MCBatch
    MaxEvents = 3
    Run = {plant, office}
    RunOf <- MCRunOf
    MaxDamage = 2
INVARIANTS
    IntactVerifies
    SliceIsVouchedFor
    WalksAgree
CHECK_DEADLOCK FALSE
