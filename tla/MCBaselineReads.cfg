SPECIFICATION ReadSpec
CONSTANTS
    plant = plant
    v1 = v1
    login = login
    backup = backup
    MaxRequests = 3
    MaxRuns = 1
    Profile = {plant}
    Id <- MCId
    Version = {v1}
    Capability = {login, backup}
    Tier0 <- MCTier0
    Outstanding <- MCOutstanding
    Choices <- MCChoices
INVARIANTS
    ListedWhole
    ServedWhole
    ServedIsVerified
PROPERTY EveryRequestEnds
CHECK_DEADLOCK FALSE
