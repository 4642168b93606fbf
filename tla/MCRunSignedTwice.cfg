SPECIFICATION Spec
CONSTANTS
    plant = plant
    plantEdited = plantEdited
    office = office
    v1 = v1
    v2 = v2
    login = login
    backup = backup
    MaxRequests = 3
    MaxRuns = 1
    Profile = {plant, plantEdited, office}
    Id <- MCId
    Version = {v1, v2}
    Capability = {login, backup}
    Tier0 <- MCTier0
    Outstanding <- MCOutstanding
    Choices <- MCChoices
INVARIANT RunSignedOnce
CHECK_DEADLOCK FALSE
