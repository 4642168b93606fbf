SPECIFICATION Spec
CONSTANTS
    FR = {"FR1", "FR2"}
    NatureField = {"networked"}
    Sector = {"energy"}
    MaxLevel = 2
    MaxCase = 1
    MaxScale = 2
    ZoneId = {0, 2}
    MaxEdits = 6
    Proposal <- MCProposal
INVARIANTS
    WrittenTwiceAgrees
    CorrectionsAreTheDifference
CHECK_DEADLOCK FALSE
