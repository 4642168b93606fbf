SPECIFICATION Spec
CONSTANTS
    login = login
    backup = backup
    c1 = c1
    c2 = c2
    Control = {c1, c2}
    Full = 2
    Key = {login, backup}
    Readings <- MCReadings
    MaxChoices = 3
    Layouts <- MCLayouts
INVARIANTS
    MandateInSomeonesName
    StatementAgrees
    OpenGapOnlyByLaterRejection
    CompensatedByDeclaration
    NothingExcludedSilently
    StatesDoNotMislead
CHECK_DEADLOCK FALSE
