SPECIFICATION Spec
CONSTANTS
    Control = {c1, c2}
    Request = {r1, r2}
    Startup = startup
    Searches = 2
    MaxRestarts = 1
INVARIANT NothingRestrictedInSilence
CHECK_DEADLOCK FALSE
