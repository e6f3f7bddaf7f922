SPECIFICATION HttpSpec
CONSTANTS
    Requests = {r1, r2}
    NIL = NIL
    Sizes = {2}
    START = 1
    Limit = 7
    MaxErrors = 2
    WriteMayFail = TRUE
    MaxRecorded = 1
    MaxSilent = 1
    RetryCount = 1
    OtherFlows = TRUE
    MaxSends = 2
    MaxChallenges = 1
INVARIANTS HttpTypeOK CutIsOldest
PROPERTIES ForgetsOwnOrLate EveryRequestCompletes
