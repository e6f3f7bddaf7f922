SPECIFICATION Spec
CONSTANTS
    Requests = {r1, r2}
    STRICT = STRICT
    StrictOf <- MCStrictOf
    FullOf <- MCFullOf
    NIL = NIL
    HTTPDATE = HTTPDATE
    Delays = {2}
    CacheSize = 2
    SECOND = 2
    Default429 = 1
    MaxRetryAfter = 1
    DefaultUI = 1
    MaxTime = 4
SYMMETRY Symmetry
VIEW View
INVARIANTS TypeOK NoCrossTalk RefusalEnds InteractionLifts
PROPERTY CleansWhatItSaw
