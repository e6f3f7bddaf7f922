SPECIFICATION FairSpec

CONSTANTS
    silent = silent
    interactive = interactive
    mac = mac
    cp = cp
    NIL = NIL
    Requests <- TheRequests
    Silent <- TheSilent
    Providers <- TheProviders
    Preferred = mac
    MaxRequests = 1
    MaxChanges = 2

INVARIANTS NoFalseFailure TriedDispatcher CacheOfProvider
PROPERTIES KeepsPromise AnswersCome

\* Requests end and the bounds are reached.
CHECK_DEADLOCK FALSE
