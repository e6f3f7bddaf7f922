SPECIFICATION Spec
CONSTANTS
    a = a
    b = b
    c = c
    Callers = {t1, t2}
    Environments = {a, b, c}
    Metadata <- MCMetadata
    NIL = NIL
INVARIANTS NoFalseValidation AliasesAgree LookupsDistinct
PROPERTIES NoRepeatedDiscovery EveryCallerAnswered
