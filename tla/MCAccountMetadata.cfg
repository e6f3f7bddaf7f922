CONSTANTS
    Caches = {"app", "broker"}
    t1 = t1
    t2 = t2
    t3 = t3
    Threads <- MCThreads
    CacheOf <- MCCacheOf
    Clients = {c1}
    Accounts = {a1, a2}
    NIL = NIL
    Stored <- MCStored
    MaxOps = 3
    MaxWrites = 2
SPECIFICATION Spec
INVARIANTS
    TypeOK
    NoPhantom
PROPERTIES
    OthersKept
    Effective
SYMMETRY Sym
