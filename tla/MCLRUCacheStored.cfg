SPECIFICATION Spec
CONSTANTS
    Keys = {k1, k2, k3}
    Records = {r1, r2}
    Signatures = {s1, s2, s3}
    HEAD = HEAD
    TAIL = TAIL
    NIL = NIL
    CacheSize = 2
    MaxCount = 7
PROPERTY StoredIsCached
