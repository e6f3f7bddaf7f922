CONSTANTS
    r1 = r1
    r2 = r2
    Requests = {r1, r2}
    NIL = NIL
SPECIFICATION Spec
PROPERTIES
    OthersStatusKept
