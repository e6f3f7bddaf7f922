CONSTANTS
    Sessions = {s1, s2, s3}
    MaxCancels = 2
    None = None
SPECIFICATION Spec
INVARIANTS
    AloneUntilCancelled
PROPERTIES
    KeepsPromise
    EndedIsAnswered
CHECK_DEADLOCK FALSE
