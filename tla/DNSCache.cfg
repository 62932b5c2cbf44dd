SPECIFICATION Spec
CONSTANTS
    Callers = {a1, a2}
    Requested = 5
    MaxTTL = 2
    MaxDelay = 2
    MaxPause = 1
    MaxTime = 8
INVARIANTS
    TypeOK
    BoundedAge
