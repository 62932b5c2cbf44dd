SPECIFICATION FairSpec
CONSTANTS
    Callers = {a1, a2}
    Requested = 2
    MaxTicks = 1
INVARIANTS
    TypeOK
    WindowBound
PROPERTIES
    StopReleases
    TokensReturn
