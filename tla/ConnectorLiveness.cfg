SPECIFICATION FairSpec
CONSTANTS
    Callers = {a1}
    Symbols = {s1}
    MaxSessions = 1
    MaxMessages = 3
    WsCap = 2
    ChanCap = 1
PROPERTIES
    DisconnectEnds
    UpdatesFlow
\* A disconnected connector may have nothing left to do.
CHECK_DEADLOCK FALSE
