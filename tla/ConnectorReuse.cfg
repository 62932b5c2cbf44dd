SPECIFICATION Spec
CONSTANTS
    Callers = {a1}
    Symbols = {s1}
    MaxSessions = 2
    MaxMessages = 1
    WsCap = 1
    ChanCap = 1
INVARIANT NeverPanics
CHECK_DEADLOCK FALSE
