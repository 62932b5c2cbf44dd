SPECIFICATION Spec
CONSTANTS
    Callers = {a1, a2}
    Symbols = {s1}
    MaxSessions = 2
    MaxMessages = 3
    WsCap = 2
    ChanCap = 1
SYMMETRY Symmetry
CONSTRAINT OneLife
INVARIANTS
    TypeOK
    NoPanicInOneLife
    InOrder
    TickerHasChannel
    SubscribersReleased
PROPERTY ImplementsUpdateStream
\* A disconnected connector may have nothing left to do.
CHECK_DEADLOCK FALSE
