SPECIFICATION Spec
CONSTANTS
    Callers = {a1, a2}
    Conns = {c1, c2}
    Topics = {t1}
    NoConn = NoConn
SYMMETRY Symmetry
CONSTRAINT CloseMeetsOneCaller
INVARIANTS
    TypeOK
    WakeupPending
    SocketOwned
    AnnouncedOnce
    TopicCoverage
    LoopsNeverPanic
PROPERTY ImplementsStreamLink
\* The client stops once Close is over.
CHECK_DEADLOCK FALSE
