SPECIFICATION FairSpec
CONSTANTS
    Callers = {a1}
    Conns = {c1}
    Topics = {t1}
    NoConn = NoConn
PROPERTIES
    CloseCompletes
\* The client stops once Close is over.
CHECK_DEADLOCK FALSE
