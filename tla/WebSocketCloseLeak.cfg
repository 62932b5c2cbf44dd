SPECIFICATION Spec
CONSTANTS
    Callers = {a1}
    Conns = {c1, c2}
    Topics = {t1}
    NoConn = NoConn
INVARIANT CloseLeavesNothingOpen
CHECK_DEADLOCK FALSE
