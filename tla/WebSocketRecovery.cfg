SPECIFICATION FairSpec
CONSTANTS
    Callers = {a1}
    Conns = {c1}
    Topics = {t1, t2}
    NoConn = NoConn
CONSTRAINT StillOpen
PROPERTIES
    LinkRecovers
    TopicsReachTheLink
