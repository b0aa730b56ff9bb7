SPECIFICATION FairSpec
CONSTANTS
    Conns = {c1, c2, c3, c4}
    NoConn = NoConn
    Threads = {t1, t2}
    Callers = {k1, k2}
    MaxConn = 2
    MaxReuse = 1
    SslModes = {FALSE}
    HasTimeout = FALSE
    UserCalls <- SendCalls
INVARIANTS
    TypeOK
    OwnedOnce
    OneContinuation
PROPERTIES
    ImplementsPool
    StopEnds
