SPECIFICATION Spec
CONSTANTS
    Conns = {c1, c2, c3}
    NoConn = NoConn
    Owner = owner
    Threads = {t1, t2}
    MaxConn = 1
    MaxReuse = 1
    SslModes = {FALSE}
    HasTimeout = TRUE
    UserCalls <- HttpCalls
INVARIANTS
    OwnedOnce
    OneContinuation
PROPERTIES
    ImplementsPool
