SPECIFICATION FairSpec
CONSTANTS
    Conns = {c1, c2, c3}
    NoConn = NoConn
    Owner = owner
    Threads = {t1}
    MaxConn = 1
    MaxReuse = 1
    SslModes = {TRUE, FALSE}
    HasTimeout = TRUE
    UserCalls <- StartTlsCalls
INVARIANTS
    TypeOK
    QuietOutsidePool
    NextAcceptIsClean
PROPERTIES
    ClosedIsDestroyed
