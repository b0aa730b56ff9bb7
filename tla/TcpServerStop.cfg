SPECIFICATION Spec
CONSTANTS
    Conns = {c1, c2}
    NoConn = NoConn
    Owner = owner
    Threads = {t1}
    MaxConn = 1
    MaxReuse = 1
    SslModes = {FALSE}
    HasTimeout = TRUE
    UserCalls <- HttpCalls
INVARIANT
    StopClosesEveryone
