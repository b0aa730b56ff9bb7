SPECIFICATION FairSpec
CONSTANTS
    Sessions = {s1, s2}
    NoSession = NoSession
    Threads = {t1, t2}
    FirstLimit = 2
    Limits = {}
    LockedWalk = FALSE
    InitialAccepts = 1
    SessionCalls = {"read", "write"}
INVARIANTS
    TypeOK
    TableIsExact
    InOneHand
    CountsArePending
PROPERTIES
    ShutdownEnds
