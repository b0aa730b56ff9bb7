SPECIFICATION Spec
CONSTANTS
    Sessions = {s1, s2}
    NoSession = NoSession
    Threads = {t1, t2}
    FirstLimit = 1
    Limits = {2}
    LockedWalk = TRUE
    MaxConnects = 2
    SessionCalls = {"read", "write", "pause"}
SYMMETRY Symmetric
INVARIANTS
    TableIsExact
    InOneHand
    CountsArePending
