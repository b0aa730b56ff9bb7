SPECIFICATION FairSpec
CONSTANTS
    Workers = {w1, w2, w3, w4}
    MaxPosted = 2
INVARIANTS
    IInv
    NoOvershoot
    SettledAfterResize
    CountRestored
PROPERTIES
    StopReturns
