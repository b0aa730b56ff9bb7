SPECIFICATION FairSpec
CONSTANTS
    Procs = {p1, p2, p3}
    Users = {u1}
    Svm = svm
    NoOne = NoOne
    MaxCommands = 1
    MaxFaults = 1
    Files = {f1, f2}
    Broken = {f2}
    Workers = {w1}
    QueueLimit = 1
INVARIANTS
    TypeOK
    OneInstance
    StopMeansGone
PROPERTIES
    FilesMoveOn
    
