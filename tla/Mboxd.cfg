SPECIFICATION FairSpec
CONSTANTS
    b1 = b1
    b2 = b2
    m1 = m1
    m2 = m2
    Batches = {b1, b2}
    Mails = {m1, m2}
    MailsOf <- TwoAndOne
    Processors = {p1, p2}
    QueueLimit = 1
    MaxCrashes = 1
INVARIANTS
    TypeOK
    IInv
    RowsFollowFiles
    NothingStranded
PROPERTIES
    SpoolIsServed
    StopEnds
