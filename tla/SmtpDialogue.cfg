SPECIFICATION FairSpec
CONSTANTS
    Jobs <- Mails
    NoJob = NoJob
    MaxBuf = 12
    Greeting <- OneLine
INVARIANTS
    TypeOK
    InStep
    QueuedIsTheMail
PROPERTIES
    DialogueEnds
CHECK_DEADLOCK FALSE
