SPECIFICATION MCSpec
CONSTANTS
    Callers = {g1, g2}
    Commands = {status, log}
    Main = status
    None = none
    MaxVersion = 2
    MaxPublished = 2
INVARIANTS
    TypeOK
    OwnAnswer
    MappedRead
    SnapshotFound
PROPERTY
    EventuallyAnswered
CHECK_DEADLOCK FALSE
