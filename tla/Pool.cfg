SPECIFICATION FairSpec
CONSTANTS
    Thread = {t1, t2, t3}
    MaxConnections = 4
    BlockConnections = 2
    MaxOperations = 1
INVARIANTS
    TypeOK
    HoldersAreExclusive
    AnswersAreOwn
PROPERTIES
    OperationsEnd
CHECK_DEADLOCK FALSE
