SPECIFICATION FairSpec
CONSTANTS
    s1 = s1  s2 = s2  s3 = s3
    c1 = c1  c2 = c2
    Nil = Nil
    Storage = {s1, s2}
    Socket = {c1, c2}
    PpdId <- DistinctIds
    VolumeSectors = 2
    InitialStorages <- Pair
    InitialSockets = {c1, c2}
    ReplicationEnabled = TRUE
    SleepDrainsMaster = FALSE
    MaxGets = 2
    MaxPuts = 0
    MaxDeaths = 1
INVARIANTS OneAnswerPerRead AnswersMatch
PROPERTIES ReadsAreAnswered
CONSTRAINT FirstAsksFirst
CHECK_DEADLOCK FALSE
