SPECIFICATION FairSpec
CONSTANTS
    s1 = s1  s2 = s2  s3 = s3
    c1 = c1  c2 = c2
    Nil = Nil
    Storage = {s1, s2}
    Socket = {c1}
    PpdId <- DistinctIds
    VolumeSectors = 1
    InitialStorages <- Single
    InitialSockets = {}
    ReplicationEnabled = TRUE
    SleepDrainsMaster = FALSE
    MaxGets = 2
    MaxPuts = 0
    MaxDeaths = 1
INVARIANTS
    ReadsAreRecoverable
PROPERTIES
    ReplicationEnds
    JoinersBecomeReady
CHECK_DEADLOCK FALSE
