SPECIFICATION Spec
CONSTANTS
    s1 = s1  s2 = s2  s3 = s3
    c1 = c1  c2 = c2
    Nil = Nil
    Storage = {s1, s2}
    Socket = {c1}
    PpdId <- DistinctIds
    VolumeSectors = 2
    InitialStorages <- Pair
    InitialSockets = {c1}
    ReplicationEnabled = TRUE
    SleepDrainsMaster = TRUE
    MaxGets = 1
    MaxPuts = 2
    MaxDeaths = 1
INVARIANTS TypeOK FoundersHoldLastWrite ReadsSeeLastWrite
CHECK_DEADLOCK FALSE
