SPECIFICATION Spec
CONSTANTS
    s1 = s1  s2 = s2  s3 = s3
    c1 = c1  c2 = c2
    Nil = Nil
    Storage = {s1, s2, s3}
    Socket = {c1}
    PpdId <- DistinctIds
    VolumeSectors = 2
    InitialStorages <- Single
    InitialSockets = {}
    ReplicationEnabled = TRUE
    SleepDrainsMaster = TRUE
    MaxGets = 0
    MaxPuts = 1
    MaxDeaths = 0
INVARIANTS ReplicasHoldLastWrite StreamsOnlyFromSource
PROPERTIES DestinyHearsNoJob OnlySourcesFault
CHECK_DEADLOCK FALSE
