SPECIFICATION Spec
CONSTANTS
    s1 = s1  s2 = s2  s3 = s3
    c1 = c1  c2 = c2
    Nil = Nil
    Storage = {s1, s2, s3}
    Socket = {c1, c2}
    PpdId <- DistinctIds
    VolumeSectors = 1
    InitialStorages <- Trio
    InitialSockets = {c1, c2}
    ReplicationEnabled = TRUE
    SleepDrainsMaster = FALSE
    MaxGets = 2
    MaxPuts = 0
    MaxDeaths = 2
INVARIANTS ReadsAreRecoverable
PROPERTIES CollectedIsFinal
SYMMETRY SocketSymmetry
CHECK_DEADLOCK FALSE
