SPECIFICATION FairSpec
CONSTANTS
    Client = {c1}
    JobSector <- Sectors
    TraceSector <- Traced
    TrackSectors = 3
    Cylinders = 2
    ConfigAddress = 100
    TrackJump = 2
    Width = 7
    MaxJobs = 3
    MaxTraces = 1
INVARIANTS TypeOK
PROPERTIES ServiceContract LossNeedsMovingHead JobsEnd TracesEnd ConsoleReturns
CHECK_DEADLOCK FALSE
