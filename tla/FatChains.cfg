SPECIFICATION Spec
CONSTANTS
    Thread = {t1, t2}
    File = {f1, f2}
    Handle = {h1, h2}
    None = None
    EntriesPerSector = 6
    FatSectors = 2
    Clusters = 8
    Hint = 2
    Used = {}
    Operation = {"mknod", "mkdir", "write"}
    MaxRequest = 2
    MaxSize = 3
    MaxHandlesPerFile = 1
INVARIANTS
    ChainIsWhatWasGiven
CHECK_DEADLOCK FALSE
PROPERTIES
    LockIsReleased
