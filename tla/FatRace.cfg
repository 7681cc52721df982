SPECIFICATION Spec
CONSTANTS
    Thread = {t1, t2}
    File = {f1, f2}
    Handle = {h1}
    None = None
    EntriesPerSector = 4
    FatSectors = 3
    Clusters = 9
    Hint = 4
    Used = {3, 4, 7}
    Operation = {"mknod", "mkdir", "write", "grow", "shrink", "unlink", "rmdir"}
    MaxRequest = 1
    MaxSize = 1
    MaxHandlesPerFile = 2
SYMMETRY Symmetric
INVARIANTS
    TypeOK
    ClustersGivenOnce
CHECK_DEADLOCK FALSE
