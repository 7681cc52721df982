SPECIFICATION Spec
CONSTANTS
    Thread = {t1, t2}
    Handle = {h1}
    a = a
    b = b
    Name = {a, b}
    Asked <- Paths2
    Other = Other
    None = None
    SlotsPerBlock = 6
    SlotsPerSector = 4
    MountedRoots <- Roots
    MaxDirectories = 2
    MaxSize = 1
    MaxAsked = 5
    MaxCrashes = 1
SYMMETRY Symmetric
INVARIANTS
    TypeOK
    NamesAreFound
    NamesAreListed
PROPERTIES
    RemovedDirectoriesAreEmpty
CHECK_DEADLOCK FALSE
