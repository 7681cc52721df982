SPECIFICATION Spec
CONSTANTS
    Thread = {t1, t2, t3}
    Sector = {s1, s2}
    None = None
    MaxCount = 1
    MaxUpdates = 2
    MaxReads = 1
    MaxFlushes = 2
SYMMETRY Symmetric
INVARIANTS
    TypeOK
    ChangesAreKept
PROPERTIES
    FlushWritesChanges
CHECK_DEADLOCK FALSE
