SPECIFICATION Spec
CONSTANTS
    Handle = {h1, h2}
    BlockSize = 2
    Eoc = 14
    MountedSizes = {0, 5}
    MaxSize = 7
    MaxPages = 2
    MaxChanges = 2
SYMMETRY Symmetric
INVARIANTS
    TypeOK
    FileHoldsContents
    ReadsGiveContents
CHECK_DEADLOCK FALSE
