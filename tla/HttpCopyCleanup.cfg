SPECIFICATION Spec
CONSTANTS
    Root = {r1, r2}
    Outside = {out}
    Disk = disk
    Sources = {r1, disk}
    Length = 3
    Buffers = {1, 2}
    Chunk = 2
    RedirectLimit = 1
    Other = other
    None = None
PROPERTY CleanupSparesOthers
CHECK_DEADLOCK FALSE
