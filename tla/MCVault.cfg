SPECIFICATION Spec
CONSTANTS
    Procs = {p1, p2}
    Names = {n1, n2}
    Users = {u1}
    Secrets = {s1}
    Passwords = {w1, w2}
    MaxRecords = 2
    MaxCreates = 2
    None = None
SYMMETRY Symmetry
INVARIANTS
    SavedImageOpens
    MemoryMirrorsDisk
    IdleLeavesNoTemp
PROPERTIES
    ReplacedAtomically
