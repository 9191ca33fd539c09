SPECIFICATION RunSpec
CONSTANTS
    p0 = p0
    r1 = r1
    r2 = r2
    b1 = b1
    b2 = b2
    x = x
    y = y
    n1 = n1
    n2 = n2
    Procs = {p0, p1, p2}
    Sources = {r1, r2}
    Content <- OneAndTwoBlocks
    Paths = {x, y}
    Names = {n1, n2}
    NameOf <- Apart
    Kinds = {"copy", "download", "move"}
    MaxFiles = 2
    Foreign = Foreign
    Hole = Hole
    None = None
SYMMETRY PairSymmetry
INVARIANTS
    PartialsInOrder
PROPERTIES
    OthersFilesKept
    SuccessIsComplete
    LocalCopyIsFaithful
