SPECIFICATION Spec
CONSTANTS
    Procs = {p1}
    Sources = {r1}
    Content <- OneBlock
    b1 = b1
    b2 = b2
    Paths = {x, y}
    Names = {n1}
    NameOf <- Together
    x = x
    y = y
    n1 = n1
    n2 = n2
    Kinds = {"copy", "download"}
    MaxFiles = 2
    Foreign = Foreign
    Hole = Hole
    None = None
INVARIANT NeverOntoItself
