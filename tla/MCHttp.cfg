SPECIFICATION RunSpec
CONSTANTS
    Root = {r1, r2}
    Outside = {out}
    Disk = disk
    Sources = {r1, disk}
    Length = 3
    Buffers = {1, 2}
    Chunk = 2
    RedirectLimit = 1
    Other = other
    None = None
    Links = {"/u", "/v", "/w", "/d"}
    Directories = {"/d"}
    LeftOut = {"other"}
    Sizes = {"7k", "8k"}
    Date = "date"
    Hash <- MCHash
    FirstSlots = 2
    TagLimit = 8
    RowLimit = 36
    Rows <- MCRows
    MaxRows = 3
    Old <- NoListing
INVARIANTS
    HopsStayInRoot
    SuccessIsWhole
    FragmentIsAnnounced
    ListsThePage
    IndexFindsEach
PROPERTIES
    ReadIsStream
    PutKeepsOthers
    CopyEnds
CHECK_DEADLOCK FALSE
