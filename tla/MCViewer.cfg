SPECIFICATION RunSpec
CONSTANTS
    Total = 5
    BlockSize = 2
    CacheBlocks = 2
    ShortReads = TRUE
    Texts <- MCTexts
    Pages = {1, 3}
    GotoLines = {3}
    Newline = "newline"
    Match = "match"
    Other = "other"
    None = None
INVARIANTS
    UntouchedIsFaithful
    CursorState
PROPERTIES
    FindIsNearest
    SearchEnds
