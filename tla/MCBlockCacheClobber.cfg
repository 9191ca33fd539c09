SPECIFICATION Spec
CONSTANTS
    Total = 7
    BlockSize = 2
    CacheBlocks = 3
    ShortReads = FALSE
    None = None
INVARIANT AnswerIsRight
