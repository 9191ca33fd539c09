SPECIFICATION Spec
CONSTANTS
    Texts <- TextsWithEmptyFirstLine
    BlockSize = 2
    Pages = {1, 2, 3}
    GotoLines = {1, 3}
    Newline = nl
    Match = match
    Other = other
    None = None
PROPERTY SearchEnds
