CONSTANTS
    Panel = Panel
    Viewer = Viewer
    Copy = Copy
    Move = Move
    Quit = Quit
    X = X
    Y = Y
    Contexts = {Panel, Viewer}
    Commands = {Copy, Move, Quit}
    Owner <- MCOwner
    Defaults <- MCDefaults
    Strokes = {X, Y}
    KeySeqs <- MCKeySeqs
    Files <- MCFiles
    BindingMax = 5
    MaxEdits = 2
    Failed = Failed
    None = None
SPECIFICATION Spec
INVARIANTS
    EditsCanBeSaved
