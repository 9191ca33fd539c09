SPECIFICATION RunSpec
CONSTANTS
    Providers = {q1, q2, q3, q4}
    Local = local
    MaxBack = 2
    Attachable = {local, remote}
    ResourceIds = {a, b, c}
    HistoryMax = 4
    Limits <- MCLimits
    Entries <- MCEntries
    Dotted = {".h"}
    Parent = ".."
    Filters <- MCFilters
    NoFilter = ""
    Orders <- MCOrders
    Given <- MCGiven
    Settings <- MCSettings
    Heights = {1, 2}
    BriefColumns = 2
    Contexts = {"Panel", "Viewer"}
    Commands = {"copy", "move", "quit"}
    Owner <- MCOwner
    Defaults <- MCDefaults
    KeySeqs <- MCKeySeqs
    Files <- MCFiles
    BindingMax = 5
    MaxEdits = 2
    Failed = Failed
    Keymaps <- MCKeymaps
    Global = "Global"
    Workspaces = {"Panel", "Viewer"}
    Modal = {"Dialog"}
    Progress = "Dialog"
    Strokes = {"x", "y", "Shift+y", "Escape"}
    Escape = "Escape"
    Unshifted <- MCUnshifted
    None = None
INVARIANTS
    EntriesBelongToProvider
    CursorNamesLocation
    Ownership
    FocusIsVisible
    CursorIsOnScreen
    OneMeaning
    RefusalHasACause
    RunsWhatWasTyped
    PasteIsText
PROPERTIES
    VisitKeepsWayBack
    CursorKeepsItsEntry
    CancelRollsBack
    NoKeyTakenUnasked
CHECK_DEADLOCK FALSE
