SPECIFICATION RunSpec
CONSTANTS
    b0 = b0
    b1 = b1
    UIs = {u0}
    DefaultUI = u0
    Basics = {b0, b1}
    DefaultBasic = b0
    Templates = {}
    TemplateUI = u0
    Paths = {p}
    OtherConfs = {}
    MaxOthers = 0
    None = None
    Names = {"m"}
    Resources <- MCResources
    Credentials = {"c", "d"}
    RepositoryMax = 1
    ScopeMax = 1
    HandEdits = {}
PROPERTY RefusedNeedsConfirmation
