SPECIFICATION RunSpec
CONSTANTS
    b0 = b0
    b1 = b1
    UIs = {u0, u1}
    DefaultUI = u0
    Basics = {b0, b1}
    DefaultBasic = b0
    Templates = {t}
    TemplateUI = u0
    Paths = {p}
    OtherConfs <- NavTomls
    MaxOthers = 1
    None = None
    Names = {"m", "n"}
    Resources <- MCResources
    Credentials = {"c", "d"}
    RepositoryMax = 2
    ScopeMax = 1
    HandEdits <- MCHandEdits
INVARIANTS
    ProxyIsStaged
    SavedMirrorsFile
    RestartFindsTheSame
PROPERTIES
    NothingLostSilently
    OnlyNamedFilesWritten
    CredentialsStayInScope
    RefusedIsNotRepeated
