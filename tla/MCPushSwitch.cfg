SPECIFICATION PushSpec
CONSTANTS
    a = a
    b = b
    w = w
    PaneId = {a}
    Conn = {c1, c2}
    Workspace = {w}
    WorkspaceOf <- MCWorkspaceOf
    OfflineGrace = 1
    ForgottenMax = 1
    NoPane = NoPane
    NoAlias = NoAlias
    NoConn = NoConn
    NoFormer = NoFormer
    Hook = {h1, h2}
    SpawnId = {a}
    FormerId <- MCFormerId
    NoChannel = NoChannel
    Reconnects = TRUE
    Switchable = TRUE
SYMMETRY Symm
VIEW PushView
INVARIANTS
    PushTypeOK
    LandedIsReturned
    ReadyIsOffered
