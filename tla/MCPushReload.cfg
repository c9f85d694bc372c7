SPECIFICATION PushSpec
CONSTANTS
    a = a
    b = b
    w = w
    PaneId = {a, b}
    Conn = {c1}
    Workspace = {w}
    WorkspaceOf <- MCWorkspaceOf
    OfflineGrace = 1
    ForgottenMax = 1
    NoPane = NoPane
    NoAlias = NoAlias
    NoConn = NoConn
    NoFormer = NoFormer
    Hook = {h1, h2}
    SpawnId = {a}
    FormerId <- MCFormerId
    NoChannel = NoChannel
    Reconnects = FALSE
    Switchable = FALSE
SYMMETRY Symm
VIEW PushView
PROPERTIES
    EndedTakesNothing
    HeldChannelStays
