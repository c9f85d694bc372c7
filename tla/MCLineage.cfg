SPECIFICATION LineageSpec
CONSTANTS
    w = w
    PaneId = {a, b, c, d}
    Conn = {c1, c2}
    Workspace = {w}
    WorkspaceOf <- MCWorkspaceOf
    OfflineGrace = 2
    ForgottenMax = 2
    NoPane = NoPane
    NoAlias = NoAlias
    NoConn = NoConn
    NoFormer = NoFormer
SYMMETRY Symm
INVARIANTS
    LineResolvesUntilSwept
    
