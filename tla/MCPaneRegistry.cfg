SPECIFICATION Spec
CONSTANTS
    a = a
    b = b
    x = x
    w1 = w1
    w2 = w2
    PaneId = {a, b, x}
    Conn = {c1, c2}
    Workspace = {w1, w2}
    WorkspaceOf <- MCWorkspaceOf
    OfflineGrace = 2
    ForgottenMax = 2
    NoPane = NoPane
    NoAlias = NoAlias
    NoConn = NoConn
    NoFormer = NoFormer
SYMMETRY Symm
INVARIANTS
    TypeOK
    
    AliasTargetRegistered
PROPERTIES
    AliasClaimFenced
    HeldPaneStays
