SPECIFICATION Spec
CONSTANTS
    A = A
    B = B
    C = C
    Slot = {A, B}
    Home = A
    Inc = {i1, i2}
    Tx = {t1, t2}
    Gap = 1
    Window = 2
    Limit = 1
    None = None
    Horizon = 2
    Crashes = 1
    ByHand = 1
    WritesFail = TRUE
SYMMETRY Symm
VIEW View
ACTION_CONSTRAINT Telling
CHECK_DEADLOCK FALSE
INVARIANTS
    TypeOK
    BudgetHolds
    
    
    
    
PROPERTIES
    ClosedStaysClosed
