SPECIFICATION Spec
CONSTANTS
    Device = {d1, d2}
    i1 = i1
    Item = {i1, i2}
    v1 = v1
    Value = {v1, v2}
    Absent = Absent
    None = None
    Elsewhere = Elsewhere
    Known = {i1}
    FirstValue = v1
    PageSize = 1
    MaxEdits = 3
    MaxTroubles = 1
SYMMETRY Symm
VIEW SyncView
INVARIANTS
    TypeOK
    
    

    
