SPECIFICATION Spec
CONSTANTS
    a = a
    b = b
    c = c
    Items = {a, b, c}
    Endpoints = 2
    PageSize = 1
    MaxPages = 2
    Second = 2
    MaxBehind = 0
    MaxClock = 4
    MaxEdits = 2
SYMMETRY Alike
INVARIANTS
    TypeOK
    NothingOverdue
    RepeatsExplained
PROPERTY ContractSpec
