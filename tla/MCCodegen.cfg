CONSTANTS
    A = A
    B = B
    C = C
    X = X
    m = m
    n = n
    Names = {A, B, C, X}
    Methods = {m, n}
    Units <- MCUnits
    NoClass = none
    TemplateSets <- MCTemplateSets
    Programs <- MCPrograms
    MaxInstances = 6
SPECIFICATION MCSpec
INVARIANTS
    TypeOK
    RejectsTheIllFormed
    BasesFirst
    NearestRuns
    TornInReverse
    AllInstantiated
CHECK_DEADLOCK FALSE
