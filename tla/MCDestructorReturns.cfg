CONSTANTS
    A = A
    B = B
    C = C
    X = X
    m = m
    n = n
    Names = {A, B, C, X}
    Methods = {m, n}
    Units <- MCUnits
    NoClass = none
SPECIFICATION Spec
INVARIANT
    BaseDestructorCalled
CHECK_DEADLOCK FALSE
