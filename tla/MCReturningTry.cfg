SPECIFICATION ReturningSpec
CONSTANTS
    s1 = s1
    s2 = s2
    Objects = {s1, s2}
    NoObj = NoObj
    MaxOps = 6
    EarlyExit = FALSE
    LocalsAnywhere = FALSE
INVARIANTS
    ReturningTypeOK
    NeverUndefined
    ListsAgree
PROPERTIES
    DestroyedByItsTry
\* The program ends when main returns or the process exits.
CHECK_DEADLOCK FALSE
