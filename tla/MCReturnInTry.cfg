SPECIFICATION Spec
CONSTANTS
    s1 = s1
    s2 = s2
    Objects = {s1, s2}
    NoObj = NoObj
    MaxOps = 5
    EarlyExit = TRUE
    LocalsAnywhere = FALSE
PROPERTIES
    ReturnPopsFrames
\* The program ends when main returns or the process exits.
CHECK_DEADLOCK FALSE
