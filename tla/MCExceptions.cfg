SPECIFICATION FairSpec
CONSTANTS
    s1 = s1
    s2 = s2
    Objects = {s1, s2}
    NoObj = NoObj
    MaxOps = 6
    EarlyExit = FALSE
    LocalsAnywhere = FALSE
INVARIANTS
    TypeOK
    NeverUndefined
    StacksAgree
PROPERTIES
    NoLostDestructor
    OnlyOwnDestroyed
    ImplementsScopedTry
    UnwindingEnds
\* The program ends when main returns or the process exits.
CHECK_DEADLOCK FALSE
