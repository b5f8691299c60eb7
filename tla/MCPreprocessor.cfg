SPECIFICATION Spec
CONSTANTS
    main = main
    a = a
    b = b
    p = p
    q = q
    missing = missing
    Files = {main, a, b}
    Main = main
    Absent = missing
    Packages = {p, q}
    Noted = {p}
    Start = StartPackage
    Macros = {q}
    Includable = {a, b, missing}
    Blocks <- SomeBlocks
    FileLines = 32
    MaxLines = 4
INVARIANTS
    TypeOK
    OwnPackage
    AtMostOnce
PROPERTIES
    OnlyFailedPluginDropped
    FirstTrueCase
    RunsOut
\* The process ends.
CHECK_DEADLOCK FALSE
