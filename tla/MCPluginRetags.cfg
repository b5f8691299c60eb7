SPECIFICATION DeclaredSpec
CONSTANTS
    main = main
    a = a
    b = b
    p = p
    q = q
    missing = missing
    Files = {main, a, b}
    Main = main
    Absent = missing
    Packages = {p, q}
    Noted = {}
    Start = StartPackage
    Macros = {}
    Includable = {}
    Blocks <- OnePluginBlock
    FileLines = 6
    MaxLines = 4
PROPERTIES
    FollowingCodeKeepsPackage
\* The process ends.
CHECK_DEADLOCK FALSE
