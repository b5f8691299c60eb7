SPECIFICATION FairSpec
CONSTANTS
    x1 = x1
    x2 = x2
    y = y
    Sources = {x1, x2, y}
    Stem <- Stems
    CFile <- CFiles
    WithMain = {y}
    Outputs = {"a", "a.o"}
    Neighbour <- Beside
    Foreign = "c.o"
    Inputs <- CommandLines
    Options <- Flags
    None = None
    Cut = Cut
    MaxRuns = 2
    MaxEdits = 1
INVARIANTS
    TypeOK
    Delivered
PROPERTIES
    FailureContained
    OwnRecordsWin
    RunEnds
\* No run has to be begun.
CHECK_DEADLOCK FALSE
