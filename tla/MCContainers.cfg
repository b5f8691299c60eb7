CONSTANTS
    Handles = {h1, h2}
    Values = {0, 1, 2}
    Junk = 9
    FirstCap = 2
    MaxCells = 4
    Keys = {k1, k2}
    Blocks = {1, 2, 3, 4}
    Free = free
    MaxEntries = 2
SPECIFICATION MCSpec
SYMMETRY Symmetry
VIEW Held
INVARIANTS
    TypesOK
    InsideTheBlock
    StrictlySorted
    OneOwner
    UndefinedOnlyForALostKey
    LeaksOnlyForALostValue
PROPERTIES
    VectorsAreSequences
    TreesAreSets
    MapsAreDictionaries
CHECK_DEADLOCK FALSE
