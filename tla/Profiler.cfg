\* The global context and another one, an array of three names, four objects open at a time, three
\* of several contexts.
CONSTANTS
    Key = {a, b}
    Context = {global, custom}
    Global = global
    Capacity = 3
    MaxOpen = 4
    MaxMixed = 3
    MaxRecords = 2
    NoKey = NoKey
    NoContext = NoContext
    NoRecord = NoRecord
SPECIFICATION Spec
SYMMETRY Symmetric
INVARIANTS
    CacheIsRight
    RecordsArePaths
    NoNamesLeft
    SwitchersNest
CHECK_DEADLOCK FALSE
