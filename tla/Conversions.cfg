\* Documents of up to three bytes through buffers of two, streams with at most one byte that tells
\* nothing new, three calls on three holders; every pair of trees of up to seven nodes over two
\* names and two contents; every text of up to four characters, and tables of up to two rows beside
\* those that are read.
SPECIFICATION SpecAny
CONSTANTS
    CHUNK = 2
    MaxSize = 3
    MaxIdle = 1
    MaxStray = 1
    MaxCalls = 3
    Key = {"a", "b"}
    Content = {"x", "y"}
    MaxNodes = 7
    Char <- Characters
    Given <- Rows
    MaxText = 4
    MaxRows = 2
    MaxWritten = 8
    IntBits = 3
    MaxTexts = 2
    Single = {"one", "both"}
    Multi = {"many", "both"}
    Pair <- Pairs
    MaxPairs = 2
INVARIANTS GivenBack IntactIsAccepted TextTellsTree LastIsRead
PROPERTIES
    CompatiblePatchFollowsRfc
    DifferenceIsPatch
    NothingEqualLeft
    WrittenIsRead
    EveryLineIsRead
    AcceptedIsComplete
    ChangedOnlyAsGiven
