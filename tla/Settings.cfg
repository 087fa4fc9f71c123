\* Every kind of field and every setting of reader and writer; one fault or restart.
CONSTANTS
    Item = {0, 1}
    Name = {"a", "b"}
    ArraySize = 2
    MaxItems = 2
    MaxFaults = 1
SPECIFICATION Spec
INVARIANTS
    LoadIsIdempotent
    SaveIsCanonical
PROPERTIES
    LoadRestoresSaved
    FreshLoadIsSaved
    RestIsReadOrKept
