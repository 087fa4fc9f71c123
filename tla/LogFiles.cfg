\* Two threads, a directory of two files of at most two messages each.
CONSTANTS
    Thread = {t1, t2}
    Moment <- Moments
    MaxFiles = 2
    MaxMessages = 1
    MaxLogged = 5
    MaxFaults = 2
    Level = {3, 7}
    NoBackend = NoBackend
    Nobody = Nobody
    NoFile = NoFile
SPECIFICATION Spec
SYMMETRY Symmetric
INVARIANTS
    FilesBounded
    FileBounded
    LastLinesKept
    EnoughKept
    NoneLost
