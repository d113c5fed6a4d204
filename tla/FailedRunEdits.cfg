SPECIFICATION Spec
CONSTANTS
    a = a
    b = b
    Files <- MCFiles
    NoFile = NoFile
    MaxIterations = 2
    SyncAfterCommit = TRUE
    MaxEdits = 3
    MaxRuns = 2
INVARIANT
    EveryRunReportsItsEdits
