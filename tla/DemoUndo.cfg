SPECIFICATION DemoSpec
CONSTANTS
    a = a
    Files <- MCFiles
    NoFile = NoFile
    MaxIterations = 2
    SyncAfterCommit = TRUE
    MaxEdits = 4
    MaxRuns = 4
    Steps = 2
INVARIANT
    BackspaceUndoesTheStep
