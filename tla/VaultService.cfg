SPECIFICATION Spec
CONSTANTS
    a = a
    w = w
    NoTask = NoTask
    Tasks <- MCTasks
    MaxHistory = 2
    MaxJobs = 3
    Files <- MCFiles
    NoFile = NoFile
    MaxIterations = 2
    SyncAfterCommit = TRUE
    MaxEdits = 2
    MaxCrashes = 2
INVARIANTS
    TypeOK
    OneRunPerHeldJob
    JobsCommitOnceInOrder
    UnrecordedEditsAreNotReported
VIEW MCView
