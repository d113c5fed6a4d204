SPECIFICATION Spec
CONSTANTS
    w1 = w1
    w2 = w2
    NoTask = NoTask
    Tasks <- MCTasks
    MaxHistory = 2
    MaxJobs = 4
INVARIANT
    FinishedMeansTerminal
