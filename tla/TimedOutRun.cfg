SPECIFICATION ServiceSpec
CONSTANTS
    w1 = w1
    NoTask = NoTask
    Tasks <- MCTasks
    MaxHistory = 2
    MaxJobs = 3
INVARIANT
    TimedOutRunIsReported
CHECK_DEADLOCK FALSE
