SPECIFICATION ServiceFairSpec
CONSTANTS
    w1 = w1
    NoTask = NoTask
    Tasks <- MCTasks
    MaxHistory = 2
    MaxJobs = 3
INVARIANTS
    ServiceTypeOK
    SyncCallerNeverSeesRunTimeout
    AnswersAreTrue
    NotFoundMeansRotatedOut
    InterruptsOnlyUnwatched
PROPERTIES
    EveryCallerIsAnswered
    ShutdownCompletes
CHECK_DEADLOCK FALSE
