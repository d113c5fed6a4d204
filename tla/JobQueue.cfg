SPECIFICATION FairSpec
CONSTANTS
    w1 = w1
    w2 = w2
    NoTask = NoTask
    Tasks <- MCTasks
    MaxHistory = 2
    MaxJobs = 4
INVARIANTS
    TypeOK
    SingleWriter
    KeepsTheNewest
    QueuedExactlyOnce
    NoLostWakeup
    ListsNewestFirst
PROPERTIES
    StartsInOrder
    FinishedIsFinal
    JobsSettle
    ImplementsLifecycle
