CONSTANTS
    Jobs = {1, 2}
    NoJob = NoJob
    MaxConcurrent = 2
    SubmitCap = 2
    CancelCap = 1
    MaxResults = 1
    GcDivisor = 2
    MaxSubmits = 3
    MaxCancels = 1
    MaxCrashes = 1
SPECIFICATION Spec
INVARIANTS
    SchedulerTypeOK
    AtMostMaxTasks
    NoStaleEntries
    PendingJobsAccounted
PROPERTIES
    QueuedJobsSettle
CHECK_DEADLOCK FALSE
