CONSTANTS
    Jobs = {1, 2}
    NoJob = NoJob
    MaxConcurrent = 2
    SubmitCap = 2
    CancelCap = 1
    MaxResults = 1
    GcDivisor = 2
    MaxSubmits = 1
    MaxCancels = 1
    MaxCrashes = 1
SPECIFICATION Spec
PROPERTY
    CancelledJobsStop
CHECK_DEADLOCK FALSE
