SPECIFICATION FairSpec
CONSTANTS
    Job = {j1, j2, j3}
    Batch = {b1}
    Concurrency = 2
    MaxAttempts = 2
    MaxFailures = 2
    j1 = j1
    j2 = j2
    j3 = j3
    b1 = b1
INVARIANTS
    TypeOK
    SlotsMatchRunning
    JobsAccounted
    NoIdleSlot
    OutcomesAreTrue
PROPERTIES
    ReportIsFinal
    ServesJobs
    EventuallyOver
CHECK_DEADLOCK FALSE
