SPECIFICATION FairSpec
CONSTANTS
    MaxMemories = 2
    Workers = {w1}
    Retriers = {r1}
    Healers = {}
    Editors = {}
    MaxAttempts = 2
    MaxStalls = 0
    MaxRetryAttempts = 2
    PageSize = 1
    HealBatch = 20
    HealFailLimit = 3
    MaxEdits = 0
    MaxDeletes = 0
    MaxFailures = 2
    MaxRestarts = 1
    r1 = r1
    w1 = w1
INVARIANTS
    DuplicatesHaveSurvivor
    DuplicatePointsAtEmbedded
PROPERTIES
    KeepsPromise
    EventuallySettled
