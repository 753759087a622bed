SPECIFICATION Spec
CONSTANTS
    MaxMemories = 2
    Workers = {w1, w2}
    Retriers = {}
    Healers = {}
    Editors = {}
    MaxAttempts = 3
    MaxStalls = 1
    MaxRetryAttempts = 2
    PageSize = 100
    HealBatch = 20
    HealFailLimit = 3
    MaxEdits = 0
    MaxDeletes = 0
    MaxFailures = 0
    MaxRestarts = 0
    w1 = w1
    w2 = w2
INVARIANTS
    DuplicatesHaveSurvivor
CHECK_DEADLOCK FALSE
