SPECIFICATION Spec
CONSTANTS
    MaxMemories = 2
    Workers = {w1}
    Retriers = {}
    Healers = {}
    Editors = {e1}
    MaxAttempts = 3
    MaxStalls = 1
    MaxRetryAttempts = 2
    PageSize = 100
    HealBatch = 20
    HealFailLimit = 3
    MaxEdits = 1
    MaxDeletes = 0
    MaxFailures = 0
    MaxRestarts = 0
    e1 = e1
    w1 = w1
INVARIANTS
    VectorMatchesText
CHECK_DEADLOCK FALSE
