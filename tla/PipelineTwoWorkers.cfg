SPECIFICATION Spec
SYMMETRY Slots
CONSTANTS
    MaxMemories = 1
    Workers = {w1, w2}
    Retriers = {r1}
    Healers = {h1}
    Editors = {e1}
    MaxAttempts = 2
    MaxStalls = 1
    MaxRetryAttempts = 1
    PageSize = 1
    HealBatch = 20
    HealFailLimit = 3
    MaxEdits = 1
    MaxDeletes = 1
    MaxFailures = 3
    MaxRestarts = 1
    e1 = e1
    h1 = h1
    r1 = r1
    w1 = w1
    w2 = w2
INVARIANTS
    TypeOK
    CompleteIsSearchable
    OneSlotEmbeds
    RetryBudget
