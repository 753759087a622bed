SPECIFICATION Spec
CONSTANTS
    Runs = {r1}
    Flows = {f1}
    Instances = {i1}
    Connections = {k1, k2}
    Memory = {m1, m2}
    None = None
    Selections = {{"pending", "tiering", "identity"}}
    MaxLlmCalls = 2
    MaxConsolidations = 1
    MaxAttempts = 2
    MaxFaults = 1
    r1 = r1
    f1 = f1
    i1 = i1
    k1 = k1
    k2 = k2
    m1 = m1
    m2 = m2
INVARIANTS
    TypeOK
    CompletedHasEnded
    HiddenHasEvent
    MergedWasMerged
    BudgetOfRun
    MergedIsReachable
CHECK_DEADLOCK FALSE
