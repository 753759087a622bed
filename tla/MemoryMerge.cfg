SPECIFICATION Spec
CONSTANTS
    MaxMemories = 2
    Custom = {9}
    Grades = {"medium", "top"}
    Reviewers = {r1}
    Drainers = {d1}
    BatchSize = 1
    MaxCandidates = 1
    MaxEvents = 3
    MaxByHand = 1
    MaxFaults = 1
    d1 = d1
    r1 = r1
INVARIANTS
    TypeOK
    Recoverable
    ApprovedWasMerged
PROPERTIES
    KeepsLedger
CHECK_DEADLOCK FALSE
