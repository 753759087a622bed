SPECIFICATION FairSpec
CONSTANTS
    MaxLocal = 2
    MaxCloud = 2
    Content = {h1}
    Clients = {c1}
    Foreign = {"other"}
    Requests = {q1}
    BatchSize = 1
    h1 = h1
    c1 = c1
    q1 = q1
INVARIANTS
    TypeOK
    SyncedIsStored
    NoDuplicateCopies
PROPERTIES
    SyncTerminates
