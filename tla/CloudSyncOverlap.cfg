SPECIFICATION Spec
CONSTANTS
    MaxLocal = 1
    MaxCloud = 2
    Content = {h1}
    Clients = {c1, c2}
    Foreign = {"other"}
    Requests = {q1, q2}
    BatchSize = 1
    h1 = h1
    c1 = c1
    c2 = c2
    q1 = q1
    q2 = q2
INVARIANTS
    NoDuplicateCopies
