SPECIFICATION Spec
CONSTANTS
    MaxLocal = 1
    MaxCloud = 1
    Content = {h1}
    Clients = {c1}
    Foreign = {"default"}
    Requests = {q1}
    BatchSize = 10
    h1 = h1
    c1 = c1
    q1 = q1
PROPERTIES
    PullAppliesDeletions
