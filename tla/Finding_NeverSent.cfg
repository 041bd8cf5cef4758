SPECIFICATION Spec
CONSTANTS
    i1 = i1
    i2 = i2
    s1 = s1
    s2 = s2
    Items = {i1}
    Sources = {s1}
    SourceOf <- OneSource
    MaxAttempts = 2
    None = None
    Workers = {w1}
    SweepLimit = 1
    MaxCrashes = 0
    Executions = {e1, e2}
INVARIANTS
    DeadWasSent
