SPECIFICATION Spec
CONSTANTS
    i1 = i1
    i2 = i2
    s1 = s1
    s2 = s2
    Items = {i1, i2}
    Sources = {s1, s2}
    SourceOf <- TwoSources
    MaxAttempts = 1
    None = None
    Workers = {w1}
    SweepLimit = 1
    MaxCrashes = 1
    Executions = {e1}
INVARIANTS
    HistoryNeverSent
    LiveOnlyAfterBackfill
