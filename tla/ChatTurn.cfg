SPECIFICATION Spec
CONSTANTS
    Sessions = {s1}
    Questions = {q}
    Workers = {w1, w2}
    Limit = 1
    HistoryRows = 3
    TranscriptRows = 3
    Budget = 1
    Cost = 1
    MaxId = 6
    MaxAdmin = 1
    MaxFaults = 1
SYMMETRY Threads
CHECK_DEADLOCK FALSE
INVARIANTS
    TypeOK
    RateBound
    BudgetBound
    NoStubHeard
    HistoryPaired
    CacheFirstTurn
    QuestionKept
