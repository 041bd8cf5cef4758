SPECIFICATION FairSpec
CONSTANTS
    i1 = i1
    i2 = i2
    s1 = s1
    s2 = s2
    Items = {i1}
    Sources = {s1}
    SourceOf <- OneSource
    MaxAttempts = 2
    None = None
    Workers = {w1, w2}
    SweepLimit = 1
    MaxCrashes = 1
    Executions = {e1, e2}
INVARIANTS
    TypeOK
    AttemptsBounded
    PostsBounded
    DeliveredHasLead
    NotSweptWhileDelivered
PROPERTIES
    ImplementsLifecycle
    PendingIsSettled
    LockIsReleased
