SPECIFICATION Spec
CONSTANTS
    Consumers = {c1, c2}
    Burst = 4
    Cost = 2
    MaxWait = 2
    MaxLag = 1
    Horizon = 6
    LastTick = 14
INVARIANTS
    TypeOK
    BucketAccounts
    NeverDouble
    CallBounded
