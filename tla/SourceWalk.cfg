SPECIFICATION Spec
CONSTANTS
    Items = {1, 2, 3}
    MaxPages = 2
    PageSize = 1
    Overlap = 1
    MaxWalk = 1
    MaxFaults = 1
    LastTick = 3
INVARIANTS
    TypeOK
    CompletedWalkReadAll
    NothingBehindWatermark
