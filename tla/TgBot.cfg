SPECIFICATION Spec
CONSTANTS
    Admins = {a}
    Guests = {g1, g2}
    Codes = {1, 2}
    BatchLimit = 2
    MaxUpdates = 3
    MaxStops = 1
    MaxFaults = 1
CHECK_DEADLOCK FALSE
INVARIANTS
    TypeOK
    WelcomedOnce
    RevokedStaysOut
    HandledOnce
PROPERTIES
    AllSettle
