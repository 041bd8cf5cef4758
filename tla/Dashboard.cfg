SPECIFICATION Spec
CONSTANTS
    b1 = b1
    b2 = b2
    t1 = t1
    t2 = t2
    t3 = t3
    c1 = c1
    c2 = c2
    p1 = p1
    p2 = p2
    Absurd = absurd
    Browsers = {b1, b2}
    Tabs = {t1, t2, t3}
    BrowserOf <- TwoAndOne
    MaxSids = 2
    MaxEpoch = 2
    MaxOutages = 1
    Calls = {c1, c2}
    Programmes = {p1, p2}
    MaxDay = 2
    MaxReports = 3
    Sources = {1, 2}
    Named = 1
    DarkAfter = 1
    DedupHours = 2
    DigestEvery = 2
    MaxHour = 3
    MaxTroubles = 1
SYMMETRY Alike
CHECK_DEADLOCK FALSE
INVARIANTS
    TypeOK
    SignedOutStays
    NewChatSticks
    OneReportADay
    DeadlinesBacked
    TroubleTold
