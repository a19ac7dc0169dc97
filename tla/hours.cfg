CONSTANTS
    s1 = s1
    s2 = s2
    p1 = p1
    p2 = p2
    a1 = a1
    Session = {s1, s2}
    Punch = {p1, p2}
    Adj = {a1}
    k1 = k1
    k2 = k2
    Kiosk = {k1, k2}
    DayLength = 8
    OpenMax = 5
    Debounce = 1
    MaxTime = 14
    MaxTimeAtOnce = 7
    MaxPunches = 5
    c1 = c1
    c2 = c2
    LastDay = 3
    YearDays = 2
    Card = {c1, c2}
    CardDay <- CardDays
    Hour = {1}
    Cap = {1}
    UsageCap = {1}
SPECIFICATION HoursSpec
SYMMETRY HoursAlike
CHECK_DEADLOCK FALSE
INVARIANTS
    CardAgrees
    PaidIsReviewed
    DaysAreTrue
    YearUseWithinCap
PROPERTIES
    EvidenceIsKept
    UsageNeverOverdraws
