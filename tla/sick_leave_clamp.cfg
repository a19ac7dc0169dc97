CONSTANTS
    s1 = s1
    s2 = s2
    p1 = p1
    p2 = p2
    a1 = a1
    Session = {s1}
    Punch = {p1}
    Adj = {a1}
    k1 = k1
    k2 = k2
    Kiosk = {k1}
    DayLength = 8
    OpenMax = 5
    Debounce = 1
    MaxTime = 2
    MaxTimeAtOnce = 1
    MaxPunches = 1
    c1 = c1
    c2 = c2
    LastDay = 3
    YearDays = 2
    Card = {c1, c2}
    CardDay <- CardDays
    Hour = {1, 2}
    Cap = {2, 3}
    UsageCap = {3}
SPECIFICATION HoursSpec
CHECK_DEADLOCK FALSE
PROPERTY AccrualNeverCosts
