CONSTANTS
    planA = planA
    planB = planB
    uncoded = uncoded
    w1 = w1
    w2 = w2
    NoPlan = NoPlan
    Day = {1, 2}
    Content = {planA, planB, uncoded}
    Unbuildable = {uncoded}
    Worker = {w1, w2}
    MaxLost = 1
    e1 = e1
    k1 = k1
    k2 = k2
    Employee = {e1}
    NPeriods = 2
    NHotels = 2
    Clerk = {k1, k2}
    Gross = {3}
    MaxHours <- Hours
    MaxSick <- SickHours
    MaxVersion = 2
    MaxPeople = 2
    MaxPayrolls = 2
    Horizon = 3
    Year = 2
    TrendDays = 3
    Rooms = {1, 2}
    Rate = {1, 4}
    MaxBlocks = 1
    MaxRows = 4
SPECIFICATION MoneySpec
SYMMETRY MoneyAlike
INVARIANTS
    PushIsAccounted
    NobodyIsPaidTwice
    UnpaidIsNamed
    FreshRefIsDelivered
    BooksMatchPayroll
    PerformanceHolds
PROPERTIES
    PushedDayIsFinal
