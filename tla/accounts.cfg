CONSTANTS
    c1 = c1
    c2 = c2
    oldCompany = oldCompany
    newCompany = newCompany
    Client = {c1, c2}
    Realm = {oldCompany, newCompany}
    MaxAttempts = 3
    MaxToken = 5
    Posted = 2
    Code <- MCCode
    Class <- MCClass
    NoAccount = "none"
    Clearing = "a12"
    Extension = {"a42"}
    Amount <- MCAmount
    MaxFactRows = 2
    MaxPosts = 3
    LeapYear = {0, 4, 8}
    StartMonth = {1, 2, 10}
    Weekday = {0, 3, 6}
    LastDate = 2200
    WeekDays = 3
    Anchor = 3
    Period = {2, 3, 4, 5}
    MaxHours = 5
    Rulesets <- Laws
    Site = {h1, h2}
    LastOn = 3
    MaxRow = 3
SPECIFICATION AccountsSpec
CHECK_DEADLOCK FALSE
INVARIANTS
    StoredTokenLives
    StatementsHold
    PeriodsTile
    NoPyramiding
    PaidExactlyOnce
PROPERTIES
    PushEnds
    MoreHoursNeverPayLess
