CONSTANTS
    Clerk = {x1, x2}
    Dept = {front, rooms}
    Wage = {hourly}
    MaxDay = 3
    MaxPlacement = 3
    MaxRate = 3
    MaxRequest = 5
    MaxCut = 1
    DayTicks = 4
    MealAfter = 2
    Meal = 1
    Planner = {x1, x2}
    Monday = {2, 4}
    WeekLen = 2
    Crew = {e1}
    Slot <- Slots
    MaxShift = 2
    MaxPlan = 4
    NextWeek = {8, 9}
    PastDays = {5, 6, 7}
    Trailing = 2
    RoomCount = {0, 3}
    PerRoom = {1, 2}
    MaxFact = 3
    WeekDays = 2
    Anchor = 3
    Rulesets <- Laws
    Worker = {e1, e2, e3}
    Unit = {x1, x2}
    Exempt = {}
    Unrated = {e3}
    Latecomer = {e2}
    Hours <- ShiftHours
    MinRest = 2
    Deviation = 1
    PunchedHours = {1, 3}
    MaxFacts = 3
    Staff = {x1, x2}
    Division = {front, rooms}
    LastShift = 2
    MaxEntry = 3
    PutBody <- MCBody
    OnFile <- MCOnFile
    Writer = {x1, x2}
    MaxPuts = 2
    MaxSsn = 2
SPECIFICATION PeopleSpec
SYMMETRY PeopleAlike
CHECK_DEADLOCK FALSE
INVARIANTS
    WorkforceSafe
    SchedulingSafe
    HintsCountDays
    WeekReportsHold
    LaborReportsHold
    PayGoesWhereItSays
PROPERTIES
    WorkedDayStaysPriced
