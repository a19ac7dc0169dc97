CONSTANTS
    Clerk = {c1, c2}
    Dept = {front, rooms}
    Wage = {low, high}
    MaxDay = 3
    MaxPlacement = 3
    MaxRate = 3
    MaxRequest = 4
    MaxCut = 1
SPECIFICATION WfSpec
CHECK_DEADLOCK FALSE
INVARIANTS
    NotEmployedAfterTheLastDay
