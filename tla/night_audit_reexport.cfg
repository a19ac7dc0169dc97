CONSTANTS
    Worker = {w1}
    Info <- TwoSegmentExports
    File <- FilesTwo
    Code = {"a", "b"}
    Mapped = {"a"}
    MaxDay = 1
    MaxFed = 0
    Home = "h1"
    Today = 1
    RoomCode = {"a"}
    Amount = {1}
    MaxLog = 0
    Booking = {"b1"}
    Stay <- MCStay
    Occupied = {}
    PageSize = 1
    HorizonDays = 1
    Puller = {w1}
    LastDay = 1
    MaxStamps = 0
    MaxEdits = 0
SPECIFICATION FeedsSpec
CHECK_DEADLOCK FALSE
INVARIANTS
    RollTiesTheBooks
