CONSTANTS
    Worker = {x1, x2}
    Info <- OneSegmentExport
    File <- FilesOne
    Code = {"a", "b"}
    Mapped = {"a"}
    MaxDay = 1
    MaxFed = 1
    Home = "h1"
    Today = 1
    RoomCode = {"a"}
    Amount = {1}
    MaxLog = 1
    Booking = {"b1", "b2", "b3"}
    Stay <- MCStay
    Occupied = {1}
    PageSize = 1
    HorizonDays = 1
    Puller = {x1, x2}
    LastDay = 2
    MaxStamps = 2
    MaxEdits = 2
SPECIFICATION FeedsSpec
SYMMETRY FeedsAlike
CHECK_DEADLOCK FALSE
INVARIANTS
    IngestionSafe
    RolledIsAudited
    DemandIsTrue
