CONSTANTS
    pBeach = pBeach
    rev = rev
    revTax = revTax
    clearing = clearing
    taxes = taxes
    monthly = monthly
    P1 = P1
    w1 = w1
    w2 = w2
    NoFacts = NoFacts
    NoCalendar = NoCalendar
    Property = {pBeach}
    Date <- OneDay
    Source = {"pms_daily"}
    Content = {rev, revTax}
    Unmapped = {}
    Account = {clearing, taxes}
    RoleAccount = {clearing}
    Needs <- MCNeeds
    Calendar = {monthly}
    PeriodKey = {P1}
    KeyOf <- MCKeyOf
    MaxJournal = 6
    Worker = {w1}
    MaxRow = 2
SPECIFICATION TxSpec
PROPERTY ClosedPeriodFrozen
