CONSTANTS
    pBeach = pBeach
    rev = rev
    revTax = revTax
    uncoded = uncoded
    clearing = clearing
    taxes = taxes
    monthly = monthly
    fourFourFive = fourFourFive
    P1 = P1
    P2 = P2
    NoFacts = NoFacts
    NoCalendar = NoCalendar
    Property = {pBeach}
    Date <- OneDay
    Source = {"pms_daily", "payroll_accrual"}
    Content = {rev, revTax, uncoded}
    Unmapped = {uncoded}
    Account = {clearing, taxes}
    RoleAccount = {clearing}
    Needs <- MCNeeds
    Calendar = {monthly, fourFourFive}
    PeriodKey = {P1, P2}
    KeyOf <- MCKeyOf
    MaxJournal = 6
SPECIFICATION Spec
INVARIANTS
    TypeOK
    ReversalsPair
    OneStandingEntry
    BooksNetToCurrent
PROPERTIES
    PostingConverges
    KeepsBooks
    ClosedPeriodFrozen
