CONSTANTS
    a1 = a1
    a2 = a2
    meeting = meeting
    series = series
    odd = odd
    Accounts = {a1, a2}
    Events = {meeting, series, odd}
    NoEvent = NoEvent
    CalendarOf <- Calendars
    KindOf <- Kinds
    StartOf <- Starts
    MaxTime = 2
    MaxImports = 2
    MaxOwn = 1
SPECIFICATION ImportSpec
INVARIANTS
    ImportedOnce
    ToldIsImported
CHECK_DEADLOCK FALSE
