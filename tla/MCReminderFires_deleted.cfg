SPECIFICATION Spec
CONSTANTS
    r1 = r1
    r2 = r2
    Reminders <- OneReminder
    Kind <- Recurring
    Interval = 1
    MaxTime = 2
    Ops = {"delete"}
    MaxEdits = 1
    MaxResends = 0
    MaxLoad = 2
    Faults = {}
    MaxFaults = 0
PROPERTY DeletedSeriesStaysDeleted
CHECK_DEADLOCK FALSE
