SPECIFICATION FairSpec
CONSTANTS
    r1 = r1
    r2 = r2
    Reminders <- TwoReminders
    Kind <- RecurringAndTimed
    Interval = 1
    MaxTime = 2
    Ops = {}
    MaxEdits = 0
    MaxResends = 0
    MaxLoad = 2
    Faults = {}
    MaxFaults = 0
PROPERTY NothingDropped
CHECK_DEADLOCK FALSE
