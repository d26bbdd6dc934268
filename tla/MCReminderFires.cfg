SPECIFICATION FairSpec
CONSTANTS
    r1 = r1
    r2 = r2
    Reminders <- TwoReminders
    Kind <- RecurringAndShared
    Interval = 1
    MaxTime = 2
    Ops = {"create", "reschedule", "clear", "update", "complete", "delete"}
    MaxEdits = 1
    MaxResends = 2
    MaxLoad = 2
    Faults = {"abort", "render"}
    MaxFaults = 1
INVARIANTS
    CompletedWasSent
    SentOnce
    UndeliveredWasNotSent
    SeriesInOrder
PROPERTY DroppedOnlyIf
CHECK_DEADLOCK FALSE
