SPECIFICATION FairSpec
CONSTANTS
    e1 = e1
    e2 = e2
    Events <- TwoEvents
    MaxId = 3
    Faults <- RelayFault
    NoEvent = NoEvent
PROPERTY EventuallyHandled
\* Once every row is processed nothing is left to do.
CHECK_DEADLOCK FALSE
