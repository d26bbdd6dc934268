SPECIFICATION FairSpec
CONSTANTS
    e1 = e1
    e2 = e2
    Events <- TwoEvents
    MaxId = 3
    Faults <- FaultPairs
    NoEvent = NoEvent
INVARIANTS
    TypeOK
    OneOutstanding
    HandledBeforeProcessed
    EffectsOnce
    ReservedIsOnItsWay
PROPERTY HandledUnlessCutOff
\* Once every row is processed nothing is left to do.
CHECK_DEADLOCK FALSE
