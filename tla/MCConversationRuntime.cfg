SPECIFICATION Spec
CONSTANTS
    t1 = t1
    t2 = t2
    Turns <- TwoTurns
    MaxSeq = 2
    Relay = Relay
    NoOne = NoOne
INVARIANTS
    TypeOK
    ExecutesOnFreshWindow
    NothingSkipped
    ClosedStaysClosed
PROPERTY WindowsPromise
\* All messages may have been recorded and all turns ended.
CHECK_DEADLOCK FALSE
