SPECIFICATION Spec
CONSTANTS
    a = a
    b = b
    c = c
    d = d
    Items = {a, b, c, d}
    Recurring = {b}
    Clashes <- McClashes
    Plans <- McPlans
    MaxTurns = 2
    MaxSegments = 2
    MaxCrashes = 1
INVARIANTS
    ToldIsDone
    SupersededWroteNothing
    RepliesSentOnce
