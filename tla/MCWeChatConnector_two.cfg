SPECIFICATION Spec
CONSTANTS
    s1 = s1
    s2 = s2
    r1 = r1
    Sessions <- TwoSessions
    Routes <- NoRoute
    MaxMessages = 1
    MaxAttempts = 2
    MaxRoutePolls = 0
    MaxCrashes = 1
SYMMETRY Symmetry
INVARIANTS
    TypeOK
    NothingSkipped
    DroppedAfterTheCap
