SPECIFICATION FairSpec
CONSTANTS
    s1 = s1
    s2 = s2
    r1 = r1
    Sessions <- OneSession
    Routes <- OneRoute
    MaxMessages = 2
    MaxAttempts = 2
    MaxRoutePolls = 1
    MaxCrashes = 1
INVARIANTS
    NothingSkipped
    DroppedAfterTheCap
PROPERTIES
    NobodyBlocksForever
