SPECIFICATION PollSpec
CONSTANTS
    s1 = s1
    s2 = s2
    r1 = r1
    Sessions <- OneSession
    Routes <- NoRoute
    MaxMessages = 2
    MaxAttempts = 2
    MaxRoutePolls = 0
    MaxCrashes = 0
PROPERTIES
    NobodyBlocksForever
