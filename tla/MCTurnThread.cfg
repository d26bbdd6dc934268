SPECIFICATION FairThreadSpec
CONSTANTS
    c1 = c1
    c2 = c2
    c3 = c3
    r1 = r1
    r2 = r2
    Conversations <- ThreeConversations
    Slow <- OneConversation
    Rows <- TwoRows
    RowsOf <- OwnRows
    Relay = Relay
    NoOne = NoOne
PROPERTY TurnsFinish
