SPECIFICATION FairDeliverySpec
CONSTANTS
    alice = alice
    bob = bob
    carol = carol
    f1 = f1
    f2 = f2
    Creator = alice
    Facts <- OneFact
    Receivers <- TwoReceivers
    MaxResends = 2
    MaxAborts = 1
INVARIANTS
    RowsTellTheTruth
PROPERTIES
    SettledUnlessCut
CHECK_DEADLOCK FALSE
