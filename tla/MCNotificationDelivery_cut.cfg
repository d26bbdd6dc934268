SPECIFICATION FairDeliverySpec
CONSTANTS
    alice = alice
    bob = bob
    carol = carol
    f1 = f1
    f2 = f2
    Creator = alice
    Facts <- OneFact
    Receivers <- TwoReceivers
    MaxResends = 0
    MaxAborts = 1
PROPERTIES
    EveryRecipientSettled
CHECK_DEADLOCK FALSE
