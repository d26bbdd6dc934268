SPECIFICATION FairWorkerSpec
CONSTANTS
    MaxSeq = 2
    MaxCrashes = 1
    MaxFailures = 2
    MaxRedeliveries = 1
    MaxTimeouts = 1
    MaxLoad = 5
INVARIANTS
    SomebodyIsResponsible
PROPERTIES
    DeliveryNotCancelled
    WindowsPromise
    DecidedUnlessGivenUp
