SPECIFICATION FairWorkerSpec
CONSTANTS
    MaxSeq = 1
    MaxCrashes = 1
    MaxFailures = 0
    MaxRedeliveries = 0
    MaxTimeouts = 1
    MaxLoad = 3
PROPERTY ReplacementWaitsForLock
