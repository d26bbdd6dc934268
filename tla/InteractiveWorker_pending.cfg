SPECIFICATION FairWorkerSpec
CONSTANTS
    MaxSeq = 1
    MaxCrashes = 0
    MaxFailures = 1
    MaxRedeliveries = 0
    MaxTimeouts = 0
    MaxLoad = 2
PROPERTY EveryMessageDecided
