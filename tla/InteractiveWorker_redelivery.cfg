SPECIFICATION FairWorkerSpec
CONSTANTS
    MaxSeq = 2
    MaxCrashes = 0
    MaxFailures = 0
    MaxRedeliveries = 1
    MaxTimeouts = 0
    MaxLoad = 3
PROPERTY EveryMessageDecided
