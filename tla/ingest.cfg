SPECIFICATION FairSpec
CONSTANTS
    d1 = d1
    d2 = d2
    NJobs = 3
    DocOrder <- TwoDocs
    Length <- OneTwoNone
    BatchSize = 2
    Environments <- SmallEnvironments
    Bounds <- SmallBounds
INVARIANTS StoredWhenTracked NoGhosts
PROPERTIES RemovedSwept ListedKept IngestingEnds
CHECK_DEADLOCK FALSE
