CONSTANTS
    Fetches <- MCFetches
    NumJobs = 2
    NumPeers = 3
    MaxPeers = 2
    Concurrency = {1, 2}
    InfoSize = 2
    PieceSize = 1
    MaxMetadataSize = 2
    MaxSize = 3
SPECIFICATION Spec
CHECK_DEADLOCK FALSE
INVARIANTS
    ResultIsTheTorrents
    NothingMeansAllFailed
    ClosedWhenAllReturned
PROPERTIES
    ProcessReturns
