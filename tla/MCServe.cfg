CONSTANTS
    v = v
    seed = seed
    health = health
    indexer = indexer
    Order <- MCOrder
    Values <- MCValues
    Seeds <- MCSeeds
    Observers <- MCObservers
    Servers <- MCServers
    Workers <- MCWorkers
    NumNodes = 3
    K = 2
    Alpha = 2
    WarmThreshold = 2
    MaxFound = 2
CHECK_DEADLOCK FALSE
SPECIFICATION Spec
INVARIANTS
    ChangesAreNoticed
    NearestWereAsked
PROPERTIES
    AskedOnce
    StartsAndStops
