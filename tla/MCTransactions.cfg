CONSTANTS
    q1 = q1
    q2 = q2
    n1 = n1
    Queries = {q1, q2}
    Peers = {n1}
    Target <- MCTarget
    FromCrawler = {q1}
    KeySpaces = {1, 2}
    OutCap = 1
    BadThreshold = 3
SPECIFICATION Spec
INVARIANTS
    ClosedOnceAndCharged
    OpenMeansRegistered
PROPERTIES
    BadMeansFailedQueries
    QueriesEnd
