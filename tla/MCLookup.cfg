CONSTANTS
    p1 = p1
    p2 = p2
    Peers = {p1, p2}
    NumNodes = 5
    Alpha = 2
    TraversalWidth = 2
    MaxIterations = 4
    MaxFound = 2
SPECIFICATION Spec
INVARIANTS
    ShortlistIsNearest
    AllPeersEmitted
    NearestAskedOnce
