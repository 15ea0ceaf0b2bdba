CONSTANTS
    n1 = n1
    n2 = n2
    Nodes = {n1, n2}
    Alpha = 2
    TraversalWidth = 2
    MaxNodeFailures = 2
    MaxIterations = 2
    PruneEvery = 3
    MaxSeen = 1
    MaxCooldown = 1
    StaleAge = 1
    MaxFound = 1
    MaxCopies = 2
SPECIFICATION Spec
PROPERTIES
    LostNodesReturn
    CooledNodesArePromoted
