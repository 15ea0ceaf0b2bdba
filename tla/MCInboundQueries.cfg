CONSTANTS
    i1 = i1
    i2 = i2
    h1 = h1
    w1 = w1
    w2 = w2
    IPs = {i1,i2}
    Hashes = {h1}
    Workers = {w1,w2}
    HandlersCap = 1
    OutboundCap = 1
    DiscoveredCap = 1
    MaxTicks = 2
SPECIFICATION Spec
SYMMETRY Symmetry
INVARIANTS
    AnnouncesAreSound
PROPERTIES
    TokensLastTwoWindows
