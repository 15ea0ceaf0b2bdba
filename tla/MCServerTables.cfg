CONSTANTS
    h1 = h1
    h2 = h2
    h3 = h3
    p1 = p1
    p2 = p2
    Hashes = {h1, h2, h3}
    Peers = {p1, p2}
    MaxHashes = 2
    MaxPeersPerHash = 2
    TTL = 2
    SampleTTL = 2
    SampleSize = 1
    i1 = i1
    i2 = i2
    i3 = i3
    w1 = w1
    w2 = w2
    b1 = b1
    b2 = b2
    b3 = b3
    b4 = b4
    IPs = {i1, i2, i3}
    Workers = {w1, w2}
    Buckets = {b1, b2, b3, b4}
    Burst = 1
    MaxSize = 1
SPECIFICATION MCSpec
SYMMETRY Symmetry
INVARIANTS
    OrderMatchesEntries
    ServedPeersAreLive
    SampledWasStored
    RacesAreBounded
