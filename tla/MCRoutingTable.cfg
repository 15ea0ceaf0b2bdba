CONSTANTS
    W = 5
    Span <- MCSpan
    Self = 0
    Peers = {0, 8, 9, 10, 11, 12}
    K = 2
    BadThreshold = 2
SPECIFICATION Spec
INVARIANTS
    TypeOK
    OneEntryPerNode
    EntriesAreFound
    CandidatesWaitBehindFullBuckets
PROPERTIES
    InsertReturns
    ImplementsRegistry
