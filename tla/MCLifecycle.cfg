CONSTANTS
    t1 = t1
    w1 = w1
    w2 = w2
    Torrents = {t1}
    Workers = {w1, w2}
    BatchSize = 1
    Reindexing = TRUE
    ApiOps = {"state", "delete"}
    NumInfohashes = 6
    PageSize = 2
    MaxChanges = 3

SPECIFICATION MCSpec

INVARIANTS
    FilesStoredOnce
    ActiveIsVouchedFor
    PassMissesFew

PROPERTIES
    SettledStatesStay
