CONSTANTS
    Trackers = {t1, t2}
    NumInfohashes = 3
    BatchSize = 2
SPECIFICATION ScrapeSpec
CHECK_DEADLOCK FALSE
INVARIANTS
    CountsBelongToTorrents
    SilentOnlyWithoutSeeders
PROPERTIES
    ScrapeReturns
