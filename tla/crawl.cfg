SPECIFICATION FairSpec
CONSTANTS
    Lookback = 2
    Lease = 3
    Process = {p1, p2}
    Overrun = 1
    Backoff = 1
    BlockedBackoff = 1
    SlowInterval = 2
    FailuresToBackoff = 2
    SuccessesToRecover = 1
INVARIANTS TypeOK LiveAreClose SucceededIsFresh
PROPERTIES SourceIsCrawled FailingIsBackedOff
