SPECIFICATION FairSpec
CONSTANTS
    Lookback = 1
    Lease = 1
    Task = {t1, t2}
    Article = {a1, a2}
    WindowMax = 1
    HourMax = 2
    PerHour = 2
INVARIANTS TypeOK QuotaCoversPublications
PROPERTIES ReadyIsPublished
