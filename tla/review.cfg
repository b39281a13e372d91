SPECIFICATION FairSpec
CONSTANTS
    Worker = {w1, w2}
    Event = {e1}
    Bundle = {b1, b2}
    NoWorker = NoWorker
    NoBundle = NoBundle
    Lease = 1
    Every = 1
    MaxVersion = 3
    Horizon = 1
    MaxTime = 2
INVARIANTS TypeOK MailedIsOnRecord ReviewsAreSerial
PROPERTIES ClaimEnds
CHECK_DEADLOCK FALSE
