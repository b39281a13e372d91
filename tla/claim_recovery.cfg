SPECIFICATION FairSpec
CONSTANTS
    Article = {a1}
    Run = {r1, r2}
    Worker = {w1, w2}
    Body = {b1, b2}
    Answer = {x1}
    NoRun = NoRun
    NoText = NoText
    MaxAttempts = 2
    Stale = 2
    RetryDelay = 1
    Requests = {}
    Editing = {}
    Horizon = 5
    MaxTime = 8
INVARIANTS CountsProviderErrors OneCallPerClaim
PROPERTIES StaleIsRecovered
CHECK_DEADLOCK FALSE
