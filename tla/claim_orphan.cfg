SPECIFICATION FairSpec
CONSTANTS
    Article = {a1}
    Run = {r1, r2}
    Worker = {w1}
    Body = {b1, b2}
    Answer = {x1}
    NoRun = NoRun
    NoText = NoText
    MaxAttempts = 2
    Stale = 2
    RetryDelay = 1
    Requests = {FALSE}
    Editing = {"revive"}
    Horizon = 3
    MaxTime = 6
PROPERTIES StaleIsRecovered
CHECK_DEADLOCK FALSE
