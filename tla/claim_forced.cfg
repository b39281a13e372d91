SPECIFICATION Spec
CONSTANTS
    Article = {a1}
    Run = {r1, r2}
    Worker = {w1}
    Body = {b1, b2}
    Answer = {x1}
    NoRun = NoRun
    NoText = NoText
    MaxAttempts = 1
    Stale = 2
    RetryDelay = 1
    Requests = {TRUE}
    Editing = {}
    Horizon = 5
    MaxTime = 7
PROPERTIES StaysPublished
CHECK_DEADLOCK FALSE
