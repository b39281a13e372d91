SPECIFICATION Spec
CONSTANTS
    Article = {a1}
    Run = {r1, r2}
    Worker = {w1}
    Body = {b1, b2}
    Answer = {x1}
    NoRun = NoRun
    NoText = NoText
    MaxAttempts = 1
    Stale = 2
    RetryDelay = 1
    Requests = {FALSE}
    Editing = {"ingest", "retry", "revive"}
    Horizon = 2
    MaxTime = 4
SYMMETRY Symmetry
INVARIANTS TypeOK UniqueLiveClaim CountIsEarned
PROPERTIES RunsArePaidRounds RecoveryAfterDeadline CommitMatchesSource
CHECK_DEADLOCK FALSE
