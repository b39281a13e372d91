SPECIFICATION Spec
CONSTANTS
    Delivery = {d1}
    NoDelivery = NoDelivery
    Worker = {w1, w2}
    MaxAttempts = 2
    Stale = 2
    MinInterval = 1
    Switching = TRUE
    MaxMessages = 2
    Horizon = 4
    MaxTime = 6
SYMMETRY Symmetry
INVARIANTS
    TypeOK
    ClaimsAreOwned
    RetryingIsQueued
PROPERTIES
    SendsAreCounted
    DisablingKeepsSent
