SPECIFICATION Spec
CONSTANTS
    Delivery = {d1}
    NoDelivery = NoDelivery
    Worker = {w1, w2}
    MaxAttempts = 2
    Stale = 9
    MinInterval = 2
    Switching = FALSE
    MaxMessages = 2
    Horizon = 4
    MaxTime = 6
SYMMETRY Symmetry
CHECK_DEADLOCK FALSE
PROPERTIES
    NotSentAgain
