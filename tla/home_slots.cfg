SPECIFICATION Spec
CONSTANTS
    a1 = a1
    a2 = a2
    a3 = a3
    winner = winner
    market = market
    other = other
    Article = {a1, a2, a3}
    Angle <- Angles
    OtherAngle = other
    Score <- Scores
    Delay = 2
    NoArticle = NoArticle
INVARIANTS
    TypeOK
    PointersArePublic
PROPERTIES
    SlotsArePlaces
    OnlyBetterReplaces
    HandPickedHasSlot
