SPECIFICATION FairSpec
CONSTANTS
    a1 = a1
    a2 = a2
    a3 = a3
    winner = winner
    market = market
    other = other
    Article = {a1, a2, a3}
    Angle <- TwoAlike
    OtherAngle = other
    Delay = 1
    Worker = {w1, w2}
    NoArticle = NoArticle
INVARIANTS
    TypeOK
    AtMostTwo
PROPERTIES
    SlotsArePlaces
    SecondSlotWaits
    WaitingIsServed
