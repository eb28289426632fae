SPECIFICATION FairSpec
CONSTANTS
    HandSize = 2
    DownSize = 1
    MaxRetry = 1
    Draws = {1}
    MaxLate = 4
INVARIANTS
    TypeOK
    BiddingInv
    TurnsInv
    StakeStartsFresh
PROPERTIES
    ImplementsDeskGame
    RoundGoesToLastPlayer
    GameEnds
