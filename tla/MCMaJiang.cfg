SPECIFICATION Hands
CONSTANTS
    Tiles <- DealtTiles
    KingPoker = 255
    SpecEat = TRUE
    MaxHand = 9
    MaxKings = 3
CHECK_DEADLOCK FALSE
INVARIANTS
    Sound
    NoWinMissed
    HandInv
