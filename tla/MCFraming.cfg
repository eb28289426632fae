SPECIFICATION Spec
CONSTANTS
    MinLen = 2
    ReadData = 4
    TooBig = 6
    MaxPack = 5
    Lengths = {2, 3, 4, 5, 6}
    Room = 7
    MaxMessages = 4
CHECK_DEADLOCK FALSE
INVARIANT BytesInv
PROPERTIES
    InOrder
    TakenIsReceived
