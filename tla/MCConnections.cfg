SPECIFICATION FairSpec
CONSTANTS
    None = None
    Accepted = {a1}
    Dialled = {d1}
    WebSockets = {w1, w2, w3}
    Local = {w3}
    Token = w2
    Fds = {f1}
    MaxConns = 2
    MaxMessages = 2
CHECK_DEADLOCK FALSE
INVARIANTS
    MessagesMeetOwnAgent
    TablesInv
PROPERTIES
    KeepsSessions
    LossNoticed
