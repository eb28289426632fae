SPECIFICATION Spec
CONSTANTS
    MaxCommands = 3
    MaxStarts = 2
    MaxAsks = 3
    MaxMessages = 2
    MaxLosses = 1
    None = None
CHECK_DEADLOCK FALSE
INVARIANTS
    RepliesInv
    NothingLostWhileSubscribed
PROPERTIES
    CommandsAnswered
    MessagesArrive
