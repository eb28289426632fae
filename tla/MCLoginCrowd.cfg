SPECIFICATION Spec
CONSTANTS
    s1 = s1
    s2 = s2
    Servers = {s1, s2}
    Gates = {}
    Homes <- OnceOrTwice
    MaxAgents = 3
    MaxStmts = 0
    None = None
CHECK_DEADLOCK FALSE
INVARIANT TablesInv
PROPERTY WaitEnds
