SPECIFICATION Spec
CONSTANTS
    s1 = s1
    s2 = s2
    Servers = {s1, s2}
    Gates = {s1}
    Homes <- Once
    MaxAgents = 2
    MaxStmts = 1
    None = None
CHECK_DEADLOCK FALSE
INVARIANTS TablesInv NobodyWaits
