CONSTANTS
    a = a
    b = b
    f = f
    g = g
    None = None
    Clients = {a, b}
    First = a
    FileOf <- MCFileOf
    MAXOPEN = 2
    MAXFD = 2
    MaxOffset = 1
    MaxOpens = 3
SPECIFICATION FairServerSpec
INVARIANTS ServerIInv
PROPERTIES ImplementsOpenFiles Answered
CHECK_DEADLOCK FALSE
