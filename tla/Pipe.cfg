CONSTANTS
    a = a
    b = b
    Envs = {a, b}
    Creator = a
    Reader = b
    Writer = a
    MAXFD = 3
    NCPU = 1
    SIZE = 2
    Limit = 3
SPECIFICATION FairSpec
INVARIANTS IInv
PROPERTIES ClosedIsTrue ImplementsByteStream WaitingEnds
CHECK_DEADLOCK FALSE
