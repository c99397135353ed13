CONSTANTS
    a = a
    b = b
    Envs = {a, b}
    Creator = a
    Reader = b
    Writer = a
    MAXFD = 3
    NCPU = 2
    SIZE = 2
    Limit = 3
SPECIFICATION Spec
PROPERTIES ClosedIsTrue
CHECK_DEADLOCK FALSE
