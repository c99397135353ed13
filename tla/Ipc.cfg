CONSTANTS
    a = a
    b = b
    c = c
    p = p
    q = q
    None = None
    Slots = {a, b, c}
    First = {a, b, c}
    Receivers = {c}
    Reused = {c}
    GenBound = 1
    Values = {1, 2}
    Addrs = {p, q}
SPECIFICATION FairSpec
INVARIANTS IInv
PROPERTIES ImplementsRendezvous SendEnds
CHECK_DEADLOCK FALSE
