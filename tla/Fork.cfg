CONSTANTS
    a = a
    b = b
    Envs = {a, b}
    Root = a
    Last = 3
    Kind <- MCKind
    Stack = 3
    Spares = 3
    Values = {0, 1}
    Fresh = 0
    Nothing = Nothing
SPECIFICATION FairSpec
INVARIANTS IInv
PROPERTIES ImplementsPrivateMemories WriteEnds
CHECK_DEADLOCK FALSE
