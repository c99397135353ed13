CONSTANTS
    p0 = p0
    p1 = p1
    e0 = e0
    e1 = e1
    v0 = v0
    v1 = v1
    d0 = d0
    d1 = d1
    CPUS = {p0, p1}
    Envs = {e0, e1}
    BootEnv = e0
    VAs = {v0, v1}
    BootVa = v0
    Dirs = {d0, d1}
    PDX <- TwoTables
    Root = Root
    NoEnv = NoEnv
    NoPage = NoPage
    NPAGES = 6
    RefLimit = 16
SPECIFICATION Spec
INVARIANTS IInv
PROPERTIES WriteDescends ImplementsAddressSpaces
SYMMETRY Alike
