CONSTANTS
    p0 = p0
    p1 = p1
    CPUS = {p0, p1}
    BootCpu = p0
    NoCpu = NoCpu
    NoEnv = NoEnv
    NENV = 3
    NBoot = 2
    GenLimit = 4
    GenBound = 2
SPECIFICATION FairSpec
INVARIANTS IInv
PROPERTIES OnlyFamilyKills ZombieCollected RunnableRuns
