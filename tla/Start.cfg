CONSTANTS
    p0 = p0
    p1 = p1
    p2 = p2
    p3 = p3
    CPUS = {p0, p1, p2, p3}
    BootCpu = p0
    NoCpu = NoCpu
    NPAGES = 11
    NLOW = 6
    Sizes = {17, 19, 21, 22, 28, 30, 44, 58}
    KernelEnds = {14, 15}
    PTPAGES = 29
    NPDENTRIES = 8
    KERNPDX = 6
    IOPHYSMEM = 5
    EXTPHYSMEM = 7
    MPENTRY = 2
    KSTKSIZE = 2
    KSTKGAP = 2
    NCPU = 2
    PERPAGE = 20
    ENVPAGES = 2
SPECIFICATION MCSpec
INVARIANTS BootIInv StartIInv Mapped KernelMap
PROPERTIES ImplementsBigKernelLock ImplementsPagePool MachineStarts
