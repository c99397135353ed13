CONSTANTS
    c1 = c1
    c2 = c2
    Cpus <- MCCpus
    NENV = 2
    Values <- MCValues
    Interruptible <- MCOn
    Faulting <- MCFaulting
    PGSIZE = 4
    SECTSIZE = 2
    FileSize = 8
    Top = 12
    Lines <- MCLines
    MAXARGS = 3
    STACKPAGE = 18
    WORD = 2
SPECIFICATION MCSpec
SYMMETRY Symmetry
INVARIANTS ImageIInv ArgumentsIInv
 
CHECK_DEADLOCK FALSE
