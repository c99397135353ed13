CONSTANTS
    Files = {f, motd}
    Motd = motd
    NBLOCKS = 4
    NDIRECT = 1
    NINDIRECT = 1
    MaxCrashes = 2
    MaxServed = 1
    Names = {"newmotd", "not-found", "b"}
    Newmotd = "newmotd"
    Missing = "not-found"
    Message = "message"
    DIRBLOCKS = 7
    BLKFILES = 2
    Texts <- MCTexts
    MaxStops = 1
SPECIFICATION MCSpec
INVARIANTS IInv DiskSafe NamesIInv NamesStay
PROPERTIES FlushedSurvives ExistingOpens
CHECK_DEADLOCK FALSE
