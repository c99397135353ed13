-------------------------------- MODULE MCFiles ---------------------------------
(* The two sides of the file system: who owns which block, for two files   *)
(* that cannot both have all the blocks they want (Fs), and which names    *)
(* are in the directory (Directory), three of them in blocks of two.  A    *)
(* program writes in a file what looks like a directory block: without an  *)
(* entry, with one, and with one that points to the directory's own block. *)
(* Which side is looked at is chosen at the start.                         *)
EXTENDS Fs

CONSTANTS Names, DIRBLOCKS, BLKFILES, Texts,    \* Directory
          Newmotd, Missing, Message, MaxStops

VARIABLES part, root, blk, marked, droot, dblk, dmarked, writes, point, at, request,
          made, known, data, stale, foreign, stops

dirSide == <<root, blk, marked, droot, dblk, dmarked, writes, point, at, request,
             made, known, data, stale, foreign, stops>>

Text(n, b) == [j \in 1..BLKFILES |-> [name |-> IF j = 2 THEN n ELSE "none",
                                      ptr  |-> IF j = 2 THEN b ELSE Nil]]
MCTexts    == {Text("none", Nil), Text("b", Nil), Text("b", 3)}

Dir == INSTANCE Directory WITH
    NBLOCKS <- DIRBLOCKS, used <- marked, dused <- dmarked, Motd <- Newmotd,
    phase <- point, pc <- at, op <- request, crashes <- stops, MaxCrashes <- MaxStops

ASSUME DirectoryAssumption == Dir!DirectoryAssumption

MCInit ==
    /\ part \in {"blocks", "names"}
    /\ Init
    /\ IF part = "names" THEN Dir!Init
       ELSE /\ root = << >> /\ blk = << >> /\ marked = {} /\ droot = << >> /\ dblk = << >>
            /\ dmarked = {} /\ writes = << >> /\ point = "" /\ at = "" /\ request = << >>
            /\ made = {} /\ known = {} /\ data = {} /\ stale = FALSE /\ foreign = FALSE
            /\ stops = 0

MCNext ==
    /\ UNCHANGED part
    /\ \/ part = "blocks" /\ Next /\ UNCHANGED dirSide
       \/ part = "names" /\ Dir!Next /\ UNCHANGED vars

MCSpec == MCInit /\ [][MCNext]_<<part, vars, dirSide>>

(* Directory: while it has had fresh blocks only, no name comes twice and  *)
(* none appears that nobody has made.                                      *)
NamesIInv == part = "names" => Dir!IInv

(* Directory: a name that open() has come back with stays, in memory and   *)
(* on the disk, unless the directory got a block with a foreign pointer.   *)
NamesStay == part = "names" => Dir!NamesStay

(* Directory: open() of a file that exists does not fail for want of a     *)
(* block, with the same exception.                                         *)
ExistingOpens == Dir!ExistingOpens
=============================================================================
