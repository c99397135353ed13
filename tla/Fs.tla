----------------------------------- MODULE Fs -----------------------------------
(***************************************************************************)
(* The file system of TP 4, fs/fs.c, over its block cache, fs/bc.c, and a  *)
(* disk that keeps what has been written when the machine stops.           *)
(*                                                                         *)
(* The server works on one request at a time and in memory; a block        *)
(* reaches the disk only by flush_block(), one at a time, and the machine  *)
(* may stop between two of them.  What is left then is what the next start *)
(* reads.  There is no log and no repair: whether the disk makes sense     *)
(* depends on the order of the writes alone.                               *)
(*                                                                         *)
(* The start writes too, every time: check_bc() smashes the super block on *)
(* the disk and restores it, twice, and fs_test() takes a block for ever   *)
(* and rewrites /newmotd.  The machine may stop between these writes, and  *)
(* in them the server panics when something is not as it expects.          *)
(*                                                                         *)
(* All files are in one directory block, so flush_block() of one struct    *)
(* File writes all of them.  A step ends with the write of a block, or     *)
(* with a choice; what a request changes in memory only is part of the     *)
(* step after which it can be seen on the disk.                            *)
(***************************************************************************)
EXTENDS Naturals, FiniteSets

CONSTANTS Files,
          Motd,       \* /newmotd
          NBLOCKS,    \* the blocks that are neither super block, bitmap nor directory
          NDIRECT, NINDIRECT,
          MaxCrashes, \* bounds: the stops of the machine,
          MaxServed   \* and the starts of it after which there are requests

ASSUME FsAssumption ==
    NBLOCKS \in Nat \ {0} /\ NDIRECT \in Nat \ {0} /\ NINDIRECT \in Nat \ {0}
    /\ MaxCrashes \in Nat /\ MaxServed \in Nat /\ Motd \in Files

Blocks == 1..NBLOCKS
Slots  == 0..NDIRECT+NINDIRECT-1       \* filebno
Direct == 0..NDIRECT-1
Far    == Slots \ Direct               \* those in the indirect block
Nil    == 0

VARIABLES
    used,    \* the blocks whose bit is clear in the bitmap
    size,    \* f_size of each file, in blocks
    ptr,     \* the block each slot of each file points to
    ind,     \* f_indirect
    dirty,   \* the data blocks whose page was written since it was flushed
    dused, dsize, ddirect, dind,   \* bitmap and directory on the disk
    dfar,    \* what each block on the disk holds as an indirect block
    dsuper,  \* the super block on the disk: Good or Smashed
    phase,   \* how far the start of the server has come
    backup,  \* the super block as check_bc() keeps it
    pc, op,  \* the request that is served, or what fs_test() does to a file
    lost,    \* blocks that are in use by no file
    synced,  \* files that were flushed and not touched since
    oops,    \* whether the machine has stopped while dsuper was Smashed
    crashes

bitVars  == <<used, dused>>
memVars  == <<size, ptr, ind, dirty>>
dirVars  == <<dsize, ddirect, dind>>
startVars == <<dsuper, phase, backup>>
runVars  == <<pc, op>>
histVars == <<lost, synced, oops, crashes>>
vars     == <<bitVars, memVars, dirVars, dfar, startVars, runVars, histVars>>

Good    == "good"
Smashed == "smashed"

NoOp == [f |-> Motd, i |-> 0, to |-> 0, writes |-> FALSE]

(* A formatted disk before the first start: /newmotd has a block and the   *)
(* other files are empty.                                                  *)
Init ==
    /\ used = {1} /\ dused = {1}
    /\ size = [f \in Files |-> IF f = Motd THEN 1 ELSE 0]
    /\ ptr = [f \in Files |-> [s \in Slots |-> IF f = Motd /\ s = 0 THEN 1 ELSE Nil]]
    /\ ind = [f \in Files |-> Nil] /\ dirty = {}
    /\ dsize = size /\ ddirect = [f \in Files |-> [s \in Direct |-> ptr[f][s]]]
    /\ dind = ind /\ dfar = [b \in Blocks |-> [s \in Far |-> Nil]]
    /\ dsuper = Good /\ phase = "smash" /\ backup = Good
    /\ pc = "idle" /\ op = NoOp
    /\ lost = {} /\ synced = Files /\ oops = FALSE /\ crashes = 0

Goto(point) == pc' = point
Return      == pc' = "idle" /\ op' = NoOp

-----------------------------------------------------------------------------
(* flush_block() of the directory block, with what it holds in memory, and *)
(* of the indirect block of a file.                                        *)
FlushDirectory ==
    /\ dsize' = size' /\ dind' = ind'
    /\ ddirect' = [f \in Files |-> [s \in Direct |-> ptr'[f][s]]]

FlushIndirect(f) ==
    dfar' = IF ind[f] = Nil THEN dfar
            ELSE [dfar EXCEPT ![ind[f]] = [s \in Far |-> ptr[f][s]]]

(* alloc_block(): the first free one, and the bitmap is written. *)
FreeBlocks == Blocks \ used
FirstFree  == CHOOSE b \in FreeBlocks : \A x \in FreeBlocks : b <= x

AllocBlock ==
    /\ FreeBlocks # {}
    /\ used' = used \cup {FirstFree}
    /\ dused' = used'

Begin(point, f, i, to, writes) ==
    /\ pc = "idle" /\ Goto(point)
    /\ op' = [f |-> f, i |-> i, to |-> to, writes |-> writes]

-----------------------------------------------------------------------------
(* file_write() of the blocks i..to-1, which extends the file first, and   *)
(* file_read(), which gets blocks for the holes it meets.                  *)
Write(f, i, to) ==
    /\ Begin("block", f, i, to, TRUE)
    /\ size' = [size EXCEPT ![f] = IF to > @ THEN to ELSE @]
    /\ IF to > size[f] THEN UNCHANGED <<ptr, ind>> /\ FlushDirectory
       ELSE UNCHANGED <<ptr, ind, dirVars>>
    /\ synced' = synced \ {f}
    /\ UNCHANGED <<bitVars, dirty, dfar, lost, oops, crashes>>

Read(f, i, to) ==
    /\ to <= size[f]
    /\ Begin("block", f, i, to, FALSE)
    /\ UNCHANGED <<bitVars, memVars, dirVars, dfar, histVars>>

NeedsIndirect == op.i \in Far /\ ind[op.f] = Nil
Pointed       == ~NeedsIndirect /\ ptr[op.f][op.i] # Nil

(* file_block_walk(): a new indirect block is cleared and flushed. *)
GetIndirect ==
    /\ pc = "block" /\ NeedsIndirect
    /\ AllocBlock
    /\ ind' = [ind EXCEPT ![op.f] = FirstFree]
    /\ ptr' = [ptr EXCEPT ![op.f] = [s \in Slots |-> IF s \in Far THEN Nil ELSE @[s]]]
    /\ synced' = synced \ {op.f}
    /\ Goto("cleared")
    /\ UNCHANGED <<size, dirty, dirVars, dfar, op, lost, oops, crashes>>

ClearKept == dfar                      \* Mutant: it is not cleared on the disk
Clear     == [dfar EXCEPT ![ind[op.f]] = [s \in Far |-> Nil]]

FlushCleared ==
    /\ pc = "cleared"
    /\ dfar' = Clear /\ dirty' = dirty \ {ind[op.f]}
    /\ Goto("block")
    /\ UNCHANGED <<bitVars, size, ptr, ind, dirVars, op, histVars>>

(* The rest of file_get_block(), and memmove(). *)
Move(b) ==
    /\ dirty' = IF op.writes THEN dirty \cup {b} ELSE dirty
    /\ \/ op.i + 1 < op.to /\ op' = [op EXCEPT !.i = @ + 1] /\ UNCHANGED pc
       \/ op.i + 1 = op.to /\ Return

GetBlock ==
    /\ pc = "block" /\ ~NeedsIndirect /\ ~Pointed
    /\ AllocBlock
    /\ ptr' = [ptr EXCEPT ![op.f][op.i] = FirstFree]
    /\ Move(FirstFree)
    /\ synced' = synced \ {op.f}
    /\ UNCHANGED <<size, ind, dirVars, dfar, lost, oops, crashes>>

HaveBlock ==
    /\ pc = "block" /\ Pointed
    /\ Move(ptr[op.f][op.i])
    /\ UNCHANGED <<bitVars, size, ptr, ind, dirVars, dfar, histVars>>

(* -E_NO_DISK, which fs_test() does not survive *)
NoDisk ==
    /\ pc = "block" /\ ~Pointed /\ FreeBlocks = {}
    /\ Return
    /\ phase' = IF phase = "serve" THEN phase ELSE "panicked"
    /\ UNCHANGED <<bitVars, memVars, dirVars, dfar, dsuper, backup, histVars>>

-----------------------------------------------------------------------------
(* file_set_size() to 0, as O_TRUNC and the programs' ftruncate() do: the  *)
(* blocks are freed in the bitmap in memory only, and the directory block  *)
(* is flushed.                                                             *)
Pointers(f) == {ptr[f][s] : s \in Slots} \ {Nil}

FreedDirect(f) == Pointers(f)          \* Mutant: the indirect block is forgotten
Freed(f)       == (Pointers(f) \cup {ind[f]}) \ {Nil}

Truncate(f) ==
    /\ pc = "idle"
    /\ used' = used \ Freed(f)
    /\ size' = [size EXCEPT ![f] = 0]
    /\ ptr' = [ptr EXCEPT ![f] = [s \in Slots |-> Nil]]
    /\ ind' = [ind EXCEPT ![f] = Nil]
    /\ FlushDirectory
    /\ synced' = synced \ {f}
    /\ UNCHANGED <<dused, dirty, dfar, runVars, lost, oops, crashes>>

(* file_create(): the directory is flushed. *)
Create ==
    /\ pc = "idle"
    /\ UNCHANGED <<size, ptr, ind>> /\ FlushDirectory
    /\ UNCHANGED <<bitVars, dirty, dfar, runVars, histVars>>

(* file_flush(): the data, the struct File, the indirect block. *)
Flush(f) ==
    /\ Begin("data", f, 0, 0, FALSE)
    /\ UNCHANGED <<bitVars, memVars, dirVars, dfar, histVars>>

FlushData(b) ==
    /\ pc = "data" /\ b \in dirty \cap Pointers(op.f)
    /\ dirty' = dirty \ {b}
    /\ UNCHANGED <<bitVars, size, ptr, ind, dirVars, dfar, runVars, histVars>>

FlushFile ==
    /\ pc = "data" /\ dirty \cap Pointers(op.f) = {}
    /\ UNCHANGED <<size, ptr, ind>> /\ FlushDirectory
    /\ Goto("far")
    /\ UNCHANGED <<bitVars, dirty, dfar, op, histVars>>

FlushFarNever(f) == UNCHANGED dfar     \* Mutant: the indirect block is not flushed
FlushFar(f)      == FlushIndirect(f)

FlushEnd ==
    /\ pc = "far"
    /\ FlushFar(op.f)
    /\ synced' = synced \cup {op.f}
    /\ Return
    /\ UNCHANGED <<bitVars, memVars, dirVars, lost, oops, crashes>>

(* fs_sync(): every block that was changed, the bitmap first. *)
Sync ==
    /\ Begin("sync", NoOp.f, 0, 0, FALSE)
    /\ dused' = used
    /\ UNCHANGED <<used, memVars, dirVars, dfar, histVars>>

SyncBlock ==
    /\ pc = "sync" /\ UNCHANGED <<size, ptr, ind>>
    /\ \/ \E b \in dirty : dirty' = dirty \ {b} /\ UNCHANGED <<dirVars, dfar>>
       \/ \E f \in Files : FlushIndirect(f) /\ UNCHANGED <<dirty, dirVars>>
       \/ FlushDirectory /\ UNCHANGED <<dirty, dfar>>
    /\ UNCHANGED <<bitVars, runVars, histVars>>

Clean(f) == /\ dsize[f] = size[f] /\ dind[f] = ind[f]
            /\ \A s \in Direct : ddirect[f][s] = ptr[f][s]
            /\ ind[f] # Nil => \A s \in Far : dfar[ind[f]][s] = ptr[f][s]
            /\ dirty \cap Pointers(f) = {}

SyncEnd ==
    /\ pc = "sync" /\ dirty = {} /\ \A f \in Files : Clean(f)
    /\ synced' = Files
    /\ Return
    /\ UNCHANGED <<bitVars, memVars, dirVars, dfar, lost, oops, crashes>>

-----------------------------------------------------------------------------
(* The start of the server.  The steps that end with a write of the super  *)
(* block are check_bc(); check_super() reads it.                           *)
Reach(point) == phase' = point
fileVars     == <<bitVars, memVars, dirVars, dfar>>

Smash(again) ==
    /\ phase = (IF again THEN "smash again" ELSE "smash")
    /\ backup' = dsuper /\ dsuper' = Smashed
    /\ Reach(IF again THEN "restore again" ELSE "restore")
    /\ UNCHANGED <<fileVars, runVars, histVars>>

Restore(again) ==
    /\ phase = (IF again THEN "restore again" ELSE "restore")
    /\ dsuper' = backup
    /\ Reach(IF again THEN "check" ELSE "smash again")
    /\ UNCHANGED <<fileVars, backup, runVars, histVars>>

CheckSuper ==
    /\ phase = "check"
    /\ Reach(IF dsuper = Good THEN "alloc" ELSE "panicked")
    /\ UNCHANGED <<fileVars, dsuper, backup, runVars, histVars>>

(* fs_test(): a block that nobody gives back, *)
TestAlloc ==
    /\ phase = "alloc"
    /\ AllocBlock /\ lost' = lost \cup {FirstFree}
    /\ Reach("get")
    /\ UNCHANGED <<memVars, dirVars, dfar, dsuper, backup, runVars, synced, oops, crashes>>

TestAllocFails ==
    /\ phase = "alloc" /\ FreeBlocks = {}
    /\ Reach("panicked")
    /\ UNCHANGED <<fileVars, dsuper, backup, runVars, histVars>>

(* the first block of /newmotd, which a file without one gets now, *)
TestGet ==
    /\ phase = "get" /\ Begin("block", Motd, 0, 1, FALSE)
    /\ Reach("compare")
    /\ UNCHANGED <<fileVars, dsuper, backup, histVars>>

(* which may hold the message or not: then the server panics, as it does   *)
(* when the size is 0, for file_flush() leaves such a block dirty.         *)
TestCompare ==
    /\ phase = "compare" /\ pc = "idle" /\ size[Motd] > 0
    /\ dirty' = dirty \cup {ptr[Motd][0]} /\ synced' = synced \ {Motd}
    /\ Goto("data") /\ op' = NoOp
    /\ Reach("truncate")
    /\ UNCHANGED <<bitVars, size, ptr, ind, dirVars, dfar, dsuper, backup, lost, oops, crashes>>

TestCompareFails ==
    /\ phase = "compare" /\ pc = "idle"
    /\ UNCHANGED <<size, ptr, ind>>
    /\ \/ UNCHANGED dirVars
       \/ size[Motd] = 0 /\ FlushDirectory
    /\ Reach("panicked")
    /\ UNCHANGED <<bitVars, dirty, dfar, dsuper, backup, runVars, histVars>>

(* Then it is rewritten. *)
TestTruncate ==
    /\ phase = "truncate" /\ Truncate(Motd)
    /\ Reach("extend") /\ UNCHANGED <<dsuper, backup>>

TestExtend ==
    /\ phase = "extend" /\ Write(Motd, 0, 1)
    /\ Reach("flush") /\ UNCHANGED <<dsuper, backup>>

TestFlush ==
    /\ phase = "flush" /\ Flush(Motd)
    /\ Reach("serve") /\ UNCHANGED <<dsuper, backup>>

-----------------------------------------------------------------------------
(* The machine stops, and starts again: everything is read from the disk   *)
(* when it is needed.                                                      *)
DiskPtr(f, s) == IF s \in Direct THEN ddirect[f][s]
                 ELSE IF dind[f] = Nil THEN Nil ELSE dfar[dind[f]][s]

DiskRefs == {DiskPtr(f, s) : f \in Files, s \in Slots} \cup {dind[f] : f \in Files}

Crash ==
    /\ crashes < MaxCrashes /\ crashes' = crashes + 1
    /\ used' = dused /\ lost' = dused \ DiskRefs
    /\ size' = dsize /\ ind' = dind
    /\ ptr' = [f \in Files |-> [s \in Slots |-> DiskPtr(f, s)]]
    /\ dirty' = {}
    /\ oops' = (oops \/ dsuper = Smashed)
    /\ Reach("smash") /\ Return
    /\ UNCHANGED <<dused, dirVars, dfar, dsuper, backup, synced>>

-----------------------------------------------------------------------------
Request ==
    /\ phase = "serve" /\ crashes < MaxServed
    /\ \/ \E f \in Files :
             \/ \E i \in Slots, to \in 1..NDIRECT+NINDIRECT :
                   i < to /\ (Write(f, i, to) \/ Read(f, i, to))
             \/ Truncate(f) \/ Flush(f)
       \/ Create \/ Sync

Work ==
    \/ GetIndirect \/ FlushCleared \/ GetBlock \/ HaveBlock
    \/ \E b \in Blocks : FlushData(b)
    \/ FlushFile \/ FlushEnd
    \/ SyncBlock \/ SyncEnd

Start ==
    \/ \E again \in BOOLEAN : Smash(again) \/ Restore(again)
    \/ CheckSuper
    \/ TestAlloc \/ TestAllocFails \/ TestGet \/ TestCompare \/ TestCompareFails
    \/ TestTruncate \/ TestExtend \/ TestFlush

Next ==
    \/ (Request \/ Work) /\ UNCHANGED startVars
    \/ NoDisk \/ Start \/ Crash

Spec == Init /\ [][Next]_vars

-----------------------------------------------------------------------------
(* Properties *)

Ptrs == Blocks \cup {Nil}

FilesOK ==
    /\ used \subseteq Blocks /\ dused \subseteq Blocks
    /\ size \in [Files -> 0..NDIRECT+NINDIRECT] /\ dsize \in [Files -> 0..NDIRECT+NINDIRECT]
    /\ ptr \in [Files -> [Slots -> Ptrs]] /\ ddirect \in [Files -> [Direct -> Ptrs]]
    /\ ind \in [Files -> Ptrs] /\ dind \in [Files -> Ptrs]
    /\ dfar \in [Blocks -> [Far -> Ptrs]]
    /\ dirty \subseteq Blocks /\ lost \subseteq Blocks /\ synced \subseteq Files
    /\ pc \in {"idle", "block", "cleared", "data", "far", "sync"}
    /\ op \in [f : Files, i : Slots, to : 0..NDIRECT+NINDIRECT, writes : BOOLEAN]
    /\ crashes \in 0..MaxCrashes

StartOK ==
    /\ phase \in {"smash", "restore", "smash again", "restore again", "check", "alloc", "get",
                  "compare", "truncate", "extend", "flush", "serve", "panicked"}
    /\ {dsuper, backup} \subseteq {Good, Smashed} /\ oops \in BOOLEAN

TypeOK == FilesOK /\ StartOK

(* In memory a block belongs to one place of one file, and the bitmap says *)
(* exactly which blocks belong to somebody, but for those that a stop has  *)
(* lost: a request that fails half way leaks none.                         *)
Exclusive ==
    /\ \A f, g \in Files, s, t \in Slots :
          ptr[f][s] # Nil /\ ptr[f][s] = ptr[g][t] => f = g /\ s = t
    /\ \A f, g \in Files : ind[f] # Nil /\ ind[f] = ind[g] => f = g
    /\ \A f, g \in Files, s \in Slots : ind[f] # Nil => ind[f] # ptr[g][s]

Refs == UNION {Pointers(f) \cup ({ind[f]} \ {Nil}) : f \in Files}

BitmapExact == used = Refs \cup lost /\ Refs \cap lost = {}

(* The disk is never ahead of memory: a pointer on it is the one in memory *)
(* or nil, and what memory points to is marked in the bitmap on the disk.  *)
DiskBehind ==
    /\ Refs \subseteq dused
    /\ \A f \in Files :
          /\ dind[f] \in {Nil, ind[f]}
          /\ \A s \in Direct : ddirect[f][s] \in {Nil, ptr[f][s]}
          /\ \A s \in Far : ind[f] = Nil => ptr[f][s] = Nil
          /\ ind[f] # Nil /\ ~(pc = "cleared" /\ op.f = f) =>
                \A s \in Far : dfar[ind[f]][s] \in {Nil, ptr[f][s]}
    /\ pc = "cleared" => ind[op.f] # Nil /\ dind[op.f] = Nil

(* A file that counts as flushed is the same on the disk, and no request   *)
(* that has begun to change it, or to flush it, has left it half way.      *)
SyncedClean ==
    /\ \A f \in synced : Clean(f)
    /\ pc = "cleared" \/ (pc = "block" /\ op.writes) => op.f \notin synced
    /\ pc = "far" => /\ dsize[op.f] = size[op.f] /\ dind[op.f] = ind[op.f]
                     /\ \A s \in Direct : ddirect[op.f][s] = ptr[op.f][s]
                     /\ dirty \cap Pointers(op.f) = {}

(* The super block on the disk is bad between a smash and its restoration, *)
(* and for ever when the machine has stopped there; then no start comes as *)
(* far as to serve, or to change a file.                                   *)
SuperExact ==
    /\ dsuper = Good <=> phase \notin {"restore", "restore again"} /\ ~oops
    /\ phase \in {"restore", "restore again"} => (backup = Good <=> ~oops)
    /\ oops => phase \in {"smash", "restore", "smash again", "restore again", "check", "panicked"}
    /\ pc # "idle" => phase \in {"compare", "truncate", "flush", "serve"}

(* The block that fs_test() compares with the message is there.            *)
TestHasBlock ==
    phase = "compare" =>
        \/ pc = "idle" /\ ptr[Motd][0] # Nil
        \/ pc = "block" /\ op = [f |-> Motd, i |-> 0, to |-> 1, writes |-> FALSE]

FilesInv == FilesOK /\ Exclusive /\ BitmapExact /\ DiskBehind /\ SyncedClean
StartInv == StartOK /\ SuperExact /\ TestHasBlock
IInv     == FilesInv /\ StartInv

(* Whenever the machine stops, no block on the disk belongs to two places, *)
(* and each that belongs to one is marked in use, so the next start cannot *)
(* give it away, and bc_pgfault() cannot panic over it.                    *)
DiskSafe ==
    /\ \A f, g \in Files, s, t \in Slots :
          DiskPtr(f, s) # Nil /\ DiskPtr(f, s) = DiskPtr(g, t) => f = g /\ s = t
    /\ \A f, g \in Files : dind[f] # Nil /\ dind[f] = dind[g] => f = g
    /\ \A f, g \in Files, s \in Slots : dind[f] # Nil => dind[f] # DiskPtr(g, s)
    /\ DiskRefs \ {Nil} \subseteq dused

(* A file that was flushed, by close() or sync(), and not touched since is *)
(* the same after a stop, whatever happened to the others: its size, its   *)
(* blocks, and their contents; and the super block is good, so that it can *)
(* be served again.  The start is no exception but in two things it does   *)
(* itself: a stop while check_bc() has smashed the super block, now or     *)
(* before, and /newmotd from fs_test()'s first write to its last.          *)
FlushedSurvives == [][crashes' # crashes =>
    /\ \A f \in synced : /\ size'[f] = size[f] /\ ptr'[f] = ptr[f] /\ ind'[f] = ind[f]
                         /\ dirty \cap Pointers(f) = {}
    /\ dsuper' = Good \/ oops \/ phase \in {"restore", "restore again"}]_vars
=============================================================================
