-------------------------------- MODULE Directory --------------------------------
(***************************************************************************)
(* The directory of TP 4's file system (fs/fs.c 198-355): how open() finds *)
(* a name and makes one, how the directory grows by a block when all its   *)
(* entries are taken, and what is left of it when the disk is full or the  *)
(* machine stops.  There is one directory, the root; nothing makes others  *)
(* and no entry is ever removed.                                           *)
(*                                                                         *)
(* A block holds what was last stored in it: entries, or the data of a     *)
(* file; nobody clears it when it changes hands, so the directory may get  *)
(* a block in which a program has left what looks like an entry, even one  *)
(* that points to a block.  The model goes on from there.                  *)
(*                                                                         *)
(* The server works in memory; what has to reach the disk is in `writes',  *)
(* one block at a time, and the machine may stop between two, also while   *)
(* the server starts: check_bc() and fs_test() write too.  Files have one  *)
(* block at most, and who owns which block is in module Fs.                *)
(***************************************************************************)
EXTENDS Naturals, Sequences, FiniteSetsExt

CONSTANTS Names, NBLOCKS, BLKFILES,
          Texts,       \* what programs write in a block, seen as entries
          Motd, Missing,  \* newmotd and not-found
          Message,     \* what newmotd holds, seen as the name of an entry
          MaxCrashes   \* bound on the stops of the machine

Super  == 1
Bitmap == 2
Blocks == 3..NBLOCKS-1
Slots  == 1..BLKFILES
Nil    == 0
NoName == "none"
Entry  == [name : Names \cup {NoName, Message}, ptr : Blocks \cup {Nil}]
Empty  == [name |-> NoName, ptr |-> Nil]
Zeros  == [j \in Slots |-> Empty]

DirectoryAssumption ==
    /\ NBLOCKS \in Nat /\ NBLOCKS > 4 /\ BLKFILES \in Nat \ {0} /\ MaxCrashes \in Nat
    /\ {Motd, Missing} \subseteq Names /\ NoName \notin Names \cup {Message}
    /\ Texts \subseteq [Slots -> Entry]

VARIABLES
    root,      \* the blocks of the directory, in order; Nil is one it has not got
    blk,       \* what each block holds
    used,      \* the blocks that are not free in the bitmap
    droot, dblk, dused,     \* the same on the disk
    writes,    \* the blocks that are being flushed, in order
    phase,     \* how far the start of the server has come
    pc, op,    \* the request that is served, or what fs_test() opens
    made,      \* the names that file_create() has stored and no stop has lost
    known,     \* newmotd and those of them that open() has come back with
    data,      \* blocks that have held data of a file
    stale,     \* whether the directory ever got one of those,
    foreign,   \* and one with an entry that points to a block
    crashes

memVars  == <<root, blk, used>>
diskVars == <<droot, dblk, dused>>
runVars  == <<phase, pc, op>>
histVars == <<made, known, data, stale, foreign, crashes>>
vars     == <<memVars, diskVars, writes, runVars, histVars>>

NoOp == [n |-> NoName, creat |-> FALSE, trunc |-> FALSE]

(* A formatted disk before the first start: the directory has a block,     *)
(* with one entry, newmotd, and that has a block.                          *)
MessageIn(text) == [text EXCEPT ![1].name = Message]

Init ==
    /\ root = <<3>> /\ used = {3, 4}
    /\ blk = [b \in Blocks |-> IF b = 3 THEN [Zeros EXCEPT ![1] = [name |-> Motd, ptr |-> 4]]
                              ELSE IF b = 4 THEN MessageIn(Zeros) ELSE Zeros]
    /\ droot = root /\ dblk = blk /\ dused = used
    /\ writes = << >> /\ phase = "smash" /\ pc = "idle" /\ op = NoOp
    /\ made = {Motd} /\ known = {Motd} /\ data = {4}
    /\ stale = FALSE /\ foreign = FALSE /\ crashes = 0

Ready(point) == pc = point /\ writes = << >>
Return       == pc' = "idle" /\ op' = NoOp
Serving      == phase = "serve" /\ UNCHANGED phase

(* What a lookup comes to; fs_test() expects that Missing is absent and    *)
(* Motd is there, and panics otherwise.                                    *)
LookedUp(result) ==
    phase' = CASE phase = "serve" -> "serve"
               [] phase = "missing" /\ result = "absent" -> "motd"
               [] phase = "motd" /\ result = "found" -> "compare"
               [] OTHER -> "panicked"

-----------------------------------------------------------------------------
(* The entries of the directory, by block of the directory and slot, and   *)
(* the order in which they are looked at.                                  *)
Places == {p \in (DOMAIN root) \X Slots : root[p[1]] # Nil}
At(p)  == blk[root[p[1]]][p[2]]
Earlier(p, q) == p[1] < q[1] \/ (p[1] = q[1] /\ p[2] <= q[2])
FirstOf(S)    == CHOOSE p \in S : \A q \in S : Earlier(p, q)

Named(n) == {p \in Places : At(p).name = n}
Hole     == {i \in DOMAIN root : root[i] = Nil}

(* The entries of that name that dir_lookup() comes to before a hole. *)
ReachedFewer(n) == {p \in Named(n) : p[2] < BLKFILES}   \* Mutant: not the last of a block
Reached(n) == {p \in Named(n) : \A i \in Hole : p[1] < i}

(* The names in a directory with these blocks. *)
NamesOn(r, content) ==
    {content[r[i]][j].name : i \in {x \in DOMAIN r : r[x] # Nil}, j \in Slots}

FreeBlocks == Blocks \ used
FirstFree  == Min(FreeBlocks)
Taken      == used \cup {FirstFree}

(* The directory gets a block, with what was in it. *)
Pointers(text) == {text[j].ptr : j \in Slots} \ {Nil}

Alloc ==
    /\ FreeBlocks # {} /\ used' = Taken
    /\ stale' = (stale \/ FirstFree \in data)
    /\ foreign' = (foreign \/ Pointers(blk[FirstFree]) # {})

Stored(p, e) == [blk EXCEPT ![root[p[1]]][p[2]] = e]

-----------------------------------------------------------------------------
(* A request of a program. *)
CallOpen(n, creat, trunc) ==
    /\ Ready("idle") /\ Serving
    /\ pc' = "lookup" /\ op' = [n |-> n, creat |-> creat, trunc |-> trunc]
    /\ UNCHANGED <<memVars, diskVars, writes, histVars>>

Found ==
    /\ Ready("lookup") /\ Reached(op.n) # {}
    /\ pc' = "open" /\ LookedUp("found")
    /\ UNCHANGED <<memVars, diskVars, writes, op, histVars>>

(* file_get_block() gets a block for the hole, as it finds it. *)
FillHole ==
    /\ Ready("lookup") /\ Reached(op.n) = {} /\ Hole # {}
    /\ Alloc
    /\ root' = [root EXCEPT ![Min(Hole)] = FirstFree]
    /\ writes' = <<Bitmap>>
    /\ UNCHANGED <<blk, diskVars, runVars, made, known, data, crashes>>

(* -E_NO_DISK, instead of -E_NOT_FOUND *)
NoDisk ==
    /\ Ready("lookup") /\ Reached(op.n) = {} /\ Hole # {} /\ FreeBlocks = {}
    /\ Return /\ LookedUp("no disk")
    /\ UNCHANGED <<memVars, diskVars, writes, histVars>>

Absent == Ready("lookup") /\ Reached(op.n) = {} /\ Hole = {}

NotFound ==
    /\ Absent /\ ~op.creat
    /\ Return /\ LookedUp("absent")
    /\ UNCHANGED <<memVars, diskVars, writes, histVars>>

(* file_flush() of the directory: its blocks, then the super block. *)
DirFlushBlocks(r) == r                   \* Mutant: not the size and the pointers
DirFlush(r) == r \o <<Super>>

Unnamed == {p \in Places : At(p).name = NoName}

(* dir_alloc_file() finds a free entry; file_create() stores its name. *)
Create ==
    /\ Absent /\ op.creat /\ Unnamed # {}
    /\ LET p == FirstOf(Unnamed)
       IN  blk' = Stored(p, [At(p) EXCEPT !.name = op.n])
    /\ writes' = DirFlush(root)
    /\ made' = made \cup {op.n}
    /\ pc' = "open"
    /\ UNCHANGED <<root, used, diskVars, phase, op, known, data, stale, foreign, crashes>>

(* None is free: the directory gets a block. *)
Grow ==
    /\ Absent /\ op.creat /\ Unnamed = {}
    /\ Alloc
    /\ root' = Append(root, FirstFree)
    /\ blk' = [blk EXCEPT ![FirstFree][1].name = op.n]
    /\ writes' = <<Bitmap>> \o DirFlush(root')
    /\ made' = made \cup {op.n}
    /\ pc' = "open"
    /\ UNCHANGED <<diskVars, phase, op, known, data, crashes>>

(* There is no block, but the size of the directory has changed. *)
LongerBefore == <<Nil>> \o root     \* Mutant: the new block comes first
Longer == Append(root, Nil)

GrowFails ==
    /\ Absent /\ op.creat /\ Unnamed = {} /\ FreeBlocks = {}
    /\ root' = Longer
    /\ Return
    /\ UNCHANGED <<blk, used, diskVars, writes, phase, histVars>>

(* file_set_size() to 0 of the file at p: its block is freed in memory.    *)
Truncate(p) ==
    /\ used' = used \ {At(p).ptr}
    /\ blk' = Stored(p, [At(p) EXCEPT !.ptr = Nil])
    /\ writes' = <<root[p[1]]>>

(* The rest of serve_open(). *)
Open ==
    /\ Ready("open") /\ Serving
    /\ IF op.trunc THEN Truncate(FirstOf(Named(op.n))) ELSE UNCHANGED <<used, blk, writes>>
    /\ known' = known \cup ({op.n} \cap made)
    /\ Return
    /\ UNCHANGED <<root, diskVars, made, data, stale, foreign, crashes>>

-----------------------------------------------------------------------------
(* The block of the file at p, which file_get_block() finds or takes, gets *)
(* this text, and the file is flushed.                                     *)
BlockAt(p) == IF At(p).ptr = Nil THEN FirstFree ELSE At(p).ptr

Put(p, text) ==
    /\ IF At(p).ptr # Nil THEN used' = used ELSE FreeBlocks # {} /\ used' = Taken
    /\ LET b == BlockAt(p)
       IN  /\ data' = data \cup {b}
           /\ blk' = [Stored(p, [At(p) EXCEPT !.ptr = b]) EXCEPT ![b] = text]
           /\ writes' = IF At(p).ptr = Nil THEN <<Bitmap, b, root[p[1]]>> ELSE <<b, root[p[1]]>>
    /\ UNCHANGED <<root, diskVars, made, known, stale, foreign, crashes>>

(* A program writes the block of a file it has opened, and closes it. *)
Write(n, text) ==
    /\ Ready("idle") /\ Serving /\ Named(n) # {}
    /\ Put(FirstOf(Named(n)), text)
    /\ UNCHANGED <<pc, op>>

(* fs_sync() *)
Sync ==
    /\ Ready("idle") /\ Serving
    /\ writes' = [b \in 1..NBLOCKS-1 |-> b]
    /\ UNCHANGED <<memVars, diskVars, pc, op, histVars>>

(* flush_block() of the next one. *)
FlushBlock ==
    /\ writes # << >> /\ writes' = Tail(writes)
    /\ LET w == Head(writes)
       IN  /\ droot' = IF w = Super THEN root ELSE droot
           /\ dused' = IF w = Bitmap THEN used ELSE dused
           /\ dblk' = IF w \in Blocks THEN [dblk EXCEPT ![w] = blk[w]] ELSE dblk
    /\ UNCHANGED <<memVars, runVars, histVars>>

(* bc_pgfault() panics when the server reads a block that is marked free;  *)
(* it goes on when the block is still in its cache, which is not modelled. *)
InReach == {root[p[1]] : p \in Places} \cup {At(p).ptr : p \in Places}

ReadsFree ==
    /\ writes = << >> /\ (phase = "serve" \/ pc # "idle") /\ InReach \cap FreeBlocks # {}
    /\ phase' = "panicked" /\ Return
    /\ UNCHANGED <<memVars, diskVars, writes, histVars>>

-----------------------------------------------------------------------------
(* The start of the server.  check_bc() smashes the first bytes of the     *)
(* super block on the disk and restores them, twice; the directory's       *)
(* pointers are behind them.                                               *)
Reach(from, to) == Ready("idle") /\ phase = from /\ phase' = to

CheckBc ==
    /\ \/ Reach("smash", "restore") \/ Reach("restore", "smash again")
       \/ Reach("smash again", "restore again") \/ Reach("restore again", "alloc")
    /\ UNCHANGED <<memVars, diskVars, writes, pc, op, histVars>>

(* fs_test(): a block that nobody gives back, *)
TestAlloc ==
    /\ FreeBlocks # {} /\ Reach("alloc", "missing")
    /\ used' = Taken /\ writes' = <<Bitmap>>
    /\ UNCHANGED <<root, blk, diskVars, pc, op, histVars>>

TestAllocFails ==
    /\ FreeBlocks = {} /\ Reach("alloc", "panicked")
    /\ UNCHANGED <<memVars, diskVars, writes, pc, op, histVars>>

(* two files that are opened, *)
TestOpen ==
    /\ Ready("idle") /\ phase \in {"missing", "motd"} /\ UNCHANGED phase
    /\ pc' = "lookup" /\ op' = [NoOp EXCEPT !.n = IF phase = "motd" THEN Motd ELSE Missing]
    /\ UNCHANGED <<memVars, diskVars, writes, histVars>>

Here == FirstOf(Named(op.n))

(* the message, which is in its block or not; a file without a block gets  *)
(* one, and there the server panics even over the message if its size was  *)
(* 0, after it has written the pointer;                                    *)
TestCompare ==
    /\ Ready("open") /\ phase = "compare"
    /\ Put(Here, blk[BlockAt(Here)])
    /\ blk[BlockAt(Here)][1].name = Message
    /\ phase' = "truncate" \/ (At(Here).ptr = Nil /\ phase' = "panicked")
    /\ UNCHANGED <<pc, op>>

(* a panic before leaves the bit of the block, as memory is gone with it,  *)
TestCompareFails ==
    /\ Ready("open") /\ phase = "compare" /\ phase' = "panicked"
    /\ IF At(Here).ptr = Nil /\ FreeBlocks # {} THEN used' = Taken /\ writes' = <<Bitmap>>
       ELSE UNCHANGED <<used, writes>>
    /\ At(Here).ptr # Nil \/ FreeBlocks # {} => blk[BlockAt(Here)][1].name # Message
    /\ UNCHANGED <<root, blk, diskVars, pc, op, histVars>>

(* and the file that is truncated and written again. *)
TestTruncate ==
    /\ Ready("open") /\ phase = "truncate" /\ phase' = "rewrite"
    /\ Truncate(Here)
    /\ UNCHANGED <<root, diskVars, pc, op, histVars>>

TestRewrite ==
    /\ Ready("open") /\ phase = "rewrite" /\ phase' = "serve"
    /\ Put(Here, MessageIn(blk[BlockAt(Here)]))
    /\ Return

-----------------------------------------------------------------------------
(* The machine stops, and starts again with what it finds on the disk.     *)
(* When check_bc() had smashed the super block, check_super() panics in    *)
(* this start and in all that follow.                                      *)
Crash ==
    /\ crashes < MaxCrashes /\ crashes' = crashes + 1
    /\ root' = droot /\ blk' = dblk /\ used' = dused
    /\ writes' = << >> /\ Return
    /\ phase' = IF phase \in {"restore", "restore again", "dead"} THEN "dead" ELSE "smash"
    /\ made' = made \cap NamesOn(droot, dblk)
    /\ UNCHANGED <<diskVars, known, data, stale, foreign>>

Next ==
    \/ \E n \in Names, creat, trunc \in BOOLEAN : CallOpen(n, creat, trunc)
    \/ Found \/ FillHole \/ NoDisk \/ NotFound \/ Create \/ Grow \/ GrowFails \/ Open
    \/ \E n \in Names, text \in Texts : Write(n, text)
    \/ Sync \/ FlushBlock \/ ReadsFree
    \/ CheckBc \/ TestAlloc \/ TestAllocFails \/ TestOpen
    \/ TestCompare \/ TestCompareFails \/ TestTruncate \/ TestRewrite
    \/ Crash

Spec == Init /\ [][Next]_vars

-----------------------------------------------------------------------------
(* Properties *)

Phases == {"smash", "restore", "smash again", "restore again", "alloc", "missing", "motd",
           "compare", "truncate", "rewrite", "serve", "panicked", "dead"}

TypeOK ==
    /\ {root, droot} \subseteq Seq(Blocks \cup {Nil})
    /\ {blk, dblk} \subseteq [Blocks -> [Slots -> Entry]]
    /\ used \subseteq Blocks /\ dused \subseteq Blocks
    /\ made \subseteq Names /\ known \subseteq Names /\ data \subseteq Blocks
    /\ stale \in BOOLEAN /\ foreign \in BOOLEAN /\ crashes \in 0..MaxCrashes
    /\ phase \in Phases

(* While the directory has had fresh blocks only, no name comes twice and  *)
(* none appears that no request has made.                                  *)
Unique   == ~stale => \A n \in Names : \A p, q \in Named(n) : p = q
OnlyMade == ~stale => \A n \in Names \ made : Named(n) = {}

IInv == TypeOK /\ Unique /\ OnlyMade

(* A name that open() has come back with is in the directory from then on, *)
(* in memory and on the disk, whatever fails when the disk is full and     *)
(* wherever the machine stops, the start included, and also when the       *)
(* directory gets blocks that programs have written: unless one of them    *)
(* holds what looks like an entry with a block, for the server frees or    *)
(* overwrites that block when it is asked to open or write that `file'.    *)
NamesStay == ~foreign => known \subseteq NamesOn(root, blk) \cap NamesOn(droot, dblk)

(* With the same exception, open() of a file that exists never fails for   *)
(* want of a block, although a directory that could not grow counts a      *)
(* block that it has not got; nor does fs_test()'s of newmotd.             *)
ExistingOpens == [][~foreign /\ (NoDisk \/ GrowFails) => op.n \notin known]_vars

=============================================================================
