-------------------------------- MODULE FsProofs --------------------------------
(***************************************************************************)
(* The theorems about the file system, for any number of files, blocks,    *)
(* pointers and stops of the machine: first who owns which block (Fs),     *)
(* then which names are in the directory (Directory, here Dir).            *)
(*                                                                         *)
(* For the names, what one stop after another leaves is DInv: the disk is  *)
(* behind memory by the blocks still to be written, by one block of the    *)
(* directory at most; and the bitmap goes first and the super block last.  *)
(* It holds until the directory gets a block with a pointer in it.         *)
(***************************************************************************)
EXTENDS MCFiles, Sequences, FiniteSetsExt, FiniteSetTheorems,
        WellFoundedInduction, TLAPS

LEMMA Least ==
    ASSUME NEW T, T \subseteq Nat, T # {}
    PROVE  \E x \in T : \A y \in T : x <= y
<1>1. \E x \in T : \A y \in T : <<y, x>> \notin OpToRel(<, Nat)
  BY NatLessThanWellFounded, WFMin, Zenon
<1>2. PICK x \in T : \A y \in T : <<y, x>> \notin OpToRel(<, Nat)
  BY <1>1
<1>3. \A y \in T : ~(y < x)
  BY <1>2 DEF OpToRel
<1> QED
  BY <1>3

(* The block alloc_block() takes was free. *)
LEMMA FirstIsFree ==
    ASSUME FilesOK, FreeBlocks # {}
    PROVE  FirstFree \in Blocks \ used
<1>1. FreeBlocks \subseteq Nat
  BY FsAssumption DEF FreeBlocks, Blocks
<1>2. \E b \in FreeBlocks : \A x \in FreeBlocks : b <= x
  BY <1>1, Least
<1> QED
  BY <1>2 DEF FirstFree, FreeBlocks

LEMMA SlotKinds == Direct \subseteq Slots /\ Far \subseteq Slots /\ Slots = Direct \cup Far
BY FsAssumption DEF Slots, Direct, Far

(* What it means to be referred to. *)
LEMMA InRefs ==
    /\ \A x : x \in Refs <=>
          x # Nil /\ \E f \in Files : x = ind[f] \/ \E s \in Slots : x = ptr[f][s]
    /\ \A x : x \in Refs' <=>
          x # Nil /\ \E f \in Files : x = ind'[f] \/ \E s \in Slots : x = ptr'[f][s]
BY DEF Refs, Pointers

(* The disk is behind memory: what DiskPtr() finds is in memory, or nil. *)
LEMMA DiskPtrs ==
    ASSUME FilesInv
    PROVE  /\ \A f \in Files, s \in Slots : DiskPtr(f, s) \in {Nil, ptr[f][s]}
           /\ \A f \in Files : dind[f] \in {Nil, ind[f]}
           /\ DiskRefs \ {Nil} \subseteq Refs
<1>1. \A f \in Files : dind[f] \in {Nil, ind[f]}
  BY DEF FilesInv, DiskBehind
<1>2. ASSUME NEW f \in Files, NEW s \in Slots PROVE DiskPtr(f, s) \in {Nil, ptr[f][s]}
  BY SlotKinds DEF FilesInv, FilesOK, DiskBehind, DiskPtr, Far
<1>3. DiskRefs \ {Nil} \subseteq Refs
  BY <1>1, <1>2, InRefs DEF DiskRefs
<1> QED
  BY <1>1, <1>2, <1>3

(* The file system in memory, when a step leaves it alone. *)
LEMMA Untouched ==
    ASSUME FilesInv, UNCHANGED <<used, ptr, ind, lost>>
    PROVE  Exclusive' /\ BitmapExact' /\ Refs' = Refs /\ \A f \in Files : Pointers(f)' = Pointers(f)
BY DEF FilesInv, Exclusive, BitmapExact, Refs, Pointers

LEMMA InitFiles == Init => FilesInv
<1> SUFFICES ASSUME Init PROVE FilesInv
  OBVIOUS
<1>1. /\ 1 \in Blocks /\ 0 \in Slots /\ 0 \in Direct /\ 0 \notin Far
      /\ 1 \in Ptrs /\ Nil \in Ptrs /\ 1 # Nil /\ Motd \in Files
  BY FsAssumption DEF Blocks, Slots, Direct, Far, Ptrs, Nil
<1>2. FilesOK
  <2>1. ddirect \in [Files -> [Direct -> Ptrs]] /\ ptr \in [Files -> [Slots -> Ptrs]]
    BY <1>1, SlotKinds DEF Init
  <2>2. size \in [Files -> 0..NDIRECT+NINDIRECT] /\ dsize = size
    BY FsAssumption DEF Init
  <2> QED
    BY <1>1, <2>1, <2>2, FsAssumption DEF Init, FilesOK, NoOp
<1>3. \A f \in Files, s \in Slots : ptr[f][s] = IF f = Motd /\ s = 0 THEN 1 ELSE Nil
  BY DEF Init
<1>4. \A f \in Files : ind[f] = Nil
  BY DEF Init
<1>5. Refs = {1}
  BY <1>1, <1>3, <1>4, InRefs
<1>6. Exclusive /\ BitmapExact
  BY <1>1, <1>3, <1>4, <1>5 DEF Init, Exclusive, BitmapExact
<1>7. DiskBehind /\ SyncedClean
  BY <1>1, <1>3, <1>4, <1>5, SlotKinds DEF Init, DiskBehind, SyncedClean, Clean
<1> QED
  BY <1>2, <1>6, <1>7 DEF FilesInv

(* DiskSafe follows: two places on the disk that name one block are two    *)
(* places in memory that do.                                               *)
LEMMA SafeDisk == FilesInv => DiskSafe
<1> SUFFICES ASSUME FilesInv PROVE DiskSafe
  OBVIOUS
<1> QED
  BY DiskPtrs DEF FilesInv, Exclusive, DiskBehind, DiskSafe

LEMMA StutterFiles == ASSUME FilesInv, UNCHANGED vars PROVE FilesInv'
BY DEF vars, bitVars, memVars, dirVars, runVars, histVars, FilesInv, FilesOK, Exclusive, BitmapExact,
       Refs, Pointers, DiskBehind, SyncedClean, Clean

-----------------------------------------------------------------------------
(* The actions that leave the bitmap and the pointers in memory alone. *)

LEMMA DirectoryIsFlushed ==
    ASSUME FlushDirectory, NEW f \in Files
    PROVE  dsize'[f] = size'[f] /\ dind'[f] = ind'[f] /\ \A s \in Direct : ddirect'[f][s] = ptr'[f][s]
BY DEF FlushDirectory

LEMMA DirectoryType ==
    ASSUME FlushDirectory, size' \in [Files -> 0..NDIRECT+NINDIRECT], ind' \in [Files -> Ptrs],
           ptr' \in [Files -> [Slots -> Ptrs]]
    PROVE  /\ dsize' \in [Files -> 0..NDIRECT+NINDIRECT] /\ dind' \in [Files -> Ptrs]
           /\ ddirect' \in [Files -> [Direct -> Ptrs]]
<1>1. ASSUME NEW f \in Files PROVE [s \in Direct |-> ptr'[f][s]] \in [Direct -> Ptrs]
  BY SlotKinds
<1> QED
  BY <1>1 DEF FlushDirectory

(* The directory block on the disk may always be written. *)
LEMMA DirectoryBehind ==
    ASSUME FilesInv, UNCHANGED <<ptr, ind, dfar>>, dused' = dused, pc # "cleared", pc' # "cleared",
           FlushDirectory \/ UNCHANGED dirVars, Refs' = Refs
    PROVE  DiskBehind'
<1>1. \A f \in Files : /\ dind'[f] \in {Nil, ind[f]}
                        /\ \A s \in Direct : ddirect'[f][s] \in {Nil, ptr[f][s]}
  <2>1. CASE UNCHANGED dirVars
    BY <2>1 DEF FilesInv, DiskBehind, dirVars
  <2>2. CASE FlushDirectory
    BY <2>2, DirectoryIsFlushed
  <2> QED
    BY <2>1, <2>2
<1> QED
  BY <1>1 DEF FilesInv, DiskBehind

LEMMA DirectoryClean ==
    ASSUME FilesInv, UNCHANGED <<ptr, ind, dfar, dirty>>, NEW f \in Files, Clean(f), size'[f] = size[f],
           FlushDirectory \/ UNCHANGED dirVars, Pointers(f)' = Pointers(f)
    PROVE  Clean(f)'
<1>1. dsize'[f] = size'[f] /\ dind'[f] = ind'[f] /\ \A s \in Direct : ddirect'[f][s] = ptr'[f][s]
  <2>1. CASE UNCHANGED dirVars
    BY <2>1 DEF Clean, dirVars
  <2>2. CASE FlushDirectory
    BY <2>2, DirectoryIsFlushed
  <2> QED
    BY <2>1, <2>2
<1> QED
  BY <1>1 DEF Clean

LEMMA WriteFiles ==
    ASSUME FilesInv, NEW f \in Files, NEW i \in Slots, NEW to \in 1..NDIRECT+NINDIRECT, i < to, Write(f, i, to)
    PROVE  FilesInv'
<1>1. UNCHANGED <<used, ptr, ind, lost>> /\ UNCHANGED <<dused, dirty, dfar, crashes>>
  BY DEF Write, bitVars
<1>2. Exclusive' /\ BitmapExact' /\ Refs' = Refs /\ \A g \in Files : Pointers(g)' = Pointers(g)
  BY <1>1, Untouched
<1>3. FilesOK'
  <2>1. /\ size' \in [Files -> 0..NDIRECT+NINDIRECT] /\ synced' \subseteq Files
        /\ pc' = "block" /\ op' \in [f : Files, i : Slots, to : 0..NDIRECT+NINDIRECT, writes : BOOLEAN]
    BY FsAssumption DEF FilesInv, FilesOK, Write, Begin, Goto
  <2>2. CASE UNCHANGED dirVars
    BY <1>1, <2>1, <2>2 DEF FilesInv, FilesOK, dirVars
  <2>3. CASE FlushDirectory
    BY <1>1, <2>1, <2>3, DirectoryType DEF FilesInv, FilesOK
  <2> QED
    BY <2>2, <2>3 DEF Write
<1>4. DiskBehind'
  BY <1>1, <1>2, DirectoryBehind DEF Write, Begin, Goto
<1>5. SyncedClean'
  <2>1. ASSUME NEW g \in synced' PROVE Clean(g)'
    <3>1. g \in Files /\ g # f /\ Clean(g) /\ size'[g] = size[g]
      BY DEF FilesInv, FilesOK, SyncedClean, Write
    <3> QED
      BY <1>1, <1>2, <3>1, DirectoryClean DEF Write
  <2> QED
    BY <2>1 DEF SyncedClean, Write, Begin, Goto
<1> QED
  BY <1>2, <1>3, <1>4, <1>5 DEF FilesInv

LEMMA QuietFiles ==
    ASSUME FilesInv, UNCHANGED <<bitVars, size, ptr, ind, dirVars, dfar, histVars>>,
           FilesOK', dirty' \subseteq dirty, pc # "cleared", pc' \notin {"cleared", "far"},
           pc' = "block" /\ op'.writes => op'.f \notin synced
    PROVE  FilesInv'
<1> USE DEF bitVars, dirVars, histVars
<1>1. Exclusive' /\ BitmapExact' /\ Refs' = Refs /\ \A f \in Files : Pointers(f)' = Pointers(f)
  BY Untouched
<1>2. DiskBehind'
  BY <1>1 DEF FilesInv, DiskBehind
<1>3. SyncedClean'
  BY <1>1 DEF FilesInv, FilesOK, SyncedClean, Clean
<1> QED
  BY <1>1, <1>2, <1>3 DEF FilesInv

LEMMA ReadFiles ==
    ASSUME FilesInv, NEW f \in Files, NEW i \in Slots, NEW to \in 1..NDIRECT+NINDIRECT, i < to, Read(f, i, to)
    PROVE  FilesInv'
<1>1. FilesOK'
  BY FsAssumption DEF FilesInv, FilesOK, Read, Begin, Goto, bitVars, memVars, dirVars, histVars
<1> QED
  BY <1>1, QuietFiles DEF Read, Begin, Goto, memVars

LEMMA FlushFiles == ASSUME FilesInv, NEW f \in Files, Flush(f) PROVE FilesInv'
<1>1. FilesOK'
  BY FsAssumption DEF FilesInv, FilesOK, Flush, Begin, Goto, bitVars, memVars, dirVars, histVars, Slots
<1> QED
  BY <1>1, QuietFiles DEF Flush, Begin, Goto, memVars

LEMMA FlushDataFiles == ASSUME FilesInv, NEW b \in Blocks, FlushData(b) PROVE FilesInv'
<1>1. FilesOK'
  BY DEF FilesInv, FilesOK, FlushData, bitVars, dirVars, runVars, histVars
<1> QED
  BY <1>1, QuietFiles DEF FlushData, runVars

LEMMA NoDiskFiles == ASSUME FilesInv, NoDisk PROVE FilesInv'
<1>1. NoOp \in [f : Files, i : Slots, to : 0..NDIRECT+NINDIRECT, writes : BOOLEAN]
  BY FsAssumption DEF NoOp, Slots
<1>2. FilesOK'
  BY <1>1 DEF FilesInv, FilesOK, NoDisk, Return, bitVars, memVars, dirVars, histVars
<1> QED
  BY <1>2, QuietFiles DEF NoDisk, Return, memVars

LEMMA CreateFiles == ASSUME FilesInv, Create PROVE FilesInv'
<1>1. Exclusive' /\ BitmapExact' /\ Refs' = Refs /\ \A f \in Files : Pointers(f)' = Pointers(f)
  BY Untouched DEF Create, bitVars, histVars
<1>2. FilesOK'
  BY DirectoryType DEF FilesInv, FilesOK, Create, bitVars, runVars, histVars
<1>3. DiskBehind'
  BY <1>1, DirectoryBehind DEF Create, bitVars, runVars
<1>4. SyncedClean'
  <2>1. ASSUME NEW g \in synced PROVE Clean(g)'
    BY <1>1, DirectoryClean DEF FilesInv, FilesOK, SyncedClean, Create
  <2> QED
    BY <2>1 DEF SyncedClean, Create, runVars, histVars
<1> QED
  BY <1>1, <1>2, <1>3, <1>4 DEF FilesInv

LEMMA FlushFileFiles == ASSUME FilesInv, FlushFile PROVE FilesInv'
<1>1. Exclusive' /\ BitmapExact' /\ Refs' = Refs /\ \A f \in Files : Pointers(f)' = Pointers(f)
  BY Untouched DEF FlushFile, bitVars, histVars
<1>2. FilesOK'
  BY DirectoryType DEF FilesInv, FilesOK, FlushFile, Goto, bitVars, histVars
<1>3. DiskBehind'
  BY <1>1, DirectoryBehind DEF FlushFile, Goto, bitVars
<1>4. SyncedClean'
  <2>1. ASSUME NEW g \in synced PROVE Clean(g)'
    BY <1>1, DirectoryClean DEF FilesInv, FilesOK, SyncedClean, FlushFile
  <2>2. op.f \in Files
    BY DEF FilesInv, FilesOK
  <2> QED
    BY <1>1, <2>1, <2>2, DirectoryIsFlushed DEF SyncedClean, FlushFile, Goto, histVars
<1> QED
  BY <1>1, <1>2, <1>3, <1>4 DEF FilesInv

LEMMA FlushEndFiles == ASSUME FilesInv, FlushEnd PROVE FilesInv'
<1>1. Exclusive' /\ BitmapExact' /\ Refs' = Refs /\ \A f \in Files : Pointers(f)' = Pointers(f)
  BY Untouched DEF FlushEnd, bitVars, memVars
<1>2. op.f \in Files /\ pc = "far" /\ pc' = "idle"
      /\ UNCHANGED <<dused, size, ptr, ind, dirty, dsize, ddirect, dind>>
      /\ synced' = synced \cup {op.f}
  BY DEF FilesInv, FilesOK, FlushEnd, Return, bitVars, memVars, dirVars
<1>3. /\ \A b \in Blocks : b # ind[op.f] => dfar'[b] = dfar[b]
      /\ ind[op.f] # Nil => \A s \in Far : dfar'[ind[op.f]][s] = ptr[op.f][s]
      /\ dfar' \in [Blocks -> [Far -> Ptrs]]
  BY <1>2, SlotKinds DEF FilesInv, FilesOK, FlushEnd, FlushFar, FlushIndirect, Ptrs
<1>4. FilesOK'
  <2>1. NoOp \in [f : Files, i : Slots, to : 0..NDIRECT+NINDIRECT, writes : BOOLEAN]
    BY FsAssumption DEF NoOp, Slots
  <2> QED
    BY <1>2, <1>3, <2>1 DEF FilesInv, FilesOK, FlushEnd, Return, bitVars
<1>5. \A g \in Files : ind[g] # Nil => ind[g] \in Blocks /\ (g # op.f => ind[g] # ind[op.f])
  BY <1>2 DEF FilesInv, FilesOK, Exclusive, Ptrs
<1>6. DiskBehind'
  BY <1>1, <1>2, <1>3, <1>5 DEF FilesInv, DiskBehind
<1>7. SyncedClean'
  BY <1>1, <1>2, <1>3, <1>5 DEF FilesInv, FilesOK, SyncedClean, Clean
<1> QED
  BY <1>1, <1>4, <1>6, <1>7 DEF FilesInv

LEMMA NoOpType == NoOp \in [f : Files, i : Slots, to : 0..NDIRECT+NINDIRECT, writes : BOOLEAN]
BY FsAssumption DEF NoOp, Slots

LEMMA SyncFiles == ASSUME FilesInv, Sync PROVE FilesInv'
<1>1. Exclusive' /\ BitmapExact' /\ Refs' = Refs /\ \A f \in Files : Pointers(f)' = Pointers(f)
  BY Untouched DEF Sync, memVars, histVars
<1>2. FilesOK'
  BY NoOpType, FsAssumption DEF FilesInv, FilesOK, Sync, Begin, Goto, memVars, dirVars, histVars, Slots
<1>3. Refs \subseteq used
  BY DEF FilesInv, BitmapExact
<1>4. DiskBehind'
  BY <1>1, <1>3 DEF FilesInv, DiskBehind, Sync, Begin, Goto, memVars, dirVars
<1>5. SyncedClean'
  BY <1>1 DEF FilesInv, FilesOK, SyncedClean, Clean, Sync, Begin, Goto, memVars, dirVars, histVars
<1> QED
  BY <1>1, <1>2, <1>4, <1>5 DEF FilesInv

LEMMA SyncEndFiles == ASSUME FilesInv, SyncEnd PROVE FilesInv'
<1>1. Exclusive' /\ BitmapExact' /\ Refs' = Refs /\ \A f \in Files : Pointers(f)' = Pointers(f)
  BY Untouched DEF SyncEnd, bitVars, memVars
<1>2. FilesOK'
  BY NoOpType DEF FilesInv, FilesOK, SyncEnd, Return, bitVars, memVars, dirVars
<1>3. DiskBehind'
  BY <1>1 DEF FilesInv, DiskBehind, SyncEnd, Return, bitVars, memVars, dirVars
<1>4. SyncedClean'
  BY <1>1 DEF SyncedClean, Clean, SyncEnd, Return, memVars, dirVars
<1> QED
  BY <1>1, <1>2, <1>3, <1>4 DEF FilesInv

(* flush_block() of the indirect block of a file. *)
LEMMA IndirectFlushed ==
    ASSUME FilesInv, NEW f \in Files, FlushIndirect(f)
    PROVE  /\ dfar' \in [Blocks -> [Far -> Ptrs]]
           /\ \A g \in Files : ind[g] # Nil => \A s \in Far :
                 dfar'[ind[g]][s] = dfar[ind[g]][s] \/ dfar'[ind[g]][s] = ptr[g][s]
<1>1. ASSUME NEW b \in Blocks, b = ind[f]
      PROVE  dfar' = [dfar EXCEPT ![b] = [s \in Far |-> ptr[f][s]]]
  BY <1>1 DEF FlushIndirect, Blocks, Nil
<1>2. CASE ind[f] = Nil
  BY <1>2 DEF FilesInv, FilesOK, FlushIndirect
<1>3. CASE ind[f] # Nil
  <2>1. ind[f] \in Blocks /\ \A g \in Files : ind[g] # Nil => ind[g] \in Blocks /\ (ind[g] = ind[f] => g = f)
    BY <1>3 DEF FilesInv, FilesOK, Exclusive, Ptrs
  <2>2. dfar' = [dfar EXCEPT ![ind[f]] = [s \in Far |-> ptr[f][s]]] /\ dfar \in [Blocks -> [Far -> Ptrs]]
    BY <1>1, <2>1 DEF FilesInv, FilesOK
  <2>3. [s \in Far |-> ptr[f][s]] \in [Far -> Ptrs]
    BY SlotKinds DEF FilesInv, FilesOK
  <2> QED
    BY <2>1, <2>2, <2>3
<1> QED
  BY <1>2, <1>3

LEMMA SyncBlockFiles == ASSUME FilesInv, SyncBlock PROVE FilesInv'
<1>1. Exclusive' /\ BitmapExact' /\ Refs' = Refs /\ \A f \in Files : Pointers(f)' = Pointers(f)
  BY Untouched DEF SyncBlock, bitVars, histVars
<1>2. ASSUME NEW b \in dirty, dirty' = dirty \ {b}, UNCHANGED <<dirVars, dfar>> PROVE FilesInv'
  <2>1. FilesOK'
    BY <1>2 DEF FilesInv, FilesOK, SyncBlock, dirVars, bitVars, runVars, histVars
  <2> QED
    BY <1>2, <2>1, QuietFiles DEF SyncBlock, runVars
<1>3. ASSUME NEW f \in Files, FlushIndirect(f), UNCHANGED <<dirty, dirVars>> PROVE FilesInv'
  <2>1. /\ dfar' \in [Blocks -> [Far -> Ptrs]]
        /\ \A g \in Files : ind[g] # Nil => \A s \in Far :
              dfar'[ind[g]][s] = dfar[ind[g]][s] \/ dfar'[ind[g]][s] = ptr[g][s]
    BY <1>3, IndirectFlushed
  <2>2. FilesOK'
    BY <1>3, <2>1 DEF FilesInv, FilesOK, SyncBlock, dirVars, bitVars, runVars, histVars
  <2>3. DiskBehind'
    BY <1>1, <1>3, <2>1 DEF FilesInv, DiskBehind, SyncBlock, dirVars, bitVars, runVars
  <2>4. SyncedClean'
    <3>1. ASSUME NEW g \in synced PROVE Clean(g)'
      <4>1. g \in Files /\ Clean(g)
        BY DEF FilesInv, FilesOK, SyncedClean
      <4>2. ind[g] # Nil => \A s \in Far : dfar'[ind[g]][s] = ptr[g][s]
        BY <2>1, <4>1 DEF Clean
      <4> QED
        BY <1>1, <1>3, <4>1, <4>2 DEF Clean, SyncBlock, dirVars
    <3> QED
      BY <3>1 DEF FilesInv, SyncedClean, SyncBlock, runVars, histVars
  <2> QED
    BY <1>1, <2>2, <2>3, <2>4 DEF FilesInv
<1>4. ASSUME FlushDirectory, UNCHANGED <<dirty, dfar>> PROVE FilesInv'
  <2>1. FilesOK'
    BY <1>4, DirectoryType DEF FilesInv, FilesOK, SyncBlock, bitVars, runVars, histVars
  <2>2. DiskBehind'
    BY <1>1, <1>4, DirectoryBehind DEF SyncBlock, bitVars, runVars
  <2>3. ASSUME NEW g \in synced PROVE Clean(g)'
    BY <1>1, <1>4, DirectoryClean DEF FilesInv, FilesOK, SyncedClean, SyncBlock
  <2>4. SyncedClean'
    BY <2>3 DEF SyncedClean, SyncBlock, runVars, histVars
  <2> QED
    BY <1>1, <2>1, <2>2, <2>4 DEF FilesInv
<1> QED
  BY <1>2, <1>3, <1>4 DEF SyncBlock

(* The rest of file_get_block(). *)
LEMMA MoveType ==
    ASSUME FilesOK, pc = "block", NEW b \in Blocks, Move(b)
    PROVE  /\ dirty' \subseteq Blocks /\ dirty' \subseteq dirty \cup {b} /\ pc' \in {"block", "idle"}
           /\ ~op.writes => dirty' = dirty
           /\ op' \in [f : Files, i : Slots, to : 0..NDIRECT+NINDIRECT, writes : BOOLEAN]
           /\ pc' = "block" => op'.f = op.f /\ op'.writes = op.writes
<1>1. CASE op.i + 1 < op.to /\ op' = [op EXCEPT !.i = @ + 1] /\ UNCHANGED pc
  <2>1. op.i + 1 \in Slots
    BY <1>1, FsAssumption DEF FilesOK, Slots
  <2> QED
    BY <1>1, <2>1 DEF FilesOK, Move
<1>2. CASE Return
  BY <1>2, NoOpType DEF FilesOK, Move, Return
<1> QED
  BY <1>1, <1>2 DEF Move

LEMMA HaveBlockFiles == ASSUME FilesInv, HaveBlock PROVE FilesInv'
<1> DEFINE b == ptr[op.f][op.i]
<1>1. Exclusive' /\ BitmapExact' /\ Refs' = Refs /\ \A f \in Files : Pointers(f)' = Pointers(f)
  BY Untouched DEF HaveBlock, bitVars, histVars
<1>2. op.f \in Files /\ op.i \in Slots /\ b \in Blocks
  BY DEF FilesInv, FilesOK, HaveBlock, Pointed, Ptrs
<1>3. /\ dirty' \subseteq Blocks /\ dirty' \subseteq dirty \cup {b} /\ pc' \in {"block", "idle"}
      /\ ~op.writes => dirty' = dirty
      /\ op' \in [f : Files, i : Slots, to : 0..NDIRECT+NINDIRECT, writes : BOOLEAN]
      /\ pc' = "block" => op'.f = op.f /\ op'.writes = op.writes
  BY <1>2, MoveType DEF FilesInv, HaveBlock
<1>4. FilesOK'
  BY <1>3 DEF FilesInv, FilesOK, HaveBlock, bitVars, dirVars, histVars
<1>5. DiskBehind'
  BY <1>1, <1>3 DEF FilesInv, DiskBehind, HaveBlock, bitVars, dirVars
<1>6. SyncedClean'
  <2>1. ASSUME NEW g \in synced PROVE dirty' \cap Pointers(g) = {}
    <3>1. g \in Files /\ dirty \cap Pointers(g) = {}
      BY DEF FilesInv, FilesOK, SyncedClean, Clean
    <3>2. CASE ~op.writes
      BY <1>3, <3>1, <3>2
    <3>3. CASE op.writes
      <4>1. g # op.f
        BY <3>3 DEF FilesInv, SyncedClean, HaveBlock
      <4>2. b \notin Pointers(g)
        BY <1>2, <3>1, <4>1 DEF FilesInv, Exclusive, Pointers, HaveBlock, Pointed
      <4> QED
        BY <1>3, <3>1, <4>2
    <3> QED
      BY <3>2, <3>3
  <2> QED
    BY <1>1, <1>3, <2>1 DEF FilesInv, FilesOK, SyncedClean, Clean, HaveBlock, bitVars, dirVars, histVars
<1> QED
  BY <1>1, <1>4, <1>5, <1>6 DEF FilesInv

-----------------------------------------------------------------------------
(* The actions that take blocks, or give them back. *)

(* A block that is free is new to everybody. *)
LEMMA FreeIsNew ==
    ASSUME FilesInv, NEW b \in Blocks \ used
    PROVE  /\ b # Nil /\ b \notin Refs /\ b \notin lost
           /\ \A f \in Files : ind[f] # b /\ \A s \in Slots : ptr[f][s] # b
<1>1. b # Nil /\ b \notin Refs /\ b \notin lost
  BY DEF FilesInv, BitmapExact, Blocks, Nil
<1> QED
  BY <1>1, InRefs

LEMMA GetBlockFiles == ASSUME FilesInv, GetBlock PROVE FilesInv'
<1> DEFINE b == FirstFree
           g == op.f
           i == op.i
<1>1. /\ b \in Blocks \ used /\ used' = used \cup {b} /\ dused' = used'
      /\ g \in Files /\ i \in Slots
  BY FirstIsFree DEF FilesInv, FilesOK, GetBlock, AllocBlock
<1> HIDE DEF b
<1>2. /\ ptr[g][i] = Nil /\ (i \in Far => ind[g] # Nil)
      /\ ptr' = [ptr EXCEPT ![g][i] = b]
      /\ UNCHANGED <<size, ind, dsize, ddirect, dind, dfar, lost, crashes>>
      /\ synced' = synced \ {g} /\ pc = "block"
  BY DEF GetBlock, NeedsIndirect, Pointed, dirVars, b
<1>3. /\ b # Nil /\ b \notin Refs /\ b \notin lost
      /\ \A f \in Files : ind[f] # b /\ \A s \in Slots : ptr[f][s] # b
  BY <1>1, FreeIsNew
<1>4. /\ dirty' \subseteq Blocks /\ dirty' \subseteq dirty \cup {b} /\ pc' \in {"block", "idle"}
      /\ op' \in [f : Files, i : Slots, to : 0..NDIRECT+NINDIRECT, writes : BOOLEAN]
      /\ pc' = "block" => op'.f = op.f /\ op'.writes = op.writes
  BY <1>1, <1>2, MoveType DEF FilesInv, GetBlock, b
<1>5. \A f \in Files, s \in Slots : ptr'[f][s] = IF f = g /\ s = i THEN b ELSE ptr[f][s]
  BY <1>1, <1>2 DEF FilesInv, FilesOK
<1>6. FilesOK'
  <2>1. ptr' \in [Files -> [Slots -> Ptrs]]
    BY <1>1, <1>2 DEF FilesInv, FilesOK, Ptrs
  <2> QED
    BY <1>1, <1>2, <1>4, <2>1 DEF FilesInv, FilesOK
<1>7. Refs' = Refs \cup {b}
  BY <1>1, <1>2, <1>3, <1>5, InRefs
<1>8. Exclusive'
  BY <1>1, <1>2, <1>3, <1>5 DEF FilesInv, Exclusive
<1>9. BitmapExact'
  BY <1>1, <1>2, <1>3, <1>7 DEF FilesInv, BitmapExact
<1>10. DiskBehind'
  BY <1>1, <1>2, <1>4, <1>5, <1>7, <1>9, SlotKinds DEF FilesInv, DiskBehind, BitmapExact
<1>11. SyncedClean'
  <2>1. ASSUME NEW f \in synced' PROVE Clean(f)'
    <3>1. f \in Files /\ f # g /\ Clean(f)
      BY <1>2 DEF FilesInv, FilesOK, SyncedClean
    <3>2. \A s \in Slots : ptr'[f][s] = ptr[f][s]
      BY <1>5, <3>1
    <3>3. Pointers(f)' = Pointers(f) /\ b \notin Pointers(f)
      BY <1>3, <3>1, <3>2 DEF Pointers
    <3> QED
      BY <1>2, <1>4, <3>1, <3>2, <3>3, SlotKinds DEF Clean
  <2> QED
    BY <1>2, <1>4, <2>1 DEF SyncedClean
<1> QED
  BY <1>6, <1>8, <1>9, <1>10, <1>11 DEF FilesInv

LEMMA GetIndirectFiles == ASSUME FilesInv, GetIndirect PROVE FilesInv'
<1> DEFINE b == FirstFree
           g == op.f
<1>1. /\ b \in Blocks \ used /\ used' = used \cup {b} /\ dused' = used'
      /\ g \in Files
  BY FirstIsFree DEF FilesInv, FilesOK, GetIndirect, AllocBlock
<1> HIDE DEF b
<1>2. /\ ind[g] = Nil /\ ind' = [ind EXCEPT ![g] = b]
      /\ ptr' = [ptr EXCEPT ![g] = [s \in Slots |-> IF s \in Far THEN Nil ELSE @[s]]]
      /\ UNCHANGED <<size, dirty, dsize, ddirect, dind, dfar, op, lost, crashes>>
      /\ synced' = synced \ {g} /\ pc = "block" /\ pc' = "cleared"
  BY DEF GetIndirect, NeedsIndirect, Goto, dirVars, b
<1>3. /\ b # Nil /\ b \notin Refs /\ b \notin lost
      /\ \A f \in Files : ind[f] # b /\ \A s \in Slots : ptr[f][s] # b
  BY <1>1, FreeIsNew
<1>4. ptr' = ptr
  <2>1. \A s \in Far : ptr[g][s] = Nil
    BY <1>1, <1>2 DEF FilesInv, DiskBehind
  <2>2. ptr[g] = [s \in Slots |-> IF s \in Far THEN Nil ELSE ptr[g][s]]
    BY <1>1, <2>1 DEF FilesInv, FilesOK
  <2> QED
    BY <1>1, <1>2, <2>2 DEF FilesInv, FilesOK
<1>5. \A f \in Files : ind'[f] = IF f = g THEN b ELSE ind[f]
  BY <1>1, <1>2 DEF FilesInv, FilesOK
<1>6. FilesOK'
  BY <1>1, <1>2, <1>4 DEF FilesInv, FilesOK, Ptrs
<1>7. Refs' = Refs \cup {b}
  BY <1>1, <1>2, <1>3, <1>4, <1>5, InRefs
<1>8. Exclusive'
  BY <1>1, <1>2, <1>3, <1>4, <1>5 DEF FilesInv, Exclusive
<1>9. BitmapExact'
  BY <1>1, <1>2, <1>3, <1>7 DEF FilesInv, BitmapExact
<1>10. DiskBehind'
  <2>1. dind[g] = Nil
    BY <1>1, <1>2 DEF FilesInv, DiskBehind
  <2> QED
    BY <1>1, <1>2, <1>3, <1>4, <1>5, <1>7, <1>9, <2>1 DEF FilesInv, DiskBehind, BitmapExact
<1>11. SyncedClean'
  <2>1. ASSUME NEW f \in synced' PROVE Clean(f)'
    <3>1. f \in Files /\ f # g /\ Clean(f)
      BY <1>2 DEF FilesInv, FilesOK, SyncedClean
    <3>2. ind'[f] = ind[f] /\ Pointers(f)' = Pointers(f)
      BY <1>4, <1>5, <3>1 DEF Pointers
    <3> QED
      BY <1>2, <1>4, <3>1, <3>2 DEF Clean
  <2> QED
    BY <1>2, <2>1 DEF SyncedClean
<1> QED
  BY <1>6, <1>8, <1>9, <1>10, <1>11 DEF FilesInv

LEMMA FlushClearedFiles == ASSUME FilesInv, FlushCleared PROVE FilesInv'
<1> DEFINE g == op.f
<1>1. Exclusive' /\ BitmapExact' /\ Refs' = Refs /\ \A f \in Files : Pointers(f)' = Pointers(f)
  BY Untouched DEF FlushCleared, bitVars, histVars
<1>2. /\ g \in Files /\ ind[g] \in Blocks /\ ind[g] # Nil /\ dind[g] = Nil /\ g \notin synced
      /\ pc = "cleared" /\ pc' = "block" /\ dirty' \subseteq dirty
      /\ UNCHANGED <<used, dused, size, ptr, ind, dsize, ddirect, dind, op, lost, synced, crashes>>
  BY DEF FilesInv, FilesOK, Ptrs, DiskBehind, SyncedClean, FlushCleared, Goto, bitVars, dirVars, histVars
<1>3. dfar' = [dfar EXCEPT ![ind[g]] = [s \in Far |-> Nil]]
  BY DEF FlushCleared, Clear
<1>4. \A f \in Files : ind[f] # Nil => ind[f] \in Blocks /\ (f # g => ind[f] # ind[g])
  BY <1>2 DEF FilesInv, FilesOK, Exclusive, Ptrs
<1>5. \A f \in Files, s \in Far : ind[f] # Nil =>
          dfar'[ind[f]][s] = IF f = g THEN Nil ELSE dfar[ind[f]][s]
  BY <1>2, <1>3, <1>4 DEF FilesInv, FilesOK
<1>6. FilesOK'
  <2>1. dfar' \in [Blocks -> [Far -> Ptrs]]
    BY <1>2, <1>3 DEF FilesInv, FilesOK, Ptrs
  <2> QED
    BY <1>2, <2>1 DEF FilesInv, FilesOK
<1>7. DiskBehind'
  BY <1>1, <1>2, <1>5 DEF FilesInv, DiskBehind
<1>8. SyncedClean'
  <2>1. ASSUME NEW f \in synced PROVE Clean(f)'
    <3>1. f \in Files /\ f # g /\ Clean(f)
      BY <1>2 DEF FilesInv, FilesOK, SyncedClean
    <3> QED
      BY <1>1, <1>2, <1>5, <3>1 DEF Clean
  <2> QED
    BY <1>2, <2>1 DEF FilesInv, SyncedClean
<1> QED
  BY <1>1, <1>6, <1>7, <1>8 DEF FilesInv

LEMMA TruncateFiles == ASSUME FilesInv, NEW g \in Files, Truncate(g) PROVE FilesInv'
<1>1. /\ used' = used \ Freed(g) /\ size' = [size EXCEPT ![g] = 0]
      /\ ptr' = [ptr EXCEPT ![g] = [s \in Slots |-> Nil]] /\ ind' = [ind EXCEPT ![g] = Nil]
      /\ synced' = synced \ {g} /\ pc = "idle" /\ pc' = "idle" /\ FlushDirectory
      /\ UNCHANGED <<dused, dirty, dfar, op, lost, crashes>>
  BY DEF Truncate, runVars
<1>2. /\ \A f \in Files : size'[f] = IF f = g THEN 0 ELSE size[f]
      /\ \A f \in Files : ind'[f] = IF f = g THEN Nil ELSE ind[f]
      /\ \A f \in Files, s \in Slots : ptr'[f][s] = IF f = g THEN Nil ELSE ptr[f][s]
  BY <1>1 DEF FilesInv, FilesOK
<1>3. /\ size' \in [Files -> 0..NDIRECT+NINDIRECT] /\ ind' \in [Files -> Ptrs]
      /\ ptr' \in [Files -> [Slots -> Ptrs]]
  BY <1>1, FsAssumption DEF FilesInv, FilesOK, Ptrs
<1>4. FilesOK'
  BY <1>1, <1>3, DirectoryType DEF FilesInv, FilesOK
<1>5. Refs' = Refs \ Freed(g)
  <2>1. \A x : x \in Freed(g) <=> x # Nil /\ (x = ind[g] \/ \E s \in Slots : x = ptr[g][s])
    BY DEF Freed, Pointers
  <2>2. ASSUME NEW x, x \in Refs' PROVE x \in Refs /\ x \notin Freed(g)
    BY <1>2, <2>1, <2>2, InRefs DEF FilesInv, Exclusive
  <2>3. ASSUME NEW x, x \in Refs, x \notin Freed(g) PROVE x \in Refs'
    BY <1>2, <2>1, <2>3, InRefs
  <2> QED
    BY <2>2, <2>3
<1>6. Exclusive'
  BY <1>2 DEF FilesInv, Exclusive
<1>7. Freed(g) \subseteq Refs
  BY InRefs DEF Freed, Pointers
<1>8. BitmapExact'
  BY <1>1, <1>5, <1>7 DEF FilesInv, BitmapExact
<1>9. DiskBehind'
  <2>1. \A f \in Files : dind'[f] = ind'[f] /\ \A s \in Direct : ddirect'[f][s] = ptr'[f][s]
    BY <1>1, DirectoryIsFlushed
  <2> QED
    BY <1>1, <1>2, <1>5, <2>1, SlotKinds DEF FilesInv, DiskBehind
<1>10. SyncedClean'
  <2>1. ASSUME NEW f \in synced' PROVE Clean(f)'
    <3>1. f \in Files /\ f # g /\ Clean(f)
      BY <1>1 DEF FilesInv, FilesOK, SyncedClean
    <3>2. ind'[f] = ind[f] /\ Pointers(f)' = Pointers(f) /\ \A s \in Slots : ptr'[f][s] = ptr[f][s]
      BY <1>2, <3>1 DEF Pointers
    <3>3. dsize'[f] = size'[f] /\ dind'[f] = ind'[f] /\ \A s \in Direct : ddirect'[f][s] = ptr'[f][s]
      BY <1>1, <3>1, DirectoryIsFlushed
    <3> QED
      BY <1>1, <3>1, <3>2, <3>3, SlotKinds DEF Clean
  <2> QED
    BY <1>1, <2>1 DEF SyncedClean
<1> QED
  BY <1>4, <1>6, <1>8, <1>9, <1>10 DEF FilesInv

-----------------------------------------------------------------------------
(* The start of the server. *)
LEMMA UnchangedFiles ==
    ASSUME FilesInv, UNCHANGED <<fileVars, runVars, histVars>>
    PROVE  FilesInv'
BY DEF fileVars, bitVars, memVars, dirVars, runVars, histVars, FilesInv, FilesOK, Exclusive, BitmapExact,
       Refs, Pointers, DiskBehind, SyncedClean, Clean

LEMMA TestAllocFiles == ASSUME FilesInv, TestAlloc PROVE FilesInv'
<1> DEFINE b == FirstFree
<1>1. /\ b \in Blocks \ used /\ used' = used \cup {b} /\ dused' = used' /\ lost' = lost \cup {b}
      /\ UNCHANGED <<size, ptr, ind, dirty, dsize, ddirect, dind, dfar, pc, op, synced, crashes>>
  BY FirstIsFree DEF FilesInv, TestAlloc, AllocBlock, memVars, dirVars, runVars
<1> HIDE DEF b
<1>2. b \notin Refs
  BY <1>1, FreeIsNew
<1>3. FilesOK'
  BY <1>1 DEF FilesInv, FilesOK
<1>4. Refs' = Refs /\ Exclusive' /\ SyncedClean'
  BY <1>1 DEF FilesInv, Refs, Pointers, Exclusive, SyncedClean, Clean
<1>5. BitmapExact'
  BY <1>1, <1>2, <1>4 DEF FilesInv, BitmapExact
<1>6. DiskBehind'
  BY <1>1, <1>4, <1>5 DEF FilesInv, DiskBehind, BitmapExact
<1> QED
  BY <1>3, <1>4, <1>5, <1>6 DEF FilesInv

LEMMA TestGetFiles == ASSUME FilesInv, TestGet PROVE FilesInv'
<1>1. /\ pc = "idle" /\ pc' = "block" /\ op' = [f |-> Motd, i |-> 0, to |-> 1, writes |-> FALSE]
      /\ UNCHANGED <<bitVars, size, ptr, ind, dirty, dirVars, dfar, histVars>>
  BY DEF TestGet, Begin, Goto, fileVars, memVars
<1>2. 0 \in Slots /\ 1 \in 0..NDIRECT+NINDIRECT /\ Motd \in Files
  BY FsAssumption DEF Slots
<1>3. FilesOK'
  BY <1>1, <1>2 DEF FilesInv, FilesOK, bitVars, dirVars, histVars
<1> QED
  BY <1>1, <1>3, QuietFiles

LEMMA TestCompareFiles == ASSUME FilesInv, TestHasBlock, TestCompare PROVE FilesInv'
<1> DEFINE b == ptr[Motd][0]
<1>1. /\ UNCHANGED <<used, dused, size, ptr, ind, dsize, ddirect, dind, dfar, lost, crashes>>
      /\ dirty' = dirty \cup {b} /\ synced' = synced \ {Motd}
      /\ pc = "idle" /\ pc' = "data" /\ op' = NoOp
  BY DEF TestCompare, Goto, bitVars, dirVars
<1>2. Motd \in Files /\ 0 \in Slots /\ b \in Blocks
  BY FsAssumption DEF Slots, TestHasBlock, TestCompare, FilesInv, FilesOK, Ptrs
<1> HIDE DEF b
<1>3. Exclusive' /\ BitmapExact' /\ Refs' = Refs /\ \A f \in Files : Pointers(f)' = Pointers(f)
  BY <1>1, Untouched
<1>4. FilesOK'
  BY <1>1, <1>2, NoOpType DEF FilesInv, FilesOK
<1>5. DiskBehind'
  BY <1>1, <1>3 DEF FilesInv, DiskBehind
<1>6. SyncedClean'
  <2>1. ASSUME NEW f \in synced' PROVE Clean(f)'
    <3>1. f \in Files /\ f # Motd /\ Clean(f)
      BY <1>1 DEF FilesInv, FilesOK, SyncedClean
    <3>2. b \notin Pointers(f)
      BY <1>2, <3>1 DEF FilesInv, Exclusive, Pointers, b
    <3> QED
      BY <1>1, <1>3, <3>1, <3>2 DEF Clean
  <2> QED
    BY <1>1, <2>1 DEF SyncedClean
<1> QED
  BY <1>3, <1>4, <1>5, <1>6 DEF FilesInv

LEMMA TestCompareFailsFiles == ASSUME FilesInv, TestCompareFails PROVE FilesInv'
<1>1. /\ UNCHANGED <<bitVars, size, ptr, ind, dirty, dfar, runVars, histVars>> /\ pc = "idle"
      /\ FlushDirectory \/ UNCHANGED dirVars
  BY DEF TestCompareFails
<1>2. CASE UNCHANGED dirVars
  BY <1>1, <1>2, UnchangedFiles DEF fileVars, memVars
<1>3. CASE FlushDirectory
  <2>1. Exclusive' /\ BitmapExact' /\ Refs' = Refs /\ \A f \in Files : Pointers(f)' = Pointers(f)
    BY <1>1, Untouched DEF bitVars, histVars
  <2>2. FilesOK'
    BY <1>1, <1>3, DirectoryType DEF FilesInv, FilesOK, bitVars, runVars, histVars
  <2>3. DiskBehind'
    BY <1>1, <1>3, <2>1, DirectoryBehind DEF bitVars, runVars
  <2>4. SyncedClean'
    <3>1. ASSUME NEW g \in synced PROVE Clean(g)'
      BY <1>1, <1>3, <2>1, DirectoryClean DEF FilesInv, FilesOK, SyncedClean
    <3> QED
      BY <1>1, <3>1 DEF SyncedClean, runVars, histVars
  <2> QED
    BY <2>1, <2>2, <2>3, <2>4 DEF FilesInv
<1> QED
  BY <1>1, <1>2, <1>3

LEMMA StartFiles == ASSUME FilesInv, StartInv, Start PROVE FilesInv'
<1>1. 0 \in Slots /\ 1 \in 1..NDIRECT+NINDIRECT /\ Motd \in Files
  BY FsAssumption DEF Slots
<1>2. CASE \/ \E again \in BOOLEAN : Smash(again) \/ Restore(again)
           \/ CheckSuper \/ TestAllocFails
  BY <1>2, UnchangedFiles DEF Smash, Restore, CheckSuper, TestAllocFails
<1>3. CASE TestAlloc \/ TestGet \/ TestCompare \/ TestCompareFails
  BY <1>3, TestAllocFiles, TestGetFiles, TestCompareFiles, TestCompareFailsFiles DEF StartInv
<1>4. CASE TestTruncate \/ TestExtend \/ TestFlush
  BY <1>1, <1>4, TruncateFiles, WriteFiles, FlushFiles DEF TestTruncate, TestExtend, TestFlush
<1> QED
  BY <1>2, <1>3, <1>4 DEF Start

(* The stop of the machine.  What is read from the disk afterwards is what *)
(* the disk was safe with before.                                          *)
LEMMA CrashFiles == ASSUME FilesInv, Crash PROVE FilesInv'
<1>1. /\ size' = dsize /\ ind' = dind /\ dirty' = {} /\ used' = dused /\ lost' = dused \ DiskRefs
      /\ ptr' = [f \in Files |-> [s \in Slots |-> DiskPtr(f, s)]]
      /\ UNCHANGED <<dused, dsize, ddirect, dind, dfar, synced>> /\ pc' = "idle" /\ op' = NoOp
      /\ crashes \in 0..MaxCrashes /\ crashes' = crashes + 1 /\ crashes' \in 0..MaxCrashes
  BY FsAssumption DEF Crash, Return, dirVars, FilesInv, FilesOK
<1>2. \A f \in Files, s \in Slots : ptr'[f][s] = DiskPtr(f, s) /\ DiskPtr(f, s) \in Ptrs
  BY <1>1, SlotKinds DEF DiskPtr, FilesInv, FilesOK, Ptrs, Nil, Blocks, Far
<1>3. FilesOK'
  <2>1. ptr' \in [Files -> [Slots -> Ptrs]]
    BY <1>1, <1>2
  <2> QED
    BY <1>1, <2>1, NoOpType DEF FilesInv, FilesOK
<1>4. DiskSafe
  BY SafeDisk
<1>5. Exclusive'
  BY <1>1, <1>2, <1>4 DEF DiskSafe, Exclusive
<1>6. Refs' = DiskRefs \ {Nil}
  BY <1>1, <1>2, InRefs DEF DiskRefs
<1>7. DiskRefs \ {Nil} \subseteq used' /\ used' = dused /\ dused' = dused
  BY <1>1, <1>4 DEF DiskSafe
<1>8. BitmapExact'
  <2>1. Nil \notin used'
    BY <1>1 DEF Blocks, Nil, FilesInv, FilesOK
  <2> QED
    BY <1>1, <1>6, <1>7, <2>1 DEF BitmapExact
<1>9. DiskBehind'
  BY <1>1, <1>2, <1>6, <1>7, SlotKinds DEF DiskBehind, DiskPtr, Far
<1>10. SyncedClean'
  <2>1. ASSUME NEW f \in synced PROVE Clean(f)'
    BY <1>1, <1>2, <2>1, SlotKinds DEF Clean, DiskPtr, Far, FilesInv, FilesOK
  <2> QED
    BY <1>1, <2>1 DEF SyncedClean
<1> QED
  BY <1>3, <1>5, <1>8, <1>9, <1>10 DEF FilesInv

-----------------------------------------------------------------------------
LEMMA NextFiles == ASSUME FilesInv, StartInv, [Next]_vars PROVE FilesInv'
<1>1. CASE UNCHANGED vars
  BY <1>1, StutterFiles
<1>2. CASE Request
  BY <1>2, WriteFiles, ReadFiles, TruncateFiles, FlushFiles, CreateFiles, SyncFiles DEF Request
<1>3. CASE Work
  BY <1>3, GetIndirectFiles, FlushClearedFiles, GetBlockFiles, HaveBlockFiles, FlushDataFiles,
     FlushFileFiles, FlushEndFiles, SyncBlockFiles, SyncEndFiles DEF Work
<1> QED
  BY <1>1, <1>2, <1>3, NoDiskFiles, StartFiles, CrashFiles DEF Next

(* How far the start has come. *)
LEMMA InitStart == Init => StartInv
BY DEF Init, StartInv, StartOK, Good, Smashed, SuperExact, TestHasBlock

LEMMA WorkStart == ASSUME FilesInv, StartInv, Work, UNCHANGED startVars PROVE StartInv'
<1>1. UNCHANGED <<dsuper, phase, backup, oops>> /\ pc # "idle"
  BY DEF Work, GetIndirect, FlushCleared, GetBlock, HaveBlock, FlushData, FlushFile, FlushEnd,
         SyncBlock, SyncEnd, startVars, histVars
<1>2. StartOK' /\ SuperExact'
  BY <1>1 DEF StartInv, StartOK, Good, Smashed, SuperExact
<1>3. ASSUME phase = "compare"
      PROVE  \/ pc' = "idle" /\ ptr'[Motd][0] # Nil
             \/ pc' = "block" /\ op' = [f |-> Motd, i |-> 0, to |-> 1, writes |-> FALSE]
  <2>1. pc = "block" /\ op = [f |-> Motd, i |-> 0, to |-> 1, writes |-> FALSE]
    BY <1>1, <1>3 DEF StartInv, TestHasBlock
  <2>2. 0 \in Slots /\ 0 \notin Far /\ Motd \in Files
    BY FsAssumption DEF Slots, Far, Direct
  <2>3. ASSUME NEW b, Move(b) PROVE pc' = "idle"
    BY <2>1, <2>3 DEF Move, Return
  <2>4. CASE GetBlock
    <3>1. FirstFree # Nil
      BY <2>4, FirstIsFree DEF GetBlock, AllocBlock, FilesInv, Blocks, Nil
    <3> QED
      BY <2>1, <2>2, <2>3, <2>4, <3>1 DEF GetBlock, FilesInv, FilesOK
  <2>5. CASE HaveBlock
    BY <2>1, <2>3, <2>5 DEF HaveBlock, Pointed
  <2> QED
    BY <2>1, <2>2, <2>4, <2>5 DEF Work, GetIndirect, NeedsIndirect, FlushCleared, FlushData, FlushFile,
       FlushEnd, SyncBlock, SyncEnd
<1> QED
  BY <1>1, <1>2, <1>3 DEF StartInv, TestHasBlock

LEMMA StartStart == ASSUME StartInv, Start PROVE StartInv'
<1> USE DEF StartInv, StartOK, Good, Smashed, SuperExact, TestHasBlock, Reach
<1>1. CASE Smash(TRUE)
  BY <1>1 DEF Smash, runVars, histVars
<1>2. CASE Smash(FALSE)
  BY <1>2 DEF Smash, runVars, histVars
<1>3. CASE Restore(TRUE)
  BY <1>3 DEF Restore, runVars, histVars
<1>4. CASE Restore(FALSE)
  BY <1>4 DEF Restore, runVars, histVars
<1>5. CASE CheckSuper
  BY <1>5 DEF CheckSuper, runVars, histVars
<1>6. CASE TestAlloc
  BY <1>6 DEF TestAlloc, runVars
<1>7. CASE TestAllocFails
  BY <1>7 DEF TestAllocFails, runVars, histVars
<1>8. CASE TestGet
  BY <1>8 DEF TestGet, Begin, Goto, histVars
<1>9. CASE TestCompare
  BY <1>9 DEF TestCompare, Goto
<1>10. CASE TestCompareFails
  BY <1>10 DEF TestCompareFails, runVars, histVars
<1>11. CASE TestTruncate
  BY <1>11 DEF TestTruncate, Truncate, runVars
<1>12. CASE TestExtend
  BY <1>12 DEF TestExtend, Write, Begin, Goto
<1>13. CASE TestFlush
  BY <1>13 DEF TestFlush, Flush, Begin, Goto, histVars
<1> QED
  BY <1>1, <1>2, <1>3, <1>4, <1>5, <1>6, <1>7, <1>8, <1>9, <1>10, <1>11, <1>12, <1>13 DEF Start

LEMMA NextStart == ASSUME FilesInv, StartInv, [Next]_vars PROVE StartInv'
<1>1. CASE UNCHANGED vars
  BY <1>1 DEF vars, memVars, startVars, runVars, histVars, StartInv, StartOK, Good, Smashed, SuperExact, TestHasBlock
<1>2. CASE Request /\ UNCHANGED startVars
  <2>1. oops' = oops /\ phase = "serve" /\ UNCHANGED <<dsuper, phase, backup>>
    BY <1>2 DEF Request, Write, Read, Truncate, Flush, Create, Sync, startVars, histVars
  <2> QED
    BY <2>1 DEF StartInv, StartOK, Good, Smashed, SuperExact, TestHasBlock
<1>3. CASE NoDisk
  BY <1>3 DEF NoDisk, Return, StartInv, StartOK, Good, Smashed, SuperExact, TestHasBlock, histVars
<1>4. CASE Crash
  BY <1>4 DEF Crash, Reach, Return, StartInv, StartOK, Good, Smashed, SuperExact, TestHasBlock
<1> QED
  BY <1>1, <1>2, <1>3, <1>4, WorkStart, StartStart DEF Next

(* In memory every block has one owner and the bitmap is exact, and the    *)
(* disk is behind in an order that is safe; the super block on the disk is *)
(* bad only where check_bc() has smashed it, and then no request is        *)
(* served: however many files and stops, at whatever point of the start.   *)
THEOREM Invariance == Spec => []IInv
BY InitFiles, InitStart, NextFiles, NextStart, PTL DEF Spec, IInv

(* Whenever the machine stops, no block on the disk belongs to two places, *)
(* and none that belongs to one is marked free.                            *)
THEOREM DiskIsSafe == Spec => []DiskSafe
BY Invariance, SafeDisk, PTL DEF IInv

(* Only a stop counts a stop. *)
LEMMA OnlyCrash == ASSUME [Next]_vars, crashes' # crashes PROVE Crash
<1>1. ~Request
  BY DEF Request, Write, Read, Truncate, Flush, Create, Sync, histVars
<1>2. ~Work
  BY DEF Work, GetIndirect, FlushCleared, GetBlock, HaveBlock, FlushData, FlushFile, FlushEnd,
         SyncBlock, SyncEnd, histVars
<1>3. ~Start
  BY DEF Start, Smash, Restore, CheckSuper, TestAlloc, TestAllocFails, TestGet, TestCompare,
         TestCompareFails, TestTruncate, TestExtend, TestFlush, Truncate, Write, Flush, histVars
<1> QED
  BY <1>1, <1>2, <1>3 DEF Next, NoDisk, vars, histVars

(* What was flushed and not touched since is the same after a stop, and a  *)
(* super block that no stop has met smashed is good: wherever the start or *)
(* a request is when the machine stops.                                    *)
THEOREM FlushesSurvive == Spec => FlushedSurvives
<1>1. IInv /\ [Next]_vars =>
        [crashes' # crashes =>
            /\ \A f \in synced : /\ size'[f] = size[f] /\ ptr'[f] = ptr[f] /\ ind'[f] = ind[f]
                                 /\ dirty \cap Pointers(f) = {}
            /\ dsuper' = Good \/ oops \/ phase \in {"restore", "restore again"}]_vars
  <2> SUFFICES ASSUME IInv, [Next]_vars, crashes' # crashes
               PROVE  /\ \A f \in synced :
                            /\ size'[f] = size[f] /\ ptr'[f] = ptr[f] /\ ind'[f] = ind[f]
                            /\ dirty \cap Pointers(f) = {}
                      /\ dsuper' = Good \/ oops \/ phase \in {"restore", "restore again"}
    OBVIOUS
  <2>1. Crash
    BY OnlyCrash
  <2>2. ASSUME NEW f \in synced
        PROVE  /\ size'[f] = size[f] /\ ptr'[f] = ptr[f] /\ ind'[f] = ind[f]
               /\ dirty \cap Pointers(f) = {}
    <3>1. f \in Files /\ Clean(f)
      BY DEF IInv, FilesInv, FilesOK, SyncedClean
    <3>2. /\ size' = dsize /\ ind' = dind
          /\ ptr' = [g \in Files |-> [s \in Slots |-> DiskPtr(g, s)]]
      BY <2>1 DEF Crash
    <3>3. ASSUME NEW s \in Slots PROVE DiskPtr(f, s) = ptr[f][s]
      BY <3>1, SlotKinds DEF Clean, DiskPtr, Far, IInv, FilesInv, DiskBehind
    <3>4. ptr'[f] = ptr[f]
      <4>1. ptr[f] = [s \in Slots |-> ptr[f][s]]
        BY <3>1 DEF IInv, FilesInv, FilesOK
      <4> QED
        BY <3>1, <3>2, <3>3, <4>1
    <3> QED
      BY <3>1, <3>2, <3>4 DEF Clean
  <2>3. dsuper' = Good \/ oops \/ phase \in {"restore", "restore again"}
    BY <2>1 DEF Crash, IInv, StartInv, StartOK, Good, Smashed, SuperExact
  <2> QED
    BY <2>2, <2>3
<1> QED
  BY <1>1, Invariance, PTL DEF Spec, FlushedSurvives

-----------------------------------------------------------------------------
(* The blocks of a directory, and a block whose entries have no pointers. *)
In(r)    == {r[i] : i \in DOMAIN r} \ {Dir!Nil}
NoPointers(t) == \A j \in Dir!Slots : t[j].ptr = Dir!Nil

(* A directory has a block once, and a hole at its end only. *)
Shape(r) == /\ \A i, j \in DOMAIN r : r[i] # Dir!Nil /\ r[i] = r[j] => i = j
            /\ \A i \in DOMAIN r : r[i] = Dir!Nil => i = Len(r)

(* The blocks S of a directory, when blocks hold m and those of u are      *)
(* marked: no two entries have the same pointer, none has a block of the   *)
(* directory, and a free block that was never a file's is empty.           *)
Owned(S, m, u, d) ==
    /\ S \subseteq u
    /\ \A b \in S, j \in Dir!Slots : m[b][j].ptr # Dir!Nil =>
          /\ m[b][j].ptr \in (u \cap d) \ S
          /\ \A c \in S, k \in Dir!Slots : m[c][k].ptr = m[b][j].ptr => b = c /\ j = k
    /\ \A b \in Dir!Blocks \ u : b \notin d => m[b] = Dir!Zeros

(* The disk is behind memory. *)
Behind == /\ Len(droot) <= Len(root)
          /\ \A i \in DOMAIN droot : droot[i] # Dir!Nil => root[i] = droot[i]
Differs(b) == blk[b] # dblk[b]
Flushes == {writes[k] : k \in DOMAIN writes}
Pending == \A b \in Dir!Blocks : Differs(b) => b \in Flushes /\ b \in marked
OneDiffers == \A b, c \in In(root) : Differs(b) /\ Differs(c) => b = c

(* The order of the writes. *)
SuperLast == \A k \in DOMAIN writes : writes[k] = Dir!Super =>
    k = Len(writes) \/ (k = 1 /\ dblk = blk)
BitmapFirst ==
    /\ marked \subseteq dmarked \/ (writes # << >> /\ writes[1] = Dir!Bitmap)
    /\ \A k \in DOMAIN writes : writes[k] = Dir!Bitmap => k = 1 \/ (k = 2 /\ writes[1] = Dir!Super)
    /\ Dir!Bitmap \in Flushes => \A b \in In(droot), j \in Dir!Slots : dblk[b][j].ptr \in marked \cup {Dir!Nil}

(* Names. *)
Kept == \A b \in In(droot), j \in Dir!Slots :
    dblk[b][j].name # Dir!NoName => blk[b][j].name = dblk[b][j].name
SavedAt(n, b, j) ==
    /\ b \in In(root) /\ blk[b][j].name = n
    /\ b \in In(droot) \/ Dir!Super \in Flushes
    /\ dblk[b][j].name = n \/ b \in Flushes
Saved == \A n \in made : \E b \in Dir!Blocks, j \in Dir!Slots : SavedAt(n, b, j)
Known == known \subseteq made \cap Dir!NamesOn(droot, dblk)
Distinct(S, m) == \A b, c \in S, j, k \in Dir!Slots :
    m[b][j].name # Dir!NoName /\ m[b][j].name = m[c][k].name => b = c /\ j = k
Calls(S, m, names) == \A b \in S, j \in Dir!Slots : m[b][j].name \in names \cup {Dir!NoName}
Once  == ~stale => Distinct(In(root), blk)
Asked == ~stale => Calls(In(root), blk, made)

Requests == [n : Names \cup {Dir!NoName}, creat : BOOLEAN, trunc : BOOLEAN]

Types ==
    /\ Dir!TypeOK
    /\ writes \in Seq(1..DIRBLOCKS-1)
    /\ at \in {"idle", "lookup", "open"} /\ request \in Requests
    /\ at # "idle" => request.n \in Names
    /\ at = "open" => request.n \in Dir!NamesOn(root, blk)

Blockwise ==
    /\ Owned(In(root), blk, marked, data) /\ Owned(In(droot), dblk, dmarked, data)
    /\ Pending /\ OneDiffers

DInv ==
    /\ Types /\ Shape(root) /\ Shape(droot) /\ Behind
    /\ Blockwise /\ SuperLast /\ BitmapFirst
    /\ Kept /\ Saved /\ Known /\ Once /\ Asked

(* All this until the directory gets a block with a pointer, which a block *)
(* that was never a file's has not got.                                    *)
TInv == Types /\ (~foreign => DInv) /\ (foreign => stale)

LEMMA Numbers ==
    /\ DIRBLOCKS \in Nat /\ DIRBLOCKS > 4 /\ Dir!Blocks \subseteq Nat /\ Dir!Blocks \subseteq 1..DIRBLOCKS-1
    /\ Dir!Nil \notin Dir!Blocks /\ Dir!Super \notin Dir!Blocks /\ Dir!Bitmap \notin Dir!Blocks /\ Dir!Super # Dir!Bitmap /\ Dir!Nil # Dir!Super /\ Dir!Nil # Dir!Bitmap
    /\ {Dir!Super, Dir!Bitmap} \subseteq 1..DIRBLOCKS-1 /\ Dir!Slots \subseteq Nat /\ 1 \in Dir!Slots /\ MaxStops \in Nat
    /\ Dir!NoName \notin Names /\ Texts \subseteq [Dir!Slots -> Dir!Entry] /\ Dir!Empty \in Dir!Entry /\ Dir!Zeros \in [Dir!Slots -> Dir!Entry]
    /\ Newmotd \in Names /\ Missing \in Names /\ Message # Dir!NoName /\ {3, 4} \subseteq Dir!Blocks
<1>1. /\ DIRBLOCKS \in Nat /\ DIRBLOCKS > 4 /\ BLKFILES \in Nat \ {0} /\ MaxStops \in Nat
      /\ Dir!NoName \notin Names /\ Texts \subseteq [Dir!Slots -> Dir!Entry]
      /\ Newmotd \in Names /\ Missing \in Names /\ Message # Dir!NoName
  BY DirectoryAssumption DEF Dir!DirectoryAssumption
<1>2. Dir!Empty \in Dir!Entry
  BY DEF Dir!Empty, Dir!Entry
<1>3. Dir!Zeros \in [Dir!Slots -> Dir!Entry]
  BY <1>2 DEF Dir!Zeros
<1> QED
  BY <1>1, <1>2, <1>3 DEF Dir!Blocks, Dir!Super, Dir!Bitmap, Dir!Nil, Dir!Slots

(* alloc_block() takes a block that is free. *)
LEMMA FirstFreeIs ==
    ASSUME Dir!FreeBlocks # {}
    PROVE  Dir!FirstFree \in Dir!Blocks /\ Dir!FirstFree \notin marked
<1>1. Dir!FreeBlocks \subseteq Nat
  BY Numbers DEF Dir!FreeBlocks
<1>2. \E x \in Dir!FreeBlocks : \A y \in Dir!FreeBlocks : x <= y
  BY <1>1, Least
<1>3. Dir!Min(Dir!FreeBlocks) \in Dir!FreeBlocks
  BY ONLY <1>2 DEF Dir!Min
<1> QED
  BY <1>3 DEF Dir!FirstFree, Dir!FreeBlocks

(* A record of the table has a name and a pointer. *)
LEMMA Entries ==
    /\ \A e \in Dir!Entry : e.name \in Names \cup {Dir!NoName, Message} /\ e.ptr \in Dir!Blocks \cup {Dir!Nil}
    /\ \A e \in Dir!Entry, n \in Names : [e EXCEPT !.name = n] \in Dir!Entry
                                     /\ [e EXCEPT !.name = n].name = n /\ [e EXCEPT !.name = n].ptr = e.ptr
    /\ \A e \in Dir!Entry, b \in Dir!Blocks \cup {Dir!Nil} : [e EXCEPT !.ptr = b] \in Dir!Entry
                                     /\ [e EXCEPT !.ptr = b].ptr = b /\ [e EXCEPT !.ptr = b].name = e.name
    /\ \A e \in Dir!Entry : [e EXCEPT !.name = Message] \in Dir!Entry
BY DEF Dir!Entry

LEMMA Typed ==
    ASSUME Types
    PROVE  /\ root \in Seq(Dir!Blocks \cup {Dir!Nil}) /\ droot \in Seq(Dir!Blocks \cup {Dir!Nil})
           /\ blk \in [Dir!Blocks -> [Dir!Slots -> Dir!Entry]] /\ dblk \in [Dir!Blocks -> [Dir!Slots -> Dir!Entry]]
           /\ marked \subseteq Dir!Blocks /\ dmarked \subseteq Dir!Blocks /\ data \subseteq Dir!Blocks
           /\ made \subseteq Names /\ known \subseteq Names /\ stale \in BOOLEAN /\ foreign \in BOOLEAN
           /\ writes \in Seq(1..DIRBLOCKS-1) /\ stops \in 0..MaxStops
           /\ In(root) \subseteq Dir!Blocks /\ In(droot) \subseteq Dir!Blocks
           /\ Len(root) \in Nat /\ DOMAIN root = 1..Len(root)
           /\ Len(droot) \in Nat /\ DOMAIN droot = 1..Len(droot)
           /\ Len(writes) \in Nat /\ DOMAIN writes = 1..Len(writes)
<1>1. root \in Seq(Dir!Blocks \cup {Dir!Nil}) /\ droot \in Seq(Dir!Blocks \cup {Dir!Nil})
  BY DEF Types, Dir!TypeOK
<1>2. /\ blk \in [Dir!Blocks -> [Dir!Slots -> Dir!Entry]] /\ dblk \in [Dir!Blocks -> [Dir!Slots -> Dir!Entry]]
      /\ marked \subseteq Dir!Blocks /\ dmarked \subseteq Dir!Blocks /\ data \subseteq Dir!Blocks
      /\ made \subseteq Names /\ known \subseteq Names /\ stale \in BOOLEAN /\ foreign \in BOOLEAN
      /\ writes \in Seq(1..DIRBLOCKS-1) /\ stops \in 0..MaxStops
  BY DEF Types, Dir!TypeOK
<1> QED
  BY <1>1, <1>2 DEF In

(* The entries of a block of the directory are those of its places. *)
LEMMA PlaceIs ==
    ASSUME Types, NEW p \in Dir!Places
    PROVE  /\ root[p[1]] \in In(root) /\ root[p[1]] \in Dir!Blocks /\ p[2] \in Dir!Slots /\ p[1] \in DOMAIN root
           /\ Dir!At(p) = blk[root[p[1]]][p[2]] /\ Dir!At(p) \in Dir!Entry
<1>1. p[1] \in DOMAIN root /\ p[2] \in Dir!Slots /\ root[p[1]] # Dir!Nil
  BY DEF Dir!Places
<1>2. root[p[1]] \in In(root) /\ root[p[1]] \in Dir!Blocks
  BY <1>1, Typed DEF In
<1> QED
  BY <1>1, <1>2, Typed DEF Dir!At

LEMMA InNames ==
    ASSUME NEW r, NEW m, NEW n
    PROVE  n \in Dir!NamesOn(r, m) <=> \E b \in In(r), j \in Dir!Slots : m[b][j].name = n
BY DEF Dir!NamesOn, In

LEMMA NamedIs ==
    ASSUME Types, NEW n
    PROVE  /\ \A p \in Dir!Named(n) : p \in Dir!Places /\ blk[root[p[1]]][p[2]].name = n
           /\ Dir!Named(n) = {} <=> n \notin Dir!NamesOn(root, blk)
<1>1. \A p \in Dir!Named(n) : p \in Dir!Places /\ blk[root[p[1]]][p[2]].name = n
  BY DEF Dir!Named, Dir!At
<1>2. ASSUME NEW p \in Dir!Named(n) PROVE n \in Dir!NamesOn(root, blk)
  BY <1>1, PlaceIs, InNames
<1>3. ASSUME n \in Dir!NamesOn(root, blk) PROVE Dir!Named(n) # {}
  <2>1. PICK b \in In(root), j \in Dir!Slots : blk[b][j].name = n
    BY <1>3, InNames
  <2>2. PICK i \in DOMAIN root : root[i] = b /\ b # Dir!Nil
    BY <2>1 DEF In
  <2>3. <<i, j>> \in Dir!Named(n)
    BY <2>1, <2>2 DEF Dir!Named, Dir!Places, Dir!At
  <2> QED
    BY <2>3
<1> QED
  BY <1>1, <1>2, <1>3

(* The place that is looked at first is one of them. *)
LEMMA FirstOfIs ==
    ASSUME Types, NEW S, S \subseteq Dir!Places, S # {}
    PROVE  Dir!FirstOf(S) \in S
<1>1. \A p \in S : p[1] \in Nat /\ p[2] \in Nat
  <2>1. DOMAIN root \subseteq Nat /\ Dir!Slots \subseteq Nat
    BY Typed, Numbers
  <2>2. \A p \in S : p[1] \in DOMAIN root /\ p[2] \in Dir!Slots
    BY PlaceIs
  <2> QED
    BY ONLY <2>1, <2>2
<1> DEFINE I == {p[1] : p \in S}
<1>2. PICK i \in I : \A x \in I : i <= x
  <2>1. I \subseteq Nat /\ I # {}
    BY <1>1
  <2> QED
    BY <2>1, Least
<1> DEFINE J == {p[2] : p \in {q \in S : q[1] = i}}
<1>3. PICK j \in J : \A x \in J : j <= x
  <2>1. J \subseteq Nat /\ J # {}
    BY <1>1, <1>2
  <2> QED
    BY <2>1, Least
<1>4. PICK p \in S : p[1] = i /\ p[2] = j
  BY <1>3
<1>5. ASSUME NEW q \in S PROVE Dir!Earlier(p, q)
  <2>1. i <= q[1] /\ (q[1] = i => j <= q[2])
    BY <1>2, <1>3
  <2> QED
    BY <2>1, <1>1, <1>4 DEF Dir!Earlier
<1>6. \E x \in S : \A q \in S : Dir!Earlier(x, q)
  BY <1>4, <1>5
<1> QED
  BY ONLY <1>6 DEF Dir!FirstOf

LEMMA BehindIs ==
    ASSUME DInv
    PROVE  In(droot) \subseteq In(root)
<1>1. Types /\ Behind
  BY DEF DInv
<1>2. DOMAIN droot \subseteq DOMAIN root
  BY <1>1, Typed DEF Behind
<1>3. ASSUME NEW b \in In(droot) PROVE b \in In(root)
  <2>1. PICK i \in DOMAIN droot : droot[i] = b /\ b # Dir!Nil
    BY DEF In
  <2>2. root[i] = b /\ i \in DOMAIN root
    BY <1>1, <1>2, <2>1 DEF Behind
  <2> QED
    BY <2>1, <2>2 DEF In
<1> QED
  BY <1>3

LEMMA InitDInv == Dir!Init => DInv
<1> SUFFICES ASSUME Dir!Init PROVE DInv
  OBVIOUS
<1> DEFINE entry == [name |-> Newmotd, ptr |-> 4]
<1>1. /\ root = <<3>> /\ marked = {3, 4}
      /\ blk = [b \in Dir!Blocks |-> IF b = 3 THEN [Dir!Zeros EXCEPT ![1] = entry]
                                   ELSE IF b = 4 THEN Dir!MessageIn(Dir!Zeros) ELSE Dir!Zeros]
      /\ droot = <<3>> /\ dblk = blk /\ dmarked = {3, 4}
      /\ writes = << >> /\ point = "smash" /\ at = "idle" /\ request = Dir!NoOp
      /\ made = {Newmotd} /\ known = {Newmotd} /\ data = {4} /\ stale = FALSE /\ foreign = FALSE /\ stops = 0
  BY DEF Dir!Init
<1>2. entry \in Dir!Entry /\ entry.name = Newmotd /\ entry.ptr = 4
  BY Numbers DEF Dir!Entry
<1> HIDE DEF entry
<1>3. Dir!MessageIn(Dir!Zeros) \in [Dir!Slots -> Dir!Entry]
  <2>1. [Dir!Zeros[1] EXCEPT !.name = Message] \in Dir!Entry
    BY Numbers, Entries
  <2> QED
    BY <2>1, Numbers DEF Dir!MessageIn
<1>4. /\ blk \in [Dir!Blocks -> [Dir!Slots -> Dir!Entry]]
      /\ \A b \in Dir!Blocks \ {3, 4} : blk[b] = Dir!Zeros
      /\ blk[3][1] = entry /\ \A j \in Dir!Slots \ {1} : blk[3][j] = Dir!Empty
  BY <1>1, <1>2, <1>3, Numbers DEF Dir!Zeros
<1>5. /\ In(root) = {3} /\ In(droot) = {3} /\ root \in Seq(Dir!Blocks \cup {Dir!Nil}) /\ writes \in Seq(1..DIRBLOCKS-1)
      /\ Dir!Nil # 3 /\ Dir!Nil # 4 /\ DOMAIN root = {1} /\ Len(root) = 1
  BY <1>1, Numbers DEF In
<1>6. Types
  <2>1. {root, droot} \subseteq Seq(Dir!Blocks \cup {Dir!Nil}) /\ {blk, dblk} \subseteq [Dir!Blocks -> [Dir!Slots -> Dir!Entry]]
    BY <1>1, <1>4, <1>5
  <2>2. stops \in 0..MaxStops
    BY <1>1, Numbers
  <2>3. Dir!TypeOK
    BY <1>1, <2>1, <2>2, Numbers DEF Dir!TypeOK, Dir!Phases
  <2> QED
    BY <1>1, <1>5, <2>3 DEF Types, Requests, Dir!NoOp
<1>7. Shape(root) /\ Shape(droot) /\ Behind
  BY <1>1, <1>5 DEF Shape, Behind
<1>8. Blockwise
  <2>1. \A j \in Dir!Slots : blk[3][j].ptr # Dir!Nil => j = 1 /\ blk[3][j].ptr = 4
    BY <1>2, <1>4 DEF Dir!Empty
  <2>2. Owned({3}, blk, {3, 4}, {4})
    BY <1>4, <2>1 DEF Owned
  <2> QED
    BY <1>1, <1>5, <2>2 DEF Blockwise, Pending, OneDiffers, Differs
<1>9. SuperLast /\ BitmapFirst
  BY <1>1 DEF SuperLast, BitmapFirst, Flushes
<1>10. Kept /\ Saved /\ Known
  <2>1. blk[3][1].name = Newmotd /\ 1 \in Dir!Slots /\ 3 \in Dir!Blocks
    BY <1>2, <1>4, Numbers
  <2>2. SavedAt(Newmotd, 3, 1)
    BY <1>1, <1>5, <2>1 DEF SavedAt
  <2>3. Newmotd \in Dir!NamesOn(droot, dblk)
    BY <1>1, <1>5, <2>1, InNames
  <2> QED
    BY <1>1, <2>1, <2>2, <2>3 DEF Kept, Saved, Known
<1>11. Once /\ Asked
  <2>1. \A j \in Dir!Slots : blk[3][j].name # Dir!NoName => j = 1 /\ blk[3][j].name = Newmotd
    BY <1>2, <1>4 DEF Dir!Empty
  <2>2. Distinct({3}, blk)
    BY <2>1 DEF Distinct
  <2>3. Calls({3}, blk, {Newmotd})
    BY <2>1 DEF Calls
  <2> QED
    BY <1>1, <1>5, <2>2, <2>3 DEF Once, Asked
<1> QED
  BY <1>6, <1>7, <1>8, <1>9, <1>10, <1>11 DEF DInv

-----------------------------------------------------------------------------
(* Steps *)

(* A step that changes neither memory nor the disk. *)
Looks ==
    /\ UNCHANGED <<Dir!memVars, Dir!diskVars, writes, Dir!histVars>>
    /\ point' \in Dir!Phases /\ at' \in {"idle", "lookup", "open"} /\ request' \in Requests
    /\ at' # "idle" => request'.n \in Names
    /\ at' = "open" => request'.n \in Dir!NamesOn(root, blk)

LEMMA QuietTypes ==
    ASSUME Types, Looks
    PROVE  Types'
BY DEF Looks, Types, Dir!TypeOK, Dir!memVars, Dir!diskVars, Dir!histVars, Dir!NamesOn

LEMMA Quiet ==
    ASSUME DInv, UNCHANGED <<Dir!memVars, Dir!diskVars, writes, Dir!histVars>>, Types'
    PROVE  DInv'
<1> USE DEF Dir!memVars, Dir!diskVars, Dir!histVars
<1>1. /\ root' = root /\ blk' = blk /\ marked' = marked /\ droot' = droot /\ dblk' = dblk /\ dmarked' = dmarked
      /\ writes' = writes /\ made' = made /\ known' = known /\ data' = data /\ stale' = stale /\ stops' = stops
  OBVIOUS
<1>3. Shape(root)' /\ Shape(droot)' /\ Behind'
  BY <1>1 DEF DInv, Shape, Behind
<1>4. Blockwise'
  BY <1>1 DEF DInv, Blockwise, Owned, In, Pending, OneDiffers, Differs, Flushes
<1>5. SuperLast' /\ BitmapFirst'
  BY <1>1 DEF DInv, SuperLast, BitmapFirst, Flushes, In
<1>6. Kept' /\ Saved' /\ Known' /\ Once' /\ Asked'
  BY <1>1 DEF DInv, Kept, Saved, SavedAt, Known, Once, Asked, Distinct, Calls, In, Dir!NamesOn, Flushes
<1> QED
  BY <1>3, <1>4, <1>5, <1>6 DEF DInv

(* What holds whenever the server is not flushing. *)
LEMMA ReadyIs ==
    ASSUME DInv, writes = << >>
    PROVE  /\ blk = dblk /\ marked \subseteq dmarked /\ Flushes = {} /\ In(droot) \subseteq In(root)
           /\ \A n \in made : \E b \in In(droot), j \in Dir!Slots : blk[b][j].name = n
<1>1. Flushes = {}
  BY DEF Flushes
<1>2. blk = dblk
  <2>1. \A b \in Dir!Blocks : blk[b] = dblk[b]
    BY <1>1 DEF DInv, Blockwise, Pending, Differs
  <2>2. blk \in [Dir!Blocks -> [Dir!Slots -> Dir!Entry]] /\ dblk \in [Dir!Blocks -> [Dir!Slots -> Dir!Entry]]
    BY Typed DEF DInv
  <2> QED
    BY <2>1, <2>2
<1>3. marked \subseteq dmarked
  BY DEF DInv, BitmapFirst
<1>4. In(droot) \subseteq In(root)
  BY BehindIs
<1>5. ASSUME NEW n \in made PROVE \E b \in In(droot), j \in Dir!Slots : blk[b][j].name = n
  <2>1. PICK b \in Dir!Blocks, j \in Dir!Slots : SavedAt(n, b, j)
    BY DEF DInv, Saved
  <2>2. b \in In(droot) /\ blk[b][j].name = n
    BY <2>1, <1>1, <1>2 DEF SavedAt
  <2> QED
    BY <2>2
<1> QED
  BY <1>1, <1>2, <1>3, <1>4, <1>5

(* Fewer blocks of the directory, more marked blocks. *)
LEMMA OwnedMono ==
    ASSUME NEW S, NEW S2, S2 \subseteq S, NEW m, NEW u, NEW u2, u \subseteq u2,
           NEW d, NEW d2, d \subseteq d2, Owned(S, m, u, d)
    PROVE  Owned(S2, m, u2, d2)
<1>1. S2 \subseteq u2
  BY DEF Owned
<1>2. ASSUME NEW b \in S2, NEW j \in Dir!Slots, m[b][j].ptr # Dir!Nil
      PROVE  /\ m[b][j].ptr \in (u2 \cap d2) \ S2
             /\ \A c \in S2, k \in Dir!Slots : m[c][k].ptr = m[b][j].ptr => b = c /\ j = k
  BY <1>2 DEF Owned
<1>3. \A b \in Dir!Blocks \ u2 : b \notin d2 => m[b] = Dir!Zeros
  BY DEF Owned
<1> QED
  BY <1>1, <1>2, <1>3 DEF Owned

(* Names that are made stay saved while a request is served. *)
LEMMA StillSaved ==
    ASSUME DInv, writes = << >>, UNCHANGED Dir!diskVars, In(root) \subseteq In(root)',
           \A b \in In(root), j \in Dir!Slots : blk[b][j].name # Dir!NoName => blk'[b][j].name = blk[b][j].name
    PROVE  /\ \A n \in made : \E b \in Dir!Blocks, j \in Dir!Slots : SavedAt(n, b, j)'
           /\ Kept'
<1>1. /\ droot' = droot /\ dblk' = dblk
  BY DEF Dir!diskVars
<1>2. In(droot)' = In(droot)
  BY <1>1 DEF In
<1>3. ASSUME NEW n \in made PROVE \E b \in Dir!Blocks, j \in Dir!Slots : SavedAt(n, b, j)'
  <2>1. PICK b \in In(droot), j \in Dir!Slots : blk[b][j].name = n
    BY ReadyIs
  <2>2. n # Dir!NoName /\ b \in In(root) /\ b \in Dir!Blocks
    BY Numbers, Typed, ReadyIs DEF DInv
  <2>3. blk'[b][j].name = n /\ dblk'[b][j].name = n /\ b \in In(root)' /\ b \in In(droot)'
    BY <1>1, <1>2, <2>1, <2>2, ReadyIs
  <2>4. SavedAt(n, b, j)'
    BY <2>3 DEF SavedAt
  <2> QED
    BY <2>2, <2>4
<1>4. Kept'
  BY <1>1, <1>2, ReadyIs DEF Kept
<1> QED
  BY <1>3, <1>4

(* The entries that point to blocks on the disk, when it is about to get the bitmap. *)
LEMMA Marked ==
    ASSUME DInv, writes = << >>, UNCHANGED Dir!diskVars, marked \subseteq marked'
    PROVE  (\A b \in In(droot), j \in Dir!Slots : dblk[b][j].ptr \in marked \cup {Dir!Nil})'
<1>1. /\ droot' = droot /\ dblk' = dblk /\ In(droot)' = In(droot)
  BY DEF Dir!diskVars, In
<1>2. \A b \in In(root), j \in Dir!Slots : blk[b][j].ptr \in marked \cup {Dir!Nil}
  BY DEF DInv, Blockwise, Owned
<1> QED
  BY <1>1, <1>2, ReadyIs

(* The directory gets its block: nothing in it points anywhere. *)
LEMMA OwnedMore ==
    ASSUME DInv, Dir!FreeBlocks # {}, NEW m, \A b \in Dir!Blocks \ {Dir!FirstFree} : m[b] = blk[b], NoPointers(m[Dir!FirstFree])
    PROVE  Owned(In(root) \cup {Dir!FirstFree}, m, marked \cup {Dir!FirstFree}, data)
<1>1. Dir!FirstFree \in Dir!Blocks /\ Dir!FirstFree \notin marked
  BY FirstFreeIs
<1>2. Owned(In(root), blk, marked, data) /\ In(root) \subseteq Dir!Blocks /\ marked \subseteq Dir!Blocks
  BY Typed DEF DInv, Blockwise
<1> DEFINE S == In(root) \cup {Dir!FirstFree}
           u == marked \cup {Dir!FirstFree}
<1>3. S \subseteq u
  BY <1>2 DEF Owned
<1>4. Dir!FirstFree \notin In(root)
  BY <1>1, <1>2 DEF Owned
<1>5. ASSUME NEW b \in S, NEW j \in Dir!Slots, m[b][j].ptr # Dir!Nil
      PROVE  /\ m[b][j].ptr \in (u \cap data) \ S
             /\ \A c \in S, k \in Dir!Slots : m[c][k].ptr = m[b][j].ptr => b = c /\ j = k
  <2>1. b # Dir!FirstFree
    BY <1>5 DEF NoPointers
  <2>2. b \in In(root) /\ m[b] = blk[b]
    BY <2>1, <1>2
  <2>3. blk[b][j].ptr \in (marked \cap data) \ In(root)
    BY <2>2, <1>2, <1>5 DEF Owned
  <2>4. m[b][j].ptr \in (u \cap data) \ S
    BY <2>2, <2>3, <1>1, <1>2
  <2>5. ASSUME NEW c \in S, NEW k \in Dir!Slots, m[c][k].ptr = m[b][j].ptr PROVE b = c /\ j = k
    <3>1. c # Dir!FirstFree
      BY <2>5, <1>5 DEF NoPointers
    <3>2. c \in In(root) /\ m[c] = blk[c]
      BY <3>1, <1>2
    <3> QED
      BY <3>2, <2>2, <2>5, <1>2, <1>5 DEF Owned
  <2> QED
    BY <2>4, <2>5
<1>6. ASSUME NEW b \in Dir!Blocks \ u PROVE b \notin data => m[b] = Dir!Zeros
  BY <1>2 DEF Owned
<1> QED
  BY <1>3, <1>5, <1>6 DEF Owned

(* A directory that has reached no hole and not found the name has not got it. *)
LEMMA AbsentIs ==
    ASSUME Types, Dir!Absent
    PROVE  /\ request.n \in Names /\ request.n \notin Dir!NamesOn(root, blk) /\ writes = << >>
           /\ \A i \in DOMAIN root : root[i] # Dir!Nil
<1>1. Dir!Hole = {} /\ Dir!Reached(request.n) = {} /\ writes = << >> /\ at = "lookup"
  BY DEF Dir!Absent, Dir!Ready
<1>2. Dir!Named(request.n) = {}
  BY <1>1 DEF Dir!Reached
<1>3. request.n \notin Dir!NamesOn(root, blk)
  BY <1>2, NamedIs
<1>4. request.n \in Names
  BY <1>1 DEF Types
<1> QED
  BY <1>1, <1>3, <1>4 DEF Dir!Hole

LEMMA GrowFailsTypes ==
    ASSUME Types, Dir!GrowFails
    PROVE  /\ Types'
           /\ root' \in Seq(Dir!Blocks \cup {Dir!Nil}) /\ Len(root') = Len(root) + 1 /\ DOMAIN root' = 1..Len(root)+1
           /\ \A i \in DOMAIN root : root'[i] = root[i]
           /\ root'[Len(root) + 1] = Dir!Nil /\ DOMAIN root = 1..Len(root) /\ Len(root) \in Nat
<1>1. /\ blk' = blk /\ marked' = marked /\ droot' = droot /\ dblk' = dblk /\ dmarked' = dmarked /\ point' = point
      /\ writes' = writes /\ made' = made /\ known' = known /\ data' = data /\ stale' = stale /\ foreign' = foreign
      /\ stops' = stops /\ at' = "idle" /\ request' = Dir!NoOp /\ root' = Append(root, Dir!Nil)
  BY DEF Dir!GrowFails, Dir!diskVars, Dir!histVars, Dir!Return, Dir!Longer
<1>2. /\ root' \in Seq(Dir!Blocks \cup {Dir!Nil}) /\ Len(root') = Len(root) + 1 /\ DOMAIN root' = 1..Len(root)+1
      /\ \A i \in DOMAIN root : root'[i] = root[i]
      /\ root'[Len(root) + 1] = Dir!Nil /\ DOMAIN root = 1..Len(root) /\ Len(root) \in Nat
  BY <1>1, Typed
<1>3. Types'
  <2>1. Dir!TypeOK'
    BY <1>1, <1>2 DEF Types, Dir!TypeOK
  <2> QED
    BY <1>1, <2>1 DEF Types, Requests, Dir!NoOp
<1> QED
  BY <1>2, <1>3

LEMMA GrowFailsStep ==
    ASSUME DInv, Dir!GrowFails
    PROVE  DInv'
<1>1. /\ blk' = blk /\ marked' = marked /\ droot' = droot /\ dblk' = dblk /\ dmarked' = dmarked
      /\ writes' = writes /\ made' = made /\ known' = known /\ data' = data /\ stale' = stale /\ Dir!Absent
  BY DEF Dir!GrowFails, Dir!diskVars, Dir!histVars
<1>2. \A i \in DOMAIN root : root[i] # Dir!Nil
  BY <1>1, AbsentIs DEF DInv
<1>3. Types
  BY DEF DInv
<1>4. /\ Types' /\ Len(root') = Len(root) + 1 /\ DOMAIN root' = 1..Len(root)+1
      /\ \A i \in DOMAIN root : root'[i] = root[i]
      /\ root'[Len(root) + 1] = Dir!Nil /\ DOMAIN root = 1..Len(root) /\ Len(root) \in Nat
  BY <1>3, GrowFailsTypes
<1>5. In(root)' = In(root) /\ In(droot)' = In(droot)
  BY <1>1, <1>4 DEF In
<1>6. Shape(root)' /\ Shape(droot)'
  <2>1. Shape(root) /\ Shape(droot)
    BY DEF DInv
  <2>2. Shape(root)'
    BY <2>1, <1>2, <1>4 DEF Shape
  <2> QED
    BY <2>1, <2>2, <1>1 DEF Shape
<1>7. Behind'
  <2>1. Behind /\ Len(droot) \in Nat /\ DOMAIN droot = 1..Len(droot)
    BY <1>3, Typed DEF DInv
  <2> QED
    BY <2>1, <1>1, <1>4 DEF Behind
<1>8. Blockwise'
  BY <1>1, <1>5 DEF DInv, Blockwise, Owned, Pending, OneDiffers, Differs, Flushes
<1>9. SuperLast' /\ BitmapFirst'
  BY <1>1, <1>5 DEF DInv, SuperLast, BitmapFirst, Flushes
<1>10. Kept' /\ Saved' /\ Known' /\ Once' /\ Asked'
  BY <1>1, <1>5 DEF DInv, Kept, Saved, SavedAt, Known, Once, Asked, Dir!NamesOn, Flushes
<1> QED
  BY <1>4, <1>6, <1>7, <1>8, <1>9, <1>10 DEF DInv

LEMMA SyncTypes ==
    ASSUME Types, Dir!Sync
    PROVE  Types'
<1>1. writes' = [b \in 1..DIRBLOCKS-1 |-> b] /\ DIRBLOCKS - 1 \in Nat
  BY Numbers DEF Dir!Sync
<1>2. writes' \in Seq(1..DIRBLOCKS-1)
  BY <1>1
<1> QED
  BY <1>2 DEF Dir!Sync, Dir!Serving, Dir!memVars, Dir!diskVars, Dir!histVars, Types, Dir!TypeOK, Dir!NamesOn

LEMMA SyncStep ==
    ASSUME DInv, Dir!Sync
    PROVE  DInv'
<1>1. /\ root' = root /\ blk' = blk /\ marked' = marked /\ droot' = droot /\ dblk' = dblk /\ dmarked' = dmarked
      /\ made' = made /\ known' = known /\ data' = data /\ stale' = stale /\ stops' = stops
      /\ writes = << >> /\ writes' = [b \in 1..DIRBLOCKS-1 |-> b]
  BY DEF Dir!Sync, Dir!Ready, Dir!memVars, Dir!diskVars, Dir!histVars
<1>2. /\ writes' \in Seq(1..DIRBLOCKS-1) /\ DOMAIN writes' = 1..DIRBLOCKS-1 /\ \A k \in DOMAIN writes' : writes'[k] = k
  <2>1. DIRBLOCKS - 1 \in Nat
    BY Numbers
  <2> QED
    BY <1>1, <2>1
<1>3. Flushes' = 1..DIRBLOCKS-1
  BY <1>2 DEF Flushes
<1>4. blk = dblk /\ marked \subseteq dmarked
  BY <1>1, ReadyIs
<1>5. In(root)' = In(root) /\ In(droot)' = In(droot)
  BY <1>1 DEF In
<1>6. Types'
  BY SyncTypes DEF DInv
<1>7. Shape(root)' /\ Shape(droot)' /\ Behind'
  BY <1>1 DEF DInv, Shape, Behind
<1>8. Blockwise'
  <2>1. Owned(In(root), blk, marked, data)' /\ Owned(In(droot), dblk, dmarked, data)'
    BY <1>1, <1>5 DEF DInv, Blockwise, Owned
  <2>2. Pending' /\ OneDiffers'
    BY <1>1, <1>4 DEF Pending, OneDiffers, Differs
  <2> QED
    BY <2>1, <2>2 DEF Blockwise
<1>9. SuperLast'
  BY <1>1, <1>2, <1>4 DEF SuperLast, Dir!Super
<1>10. BitmapFirst'
  <2>1. (\A b \in In(droot), j \in Dir!Slots : dblk[b][j].ptr \in marked \cup {Dir!Nil})'
    BY <1>1, Marked DEF Dir!diskVars
  <2>2. writes'[1] = 1
    <3>1. 1 \in 1..DIRBLOCKS-1
      BY Numbers DEF Dir!Super
    <3> QED
      BY <1>2, <3>1
  <2>3. \A k \in DOMAIN writes' : writes'[k] = 2 => k = 1 \/ (k = 2 /\ writes'[1] = 1)
    BY <1>2, <2>2
  <2> QED
    BY <1>1, <1>4, <2>1, <2>3 DEF BitmapFirst, Dir!Bitmap, Dir!Super
<1>11. Saved' /\ Kept'
  <2>1. (\A n \in made : \E b \in Dir!Blocks, j \in Dir!Slots : SavedAt(n, b, j)') /\ Kept'
    BY <1>1, <1>5, StillSaved DEF Dir!diskVars
  <2> QED
    BY <2>1, <1>1 DEF Saved
<1>12. Known' /\ Once' /\ Asked'
  BY <1>1, <1>5 DEF DInv, Known, Once, Asked, Dir!NamesOn
<1> QED
  BY <1>6, <1>7, <1>8, <1>9, <1>10, <1>11, <1>12 DEF DInv

(* The directory r is that of now with a block for its hole, or one more. *)
Fills(r, i) ==
    /\ i \in Nat /\ i = Len(r) /\ Len(r) >= Len(root)
    /\ DOMAIN r = DOMAIN root \cup {i} /\ r[i] = Dir!FirstFree
    /\ \A x \in DOMAIN root \ {i} : r[x] = root[x] /\ root[x] # Dir!Nil
    /\ i \in DOMAIN root => root[i] = Dir!Nil

LEMMA RootMore ==
    ASSUME DInv, Dir!FreeBlocks # {}, NEW r, NEW i, Fills(r, i)
    PROVE  /\ In(r) = In(root) \cup {Dir!FirstFree} /\ Dir!FirstFree \notin In(root) /\ Shape(r)
           /\ Len(droot) <= Len(r) /\ \A x \in DOMAIN droot : droot[x] # Dir!Nil => r[x] = droot[x]
<1>1. Dir!FirstFree \in Dir!Blocks /\ Dir!FirstFree \notin marked /\ Dir!FirstFree # Dir!Nil
  BY FirstFreeIs, Numbers
<1>2. Dir!FirstFree \notin In(root)
  BY <1>1 DEF DInv, Blockwise, Owned
<1>3. ASSUME NEW b PROVE b \in In(r) <=> b \in In(root) \cup {Dir!FirstFree}
  <2>1. ASSUME b \in In(r) PROVE b \in In(root) \cup {Dir!FirstFree}
    <3>1. PICK x \in DOMAIN r : r[x] = b /\ b # Dir!Nil
      BY <2>1 DEF In
    <3>2. x = i \/ (x \in DOMAIN root /\ root[x] = b)
      BY <3>1 DEF Fills
    <3> QED
      BY <3>1, <3>2 DEF In, Fills
  <2>2. ASSUME b \in In(root) PROVE b \in In(r)
    <3>1. PICK x \in DOMAIN root : root[x] = b /\ b # Dir!Nil
      BY <2>2 DEF In
    <3>2. x # i /\ x \in DOMAIN r /\ r[x] = b
      BY <3>1 DEF Fills
    <3> QED
      BY <3>1, <3>2 DEF In
  <2>3. Dir!FirstFree \in In(r)
    BY <1>1 DEF In, Fills
  <2> QED
    BY <2>1, <2>2, <2>3
<1>4. Shape(r)
  <2>1. \A x, y \in DOMAIN root : root[x] # Dir!Nil /\ root[x] = root[y] => x = y
    BY DEF DInv, Shape
  <2>2. \A x \in DOMAIN r : x = i \/ (x \in DOMAIN root /\ r[x] = root[x] /\ r[x] # Dir!Nil)
    BY DEF Fills
  <2>3. \A x \in DOMAIN r : x # i => r[x] # Dir!FirstFree
    BY <1>1, <1>2, <2>2 DEF In
  <2>4. r[i] = Dir!FirstFree /\ i = Len(r)
    BY DEF Fills
  <2>5. \A x, y \in DOMAIN r : r[x] # Dir!Nil /\ r[x] = r[y] => x = y
    BY ONLY <2>1, <2>2, <2>3, <2>4
  <2>6. \A x \in DOMAIN r : r[x] = Dir!Nil => x = Len(r)
    BY ONLY <2>2, <2>4
  <2> QED
    BY <2>5, <2>6 DEF Shape
<1>5. /\ Len(droot) \in Nat /\ DOMAIN droot = 1..Len(droot)
      /\ Len(root) \in Nat /\ DOMAIN root = 1..Len(root)
  BY Typed DEF DInv
<1>6. Len(droot) <= Len(root) /\ \A x \in DOMAIN droot : droot[x] # Dir!Nil => root[x] = droot[x]
  BY DEF DInv, Behind
<1>7. Len(droot) <= Len(r)
  <2>1. Len(r) >= Len(root) /\ Len(r) \in Nat
    BY DEF Fills
  <2> QED
    BY ONLY <1>5, <1>6, <2>1
<1>8. ASSUME NEW x \in DOMAIN droot, droot[x] # Dir!Nil PROVE r[x] = droot[x]
  <2>1. root[x] = droot[x] /\ x \in DOMAIN root
    BY ONLY <1>5, <1>6, <1>8, x \in DOMAIN droot
  <2> QED
    BY <1>8, <2>1 DEF Fills
<1> QED
  BY <1>2, <1>3, <1>4, <1>7, <1>8

(* The block that it takes.  Nothing has a name there when it was never a  *)
(* file's.                                                                 *)
LEMMA TakenTypes ==
    ASSUME Types, Dir!Alloc
    PROVE  /\ Dir!FirstFree \in Dir!Blocks /\ Dir!FirstFree \notin marked /\ marked' = marked \cup {Dir!FirstFree}
           /\ Dir!FreeBlocks # {} /\ stale' \in BOOLEAN /\ foreign' \in BOOLEAN
<1>1. Dir!FreeBlocks # {} /\ marked' = marked \cup {Dir!FirstFree} /\ stale' = (stale \/ Dir!FirstFree \in data)
  BY DEF Dir!Alloc, Dir!Taken
<1>2. foreign' = (foreign \/ Dir!Pointers(blk[Dir!FirstFree]) # {})
  BY DEF Dir!Alloc
<1>3. stale \in BOOLEAN /\ foreign \in BOOLEAN
  BY Typed
<1> QED
  BY <1>1, <1>2, <1>3, FirstFreeIs

LEMMA TakenIs ==
    ASSUME DInv, Dir!Alloc
    PROVE  /\ Dir!FirstFree \in Dir!Blocks /\ Dir!FirstFree \notin marked /\ marked' = marked \cup {Dir!FirstFree}
           /\ Dir!FirstFree \notin In(root) /\ Dir!FreeBlocks # {}
           /\ ~foreign' => NoPointers(blk[Dir!FirstFree])
           /\ ~stale' => ~stale /\ \A j \in Dir!Slots : blk[Dir!FirstFree][j].name = Dir!NoName
<1>1. stale' = (stale \/ Dir!FirstFree \in data) /\ foreign' = (foreign \/ Dir!Pointers(blk[Dir!FirstFree]) # {})
  BY DEF Dir!Alloc
<1>2. /\ Dir!FirstFree \in Dir!Blocks /\ Dir!FirstFree \notin marked
      /\ marked' = marked \cup {Dir!FirstFree} /\ Dir!FreeBlocks # {}
  BY TakenTypes DEF DInv
<1>3. In(root) \subseteq marked /\ (Dir!FirstFree \notin data => blk[Dir!FirstFree] = Dir!Zeros)
  BY <1>2 DEF DInv, Blockwise, Owned
<1>4. stale \in BOOLEAN /\ foreign \in BOOLEAN
  BY Typed DEF DInv
<1>5. \A j \in Dir!Slots : Dir!Zeros[j].name = Dir!NoName
  BY DEF Dir!Zeros, Dir!Empty
<1>6. ASSUME ~foreign' PROVE NoPointers(blk[Dir!FirstFree])
  <2>1. Dir!Pointers(blk[Dir!FirstFree]) = {}
    BY <1>1, <1>6
  <2> QED
    BY <2>1 DEF Dir!Pointers, NoPointers
<1>7. ASSUME ~stale' PROVE ~stale /\ \A j \in Dir!Slots : blk[Dir!FirstFree][j].name = Dir!NoName
  BY <1>1, <1>3, <1>4, <1>5, <1>7
<1> QED
  BY <1>2, <1>3, <1>6, <1>7

(* A block without names has changed nothing; one that gets a new name has  *)
(* not got it twice.                                                       *)
LEMMA MoreNames ==
    ASSUME NEW S, NEW m, NEW names, NEW f, \A j \in Dir!Slots : m[f][j].name = Dir!NoName,
           Distinct(S, m), Calls(S, m, names)
    PROVE  Distinct(S \cup {f}, m) /\ Calls(S \cup {f}, m, names)
BY DEF Distinct, Calls

Renames(S, m, m2, f, i, n) ==
    /\ f \in S /\ i \in Dir!Slots /\ m2[f][i].name = n
    /\ \A b \in S, j \in Dir!Slots : m[b][j].name # n
    /\ \A b \in S, j \in Dir!Slots : b # f \/ j # i => m2[b][j].name = m[b][j].name

LEMMA NewName ==
    ASSUME NEW S, NEW m, NEW m2, NEW names, NEW f, NEW i, NEW n,
           Distinct(S, m), Calls(S, m, names), Renames(S, m, m2, f, i, n)
    PROVE  Distinct(S, m2) /\ Calls(S, m2, names \cup {n})
BY DEF Distinct, Calls, Renames

LEMMA FillHoleTypes ==
    ASSUME Types, Dir!FillHole
    PROVE  /\ Types'
           /\ \E i \in DOMAIN root : /\ root[i] = Dir!Nil /\ root'[i] = Dir!FirstFree
                                    /\ \A x \in DOMAIN root \ {i} : root'[x] = root[x]
           /\ root' \in Seq(Dir!Blocks \cup {Dir!Nil}) /\ DOMAIN root' = DOMAIN root /\ Len(root') = Len(root)
<1> DEFINE i == Dir!Min(Dir!Hole)
<1>1. /\ blk' = blk /\ droot' = droot /\ dblk' = dblk /\ dmarked' = dmarked
      /\ made' = made /\ known' = known /\ data' = data /\ stops' = stops
      /\ point' = point /\ at' = at /\ request' = request /\ at = "lookup" /\ writes' = <<Dir!Bitmap>>
      /\ root' = [root EXCEPT ![i] = Dir!FirstFree] /\ Dir!Hole # {} /\ Dir!Alloc
  BY DEF Dir!FillHole, Dir!Ready, Dir!diskVars, Dir!runVars
<1>2. i \in DOMAIN root /\ root[i] = Dir!Nil
  <2>1. Dir!Hole \subseteq Nat
    BY Typed DEF Dir!Hole
  <2>2. \E x \in Dir!Hole : \A y \in Dir!Hole : x <= y
    BY <1>1, <2>1, Least
  <2>3. i \in Dir!Hole
    BY ONLY <2>2 DEF Dir!Min
  <2> QED
    BY <2>3 DEF Dir!Hole
<1> HIDE DEF i
<1>3. /\ Dir!FirstFree \in Dir!Blocks /\ marked' = marked \cup {Dir!FirstFree}
      /\ stale' \in BOOLEAN /\ foreign' \in BOOLEAN
  BY <1>1, TakenTypes
<1>4. /\ root' \in Seq(Dir!Blocks \cup {Dir!Nil}) /\ DOMAIN root' = DOMAIN root /\ Len(root') = Len(root)
      /\ root'[i] = Dir!FirstFree /\ \A x \in DOMAIN root \ {i} : root'[x] = root[x]
  <2>1. root \in Seq(Dir!Blocks \cup {Dir!Nil}) /\ DOMAIN root = 1..Len(root) /\ Len(root) \in Nat
    BY Typed
  <2> QED
    BY <1>1, <1>2, <1>3, <2>1
<1>5. Types'
  <2>1. Dir!TypeOK'
    BY <1>1, <1>3, <1>4 DEF Types, Dir!TypeOK
  <2>2. writes' \in Seq(1..DIRBLOCKS-1)
    BY <1>1, Numbers
  <2> QED
    BY <1>1, <2>1, <2>2 DEF Types
<1> QED
  BY <1>2, <1>4, <1>5

LEMMA FillHoleStep ==
    ASSUME DInv, Dir!FillHole, ~foreign'
    PROVE  DInv'
<1>1. /\ blk' = blk /\ droot' = droot /\ dblk' = dblk /\ dmarked' = dmarked
      /\ made' = made /\ known' = known /\ data' = data
      /\ writes = << >> /\ writes' = <<Dir!Bitmap>> /\ Dir!Alloc
  BY DEF Dir!FillHole, Dir!Ready, Dir!diskVars
<1>2. Types /\ Shape(root) /\ Behind
  BY DEF DInv
<1>3. /\ Types' /\ root' \in Seq(Dir!Blocks \cup {Dir!Nil}) /\ DOMAIN root' = DOMAIN root /\ Len(root') = Len(root)
  BY <1>2, FillHoleTypes
<1>4. PICK i \in DOMAIN root : /\ root[i] = Dir!Nil /\ root'[i] = Dir!FirstFree
                              /\ \A x \in DOMAIN root \ {i} : root'[x] = root[x]
  BY <1>2, FillHoleTypes
<1>5. i = Len(root) /\ i \in Nat
  BY <1>2, <1>4, Typed DEF Shape
<1>6. /\ Dir!FirstFree \in Dir!Blocks /\ Dir!FirstFree \notin marked /\ marked' = marked \cup {Dir!FirstFree}
      /\ NoPointers(blk[Dir!FirstFree]) /\ Dir!FreeBlocks # {}
      /\ ~stale' => ~stale /\ \A j \in Dir!Slots : blk[Dir!FirstFree][j].name = Dir!NoName
  BY <1>1, TakenIs
<1>7. PICK r \in Seq(Dir!Blocks \cup {Dir!Nil}) : r = root'
  BY <1>3
<1>8. /\ In(r) = In(root) \cup {Dir!FirstFree} /\ Shape(r)
      /\ Len(droot) <= Len(r) /\ \A x \in DOMAIN droot : droot[x] # Dir!Nil => r[x] = droot[x]
  <2>1. DOMAIN r = DOMAIN root \cup {i} /\ Len(r) >= Len(root) /\ i = Len(r)
    BY <1>3, <1>4, <1>5, <1>7
  <2>2. \A x \in DOMAIN root \ {i} : root[x] # Dir!Nil
    BY <1>2, <1>5 DEF Shape
  <2>3. Fills(r, i)
    BY <1>4, <1>5, <1>7, <2>1, <2>2 DEF Fills
  <2> QED
    BY <1>6, <2>3, RootMore
<1>9. In(root)' = In(root) \cup {Dir!FirstFree} /\ In(droot)' = In(droot) /\ Shape(root)' /\ Behind'
  <2>1. In(root)' = In(r) /\ Shape(root)'
    BY <1>7, <1>8 DEF In, Shape
  <2>2. Behind'
    BY <1>1, <1>7, <1>8 DEF Behind
  <2>3. In(droot)' = In(droot)
    BY <1>1 DEF In
  <2> QED
    BY <2>1, <2>2, <2>3, <1>8
<1>11. Blockwise'
  <2>1. Owned(In(root) \cup {Dir!FirstFree}, blk, marked \cup {Dir!FirstFree}, data)
    BY <1>6, OwnedMore
  <2>2. Owned(In(root)', blk', marked', data') /\ Owned(In(droot)', dblk', dmarked', data')
    BY <1>1, <1>6, <1>9, <2>1 DEF DInv, Blockwise
  <2>3. Pending' /\ OneDiffers'
    BY <1>1, ReadyIs DEF Pending, OneDiffers, Differs
  <2> QED
    BY <2>2, <2>3 DEF Blockwise
<1>12. SuperLast' /\ BitmapFirst'
  <2>1. (\A b \in In(droot), j \in Dir!Slots : dblk[b][j].ptr \in marked \cup {Dir!Nil})'
    BY <1>1, <1>6, Marked DEF Dir!diskVars
  <2>2. DOMAIN writes' = {1} /\ writes'[1] = Dir!Bitmap /\ writes' # << >>
    BY <1>1
  <2> QED
    BY <2>1, <2>2, Numbers DEF SuperLast, BitmapFirst
<1>13. Saved' /\ Kept'
  BY <1>1, <1>9, StillSaved DEF Dir!diskVars, Saved
<1>14. Known' /\ Once' /\ Asked'
  <2>1. Known'
    BY <1>1 DEF DInv, Known, Dir!NamesOn
  <2>2. ~stale' => /\ ~stale /\ Once /\ Asked
                   /\ \A j \in Dir!Slots : blk[Dir!FirstFree][j].name = Dir!NoName
    BY <1>6 DEF DInv
  <2>3. ASSUME ~stale' PROVE Distinct(In(root)', blk') /\ Calls(In(root)', blk', made')
    <3>1. Distinct(In(root), blk) /\ Calls(In(root), blk, made)
      BY <2>2, <2>3 DEF Once, Asked
    <3>2. Distinct(In(root) \cup {Dir!FirstFree}, blk) /\ Calls(In(root) \cup {Dir!FirstFree}, blk, made)
      BY <2>2, <2>3, <3>1, MoreNames
    <3> QED
      BY <1>1, <1>9, <3>2
  <2> QED
    BY <2>1, <2>3 DEF Once, Asked
<1>15. Shape(droot)'
  BY <1>1 DEF DInv, Shape
<1> QED
  BY <1>3, <1>9, <1>11, <1>12, <1>13, <1>14, <1>15 DEF DInv

(* A block of the directory whose entry p changes while a request is       *)
(* served: its name, if it had none, or its pointer.                       *)
LEMMA StoredIs ==
    ASSUME Types, NEW p \in Dir!Places, NEW e \in Dir!Entry
    PROVE  /\ Dir!Stored(p, e) \in [Dir!Blocks -> [Dir!Slots -> Dir!Entry]]
           /\ \A b \in Dir!Blocks, j \in Dir!Slots :
                 Dir!Stored(p, e)[b][j] = IF b = root[p[1]] /\ j = p[2] THEN e ELSE blk[b][j]
           /\ \A b \in Dir!Blocks \ {root[p[1]]} : Dir!Stored(p, e)[b] = blk[b]
<1>1. root[p[1]] \in Dir!Blocks /\ p[2] \in Dir!Slots /\ blk \in [Dir!Blocks -> [Dir!Slots -> Dir!Entry]]
  BY PlaceIs, Typed
<1> QED
  BY <1>1 DEF Dir!Stored

(* The blocks and the super block, in the order of file_flush(). *)
Flushed(r, w, v) ==
    /\ w \in Seq(1..DIRBLOCKS-1) /\ {w[k] : k \in DOMAIN w} = In(r) \cup {Dir!Super}
    /\ \A k \in DOMAIN w : (w[k] = Dir!Super => k = Len(w)) /\ w[k] # Dir!Bitmap
    /\ v \in Seq(1..DIRBLOCKS-1) /\ {v[k] : k \in DOMAIN v} = In(r) \cup {Dir!Super, Dir!Bitmap}
    /\ \A k \in DOMAIN v : (v[k] = Dir!Super => k = Len(v)) /\ (v[k] = Dir!Bitmap => k = 1)
    /\ v[1] = Dir!Bitmap /\ v # << >>

LEMMA DirFlushIs ==
    ASSUME NEW r \in Seq(Dir!Blocks \cup {Dir!Nil}), \A i \in DOMAIN r : r[i] # Dir!Nil
    PROVE  Flushed(r, Dir!DirFlush(r), <<Dir!Bitmap>> \o Dir!DirFlush(r))
<1> DEFINE w == Dir!DirFlush(r)
           v == <<Dir!Bitmap>> \o w
<1>1. /\ Len(r) \in Nat /\ DOMAIN r = 1..Len(r) /\ r \in Seq(1..DIRBLOCKS-1)
      /\ \A i \in DOMAIN r : r[i] \in Dir!Blocks
  <2>1. \A i \in DOMAIN r : r[i] \in Dir!Blocks
    OBVIOUS
  <2>3. Len(r) \in Nat /\ DOMAIN r = 1..Len(r) /\ r = [i \in 1..Len(r) |-> r[i]]
    OBVIOUS
  <2>2. r \in Seq(1..DIRBLOCKS-1)
    <3>1. \A i \in 1..Len(r) : r[i] \in 1..DIRBLOCKS-1
      BY <2>1, <2>3, Numbers
    <3>2. PICK n \in Nat : n = Len(r)
      BY <2>3
    <3>3. [i \in 1..n |-> r[i]] \in Seq(1..DIRBLOCKS-1)
      BY ONLY <3>1, <3>2
    <3> QED
      BY ONLY <2>3, <3>2, <3>3
  <2> QED
    BY ONLY <2>1, <2>2, <2>3
<1>2. /\ w \in Seq(1..DIRBLOCKS-1) /\ Len(w) = Len(r) + 1 /\ DOMAIN w = 1..Len(r)+1
      /\ \A i \in 1..Len(r) : w[i] = r[i]
      /\ w[Len(r) + 1] = Dir!Super
  BY <1>1, Numbers DEF Dir!DirFlush
<1> HIDE DEF w
<1>3. /\ v \in Seq(1..DIRBLOCKS-1) /\ Len(v) = Len(w) + 1 /\ DOMAIN v = 1..Len(w)+1
      /\ \A i \in 1..Len(w) : v[i + 1] = w[i]
      /\ v[1] = Dir!Bitmap /\ v # << >>
  BY <1>2, Numbers
<1> HIDE DEF v
<1>9. \A k \in DOMAIN w : (k \in DOMAIN r /\ w[k] = r[k]) \/ (k = Len(w) /\ w[k] = Dir!Super)
  BY <1>1, <1>2
<1>4. \A k \in DOMAIN w : (w[k] = Dir!Super => k = Len(w)) /\ w[k] # Dir!Bitmap
  BY <1>1, <1>9, Numbers
<1>5. {w[k] : k \in DOMAIN w} = In(r) \cup {Dir!Super}
  <2>1. \A k \in DOMAIN w : w[k] \in In(r) \cup {Dir!Super}
    BY <1>9 DEF In
  <2>2. \A b \in In(r) : \E k \in DOMAIN w : w[k] = b
    BY <1>1, <1>2 DEF In
  <2>3. \E k \in DOMAIN w : w[k] = Dir!Super
    BY <1>1, <1>2
  <2> QED
    BY <2>1, <2>2, <2>3
<1>6. \A k \in DOMAIN v : k = 1 \/ (k - 1 \in DOMAIN w /\ v[k] = w[k - 1])
  BY <1>1, <1>2, <1>3
<1>7. \A k \in DOMAIN v : (v[k] = Dir!Super => k = Len(v)) /\ (v[k] = Dir!Bitmap => k = 1)
  BY <1>1, <1>2, <1>3, <1>4, <1>6, Numbers
<1>8. {v[k] : k \in DOMAIN v} = In(r) \cup {Dir!Super, Dir!Bitmap}
  <2>1. \A k \in DOMAIN v : v[k] \in In(r) \cup {Dir!Super, Dir!Bitmap}
    BY <1>3, <1>5, <1>6
  <2>2. \A b \in In(r) \cup {Dir!Super} : \E k \in DOMAIN v : v[k] = b
    <3>1. \A k \in DOMAIN w : k + 1 \in DOMAIN v /\ v[k + 1] = w[k]
      BY <1>1, <1>2, <1>3
    <3> QED
      BY <1>5, <3>1
  <2>3. 1 \in DOMAIN v
    BY <1>1, <1>2, <1>3
  <2> QED
    BY <1>3, <2>1, <2>2, <2>3
<1> QED
  <2>1. Flushed(r, w, v)
    BY <1>2, <1>3, <1>4, <1>5, <1>7, <1>8 DEF Flushed
  <2> QED
    BY <2>1 DEF w, v

(* A step that changes names, or what nobody points to, changes no pointer. *)
LEMMA OwnedSame ==
    ASSUME NEW S, S \subseteq Dir!Blocks, NEW m, NEW m2, NEW u, u \subseteq Dir!Blocks, NEW d,
           Owned(S, m, u, d), \A b \in Dir!Blocks, j \in Dir!Slots : m2[b][j].ptr = m[b][j].ptr,
           \A b \in Dir!Blocks \ u : m2[b] = m[b]
    PROVE  Owned(S, m2, u, d)
<1>1. S \subseteq u
  BY DEF Owned
<1>2. ASSUME NEW b \in S, NEW j \in Dir!Slots, m2[b][j].ptr # Dir!Nil
      PROVE  /\ m2[b][j].ptr \in (u \cap d) \ S
             /\ \A c \in S, k \in Dir!Slots : m2[c][k].ptr = m2[b][j].ptr => b = c /\ j = k
  <2>1. PICK q : q = m[b][j].ptr
    OBVIOUS
  <2>2. q # Dir!Nil /\ m2[b][j].ptr = q
    BY <1>2, <2>1
  <2>3. q \in (u \cap d) \ S
    BY <2>1, <2>2 DEF Owned
  <2>5. ASSUME NEW c \in S, NEW k \in Dir!Slots, m2[c][k].ptr = q PROVE b = c /\ j = k
    <3>1. m[c][k].ptr = m[b][j].ptr
      BY <2>1, <2>5
    <3> QED
      BY <2>1, <2>2, <3>1 DEF Owned
  <2> QED
    BY <2>2, <2>3, <2>5
<1>3. \A b \in Dir!Blocks \ u : b \notin d => m2[b] = Dir!Zeros
  BY DEF Owned
<1> QED
  BY <1>1, <1>2, <1>3 DEF Owned

(* What the entry j of block f holds, when the others stay. *)
EntryIs(m, f, j, e) ==
    /\ m \in [Dir!Blocks -> [Dir!Slots -> Dir!Entry]]
    /\ \A b \in Dir!Blocks, k \in Dir!Slots : m[b][k] = IF b = f /\ k = j THEN e ELSE blk[b][k]
    /\ \A b \in Dir!Blocks \ {f} : m[b] = blk[b]

LEMMA CreateTypes ==
    ASSUME Types, Dir!Create
    PROVE  /\ Types'
           /\ writes' \in Seq(1..DIRBLOCKS-1) /\ Flushes' = In(root) \cup {Dir!Super}
           /\ \A k \in DOMAIN writes' : (writes'[k] = Dir!Super => k = Len(writes')) /\ writes'[k] # Dir!Bitmap
           /\ \E B \in In(root), J \in Dir!Slots, e \in Dir!Entry :
                 /\ B \in Dir!Blocks /\ EntryIs(blk', B, J, e)
                 /\ e.name = request.n /\ e.ptr = blk[B][J].ptr /\ blk[B][J].name = Dir!NoName
<1>1. PICK p \in Dir!Unnamed : p = Dir!FirstOf(Dir!Unnamed)
  <2>1. Dir!Unnamed # {} /\ Dir!Unnamed \subseteq Dir!Places
    BY DEF Dir!Create, Dir!Unnamed
  <2> QED
    BY <2>1, FirstOfIs
<1>2. PICK e : e = [Dir!At(p) EXCEPT !.name = request.n]
  OBVIOUS
<1>3. /\ root' = root /\ marked' = marked /\ droot' = droot /\ dblk' = dblk /\ dmarked' = dmarked
      /\ known' = known /\ data' = data /\ stale' = stale /\ foreign' = foreign /\ stops' = stops /\ point' = point
      /\ at' = "open" /\ request' = request /\ writes' = Dir!DirFlush(root) /\ made' = made \cup {request.n}
      /\ blk' = Dir!Stored(p, e) /\ Dir!Absent
  BY <1>1, <1>2 DEF Dir!Create, Dir!diskVars
<1>4. request.n \in Names /\ \A i \in DOMAIN root : root[i] # Dir!Nil
  BY <1>3, AbsentIs
<1>5. p \in Dir!Places /\ Dir!At(p).name = Dir!NoName
  BY DEF Dir!Unnamed
<1>6. PICK B \in In(root), J \in Dir!Slots : B = root[p[1]] /\ J = p[2] /\ B \in Dir!Blocks /\ blk[B][J] = Dir!At(p) /\ Dir!At(p) \in Dir!Entry
  BY <1>5, PlaceIs
<1>7. e \in Dir!Entry /\ e.name = request.n /\ e.ptr = blk[B][J].ptr /\ blk[B][J].name = Dir!NoName
  BY <1>2, <1>4, <1>5, <1>6, Entries
<1>8. EntryIs(blk', B, J, e)
  BY <1>3, <1>5, <1>6, <1>7, StoredIs DEF EntryIs
<1>9. /\ writes' \in Seq(1..DIRBLOCKS-1) /\ Flushes' = In(root) \cup {Dir!Super}
      /\ \A k \in DOMAIN writes' : (writes'[k] = Dir!Super => k = Len(writes')) /\ writes'[k] # Dir!Bitmap
  <2>1. PICK v : v = <<Dir!Bitmap>> \o Dir!DirFlush(root)
    OBVIOUS
  <2>2. root \in Seq(Dir!Blocks \cup {Dir!Nil})
    BY Typed
  <2>3. Flushed(root, writes', v)
    BY <1>3, <1>4, <2>1, <2>2, DirFlushIs
  <2> QED
    BY <2>3 DEF Flushed, Flushes
<1>10. Types'
  <2>1. Dir!TypeOK'
    BY <1>3, <1>4, <1>8 DEF Types, Dir!TypeOK, EntryIs
  <2>2. blk'[B][J].name = request.n
    BY <1>6, <1>7, <1>8 DEF EntryIs
  <2>3. request.n \in Dir!NamesOn(root, blk')
    BY <2>2, InNames
  <2>4. request.n \in Dir!NamesOn(root, blk)'
    BY <1>3, <2>3
  <2> QED
    BY <1>3, <1>4, <1>9, <2>1, <2>4 DEF Types
<1> QED
  BY <1>6, <1>7, <1>8, <1>9, <1>10

LEMMA CreateStep ==
    ASSUME DInv, Dir!Create
    PROVE  DInv'
<1>1. Types
  BY DEF DInv
<1>2. PICK B \in In(root), J \in Dir!Slots, e \in Dir!Entry :
         /\ B \in Dir!Blocks /\ EntryIs(blk', B, J, e)
         /\ e.name = request.n /\ e.ptr = blk[B][J].ptr /\ blk[B][J].name = Dir!NoName
  BY <1>1, CreateTypes
<1>3. /\ root' = root /\ marked' = marked /\ droot' = droot /\ dblk' = dblk /\ dmarked' = dmarked
      /\ known' = known /\ data' = data /\ stale' = stale /\ made' = made \cup {request.n} /\ request' = request /\ Dir!Absent
  BY DEF Dir!Create, Dir!diskVars
<1>4. request.n \in Names /\ request.n \notin Dir!NamesOn(root, blk) /\ writes = << >>
  BY <1>1, <1>3, AbsentIs
<1>9. /\ \A b \in Dir!Blocks, j \in Dir!Slots : blk'[b][j] = IF b = B /\ j = J THEN e ELSE blk[b][j]
      /\ \A b \in Dir!Blocks \ {B} : blk'[b] = blk[b]
  BY <1>2 DEF EntryIs
<1>10. In(root)' = In(root) /\ In(droot)' = In(droot) /\ In(root) \subseteq Dir!Blocks /\ marked \subseteq Dir!Blocks
       /\ blk = dblk /\ marked \subseteq dmarked
  BY <1>1, <1>3, <1>4, ReadyIs, Typed DEF In
<1>11. /\ Types' /\ Flushes' = In(root) \cup {Dir!Super}
       /\ \A k \in DOMAIN writes' : (writes'[k] = Dir!Super => k = Len(writes')) /\ writes'[k] # Dir!Bitmap
  BY <1>1, CreateTypes
<1>13. Shape(root)' /\ Shape(droot)' /\ Behind'
  BY <1>3 DEF DInv, Shape, Behind
<1>14. Blockwise'
  <2>1. Owned(In(root), blk, marked, data) /\ B \in marked
    BY DEF DInv, Blockwise, Owned
  <2>2. Owned(In(root), blk', marked, data)
    <3>1. \A b \in Dir!Blocks, j \in Dir!Slots : blk'[b][j].ptr = blk[b][j].ptr
      BY <1>2, <1>9
    <3>2. \A b \in Dir!Blocks \ marked : blk'[b] = blk[b]
      BY <1>9, <2>1
    <3> QED
      BY <1>10, <2>1, <3>1, <3>2, OwnedSame
  <2>3. Owned(In(root)', blk', marked', data') /\ Owned(In(droot)', dblk', dmarked', data')
    BY <1>3, <1>10, <2>2 DEF DInv, Blockwise
  <2>4. Pending'
    BY <1>3, <1>9, <1>10, <1>11, <2>1 DEF Pending, Differs
  <2>5. OneDiffers'
    BY <1>3, <1>9, <1>10 DEF OneDiffers, Differs
  <2> QED
    BY <2>3, <2>4, <2>5 DEF Blockwise
<1>15. SuperLast' /\ BitmapFirst'
  <2>1. Dir!Bitmap \notin Flushes'
    BY <1>11 DEF Flushes
  <2> QED
    BY <1>3, <1>10, <1>11, <2>1 DEF SuperLast, BitmapFirst
<1>16. Saved' /\ Kept'
  <2>1. \A b \in In(root), j \in Dir!Slots : blk[b][j].name # Dir!NoName => blk'[b][j].name = blk[b][j].name
    BY <1>2, <1>9, <1>10
  <2>2. (\A n \in made : \E b \in Dir!Blocks, j \in Dir!Slots : SavedAt(n, b, j)') /\ Kept'
    BY <1>3, <1>4, <1>10, <2>1, StillSaved DEF Dir!diskVars
  <2>3. SavedAt(request.n, B, J)'
    BY <1>2, <1>3, <1>9, <1>10, <1>11 DEF SavedAt
  <2>4. \A n \in made' : \E b \in Dir!Blocks, j \in Dir!Slots : SavedAt(n, b, j)'
    BY <1>2, <1>3, <2>2, <2>3
  <2> QED
    BY <2>2, <2>4 DEF Saved
<1>17. Known' /\ Once' /\ Asked'
  <2>1. Known'
    BY <1>3 DEF DInv, Known, Dir!NamesOn
  <2>2. ASSUME ~stale' PROVE Distinct(In(root)', blk') /\ Calls(In(root)', blk', made')
    <3>1. Distinct(In(root), blk) /\ Calls(In(root), blk, made)
      BY <1>3, <2>2 DEF DInv, Once, Asked
    <3>2. \A b \in In(root), j \in Dir!Slots : blk[b][j].name # request.n
      BY <1>4, InNames
    <3>3. blk'[B][J].name = request.n
      BY <1>2, <1>9
    <3>4. \A b \in In(root), j \in Dir!Slots : b # B \/ j # J => blk'[b][j].name = blk[b][j].name
      BY <1>9, <1>10
    <3>5. Distinct(In(root), blk') /\ Calls(In(root), blk', made \cup {request.n})
      <4>1. Renames(In(root), blk, blk', B, J, request.n)
        BY <3>2, <3>3, <3>4 DEF Renames
      <4> QED
        BY <3>1, <4>1, NewName
    <3> QED
      BY <1>3, <1>10, <3>5
  <2> QED
    BY <2>1, <2>2 DEF Once, Asked
<1> QED
  BY <1>11, <1>13, <1>14, <1>15, <1>16, <1>17 DEF DInv

LEMMA GrowTypes ==
    ASSUME Types, Dir!Grow
    PROVE  /\ Types' /\ root' = Append(root, Dir!FirstFree)
           /\ root' \in Seq(Dir!Blocks \cup {Dir!Nil}) /\ \A x \in DOMAIN root' : root'[x] # Dir!Nil
           /\ writes' # << >> /\ writes'[1] = Dir!Bitmap /\ Flushes' = In(root)' \cup {Dir!Super, Dir!Bitmap}
           /\ \A k \in DOMAIN writes' : (writes'[k] = Dir!Super => k = Len(writes')) /\ (writes'[k] = Dir!Bitmap => k = 1)
           /\ \E e \in Dir!Entry : /\ EntryIs(blk', Dir!FirstFree, 1, e)
                                  /\ e.name = request.n /\ e.ptr = blk[Dir!FirstFree][1].ptr
<1>1. PICK F : F = Dir!FirstFree
  OBVIOUS
<1>2. /\ root' = Append(root, F) /\ droot' = droot /\ dblk' = dblk /\ dmarked' = dmarked
      /\ known' = known /\ data' = data /\ stops' = stops /\ point' = point
      /\ at' = "open" /\ request' = request /\ writes' = <<Dir!Bitmap>> \o Dir!DirFlush(root') /\ made' = made \cup {request.n}
      /\ blk' = [blk EXCEPT ![F][1].name = request.n] /\ Dir!Absent /\ Dir!Alloc
  BY <1>1 DEF Dir!Grow, Dir!diskVars
<1>3. request.n \in Names /\ \A i \in DOMAIN root : root[i] # Dir!Nil
  BY <1>2, AbsentIs
<1>4. F \in Dir!Blocks /\ marked' = marked \cup {F} /\ stale' \in BOOLEAN /\ foreign' \in BOOLEAN
  BY <1>1, <1>2, TakenTypes
<1>5. /\ root' \in Seq(Dir!Blocks \cup {Dir!Nil}) /\ \A x \in DOMAIN root' : root'[x] # Dir!Nil
      /\ F \in In(root)'
  <2>1. root \in Seq(Dir!Blocks \cup {Dir!Nil}) /\ DOMAIN root = 1..Len(root) /\ Len(root) \in Nat
    BY Typed
  <2>2. /\ root' \in Seq(Dir!Blocks \cup {Dir!Nil}) /\ DOMAIN root' = 1..Len(root)+1 /\ root'[Len(root) + 1] = F
        /\ \A x \in 1..Len(root) : root'[x] = root[x]
    BY <1>2, <1>4, <2>1
  <2> QED
    BY <1>3, <1>4, <2>1, <2>2, Numbers DEF In
<1>6. blk \in [Dir!Blocks -> [Dir!Slots -> Dir!Entry]] /\ 1 \in Dir!Slots
  BY Typed, Numbers
<1>7. PICK e \in Dir!Entry : e = [blk[F][1] EXCEPT !.name = request.n] /\ e.name = request.n /\ e.ptr = blk[F][1].ptr
  <2>1. PICK x \in Dir!Entry : x = blk[F][1]
    BY <1>4, <1>6
  <2>2. PICK e : e = [x EXCEPT !.name = request.n]
    OBVIOUS
  <2>3. e \in Dir!Entry /\ e.name = request.n /\ e.ptr = x.ptr
    BY <1>3, <2>2, Entries
  <2> QED
    BY <2>1, <2>2, <2>3
<1>8. EntryIs(blk', F, 1, e)
  <2>1. blk' = [blk EXCEPT ![F] = [blk[F] EXCEPT ![1] = e]]
    BY <1>2, <1>4, <1>6, <1>7
  <2> QED
    BY <2>1, <1>4, <1>6, <1>7 DEF EntryIs
<1>9. /\ writes' \in Seq(1..DIRBLOCKS-1) /\ Flushes' = In(root)' \cup {Dir!Super, Dir!Bitmap}
      /\ \A k \in DOMAIN writes' : (writes'[k] = Dir!Super => k = Len(writes')) /\ (writes'[k] = Dir!Bitmap => k = 1)
      /\ writes'[1] = Dir!Bitmap /\ writes' # << >>
  <2>1. PICK r \in Seq(Dir!Blocks \cup {Dir!Nil}) : r = root'
    BY <1>5
  <2>2. PICK w : w = Dir!DirFlush(r)
    OBVIOUS
  <2>3. writes' = <<Dir!Bitmap>> \o w
    BY <1>2, <2>1, <2>2
  <2>4. Flushed(r, w, writes')
    BY <1>5, <2>1, <2>2, <2>3, DirFlushIs
  <2>5. In(r) = In(root)'
    BY <2>1 DEF In
  <2> QED
    BY <2>4, <2>5 DEF Flushed, Flushes
<1>10. Types'
  <2>1. Dir!TypeOK'
    BY <1>2, <1>3, <1>4, <1>5, <1>8 DEF Types, Dir!TypeOK, EntryIs
  <2>2. blk'[F][1].name = request.n
    BY <1>4, <1>6, <1>7, <1>8 DEF EntryIs
  <2>3. PICK r, m : r = root' /\ m = blk'
    OBVIOUS
  <2>4. F \in In(r) /\ m[F][1].name = request.n
    BY <1>5, <2>2, <2>3 DEF In
  <2>5. request.n \in Dir!NamesOn(r, m)
    BY <1>6, <2>4, InNames
  <2>6. request.n \in Dir!NamesOn(root, blk)'
    BY <2>3, <2>5
  <2> QED
    BY <1>2, <1>3, <1>9, <2>1, <2>6 DEF Types
<1> QED
  BY <1>1, <1>2, <1>5, <1>7, <1>8, <1>9, <1>10

LEMMA GrowStep ==
    ASSUME DInv, Dir!Grow, ~foreign'
    PROVE  DInv'
<1>1. PICK F : F = Dir!FirstFree
  OBVIOUS
<1>2. /\ root' = Append(root, F) /\ droot' = droot /\ dblk' = dblk /\ dmarked' = dmarked
      /\ known' = known /\ data' = data /\ made' = made \cup {request.n} /\ request' = request /\ Dir!Absent /\ Dir!Alloc
  BY <1>1 DEF Dir!Grow, Dir!diskVars
<1>4. Types
  BY DEF DInv
<1>3. /\ request.n \in Names /\ request.n \notin Dir!NamesOn(root, blk) /\ writes = << >>
      /\ \A i \in DOMAIN root : root[i] # Dir!Nil
  BY <1>2, <1>4, AbsentIs
<1>5. /\ F \in Dir!Blocks /\ F \notin marked /\ marked' = marked \cup {F}
      /\ NoPointers(blk[F]) /\ F \notin In(root) /\ Dir!FreeBlocks # {}
      /\ ~stale' => ~stale /\ \A j \in Dir!Slots : blk[F][j].name = Dir!NoName
  BY <1>1, <1>2, TakenIs
<1>6. PICK i \in Nat : i = Len(root) + 1
  BY <1>4, Typed
<1>7. /\ root' \in Seq(Dir!Blocks \cup {Dir!Nil}) /\ DOMAIN root' = DOMAIN root \cup {i} /\ Len(root') = i
      /\ root'[i] = F /\ \A x \in DOMAIN root \ {i} : root'[x] = root[x]
      /\ Len(root') >= Len(root) /\ i \notin DOMAIN root
  <2>1. root \in Seq(Dir!Blocks \cup {Dir!Nil}) /\ DOMAIN root = 1..Len(root) /\ Len(root) \in Nat
    BY <1>4, Typed
  <2> QED
    BY <1>2, <1>5, <1>6, <2>1
<1>8. PICK r \in Seq(Dir!Blocks \cup {Dir!Nil}) : r = root'
  BY <1>7
<1>9. /\ In(r) = In(root) \cup {F} /\ Shape(r)
      /\ Len(droot) <= Len(r) /\ \A x \in DOMAIN droot : droot[x] # Dir!Nil => r[x] = droot[x]
  <2>1. Fills(r, i)
    BY <1>1, <1>3, <1>7, <1>8 DEF Fills
  <2> QED
    BY <1>1, <1>5, <2>1, RootMore
<1>10. In(root)' = In(root) \cup {F} /\ In(droot)' = In(droot) /\ Shape(root)' /\ Behind'
  <2>1. In(root)' = In(r) /\ Shape(root)'
    BY <1>8, <1>9 DEF In, Shape
  <2>2. Behind'
    BY <1>2, <1>8, <1>9 DEF Behind
  <2>3. In(droot)' = In(droot)
    BY <1>2 DEF In
  <2> QED
    BY <2>1, <2>2, <2>3, <1>9
<1>11. /\ blk \in [Dir!Blocks -> [Dir!Slots -> Dir!Entry]] /\ In(root) \subseteq Dir!Blocks /\ marked \subseteq Dir!Blocks
       /\ blk = dblk /\ marked \subseteq dmarked /\ 1 \in Dir!Slots
  BY <1>3, <1>4, ReadyIs, Typed, Numbers
<1>12. PICK e \in Dir!Entry : EntryIs(blk', F, 1, e) /\ e.name = request.n /\ e.ptr = blk[F][1].ptr
  BY <1>1, <1>4, GrowTypes
<1>13. /\ blk' \in [Dir!Blocks -> [Dir!Slots -> Dir!Entry]]
       /\ \A b \in Dir!Blocks, j \in Dir!Slots : blk'[b][j] = IF b = F /\ j = 1 THEN e ELSE blk[b][j]
       /\ \A b \in Dir!Blocks \ {F} : blk'[b] = blk[b]
  BY <1>12 DEF EntryIs
<1>14. NoPointers(blk'[F])
  <2>1. \A j \in Dir!Slots : blk'[F][j] = IF j = 1 THEN e ELSE blk[F][j]
    BY <1>5, <1>13
  <2>2. e.ptr = Dir!Nil /\ \A j \in Dir!Slots : blk[F][j].ptr = Dir!Nil
    BY <1>5, <1>11, <1>12 DEF NoPointers
  <2> QED
    BY ONLY <2>1, <2>2 DEF NoPointers
<1>15. /\ Types' /\ Flushes' = In(root)' \cup {Dir!Super, Dir!Bitmap}
       /\ \A k \in DOMAIN writes' : (writes'[k] = Dir!Super => k = Len(writes')) /\ (writes'[k] = Dir!Bitmap => k = 1)
       /\ writes'[1] = Dir!Bitmap /\ writes' # << >>
  BY <1>4, GrowTypes
<1>17. Shape(droot)'
  BY <1>2 DEF DInv, Shape
<1>18. Blockwise'
  <2>1. PICK m : m = blk'
    OBVIOUS
  <2>2. Owned(In(root) \cup {F}, m, marked \cup {F}, data)
    BY <1>1, <1>5, <1>13, <1>14, <2>1, OwnedMore
  <2>3. Owned(In(root)', blk', marked', data') /\ Owned(In(droot)', dblk', dmarked', data')
    BY <1>2, <1>5, <1>10, <2>1, <2>2 DEF DInv, Blockwise
  <2>4. Pending'
    BY <1>2, <1>5, <1>10, <1>11, <1>13, <1>15 DEF Pending, Differs
  <2>5. OneDiffers'
    BY <1>2, <1>5, <1>10, <1>11, <1>13 DEF OneDiffers, Differs
  <2> QED
    BY <2>3, <2>4, <2>5 DEF Blockwise
<1>19. SuperLast' /\ BitmapFirst'
  <2>1. (\A b \in In(droot), j \in Dir!Slots : dblk[b][j].ptr \in marked \cup {Dir!Nil})'
    BY <1>2, <1>3, <1>5, Marked DEF Dir!diskVars
  <2> QED
    BY <1>15, <2>1 DEF SuperLast, BitmapFirst
<1>20. Saved' /\ Kept'
  <2>1. \A b \in In(root), j \in Dir!Slots : blk[b][j].name # Dir!NoName => blk'[b][j].name = blk[b][j].name
    BY <1>5, <1>11, <1>13
  <2>2. (\A n \in made : \E b \in Dir!Blocks, j \in Dir!Slots : SavedAt(n, b, j)') /\ Kept'
    BY <1>2, <1>3, <1>10, <2>1, StillSaved DEF Dir!diskVars
  <2>3. SavedAt(request.n, F, 1)'
    BY <1>2, <1>5, <1>10, <1>11, <1>12, <1>13, <1>15 DEF SavedAt
  <2>4. \A n \in made' : \E b \in Dir!Blocks, j \in Dir!Slots : SavedAt(n, b, j)'
    BY <1>2, <1>5, <1>11, <2>2, <2>3
  <2> QED
    BY <2>2, <2>4 DEF Saved
<1>21. Known' /\ Once' /\ Asked'
  <2>1. Known'
    BY <1>2 DEF DInv, Known, Dir!NamesOn
  <2>2. ASSUME ~stale' PROVE Distinct(In(root)', blk') /\ Calls(In(root)', blk', made')
    <3> DEFINE S == In(root) \cup {F}
    <3>1. Distinct(In(root), blk) /\ Calls(In(root), blk, made)
      BY <1>5, <2>2 DEF DInv, Once, Asked
    <3>2. Distinct(S, blk) /\ Calls(S, blk, made)
      BY <1>5, <2>2, <3>1, MoreNames
    <3>3. \A b \in S, j \in Dir!Slots : blk[b][j].name # request.n
      BY <1>3, <1>5, <2>2, InNames, Numbers
    <3>4. Renames(S, blk, blk', F, 1, request.n)
      <4>1. blk'[F][1].name = request.n
        BY <1>5, <1>11, <1>12, <1>13
      <4>2. ASSUME NEW b \in S, NEW j \in Dir!Slots, b # F \/ j # 1
            PROVE  blk'[b][j].name = blk[b][j].name
        BY <1>5, <1>11, <1>13, <4>2
      <4>3. F \in S /\ 1 \in Dir!Slots
        BY <1>11
      <4> QED
        BY <3>3, <4>1, <4>2, <4>3 DEF Renames
    <3> HIDE DEF S
    <3>5. Distinct(S, blk') /\ Calls(S, blk', made \cup {request.n})
      BY <3>2, <3>4, NewName
    <3> QED
      BY <1>2, <1>10, <3>5 DEF S
  <2> QED
    BY <2>1, <2>2 DEF Once, Asked
<1> QED
  BY <1>10, <1>15, <1>17, <1>18, <1>19, <1>20, <1>21 DEF DInv

(* The entry j of block f loses its block, which is none of the directory. *)
Cuts(S, m, m2, f, j) ==
    /\ f \in S /\ j \in Dir!Slots /\ m2[f][j].ptr = Dir!Nil
    /\ \A b \in Dir!Blocks, k \in Dir!Slots : b # f \/ k # j => m2[b][k] = m[b][k]
    /\ \A b \in Dir!Blocks \ {f} : m2[b] = m[b]

LEMMA OwnedCut ==
    ASSUME NEW S, S \subseteq Dir!Blocks, NEW m, NEW m2, NEW u, u \subseteq Dir!Blocks, NEW d, NEW f, NEW j,
           Owned(S, m, u, d), Cuts(S, m, m2, f, j)
    PROVE  Owned(S, m2, u \ {m[f][j].ptr}, d)
<1>1. PICK q : q = m[f][j].ptr
  OBVIOUS
<1>2. f \in S /\ j \in Dir!Slots /\ m2[f][j].ptr = Dir!Nil /\ Dir!Nil \notin Dir!Blocks
  BY Numbers DEF Cuts
<1>3. q # Dir!Nil => /\ q \in (u \cap d) \ S
                 /\ \A c \in S, k \in Dir!Slots : m[c][k].ptr = q => f = c /\ j = k
  BY <1>1, <1>2 DEF Owned
<1>4. S \subseteq u \ {q}
  BY <1>2, <1>3 DEF Owned
<1>5. ASSUME NEW b \in S, NEW i \in Dir!Slots, m2[b][i].ptr # Dir!Nil
      PROVE  /\ m2[b][i].ptr \in ((u \ {q}) \cap d) \ S
             /\ \A c \in S, k \in Dir!Slots : m2[c][k].ptr = m2[b][i].ptr => b = c /\ i = k
  <2>1. PICK x : x = m2[b][i].ptr
    OBVIOUS
  <2>2. x # Dir!Nil /\ (b # f \/ i # j) /\ m[b][i].ptr = x
    BY <1>2, <1>5, <2>1 DEF Cuts
  <2>3. x \in (u \cap d) \ S
    BY <2>2 DEF Owned
  <2>4. x # q
    BY <1>3, <2>2
  <2>6. ASSUME NEW c \in S, NEW k \in Dir!Slots, m2[c][k].ptr = x PROVE b = c /\ i = k
    <3>1. m[c][k].ptr = m[b][i].ptr
      BY <1>2, <2>2, <2>6 DEF Cuts
    <3> QED
      BY <2>2, <3>1 DEF Owned
  <2> QED
    BY <2>1, <2>3, <2>4, <2>6
<1>6. ASSUME NEW b \in Dir!Blocks \ (u \ {q}), b \notin d PROVE m2[b] = Dir!Zeros
  <2>1. b # f /\ b # q
    BY <1>2, <1>3, <1>4, <1>6
  <2> QED
    BY <1>6, <2>1 DEF Cuts, Owned
<1> QED
  BY <1>1, <1>4, <1>5, <1>6 DEF Owned

(* A step of a request that changes pointers only. *)
LEMMA SameNames ==
    ASSUME DInv, writes = << >>, UNCHANGED <<root, Dir!diskVars, made, stale>>, In(root) \subseteq Dir!Blocks,
           \A b \in In(root), j \in Dir!Slots : blk'[b][j].name = blk[b][j].name
    PROVE  Saved' /\ Kept' /\ Once' /\ Asked'
<1>1. root' = root /\ droot' = droot /\ dblk' = dblk /\ made' = made /\ stale' = stale
  BY DEF Dir!diskVars
<1>2. In(root)' = In(root)
  BY <1>1 DEF In
<1>3. Saved' /\ Kept'
  BY <1>1, <1>2, StillSaved DEF Dir!diskVars, Saved
<1>4. ASSUME ~stale' PROVE Distinct(In(root)', blk') /\ Calls(In(root)', blk', made')
  <2>1. Distinct(In(root), blk) /\ Calls(In(root), blk, made)
    BY <1>1, <1>4 DEF DInv, Once, Asked
  <2>2. Distinct(In(root), blk') /\ Calls(In(root), blk', made')
    BY <1>1, <2>1 DEF Distinct, Calls
  <2> QED
    BY <1>2, <2>2
<1> QED
  BY <1>3, <1>4 DEF Once, Asked

(* The entry that serve_open() and fs_test() work on. *)
LEMMA EntryOf ==
    ASSUME Types, NEW n, Dir!Named(n) # {}
    PROVE  \E p \in Dir!Places : p = Dir!FirstOf(Dir!Named(n)) /\ Dir!At(p).name = n
<1>1. Dir!Named(n) \subseteq Dir!Places
  BY DEF Dir!Named
<1>2. Dir!FirstOf(Dir!Named(n)) \in Dir!Named(n)
  BY <1>1, FirstOfIs
<1> QED
  BY <1>1, <1>2 DEF Dir!Named

LEMMA Opened ==
    ASSUME Types, at = "open"
    PROVE  \E p \in Dir!Places : p = Dir!Here /\ Dir!At(p).name = request.n
<1>1. Dir!Named(request.n) # {}
  BY NamedIs DEF Types
<1> QED
  BY <1>1, EntryOf DEF Dir!Here

(* A file loses its block, and the block with its entry is to be written. *)
LEMMA TruncateIs ==
    ASSUME Types, NEW p \in Dir!Places, Dir!Truncate(p)
    PROVE  \E B \in In(root), J \in Dir!Slots, e \in Dir!Entry :
              /\ B \in Dir!Blocks /\ EntryIs(blk', B, J, e) /\ e.name = blk[B][J].name /\ e.ptr = Dir!Nil
              /\ marked' = marked \ {blk[B][J].ptr} /\ writes' = <<B>>
              /\ writes' \in Seq(1..DIRBLOCKS-1) /\ marked' \subseteq Dir!Blocks
              /\ \A b \in Dir!Blocks, j \in Dir!Slots : blk'[b][j].name = blk[b][j].name
<1>1. PICK B \in In(root), J \in Dir!Slots : B = root[p[1]] /\ J = p[2] /\ B \in Dir!Blocks /\ blk[B][J] = Dir!At(p) /\ Dir!At(p) \in Dir!Entry
  BY PlaceIs
<1>2. PICK e \in Dir!Entry : e = [Dir!At(p) EXCEPT !.ptr = Dir!Nil] /\ e.name = blk[B][J].name /\ e.ptr = Dir!Nil
  <2>1. PICK x \in Dir!Entry : x = Dir!At(p)
    BY <1>1
  <2>2. PICK e : e = [x EXCEPT !.ptr = Dir!Nil]
    OBVIOUS
  <2>3. e \in Dir!Entry /\ e.name = x.name /\ e.ptr = Dir!Nil
    BY <2>2, Entries
  <2> QED
    BY <1>1, <2>1, <2>2, <2>3
<1>3. marked' = marked \ {blk[B][J].ptr} /\ blk' = Dir!Stored(p, e) /\ writes' = <<B>>
  BY <1>1, <1>2 DEF Dir!Truncate
<1>4. EntryIs(blk', B, J, e)
  <2>1. PICK m : m = Dir!Stored(p, e)
    OBVIOUS
  <2>2. /\ m \in [Dir!Blocks -> [Dir!Slots -> Dir!Entry]]
        /\ \A b \in Dir!Blocks, j \in Dir!Slots : m[b][j] = IF b = root[p[1]] /\ j = p[2] THEN e ELSE blk[b][j]
        /\ \A b \in Dir!Blocks \ {root[p[1]]} : m[b] = blk[b]
    BY <2>1, StoredIs
  <2>3. EntryIs(m, B, J, e)
    BY <1>1, <2>2 DEF EntryIs
  <2> QED
    BY <1>3, <2>1, <2>3
<1>5. \A b \in Dir!Blocks, j \in Dir!Slots : blk'[b][j].name = blk[b][j].name
  BY <1>2, <1>4 DEF EntryIs
<1>6. writes' \in Seq(1..DIRBLOCKS-1) /\ marked' \subseteq Dir!Blocks
  BY <1>1, <1>3, Numbers, Typed
<1> QED
  BY <1>1, <1>2, <1>3, <1>4, <1>5, <1>6

LEMMA TruncateStep ==
    ASSUME DInv, writes = << >>, NEW p \in Dir!Places, Dir!Truncate(p),
           UNCHANGED <<root, Dir!diskVars, made, data, stale>>
    PROVE  /\ Shape(root)' /\ Shape(droot)' /\ Behind'
           /\ Blockwise' /\ SuperLast' /\ BitmapFirst'
           /\ Kept' /\ Saved' /\ Once' /\ Asked'
<1>1. /\ root' = root /\ droot' = droot /\ dblk' = dblk /\ dmarked' = dmarked
      /\ data' = data /\ stale' = stale /\ made' = made
  BY DEF Dir!diskVars
<1>2. Types
  BY DEF DInv
<1>3. PICK B \in In(root), J \in Dir!Slots, e \in Dir!Entry :
         /\ B \in Dir!Blocks /\ EntryIs(blk', B, J, e) /\ e.name = blk[B][J].name /\ e.ptr = Dir!Nil
         /\ marked' = marked \ {blk[B][J].ptr} /\ writes' = <<B>>
         /\ \A b \in Dir!Blocks, j \in Dir!Slots : blk'[b][j].name = blk[b][j].name
  BY <1>2, TruncateIs
<1>4. /\ In(root)' = In(root) /\ In(droot)' = In(droot) /\ In(root) \subseteq Dir!Blocks /\ marked \subseteq Dir!Blocks
      /\ blk = dblk /\ marked \subseteq dmarked /\ Flushes = {} /\ In(droot) \subseteq In(root)
  <2>1. In(root)' = In(root) /\ In(droot)' = In(droot)
    BY <1>1 DEF In
  <2> QED
    BY <1>1, <1>2, <2>1, ReadyIs, Typed
<1>5. Owned(In(root), blk, marked, data) /\ Owned(In(droot), dblk, dmarked, data)
  BY DEF DInv, Blockwise
<1>6. /\ \A b \in Dir!Blocks, j \in Dir!Slots : blk'[b][j] = IF b = B /\ j = J THEN e ELSE blk[b][j]
      /\ \A b \in Dir!Blocks \ {B} : blk'[b] = blk[b]
  BY <1>3 DEF EntryIs
<1>7. Owned(In(root), blk', marked', data) /\ B \in marked' /\ marked' \subseteq marked
  <2>1. Cuts(In(root), blk, blk', B, J)
    BY <1>3, <1>6 DEF Cuts
  <2>2. Owned(In(root), blk', marked', data)
    BY <1>3, <1>4, <1>5, <2>1, OwnedCut
  <2> QED
    BY <1>3, <2>2 DEF Owned
<1>8. Flushes' = {B}
  BY <1>3 DEF Flushes
<1>9. Shape(root)' /\ Shape(droot)' /\ Behind'
  BY <1>1 DEF DInv, Shape, Behind
<1>10. Blockwise'
  <2>1. Owned(In(root)', blk', marked', data') /\ Owned(In(droot)', dblk', dmarked', data')
    BY <1>1, <1>4, <1>5, <1>7
  <2>2. Pending'
    BY <1>1, <1>4, <1>6, <1>7, <1>8 DEF Pending, Differs
  <2>3. OneDiffers'
    BY <1>1, <1>4, <1>6 DEF OneDiffers, Differs
  <2> QED
    BY <2>1, <2>2, <2>3 DEF Blockwise
<1>11. SuperLast' /\ BitmapFirst'
  <2>1. Dir!Bitmap \notin Flushes' /\ Dir!Super \notin Flushes'
    BY <1>3, <1>8, Numbers
  <2> QED
    BY <1>1, <1>4, <1>7, <2>1 DEF SuperLast, BitmapFirst, Flushes
<1>12. Saved' /\ Kept' /\ Once' /\ Asked'
  BY <1>1, <1>3, <1>4, SameNames DEF Dir!diskVars
<1> QED
  BY <1>9, <1>10, <1>11, <1>12

(* The names in memory are the same when no entry of a block changes its. *)
LEMMA NamesSame ==
    ASSUME Types, root' = root, NEW n, n \in Dir!NamesOn(root, blk),
           \A b \in Dir!Blocks, j \in Dir!Slots : blk'[b][j].name = blk[b][j].name
    PROVE  n \in Dir!NamesOn(root, blk)'
<1>1. PICK b \in In(root), j \in Dir!Slots : blk[b][j].name = n
  BY InNames
<1>2. blk'[b][j].name = n
  BY <1>1, Typed
<1>3. n \in Dir!NamesOn(root, blk')
  BY <1>2, InNames
<1> QED
  BY <1>3

LEMMA OpenTypes ==
    ASSUME Types, Dir!Open
    PROVE  Types'
<1>1. /\ root' = root /\ droot' = droot /\ dblk' = dblk /\ dmarked' = dmarked /\ point' = point
      /\ data' = data /\ stale' = stale /\ foreign' = foreign /\ stops' = stops /\ made' = made
      /\ at = "open" /\ at' = "idle" /\ request' = Dir!NoOp /\ known' = known \cup ({request.n} \cap made)
  BY DEF Dir!Open, Dir!Ready, Dir!Return, Dir!Serving, Dir!diskVars
<1>2. PICK p \in Dir!Places : p = Dir!FirstOf(Dir!Named(request.n))
  BY <1>1, Opened DEF Dir!Here
<1>3. UNCHANGED <<marked, blk, writes>> \/ Dir!Truncate(p)
  BY <1>2 DEF Dir!Open
<1>4. marked' \subseteq Dir!Blocks /\ blk' \in [Dir!Blocks -> [Dir!Slots -> Dir!Entry]] /\ writes' \in Seq(1..DIRBLOCKS-1)
  <2>1. CASE UNCHANGED <<marked, blk, writes>>
    BY <2>1, Typed
  <2>2. CASE Dir!Truncate(p)
    BY <2>2, TruncateIs DEF EntryIs
  <2> QED
    BY <1>3, <2>1, <2>2
<1>5. Dir!TypeOK'
  BY <1>1, <1>4 DEF Types, Dir!TypeOK
<1> QED
  BY <1>1, <1>4, <1>5 DEF Types, Requests, Dir!NoOp

LEMMA OpenStep ==
    ASSUME DInv, Dir!Open
    PROVE  DInv'
<1>1. /\ root' = root /\ droot' = droot /\ dblk' = dblk /\ dmarked' = dmarked
      /\ data' = data /\ stale' = stale /\ made' = made /\ at = "open" /\ writes = << >>
      /\ known' = known \cup ({request.n} \cap made)
  BY DEF Dir!Open, Dir!Ready, Dir!diskVars
<1>2. Types /\ Types'
  BY OpenTypes DEF DInv
<1>3. PICK p \in Dir!Places : p = Dir!FirstOf(Dir!Named(request.n))
  BY <1>1, <1>2, Opened DEF Dir!Here
<1>4. UNCHANGED <<marked, blk, writes>> \/ Dir!Truncate(p)
  BY <1>3 DEF Dir!Open
<1>5. /\ Shape(root)' /\ Shape(droot)' /\ Behind'
      /\ Blockwise' /\ SuperLast' /\ BitmapFirst'
      /\ Kept' /\ Saved' /\ Once' /\ Asked'
  <2>1. CASE UNCHANGED <<marked, blk, writes>>
    <3>1. /\ root' = root /\ blk' = blk /\ marked' = marked /\ droot' = droot /\ dblk' = dblk /\ dmarked' = dmarked
          /\ writes' = writes /\ made' = made /\ data' = data /\ stale' = stale
      BY <1>1, <2>1
    <3>2. Shape(root)' /\ Shape(droot)' /\ Behind'
      BY <3>1 DEF DInv, Shape, Behind
    <3>3. Blockwise'
      BY <3>1 DEF DInv, Blockwise, Owned, In, Pending, OneDiffers, Differs, Flushes
    <3>4. SuperLast' /\ BitmapFirst'
      BY <3>1 DEF DInv, SuperLast, BitmapFirst, Flushes, In
    <3>5. Kept' /\ Saved' /\ Once' /\ Asked'
      BY <3>1 DEF DInv, Kept, Saved, SavedAt, Once, Asked, Distinct, Calls, In, Flushes
    <3> QED
      BY <3>2, <3>3, <3>4, <3>5
  <2>2. CASE Dir!Truncate(p)
    BY <1>1, <2>2, TruncateStep DEF Dir!diskVars
  <2> QED
    BY <1>4, <2>1, <2>2
<1>6. Known'
  <2>1. request.n \in made => request.n \in Dir!NamesOn(droot, dblk)
    BY <1>1, ReadyIs, InNames
  <2>2. Dir!NamesOn(droot, dblk)' = Dir!NamesOn(droot, dblk)
    BY <1>1 DEF Dir!NamesOn
  <2> QED
    BY <1>1, <2>1, <2>2 DEF DInv, Known
<1> QED
  BY <1>2, <1>5, <1>6 DEF DInv

LEMMA TestTruncateTypes ==
    ASSUME Types, Dir!TestTruncate
    PROVE  Types'
<1>1. /\ root' = root /\ droot' = droot /\ dblk' = dblk /\ dmarked' = dmarked /\ point' = "rewrite"
      /\ data' = data /\ stale' = stale /\ foreign' = foreign /\ stops' = stops /\ made' = made /\ known' = known
      /\ at = "open" /\ at' = at /\ request' = request
  BY DEF Dir!TestTruncate, Dir!Ready, Dir!diskVars, Dir!histVars
<1>2. PICK p \in Dir!Places : p = Dir!Here
  BY <1>1, Opened
<1>3. Dir!Truncate(p)
  BY <1>2 DEF Dir!TestTruncate
<1>4. /\ marked' \subseteq Dir!Blocks /\ blk' \in [Dir!Blocks -> [Dir!Slots -> Dir!Entry]] /\ writes' \in Seq(1..DIRBLOCKS-1)
      /\ \A b \in Dir!Blocks, j \in Dir!Slots : blk'[b][j].name = blk[b][j].name
  BY <1>3, TruncateIs DEF EntryIs
<1>5. Dir!TypeOK'
  BY <1>1, <1>4 DEF Types, Dir!TypeOK, Dir!Phases
<1>6. request.n \in Dir!NamesOn(root, blk)'
  BY <1>1, <1>4, NamesSame DEF Types
<1> QED
  BY <1>1, <1>4, <1>5, <1>6 DEF Types

LEMMA TestTruncateStep ==
    ASSUME DInv, Dir!TestTruncate
    PROVE  DInv'
<1>1. /\ root' = root /\ droot' = droot /\ dblk' = dblk /\ dmarked' = dmarked /\ writes = << >>
      /\ data' = data /\ stale' = stale /\ made' = made /\ known' = known /\ at = "open"
  BY DEF Dir!TestTruncate, Dir!Ready, Dir!diskVars, Dir!histVars
<1>2. Types /\ Types'
  BY TestTruncateTypes DEF DInv
<1>3. PICK p \in Dir!Places : p = Dir!Here
  BY <1>1, <1>2, Opened
<1>4. Dir!Truncate(p)
  BY <1>3 DEF Dir!TestTruncate
<1>5. /\ Shape(root)' /\ Shape(droot)' /\ Behind'
      /\ Blockwise' /\ SuperLast' /\ BitmapFirst'
      /\ Kept' /\ Saved' /\ Once' /\ Asked'
  BY <1>1, <1>4, TruncateStep DEF Dir!diskVars
<1>6. Known'
  BY <1>1 DEF DInv, Known, Dir!NamesOn
<1> QED
  BY <1>2, <1>5, <1>6 DEF DInv

(* The entry j of block f gets block q, or has it, and that is written. *)
Puts(S, m, m2, f, j, q) ==
    /\ f \in S /\ j \in Dir!Slots /\ q \in Dir!Blocks \ S /\ m2[f][j].ptr = q
    /\ \A b \in S, k \in Dir!Slots : b # f \/ k # j => m2[b][k] = m[b][k]
    /\ \A b \in Dir!Blocks \ {f, q} : m2[b] = m[b]

LEMMA OwnedPut ==
    ASSUME NEW S, S \subseteq Dir!Blocks, NEW m, NEW m2, NEW u, u \subseteq Dir!Blocks, NEW d,
           NEW f, NEW j, NEW q, Owned(S, m, u, d), Puts(S, m, m2, f, j, q),
           m[f][j].ptr = q \/ (m[f][j].ptr = Dir!Nil /\ q \notin u)
    PROVE  Owned(S, m2, u \cup {q}, d \cup {q})
<1>1. f \in S /\ j \in Dir!Slots /\ q \in Dir!Blocks \ S /\ m2[f][j].ptr = q /\ Dir!Nil \notin Dir!Blocks
  BY Numbers DEF Puts
<1>2. \A c \in S, k \in Dir!Slots : m[c][k].ptr = q => c = f /\ k = j
  BY <1>1 DEF Owned
<1>3. S \subseteq u \cup {q}
  BY DEF Owned
<1>4. ASSUME NEW b \in S, NEW i \in Dir!Slots, m2[b][i].ptr # Dir!Nil
      PROVE  /\ m2[b][i].ptr \in ((u \cup {q}) \cap (d \cup {q})) \ S
             /\ \A c \in S, k \in Dir!Slots : m2[c][k].ptr = m2[b][i].ptr => b = c /\ i = k
  <2>1. CASE b = f /\ i = j
    <3>1. ASSUME NEW c \in S, NEW k \in Dir!Slots, m2[c][k].ptr = q PROVE c = f /\ k = j
      BY <1>2, <3>1 DEF Puts
    <3> QED
      BY <1>1, <2>1, <3>1 DEF Puts
  <2>2. CASE b # f \/ i # j
    <3>1. PICK x : x = m2[b][i].ptr
      OBVIOUS
    <3>2. x # Dir!Nil /\ m[b][i].ptr = x
      BY <1>4, <2>2, <3>1 DEF Puts
    <3>3. x \in (u \cap d) \ S
      BY <3>2 DEF Owned
    <3>4. x # q
      BY <1>1, <1>2, <2>2, <3>2
    <3>6. ASSUME NEW c \in S, NEW k \in Dir!Slots, m2[c][k].ptr = x PROVE b = c /\ i = k
      <4>1. c # f \/ k # j
        BY <1>1, <3>4, <3>6
      <4>2. m[c][k].ptr = m[b][i].ptr
        BY <3>2, <3>6, <4>1 DEF Puts
      <4> QED
        BY <3>2, <4>2 DEF Owned
    <3> QED
      BY <3>1, <3>3, <3>6
  <2> QED
    BY <2>1, <2>2
<1>5. ASSUME NEW b \in Dir!Blocks \ (u \cup {q}), b \notin d \cup {q} PROVE m2[b] = Dir!Zeros
  <2>1. b # f /\ b # q
    BY <1>1, <1>3
  <2> QED
    BY <1>5, <2>1 DEF Puts, Owned
<1> QED
  BY <1>3, <1>4, <1>5 DEF Owned

(* What a write into the file at p leaves: its entry e, in slot J of block *)
(* B of the directory, has block q.                                        *)
PutLeaves(B, J, q, e, text) ==
    /\ B \in In(root) /\ J \in Dir!Slots /\ q \in Dir!Blocks /\ B \in Dir!Blocks
    /\ e.name = blk[B][J].name /\ e.ptr = q
    /\ blk' \in [Dir!Blocks -> [Dir!Slots -> Dir!Entry]] /\ blk'[q] = text
    /\ \A b \in Dir!Blocks \ {q}, j \in Dir!Slots : blk'[b][j] = IF b = B /\ j = J THEN e ELSE blk[b][j]
    /\ \A b \in Dir!Blocks \ {B, q} : blk'[b] = blk[b]
    /\ \/ blk[B][J].ptr = q /\ marked' = marked /\ writes' = <<q, B>>
       \/ blk[B][J].ptr = Dir!Nil /\ q \notin marked /\ marked' = marked \cup {q}
          /\ writes' = <<Dir!Bitmap, q, B>>
    /\ data' = data \cup {q}

LEMMA BlockAtIs ==
    ASSUME Types, NEW p \in Dir!Places, Dir!At(p).ptr # Dir!Nil \/ Dir!FreeBlocks # {}
    PROVE  Dir!BlockAt(p) \in Dir!Blocks
<1>1. Dir!At(p) \in Dir!Entry
  BY PlaceIs
<1>2. CASE Dir!At(p).ptr = Dir!Nil
  BY <1>2, FirstFreeIs DEF Dir!BlockAt
<1>3. CASE Dir!At(p).ptr # Dir!Nil
  BY <1>1, <1>3, Entries DEF Dir!BlockAt
<1> QED
  BY <1>2, <1>3

LEMMA PutIs ==
    ASSUME Types, NEW p \in Dir!Places, NEW text \in [Dir!Slots -> Dir!Entry], Dir!Put(p, text)
    PROVE  /\ \E B, J, q, e : q = Dir!BlockAt(p) /\ PutLeaves(B, J, q, e, text)
           /\ root' = root /\ droot' = droot /\ dblk' = dblk /\ dmarked' = dmarked /\ stops' = stops
           /\ stale' = stale /\ foreign' = foreign /\ made' = made /\ known' = known
<1>1. PICK B \in In(root), J \in Dir!Slots : B = root[p[1]] /\ J = p[2] /\ B \in Dir!Blocks /\ blk[B][J] = Dir!At(p) /\ Dir!At(p) \in Dir!Entry
  BY PlaceIs
<1>2. PICK q : q = Dir!BlockAt(p)
  OBVIOUS
<1>3. PICK e : e = [Dir!At(p) EXCEPT !.ptr = q]
  OBVIOUS
<1>4. /\ IF Dir!At(p).ptr # Dir!Nil THEN marked' = marked ELSE Dir!FreeBlocks # {} /\ marked' = marked \cup {Dir!FirstFree}
      /\ data' = data \cup {q}
      /\ blk' = [Dir!Stored(p, e) EXCEPT ![q] = text]
      /\ writes' = IF Dir!At(p).ptr = Dir!Nil THEN <<Dir!Bitmap, q, B>> ELSE <<q, B>>
  BY <1>1, <1>2, <1>3 DEF Dir!Put, Dir!Taken
<1>5. /\ q \in Dir!Blocks
      /\ \/ blk[B][J].ptr = q /\ marked' = marked /\ writes' = <<q, B>>
         \/ blk[B][J].ptr = Dir!Nil /\ q \notin marked /\ marked' = marked \cup {q}
            /\ writes' = <<Dir!Bitmap, q, B>>
  <2>1. CASE Dir!At(p).ptr = Dir!Nil
    <3>1. q = Dir!FirstFree /\ Dir!FreeBlocks # {} /\ marked' = marked \cup {q}
      BY <1>2, <1>4, <2>1 DEF Dir!BlockAt
    <3>2. q \in Dir!Blocks /\ q \notin marked
      BY <3>1, FirstFreeIs
    <3>3. writes' = <<Dir!Bitmap, q, B>>
      BY <1>4, <2>1
    <3> QED
      BY <1>1, <2>1, <3>1, <3>2, <3>3
  <2>2. CASE Dir!At(p).ptr # Dir!Nil
    <3>1. q = blk[B][J].ptr /\ q # Dir!Nil /\ marked' = marked
      BY <1>1, <1>2, <1>4, <2>2 DEF Dir!BlockAt
    <3>2. q \in Dir!Blocks
      BY <1>1, <3>1, Entries
    <3>3. writes' = <<q, B>>
      BY <1>4, <2>2
    <3> QED
      BY <3>1, <3>2, <3>3
  <2> QED
    BY <2>1, <2>2
<1>6. e \in Dir!Entry /\ e.name = blk[B][J].name /\ e.ptr = q
  <2>1. PICK x \in Dir!Entry : x = Dir!At(p)
    BY <1>1
  <2>2. e = [x EXCEPT !.ptr = q] /\ q \in Dir!Blocks
    BY <1>3, <1>5, <2>1
  <2>3. e \in Dir!Entry /\ e.name = x.name /\ e.ptr = q
    BY <2>2, Entries
  <2> QED
    BY <1>1, <2>1, <2>3
<1>7. /\ blk' \in [Dir!Blocks -> [Dir!Slots -> Dir!Entry]] /\ blk'[q] = text
      /\ \A b \in Dir!Blocks \ {q}, j \in Dir!Slots : blk'[b][j] = IF b = B /\ j = J THEN e ELSE blk[b][j]
      /\ \A b \in Dir!Blocks \ {B, q} : blk'[b] = blk[b]
  <2>1. PICK m : m = Dir!Stored(p, e)
    OBVIOUS
  <2>2. /\ m \in [Dir!Blocks -> [Dir!Slots -> Dir!Entry]]
        /\ \A b \in Dir!Blocks, j \in Dir!Slots : m[b][j] = IF b = root[p[1]] /\ j = p[2] THEN e ELSE blk[b][j]
        /\ \A b \in Dir!Blocks \ {root[p[1]]} : m[b] = blk[b]
    BY <1>6, <2>1, StoredIs
  <2>3. blk' = [m EXCEPT ![q] = text]
    BY <1>4, <2>1
  <2>4. /\ blk' \in [Dir!Blocks -> [Dir!Slots -> Dir!Entry]] /\ blk'[q] = text
        /\ \A b \in Dir!Blocks \ {q} : blk'[b] = m[b]
    BY <1>5, <2>2, <2>3
  <2> QED
    BY <1>1, <2>2, <2>4
<1>8. PutLeaves(B, J, q, e, text)
  BY <1>1, <1>4, <1>5, <1>6, <1>7 DEF PutLeaves
<1>9. /\ root' = root /\ droot' = droot /\ dblk' = dblk /\ dmarked' = dmarked /\ stops' = stops
      /\ stale' = stale /\ foreign' = foreign /\ made' = made /\ known' = known
  BY DEF Dir!Put, Dir!diskVars
<1> QED
  BY <1>2, <1>8, <1>9

LEMMA PutTypes ==
    ASSUME Types, NEW p \in Dir!Places, NEW text \in [Dir!Slots -> Dir!Entry], Dir!Put(p, text),
           point' \in Dir!Phases
    PROVE  Dir!TypeOK' /\ writes' \in Seq(1..DIRBLOCKS-1)
<1>1. PICK B, J, q, e : PutLeaves(B, J, q, e, text)
  BY PutIs
<1>2. /\ root' = root /\ droot' = droot /\ dblk' = dblk /\ dmarked' = dmarked /\ stops' = stops
      /\ stale' = stale /\ foreign' = foreign /\ made' = made /\ known' = known
  BY PutIs
<1>3. Dir!TypeOK'
  <2>1. marked' \subseteq Dir!Blocks /\ data' \subseteq Dir!Blocks
    BY <1>1, Typed DEF PutLeaves
  <2>2. blk' \in [Dir!Blocks -> [Dir!Slots -> Dir!Entry]]
    BY <1>1 DEF PutLeaves
  <2> QED
    BY <1>2, <2>1, <2>2 DEF Types, Dir!TypeOK
<1>4. writes' \in Seq(1..DIRBLOCKS-1)
  <2>1. Dir!Bitmap \in 1..DIRBLOCKS-1 /\ q \in 1..DIRBLOCKS-1 /\ B \in 1..DIRBLOCKS-1
    BY <1>1, Numbers DEF PutLeaves
  <2>2. PICK T : T = 1..DIRBLOCKS-1
    OBVIOUS
  <2>3. <<Dir!Bitmap, q, B>> \in Seq(T) /\ <<q, B>> \in Seq(T)
    BY ONLY <2>1, <2>2
  <2>4. writes' = <<Dir!Bitmap, q, B>> \/ writes' = <<q, B>>
    BY <1>1 DEF PutLeaves
  <2> QED
    BY <2>2, <2>3, <2>4
<1> QED
  BY <1>3, <1>4

LEMMA PutStep ==
    ASSUME DInv, Types', writes = << >>, NEW p \in Dir!Places, NEW text \in [Dir!Slots -> Dir!Entry], Dir!Put(p, text)
    PROVE  DInv'
<1>1. PICK B, J, q, e : PutLeaves(B, J, q, e, text)
  BY PutIs DEF DInv
<1>2. /\ root' = root /\ droot' = droot /\ dblk' = dblk /\ dmarked' = dmarked
      /\ stale' = stale /\ made' = made /\ known' = known
  BY PutIs DEF DInv
<1>3. /\ B \in In(root) /\ J \in Dir!Slots /\ q \in Dir!Blocks /\ B \in Dir!Blocks
      /\ e.name = blk[B][J].name /\ e.ptr = q
      /\ \A b \in Dir!Blocks \ {q}, j \in Dir!Slots : blk'[b][j] = IF b = B /\ j = J THEN e ELSE blk[b][j]
      /\ \A b \in Dir!Blocks \ {B, q} : blk'[b] = blk[b]
      /\ \/ blk[B][J].ptr = q /\ marked' = marked /\ writes' = <<q, B>>
         \/ blk[B][J].ptr = Dir!Nil /\ q \notin marked /\ marked' = marked \cup {q} /\ writes' = <<Dir!Bitmap, q, B>>
      /\ data' = data \cup {q}
  BY <1>1 DEF PutLeaves
<1>8. /\ In(root) \subseteq Dir!Blocks /\ marked \subseteq Dir!Blocks
      /\ blk = dblk /\ marked \subseteq dmarked /\ In(droot) \subseteq In(root)
  BY ReadyIs, Typed DEF DInv
<1>9. In(root)' = In(root) /\ In(droot)' = In(droot)
  BY <1>2 DEF In
<1>10. Owned(In(root), blk, marked, data) /\ Owned(In(droot), dblk, dmarked, data) /\ In(root) \subseteq marked
  BY DEF DInv, Blockwise, Owned
<1>11. q \notin In(root) /\ marked' = marked \cup {q}
  <2>1. CASE blk[B][J].ptr = q /\ marked' = marked
    <3>1. q # Dir!Nil
      BY <1>3, Numbers
    <3> QED
      BY <1>3, <1>10, <2>1, <3>1 DEF Owned
  <2>2. CASE q \notin marked /\ marked' = marked \cup {q}
    BY <1>10, <2>2
  <2> QED
    BY <1>3, <2>1, <2>2
<1>12. \A b \in In(root), j \in Dir!Slots : blk'[b][j] = IF b = B /\ j = J THEN e ELSE blk[b][j]
  BY <1>3, <1>8, <1>11
<1>16. Shape(root)' /\ Shape(droot)' /\ Behind'
  BY <1>2 DEF DInv, Shape, Behind
<1>18. {q, B} \subseteq Flushes' /\ Dir!Super \notin Flushes'
  <2>1. q # Dir!Super /\ B # Dir!Super /\ Dir!Bitmap # Dir!Super
    BY <1>3, Numbers
  <2>2. CASE writes' = <<q, B>>
    <3>1. DOMAIN writes' = {1, 2} /\ writes'[1] = q /\ writes'[2] = B
      BY <2>2
    <3> QED
      BY <2>1, <3>1 DEF Flushes
  <2>3. CASE writes' = <<Dir!Bitmap, q, B>>
    <3>1. DOMAIN writes' = {1, 2, 3} /\ writes'[1] = Dir!Bitmap /\ writes'[2] = q /\ writes'[3] = B
      BY <2>3
    <3> QED
      BY <2>1, <3>1 DEF Flushes
  <2> QED
    BY <1>3, <2>2, <2>3
<1>19. Blockwise'
  <2>1. Puts(In(root), blk, blk', B, J, q)
    BY <1>3, <1>11, <1>12 DEF Puts
  <2>2. Owned(In(root), blk', marked \cup {q}, data \cup {q})
    BY <1>3, <1>8, <1>10, <2>1, OwnedPut
  <2>3. Owned(In(droot), dblk, dmarked, data \cup {q})
    BY <1>10, OwnedMono
  <2>4. Owned(In(root)', blk', marked', data') /\ Owned(In(droot)', dblk', dmarked', data')
    BY <1>2, <1>3, <1>9, <1>11, <2>2, <2>3
  <2>5. Pending'
    BY <1>2, <1>3, <1>8, <1>10, <1>11, <1>18 DEF Pending, Differs
  <2>6. OneDiffers'
    BY <1>2, <1>3, <1>8, <1>9, <1>11 DEF OneDiffers, Differs
  <2> QED
    BY <2>4, <2>5, <2>6 DEF Blockwise
<1>20. SuperLast' /\ BitmapFirst'
  <2>1. (\A b \in In(droot), j \in Dir!Slots : dblk[b][j].ptr \in marked \cup {Dir!Nil})'
    BY <1>2, <1>11, Marked DEF Dir!diskVars
  <2>2. SuperLast'
    BY <1>18 DEF SuperLast, Flushes
  <2>3. q # Dir!Bitmap /\ B # Dir!Bitmap
    BY <1>3, Numbers
  <2>4. \A k \in DOMAIN writes' : writes'[k] = Dir!Bitmap => k = 1
    BY <1>3, <2>3
  <2>5. marked' \subseteq dmarked' \/ (writes' # << >> /\ writes'[1] = Dir!Bitmap)
    BY <1>2, <1>3, <1>8
  <2> QED
    BY <2>1, <2>2, <2>4, <2>5 DEF BitmapFirst
<1>21. Saved' /\ Kept' /\ Once' /\ Asked'
  <2>1. \A b \in In(root), j \in Dir!Slots : blk'[b][j].name = blk[b][j].name
    BY <1>3, <1>12
  <2> QED
    BY <1>2, <1>8, <2>1, SameNames DEF Dir!diskVars
<1>22. Known'
  BY <1>2 DEF DInv, Known, Dir!NamesOn
<1> QED
  BY <1>16, <1>19, <1>20, <1>21, <1>22 DEF DInv

(* The writers. *)
LEMMA WriteIs ==
    ASSUME Types, NEW n \in Names, NEW text \in Texts, Dir!Write(n, text)
    PROVE  \E p \in Dir!Places, t \in [Dir!Slots -> Dir!Entry] : Dir!Put(p, t) /\ writes = << >> /\ Types'
<1>1. Dir!Named(n) # {} /\ writes = << >> /\ at = "idle" /\ at' = at /\ request' = request /\ point' = point
  BY DEF Dir!Write, Dir!Ready, Dir!Serving
<1>2. PICK p \in Dir!Places : p = Dir!FirstOf(Dir!Named(n))
  BY <1>1, EntryOf
<1>3. Dir!Put(p, text) /\ text \in [Dir!Slots -> Dir!Entry]
  BY <1>2, Numbers DEF Dir!Write
<1>4. Dir!TypeOK' /\ writes' \in Seq(1..DIRBLOCKS-1)
  BY <1>1, <1>3, PutTypes DEF Types, Dir!TypeOK
<1> QED
  BY <1>1, <1>3, <1>4 DEF Types

LEMMA TestCompareIs ==
    ASSUME Types, Dir!TestCompare
    PROVE  \E p \in Dir!Places, t \in [Dir!Slots -> Dir!Entry] : Dir!Put(p, t) /\ writes = << >> /\ Types'
<1>1. writes = << >> /\ at = "open" /\ at' = at /\ request' = request /\ point' \in Dir!Phases
  BY DEF Dir!TestCompare, Dir!Ready, Dir!Phases
<1>2. PICK p \in Dir!Places : p = Dir!Here
  BY <1>1, Opened
<1>3. PICK q, t : q = Dir!BlockAt(p) /\ t = blk[q]
  OBVIOUS
<1>4. Dir!Put(p, t)
  BY <1>2, <1>3 DEF Dir!TestCompare
<1>5. t \in [Dir!Slots -> Dir!Entry]
  <2>1. q \in Dir!Blocks
    BY <1>3, <1>4, BlockAtIs DEF Dir!Put
  <2> QED
    BY <1>3, <2>1, Typed
<1>6. Dir!TypeOK' /\ writes' \in Seq(1..DIRBLOCKS-1)
  BY <1>1, <1>4, <1>5, PutTypes
<1>7. request.n \in Dir!NamesOn(root, blk)'
  <2>1. PICK B, J, e : PutLeaves(B, J, q, e, t) /\ root' = root
    BY <1>3, <1>4, <1>5, PutIs
  <2>2. ASSUME NEW b \in Dir!Blocks, NEW j \in Dir!Slots PROVE blk'[b][j].name = blk[b][j].name
    BY <1>3, <2>1 DEF PutLeaves
  <2> QED
    BY <1>1, <2>1, <2>2, NamesSame DEF Types
<1> QED
  BY <1>1, <1>4, <1>5, <1>6, <1>7 DEF Types

LEMMA TestRewriteIs ==
    ASSUME Types, Dir!TestRewrite
    PROVE  \E p \in Dir!Places, t \in [Dir!Slots -> Dir!Entry] : Dir!Put(p, t) /\ writes = << >> /\ Types'
<1>1. writes = << >> /\ at = "open" /\ at' = "idle" /\ request' = Dir!NoOp /\ point' \in Dir!Phases
  BY DEF Dir!TestRewrite, Dir!Ready, Dir!Phases, Dir!Return
<1>2. PICK p \in Dir!Places : p = Dir!Here
  BY <1>1, Opened
<1>3. PICK t : t = Dir!MessageIn(blk[Dir!BlockAt(p)])
  OBVIOUS
<1>4. Dir!Put(p, t)
  BY <1>2, <1>3 DEF Dir!TestRewrite
<1>5. t \in [Dir!Slots -> Dir!Entry]
  <2>1. PICK q : q = Dir!BlockAt(p)
    OBVIOUS
  <2>2. q \in Dir!Blocks
    BY <1>4, <2>1, BlockAtIs DEF Dir!Put
  <2>3. PICK u \in [Dir!Slots -> Dir!Entry] : u = blk[q]
    BY <2>2, Typed
  <2>4. [u[1] EXCEPT !.name = Message] \in Dir!Entry
    BY Entries, Numbers
  <2>5. t = [u EXCEPT ![1].name = Message]
    BY <1>3, <2>1, <2>3 DEF Dir!MessageIn
  <2> QED
    BY <2>4, <2>5
<1>6. Dir!TypeOK' /\ writes' \in Seq(1..DIRBLOCKS-1)
  BY <1>1, <1>4, <1>5, PutTypes
<1> QED
  BY <1>1, <1>4, <1>5, <1>6 DEF Types, Requests, Dir!NoOp

(* A block reaches the disk: if another one of the directory is behind, it  *)
(* is not this one.                                                         *)
LEMMA OwnedOnDisk ==
    ASSUME DInv, NEW w \in Dir!Blocks, w \in marked, marked \subseteq dmarked, Differs(w),
           NEW m \in [Dir!Blocks -> [Dir!Slots -> Dir!Entry]], m = [dblk EXCEPT ![w] = blk[w]]
    PROVE  Owned(In(droot), m, dmarked, data)
<1>1. /\ Owned(In(root), blk, marked, data) /\ Owned(In(droot), dblk, dmarked, data)
      /\ Pending /\ OneDiffers /\ In(droot) \subseteq In(root)
  BY BehindIs DEF DInv, Blockwise
<1>2. /\ In(root) \subseteq Dir!Blocks /\ marked \subseteq Dir!Blocks
      /\ dblk \in [Dir!Blocks -> [Dir!Slots -> Dir!Entry]] /\ blk \in [Dir!Blocks -> [Dir!Slots -> Dir!Entry]]
  BY Typed DEF DInv
<1>3. m[w] = blk[w] /\ \A b \in Dir!Blocks \ {w} : m[b] = dblk[b]
  BY <1>2
<1>5. \A b \in Dir!Blocks \ dmarked : b \notin data => m[b] = Dir!Zeros
  BY <1>1, <1>3 DEF Owned
<1>6. In(droot) \subseteq dmarked
  BY <1>1 DEF Owned
<1>7. CASE w \in In(root)
  <2>1. \A b \in In(root) : m[b] = blk[b]
    BY <1>1, <1>2, <1>3, <1>7 DEF OneDiffers, Differs
  <2>2. ASSUME NEW b \in In(droot), NEW j \in Dir!Slots, m[b][j].ptr # Dir!Nil
        PROVE  /\ m[b][j].ptr \in (dmarked \cap data) \ In(droot)
               /\ \A c \in In(droot), k \in Dir!Slots : m[c][k].ptr = m[b][j].ptr => b = c /\ j = k
    <3>1. b \in In(root) /\ m[b] = blk[b] /\ \A c \in In(droot) : c \in In(root) /\ m[c] = blk[c]
      BY <1>1, <2>1
    <3>2. blk[b][j].ptr \in (marked \cap data) \ In(root)
      BY <1>1, <2>2, <3>1 DEF Owned
    <3>3. \A c \in In(root), k \in Dir!Slots : blk[c][k].ptr = blk[b][j].ptr => b = c /\ j = k
      BY <1>1, <2>2, <3>1 DEF Owned
    <3> QED
      BY <1>1, <3>1, <3>2, <3>3
  <2> QED
    BY <1>5, <1>6, <2>2 DEF Owned
<1>8. CASE w \notin In(root)
  <2>2. ASSUME NEW b \in In(droot), NEW j \in Dir!Slots, m[b][j].ptr # Dir!Nil
        PROVE  /\ m[b][j].ptr \in (dmarked \cap data) \ In(droot)
               /\ \A c \in In(droot), k \in Dir!Slots : m[c][k].ptr = m[b][j].ptr => b = c /\ j = k
    <3>1. m[b] = dblk[b] /\ \A c \in In(droot) : m[c] = dblk[c]
      BY <1>1, <1>2, <1>3, <1>8
    <3>2. /\ dblk[b][j].ptr \in (dmarked \cap data) \ In(droot)
          /\ \A c \in In(droot), k \in Dir!Slots : dblk[c][k].ptr = dblk[b][j].ptr => b = c /\ j = k
      BY <1>1, <2>2, <3>1 DEF Owned
    <3> QED
      BY <3>1, <3>2
  <2> QED
    BY <1>5, <1>6, <2>2 DEF Owned
<1> QED
  BY <1>7, <1>8

(* What every flush has in common. *)
LEMMA FlushIs ==
    ASSUME Types, Dir!FlushBlock
    PROVE  /\ root' = root /\ blk' = blk /\ marked' = marked /\ at' = at /\ request' = request /\ made' = made
           /\ known' = known /\ data' = data /\ stale' = stale /\ foreign' = foreign /\ stops' = stops /\ point' = point
           /\ writes' \in Seq(1..DIRBLOCKS-1) /\ writes[1] \in 1..DIRBLOCKS-1 /\ 1 \in DOMAIN writes
           /\ \A k \in DOMAIN writes' : k + 1 \in DOMAIN writes /\ writes'[k] = writes[k + 1]
           /\ Len(writes') = Len(writes) - 1
           /\ Flushes \subseteq Flushes' \cup {writes[1]} /\ Flushes' \subseteq Flushes
           /\ droot' = IF writes[1] = Dir!Super THEN root ELSE droot
           /\ dmarked' = IF writes[1] = Dir!Bitmap THEN marked ELSE dmarked
           /\ dblk' = IF writes[1] \in Dir!Blocks THEN [dblk EXCEPT ![writes[1]] = blk[writes[1]]] ELSE dblk
           /\ In(root)' = In(root)
<1>1. /\ writes \in Seq(1..DIRBLOCKS-1) /\ writes # << >> /\ writes' = Tail(writes)
  BY Typed DEF Dir!FlushBlock
<1>2. PICK T : T = 1..DIRBLOCKS-1
  OBVIOUS
<1>3. /\ writes' \in Seq(T) /\ writes[1] \in T /\ 1 \in DOMAIN writes
      /\ \A k \in DOMAIN writes' : k + 1 \in DOMAIN writes /\ writes'[k] = writes[k + 1]
      /\ \A k \in DOMAIN writes : k = 1 \/ (k - 1 \in DOMAIN writes' /\ writes'[k - 1] = writes[k])
      /\ Len(writes') = Len(writes) - 1 /\ Head(writes) = writes[1]
  <2>1. PICK t \in Seq(T) : t = writes /\ t # << >>
    BY <1>1, <1>2
  <2>2. Len(t) \in Nat \ {0} /\ DOMAIN t = 1..Len(t)
    BY ONLY <2>1
  <2>3. /\ Tail(t) \in Seq(T) /\ Len(Tail(t)) = Len(t) - 1 /\ DOMAIN Tail(t) = 1..Len(t)-1
        /\ \A k \in 1..Len(t)-1 : Tail(t)[k] = t[k + 1]
    BY ONLY <2>1, <2>2
  <2>4. t[1] \in T /\ Head(t) = t[1]
    BY ONLY <2>1, <2>2
  <2>5. \A k \in DOMAIN t : k = 1 \/ (k - 1 \in DOMAIN Tail(t) /\ Tail(t)[k - 1] = t[k])
    <3>1. ASSUME NEW k \in 1..Len(t), k # 1 PROVE k - 1 \in 1..Len(t)-1 /\ (k - 1) + 1 = k
      BY ONLY <2>2, <3>1, k \in 1..Len(t)
    <3> QED
      BY <2>2, <2>3, <3>1
  <2>6. \A k \in DOMAIN Tail(t) : k + 1 \in DOMAIN t
    BY <2>2, <2>3
  <2> QED
    BY <1>1, <2>1, <2>2, <2>3, <2>4, <2>5, <2>6
<1>4. Flushes \subseteq Flushes' \cup {writes[1]} /\ Flushes' \subseteq Flushes
  BY <1>3 DEF Flushes
<1>5. root' = root /\ blk' = blk /\ marked' = marked /\ In(root)' = In(root)
  BY DEF Dir!FlushBlock, Dir!memVars, In
<1>6. /\ at' = at /\ request' = request /\ made' = made /\ known' = known /\ data' = data
      /\ stale' = stale /\ foreign' = foreign /\ stops' = stops /\ point' = point
  BY DEF Dir!FlushBlock, Dir!runVars, Dir!histVars
<1>7. /\ droot' = IF writes[1] = Dir!Super THEN root ELSE droot
      /\ dmarked' = IF writes[1] = Dir!Bitmap THEN marked ELSE dmarked
      /\ dblk' = IF writes[1] \in Dir!Blocks THEN [dblk EXCEPT ![writes[1]] = blk[writes[1]]] ELSE dblk
  BY <1>3 DEF Dir!FlushBlock
<1> QED
  BY <1>1, <1>2, <1>3, <1>4, <1>5, <1>6, <1>7

LEMMA FlushTypes ==
    ASSUME Types, Dir!FlushBlock
    PROVE  Types'
<1>1. /\ root' = root /\ blk' = blk /\ marked' = marked /\ at' = at /\ request' = request /\ made' = made
      /\ known' = known /\ data' = data /\ stale' = stale /\ foreign' = foreign /\ stops' = stops /\ point' = point
      /\ writes' \in Seq(1..DIRBLOCKS-1)
      /\ droot' \in {root, droot} /\ dmarked' \in {marked, dmarked}
      /\ dblk' = IF writes[1] \in Dir!Blocks THEN [dblk EXCEPT ![writes[1]] = blk[writes[1]]] ELSE dblk
  BY FlushIs
<1>2. dblk' \in [Dir!Blocks -> [Dir!Slots -> Dir!Entry]]
  BY <1>1, Typed
<1>3. Dir!TypeOK'
  BY <1>1, <1>2 DEF Types, Dir!TypeOK
<1>4. Dir!NamesOn(root, blk)' = Dir!NamesOn(root, blk)
  BY <1>1 DEF Dir!NamesOn
<1> QED
  BY <1>1, <1>3, <1>4 DEF Types

(* After the first write the bitmap has been written, or it is next. *)
LEMMA BitmapNext ==
    ASSUME DInv, Dir!FlushBlock
    PROVE  /\ \A k \in DOMAIN writes' : writes'[k] = Dir!Bitmap => k = 1 /\ writes[1] = Dir!Super
           /\ writes[1] # Dir!Bitmap => marked \subseteq dmarked
<1>1. /\ \A k \in DOMAIN writes' : k + 1 \in DOMAIN writes /\ writes'[k] = writes[k + 1]
      /\ \A k \in DOMAIN writes : writes[k] = Dir!Bitmap => k = 1 \/ (k = 2 /\ writes[1] = Dir!Super)
      /\ marked \subseteq dmarked \/ writes[1] = Dir!Bitmap
  BY FlushIs DEF DInv, BitmapFirst
<1>2. DOMAIN writes' \subseteq Nat \ {0}
  BY FlushIs DEF DInv
<1>3. ASSUME NEW k \in DOMAIN writes', writes'[k] = Dir!Bitmap PROVE k = 1 /\ writes[1] = Dir!Super
  <2>1. k + 1 = 1 \/ (k + 1 = 2 /\ writes[1] = Dir!Super)
    BY <1>1, <1>3
  <2>2. k \in Nat \ {0}
    BY <1>2
  <2> QED
    BY ONLY <2>1, <2>2
<1> QED
  BY <1>1, <1>3

LEMMA SuperNext ==
    ASSUME DInv, Dir!FlushBlock
    PROVE  /\ \A k \in DOMAIN writes' : writes'[k] = Dir!Super => k = Len(writes')
           /\ writes[1] = Dir!Super => dblk = blk
<1>1. /\ \A k \in DOMAIN writes' : k + 1 \in DOMAIN writes /\ writes'[k] = writes[k + 1]
      /\ Len(writes') = Len(writes) - 1 /\ 1 \in DOMAIN writes
      /\ \A k \in DOMAIN writes : writes[k] = Dir!Super => k = Len(writes) \/ (k = 1 /\ dblk = blk)
  BY FlushIs DEF DInv, SuperLast
<1>2. DOMAIN writes' \subseteq Nat \ {0} /\ Len(writes) \in Nat /\ DOMAIN writes = 1..Len(writes)
  BY FlushIs, Typed DEF DInv
<1>3. ASSUME NEW k \in DOMAIN writes', writes'[k] = Dir!Super PROVE k = Len(writes')
  <2>1. k + 1 = Len(writes) \/ k + 1 = 1
    BY <1>1, <1>3
  <2>2. k \in Nat \ {0}
    BY <1>2
  <2> QED
    BY ONLY <1>1, <1>2, <2>1, <2>2
<1>4. ASSUME writes[1] = Dir!Super PROVE dblk = blk
  <2>1. CASE Len(writes) = 1
    <3>1. Flushes = {Dir!Super}
      BY <1>2, <1>4, <2>1 DEF Flushes
    <3>2. \A b \in Dir!Blocks : blk[b] = dblk[b]
      BY <3>1, Numbers DEF DInv, Blockwise, Pending, Differs
    <3>3. blk \in [Dir!Blocks -> [Dir!Slots -> Dir!Entry]] /\ dblk \in [Dir!Blocks -> [Dir!Slots -> Dir!Entry]]
      BY Typed DEF DInv
    <3> QED
      BY <3>2, <3>3
  <2>2. CASE Len(writes) # 1
    BY <1>1, <1>4, <2>2
  <2> QED
    BY <2>1, <2>2
<1> QED
  BY <1>3, <1>4

(* file_flush() ends with the super block: the disk has it all.  fs_sync() *)
(* begins with it, when the disk has all the rest.                         *)
LEMMA FlushSuperStep ==
    ASSUME DInv, Dir!FlushBlock, writes[1] = Dir!Super
    PROVE  DInv'
<1>1. /\ root' = root /\ blk' = blk /\ marked' = marked /\ at' = at /\ request' = request /\ made' = made
      /\ known' = known /\ data' = data /\ stale' = stale /\ stops' = stops
      /\ droot' = root /\ dmarked' = dmarked /\ dblk' = dblk /\ In(root)' = In(root)
      /\ writes' \in Seq(1..DIRBLOCKS-1) /\ Flushes \subseteq Flushes' \cup {Dir!Super}
  BY FlushIs, Numbers DEF DInv
<1>2. /\ dblk = blk /\ marked \subseteq dmarked /\ In(droot) \subseteq In(root)
      /\ \A k \in DOMAIN writes' : writes'[k] = Dir!Super => k = Len(writes')
      /\ \A k \in DOMAIN writes' : writes'[k] = Dir!Bitmap => k = 1
  BY SuperNext, BitmapNext, BehindIs, Numbers
<1>3. Types /\ root \in Seq(Dir!Blocks \cup {Dir!Nil}) /\ In(root) \subseteq Dir!Blocks
  BY Typed DEF DInv
<1>4. In(droot)' = In(root)
  BY <1>1 DEF In
<1>5. Types'
  BY <1>3, FlushTypes
<1>6. Shape(root)' /\ Shape(droot)' /\ Behind'
  <2>1. Shape(root)' /\ Shape(droot)'
    BY <1>1 DEF DInv, Shape
  <2>2. Behind'
    BY <1>1, <1>3 DEF Behind
  <2> QED
    BY <2>1, <2>2
<1>7. Blockwise'
  <2>1. Owned(In(root), blk, marked, data)
    BY DEF DInv, Blockwise
  <2>2. Owned(In(root), blk, dmarked, data)
    BY <1>2, <2>1, OwnedMono
  <2>3. Owned(In(root)', blk', marked', data') /\ Owned(In(droot)', dblk', dmarked', data')
    BY <1>1, <1>2, <1>4, <2>1, <2>2
  <2>4. Pending' /\ OneDiffers'
    BY <1>1, <1>2 DEF Pending, OneDiffers, Differs
  <2> QED
    BY <2>3, <2>4 DEF Blockwise
<1>8. SuperLast' /\ BitmapFirst'
  <2>1. \A b \in In(root), j \in Dir!Slots : blk[b][j].ptr \in marked \cup {Dir!Nil}
    BY DEF DInv, Blockwise, Owned
  <2>2. (\A b \in In(droot), j \in Dir!Slots : dblk[b][j].ptr \in marked \cup {Dir!Nil})'
    BY <1>1, <1>2, <1>4, <2>1
  <2> QED
    BY <1>1, <1>2, <2>2 DEF SuperLast, BitmapFirst
<1>9. Saved'
  <2>1. ASSUME NEW n \in made PROVE \E b \in Dir!Blocks, j \in Dir!Slots : SavedAt(n, b, j)'
    <3>1. PICK b \in Dir!Blocks, j \in Dir!Slots : SavedAt(n, b, j)
      BY DEF DInv, Saved
    <3>2. SavedAt(n, b, j)'
      BY <1>1, <1>2, <1>4, <3>1 DEF SavedAt
    <3> QED
      BY <3>2
  <2> QED
    BY <1>1, <2>1 DEF Saved
<1>10. Known'
  <2>1. ASSUME NEW n \in known PROVE n \in Dir!NamesOn(root, dblk)
    <3>1. n \in Dir!NamesOn(droot, dblk)
      BY DEF DInv, Known
    <3> QED
      BY <1>2, <3>1, InNames
  <2>2. Dir!NamesOn(droot, dblk)' = Dir!NamesOn(root, dblk)
    BY <1>1 DEF Dir!NamesOn
  <2> QED
    BY <1>1, <2>1, <2>2 DEF DInv, Known
<1>11. Kept' /\ Once' /\ Asked'
  <2>1. Kept'
    BY <1>1, <1>2 DEF Kept
  <2>2. ASSUME ~stale' PROVE Distinct(In(root)', blk') /\ Calls(In(root)', blk', made')
    BY <1>1, <2>2 DEF DInv, Once, Asked
  <2> QED
    BY <2>1, <2>2 DEF Once, Asked
<1> QED
  BY <1>5, <1>6, <1>7, <1>8, <1>9, <1>10, <1>11 DEF DInv

(* The bitmap is written before anything that needs it. *)
LEMMA FlushBitmapStep ==
    ASSUME DInv, Dir!FlushBlock, writes[1] = Dir!Bitmap
    PROVE  DInv'
<1>1. /\ root' = root /\ blk' = blk /\ marked' = marked /\ at' = at /\ request' = request /\ made' = made
      /\ known' = known /\ data' = data /\ stale' = stale /\ stops' = stops
      /\ droot' = droot /\ dmarked' = marked /\ dblk' = dblk /\ In(root)' = In(root)
      /\ writes' \in Seq(1..DIRBLOCKS-1) /\ Flushes \subseteq Flushes' \cup {Dir!Bitmap}
  BY FlushIs, Numbers DEF DInv
<1>2. /\ In(droot) \subseteq In(root) /\ In(droot)' = In(droot)
      /\ \A k \in DOMAIN writes' : writes'[k] = Dir!Super => k = Len(writes')
      /\ \A k \in DOMAIN writes' : writes'[k] # Dir!Bitmap
  BY <1>1, SuperNext, BitmapNext, BehindIs, Numbers DEF In
<1>3. Dir!Bitmap \in Flushes /\ Dir!Bitmap \notin Flushes'
  BY <1>2, FlushIs DEF DInv, Flushes
<1>4. Types'
  BY FlushTypes DEF DInv
<1>5. Shape(root)' /\ Shape(droot)' /\ Behind'
  BY <1>1 DEF DInv, Shape, Behind
<1>6. Blockwise'
  <2>1. /\ Owned(In(root), blk, marked, data) /\ Owned(In(droot), dblk, dmarked, data)
        /\ Pending /\ OneDiffers
    BY DEF DInv, Blockwise
  <2>2. Owned(In(droot), dblk, marked, data)
    <3>1. In(droot) \subseteq marked
      BY <1>2, <2>1 DEF Owned
    <3>2. \A b \in Dir!Blocks \ marked : dblk[b] = blk[b]
      BY <2>1 DEF Pending, Differs
    <3>3. \A b \in Dir!Blocks \ marked : b \notin data => dblk[b] = Dir!Zeros
      BY <2>1, <3>2 DEF Owned
    <3>4. ASSUME NEW b \in In(droot), NEW j \in Dir!Slots, dblk[b][j].ptr # Dir!Nil
          PROVE  /\ dblk[b][j].ptr \in (marked \cap data) \ In(droot)
                 /\ \A c \in In(droot), k \in Dir!Slots : dblk[c][k].ptr = dblk[b][j].ptr => b = c /\ j = k
      <4>1. dblk[b][j].ptr \in marked
        BY <1>3, <3>4 DEF DInv, BitmapFirst
      <4> QED
        BY <2>1, <3>4, <4>1 DEF Owned
    <3> QED
      BY <3>1, <3>3, <3>4 DEF Owned
  <2>3. Owned(In(root)', blk', marked', data') /\ Owned(In(droot)', dblk', dmarked', data')
    BY <1>1, <1>2, <2>1, <2>2
  <2>4. Pending' /\ OneDiffers'
    BY <1>1, <2>1, Numbers DEF Pending, OneDiffers, Differs
  <2> QED
    BY <2>3, <2>4 DEF Blockwise
<1>7. SuperLast' /\ BitmapFirst'
  BY <1>1, <1>2, <1>3 DEF SuperLast, BitmapFirst
<1>8. Saved'
  <2>1. ASSUME NEW n \in made PROVE \E b \in Dir!Blocks, j \in Dir!Slots : SavedAt(n, b, j)'
    <3>1. PICK b \in Dir!Blocks, j \in Dir!Slots : SavedAt(n, b, j)
      BY DEF DInv, Saved
    <3>2. SavedAt(n, b, j)'
      BY <1>1, <1>2, <3>1, Numbers DEF SavedAt
    <3> QED
      BY <3>2
  <2> QED
    BY <1>1, <2>1 DEF Saved
<1>9. Known' /\ Kept' /\ Once' /\ Asked'
  <2>1. Known' /\ Kept'
    BY <1>1, <1>2 DEF DInv, Known, Kept, Dir!NamesOn
  <2>2. ASSUME ~stale' PROVE Distinct(In(root)', blk') /\ Calls(In(root)', blk', made')
    BY <1>1, <2>2 DEF DInv, Once, Asked
  <2> QED
    BY <2>1, <2>2 DEF Once, Asked
<1> QED
  BY <1>4, <1>5, <1>6, <1>7, <1>8, <1>9 DEF DInv

LEMMA FlushDataStep ==
    ASSUME DInv, Dir!FlushBlock, writes[1] \in Dir!Blocks
    PROVE  DInv'
<1>1. PICK w \in Dir!Blocks : w = writes[1]
  OBVIOUS
<1>2. /\ root' = root /\ blk' = blk /\ marked' = marked /\ at' = at /\ request' = request /\ made' = made
      /\ known' = known /\ data' = data /\ stale' = stale /\ stops' = stops
      /\ droot' = droot /\ dmarked' = dmarked /\ dblk' = [dblk EXCEPT ![w] = blk[w]] /\ In(root)' = In(root)
      /\ writes' \in Seq(1..DIRBLOCKS-1) /\ Flushes \subseteq Flushes' \cup {w}
  BY <1>1, FlushIs, Numbers DEF DInv
<1>3. /\ In(droot) \subseteq In(root) /\ In(droot)' = In(droot) /\ marked \subseteq dmarked
      /\ \A k \in DOMAIN writes' : writes'[k] = Dir!Super => k = Len(writes')
      /\ \A k \in DOMAIN writes' : writes'[k] # Dir!Bitmap
  BY <1>1, <1>2, SuperNext, BitmapNext, BehindIs, Numbers DEF In
<1>4. Dir!Bitmap \notin Flushes'
  BY <1>3 DEF Flushes
<1>5. /\ In(root) \subseteq Dir!Blocks /\ In(droot) \subseteq Dir!Blocks /\ marked \subseteq Dir!Blocks
      /\ dblk \in [Dir!Blocks -> [Dir!Slots -> Dir!Entry]] /\ blk \in [Dir!Blocks -> [Dir!Slots -> Dir!Entry]]
  BY Typed DEF DInv
<1>6. /\ dblk' \in [Dir!Blocks -> [Dir!Slots -> Dir!Entry]]
      /\ dblk'[w] = blk[w] /\ \A b \in Dir!Blocks \ {w} : dblk'[b] = dblk[b]
  BY <1>2, <1>5
<1>7. Types'
  BY FlushTypes DEF DInv
<1>8. Shape(root)' /\ Shape(droot)' /\ Behind'
  BY <1>2 DEF DInv, Shape, Behind
<1>9. Blockwise'
  <2>1. /\ Owned(In(root), blk, marked, data) /\ Owned(In(droot), dblk, dmarked, data)
        /\ Pending /\ OneDiffers
    BY DEF DInv, Blockwise
  <2>2. Owned(In(droot), dblk', dmarked, data)
    <3>1. CASE Differs(w)
      <4>1. w \in marked
        BY <2>1, <3>1 DEF Pending
      <4>2. PICK m \in [Dir!Blocks -> [Dir!Slots -> Dir!Entry]] : m = dblk'
        BY <1>6
      <4>3. m = [dblk EXCEPT ![w] = blk[w]]
        BY <1>2, <4>2
      <4>4. Owned(In(droot), m, dmarked, data)
        BY <1>3, <3>1, <4>1, <4>3, OwnedOnDisk
      <4> QED
        BY <4>2, <4>4
    <3>2. CASE ~Differs(w)
      <4>1. dblk' = dblk
        BY <1>2, <1>5, <3>2 DEF Differs
      <4> QED
        BY <2>1, <4>1
    <3> QED
      BY <3>1, <3>2
  <2>3. Owned(In(root)', blk', marked', data') /\ Owned(In(droot)', dblk', dmarked', data')
    BY <1>2, <1>3, <2>1, <2>2
  <2>4. Pending'
    BY <1>2, <1>6, <2>1 DEF Pending, Differs
  <2>5. OneDiffers'
    BY <1>2, <1>5, <1>6, <2>1 DEF OneDiffers, Differs
  <2> QED
    BY <2>3, <2>4, <2>5 DEF Blockwise
<1>10. SuperLast' /\ BitmapFirst'
  BY <1>2, <1>3, <1>4 DEF SuperLast, BitmapFirst
<1>11. Kept'
  BY <1>2, <1>3, <1>5, <1>6 DEF DInv, Kept
<1>12. Saved'
  <2>1. ASSUME NEW n \in made PROVE \E b \in Dir!Blocks, j \in Dir!Slots : SavedAt(n, b, j)'
    <3>1. PICK b \in Dir!Blocks, j \in Dir!Slots : SavedAt(n, b, j)
      BY DEF DInv, Saved
    <3>2. SavedAt(n, b, j)'
      BY <1>2, <1>3, <1>6, <3>1, Numbers DEF SavedAt
    <3> QED
      BY <3>2
  <2> QED
    BY <1>2, <2>1 DEF Saved
<1>13. Known'
  <2>1. ASSUME NEW n \in known PROVE n \in Dir!NamesOn(droot, dblk')
    <3>1. n \in Dir!NamesOn(droot, dblk) /\ n # Dir!NoName
      BY Typed, Numbers DEF DInv, Known
    <3>2. PICK b \in In(droot), j \in Dir!Slots : dblk[b][j].name = n
      BY <3>1, InNames
    <3>3. blk[b][j].name = n
      BY <3>1, <3>2 DEF DInv, Kept
    <3>4. dblk'[b][j].name = n
      BY <1>5, <1>6, <3>2, <3>3
    <3> QED
      BY <3>4, InNames
  <2>2. Dir!NamesOn(droot, dblk)' = Dir!NamesOn(droot, dblk')
    BY <1>2 DEF Dir!NamesOn
  <2> QED
    BY <1>2, <2>1, <2>2 DEF DInv, Known
<1>14. Once' /\ Asked'
  <2>1. ASSUME ~stale' PROVE Distinct(In(root)', blk') /\ Calls(In(root)', blk', made')
    BY <1>2, <2>1 DEF DInv, Once, Asked
  <2> QED
    BY <2>1 DEF Once, Asked
<1> QED
  BY <1>7, <1>8, <1>9, <1>10, <1>11, <1>12, <1>13, <1>14 DEF DInv

(* The machine stops between any two writes: it starts with what it finds. *)
LEMMA CrashTypes ==
    ASSUME Types, Dir!Crash
    PROVE  Types'
<1>1. /\ root' = droot /\ blk' = dblk /\ droot' = droot /\ dblk' = dblk /\ marked' = dmarked /\ dmarked' = dmarked
      /\ known' = known /\ data' = data /\ stale' = stale /\ foreign' = foreign /\ stops' = stops + 1 /\ stops < MaxStops
      /\ at' = "idle" /\ request' = Dir!NoOp /\ writes' = << >> /\ made' = made \cap Dir!NamesOn(droot, dblk)
  BY DEF Dir!Crash, Dir!Return, Dir!diskVars
<1>2. point' \in Dir!Phases
  BY DEF Dir!Crash, Dir!Phases
<1>3. stops' \in 0..MaxStops
  BY <1>1, Typed, Numbers
<1>4. Dir!TypeOK'
  BY <1>1, <1>2, <1>3 DEF Types, Dir!TypeOK
<1>5. writes' \in Seq(1..DIRBLOCKS-1)
  BY <1>1
<1> QED
  BY <1>1, <1>4, <1>5 DEF Types, Requests, Dir!NoOp

LEMMA CrashStep ==
    ASSUME DInv, Dir!Crash
    PROVE  DInv'
<1>1. /\ root' = droot /\ blk' = dblk /\ droot' = droot /\ dblk' = dblk /\ marked' = dmarked /\ dmarked' = dmarked
      /\ known' = known /\ data' = data /\ stale' = stale
      /\ writes' = << >> /\ made' = made \cap Dir!NamesOn(droot, dblk)
  BY DEF Dir!Crash, Dir!diskVars
<1>3. /\ Types /\ Kept /\ In(droot) \subseteq In(root) /\ In(droot) \subseteq Dir!Blocks
      /\ droot \in Seq(Dir!Blocks \cup {Dir!Nil}) /\ dblk \in [Dir!Blocks -> [Dir!Slots -> Dir!Entry]]
      /\ dmarked \subseteq Dir!Blocks /\ made \subseteq Names
      /\ Len(droot) \in Nat
  BY BehindIs, Typed DEF DInv
<1>4. In(root)' = In(droot) /\ In(droot)' = In(droot) /\ Flushes' = {}
  BY <1>1 DEF In, Flushes
<1>5. Types'
  BY CrashTypes DEF DInv
<1>6. Shape(root)' /\ Shape(droot)' /\ Behind'
  <2>1. Shape(root)' /\ Shape(droot)'
    BY <1>1 DEF DInv, Shape
  <2>2. Behind'
    BY <1>1, <1>3 DEF Behind
  <2> QED
    BY <2>1, <2>2
<1>7. Blockwise'
  <2>1. Owned(In(droot), dblk, dmarked, data)
    BY DEF DInv, Blockwise
  <2>3. Owned(In(root)', blk', marked', data') /\ Owned(In(droot)', dblk', dmarked', data')
    BY <1>1, <1>4, <2>1
  <2>4. Pending' /\ OneDiffers'
    BY <1>1 DEF Pending, OneDiffers, Differs
  <2> QED
    BY <2>3, <2>4 DEF Blockwise
<1>8. SuperLast' /\ BitmapFirst'
  BY <1>1, <1>4 DEF SuperLast, BitmapFirst
<1>9. Saved' /\ Kept'
  <2>1. ASSUME NEW n \in made' PROVE \E b \in Dir!Blocks, j \in Dir!Slots : SavedAt(n, b, j)'
    <3>1. n \in Dir!NamesOn(droot, dblk)
      BY <1>1, <2>1
    <3>2. PICK b \in In(droot), j \in Dir!Slots : dblk[b][j].name = n
      BY <3>1, InNames
    <3>3. SavedAt(n, b, j)'
      BY <1>1, <1>4, <3>2 DEF SavedAt
    <3> QED
      BY <1>3, <3>3
  <2>2. Kept'
    BY <1>1 DEF Kept
  <2> QED
    BY <2>1, <2>2 DEF Saved
<1>10. Known'
  <2>1. Dir!NamesOn(droot, dblk)' = Dir!NamesOn(droot, dblk)
    BY <1>1 DEF Dir!NamesOn
  <2> QED
    BY <1>1, <2>1 DEF DInv, Known
<1>11. Once' /\ Asked'
  <2>1. ASSUME ~stale' PROVE Distinct(In(droot), dblk) /\ Calls(In(droot), dblk, made')
    <3>1. Distinct(In(root), blk) /\ Calls(In(root), blk, made)
      BY <1>1, <2>1 DEF DInv, Once, Asked
    <3>2. ASSUME NEW b \in In(droot), NEW c \in In(droot), NEW j \in Dir!Slots, NEW k \in Dir!Slots,
                 dblk[b][j].name # Dir!NoName, dblk[b][j].name = dblk[c][k].name
          PROVE  b = c /\ j = k
      <4>1. blk[b][j].name = dblk[b][j].name /\ blk[c][k].name = dblk[c][k].name
        BY <1>3, <3>2 DEF Kept
      <4> QED
        BY <1>3, <3>1, <3>2, <4>1 DEF Distinct
    <3>3. ASSUME NEW b \in In(droot), NEW j \in Dir!Slots, dblk[b][j].name # Dir!NoName
          PROVE  dblk[b][j].name \in made'
      <4>1. blk[b][j].name = dblk[b][j].name
        BY <1>3, <3>3 DEF Kept
      <4>2. dblk[b][j].name \in made
        BY <1>3, <3>1, <3>3, <4>1 DEF Calls
      <4>3. dblk[b][j].name \in Dir!NamesOn(droot, dblk)
        BY InNames
      <4> QED
        BY <1>1, <4>2, <4>3
    <3> QED
      BY <3>2, <3>3 DEF Distinct, Calls
  <2>2. ASSUME ~stale' PROVE Distinct(In(root)', blk') /\ Calls(In(root)', blk', made')
    BY <1>1, <1>4, <2>1, <2>2
  <2> QED
    BY <2>2 DEF Once, Asked
<1> QED
  BY <1>5, <1>6, <1>7, <1>8, <1>9, <1>10, <1>11 DEF DInv

(* A block is taken that nothing points to: for fs_test(), by itself or    *)
(* before it panics.                                                       *)
Takes ==
    /\ Dir!FreeBlocks # {} /\ marked' = marked \cup {Dir!FirstFree} /\ writes = << >> /\ writes' = <<Dir!Bitmap>>
    /\ UNCHANGED <<root, blk, Dir!diskVars, Dir!histVars, at, request>>
    /\ point' \in Dir!Phases

LEMMA TakeTypes ==
    ASSUME Types, Takes
    PROVE  Types'
<1>1. /\ root' = root /\ blk' = blk /\ droot' = droot /\ dblk' = dblk /\ dmarked' = dmarked /\ made' = made
      /\ known' = known /\ data' = data /\ stale' = stale /\ foreign' = foreign /\ stops' = stops
      /\ at' = at /\ request' = request /\ point' \in Dir!Phases /\ marked' = marked \cup {Dir!FirstFree}
  BY DEF Takes, Dir!diskVars, Dir!histVars
<1>2. Dir!FirstFree \in Dir!Blocks
  BY FirstFreeIs DEF Takes
<1>3. Dir!TypeOK'
  BY <1>1, <1>2 DEF Types, Dir!TypeOK
<1>4. writes' \in Seq(1..DIRBLOCKS-1)
  BY Numbers DEF Takes
<1>5. Dir!NamesOn(root, blk)' = Dir!NamesOn(root, blk)
  BY <1>1 DEF Dir!NamesOn
<1> QED
  BY <1>1, <1>3, <1>4, <1>5 DEF Types

LEMMA TakeStep ==
    ASSUME DInv, Takes
    PROVE  DInv'
<1>1. /\ root' = root /\ blk' = blk /\ droot' = droot /\ dblk' = dblk /\ dmarked' = dmarked /\ made' = made
      /\ known' = known /\ data' = data /\ stale' = stale /\ marked' = marked \cup {Dir!FirstFree}
      /\ writes = << >> /\ writes' = <<Dir!Bitmap>>
  BY DEF Takes, Dir!diskVars, Dir!histVars
<1>2. In(root)' = In(root) /\ In(droot)' = In(droot) /\ blk = dblk
  BY <1>1, ReadyIs DEF In
<1>3. Types'
  BY TakeTypes DEF DInv
<1>4. Shape(root)' /\ Shape(droot)' /\ Behind'
  BY <1>1 DEF DInv, Shape, Behind
<1>5. Blockwise'
  <2>1. Owned(In(root), blk, marked, data) /\ Owned(In(droot), dblk, dmarked, data)
    BY DEF DInv, Blockwise
  <2>2. Owned(In(root), blk, marked \cup {Dir!FirstFree}, data)
    BY <2>1, OwnedMono
  <2>3. Pending' /\ OneDiffers'
    BY <1>1, <1>2 DEF Pending, OneDiffers, Differs
  <2> QED
    BY <1>1, <1>2, <2>1, <2>2, <2>3 DEF Blockwise
<1>6. SuperLast' /\ BitmapFirst'
  <2>1. (\A b \in In(droot), j \in Dir!Slots : dblk[b][j].ptr \in marked \cup {Dir!Nil})'
    BY <1>1, Marked DEF Dir!diskVars
  <2>2. DOMAIN writes' = {1} /\ writes'[1] = Dir!Bitmap /\ writes' # << >>
    BY <1>1
  <2> QED
    BY <2>1, <2>2, Numbers DEF SuperLast, BitmapFirst
<1>7. Saved' /\ Kept'
  BY <1>1, <1>2, StillSaved DEF Dir!diskVars, Saved
<1>8. Known' /\ Once' /\ Asked'
  BY <1>1, <1>2 DEF DInv, Known, Once, Asked, Dir!NamesOn
<1> QED
  BY <1>3, <1>4, <1>5, <1>6, <1>7, <1>8 DEF DInv

(* The steps that only look. *)
LEMMA LookedUpIs ==
    ASSUME NEW result, Dir!LookedUp(result)
    PROVE  point' \in Dir!Phases
BY DEF Dir!LookedUp, Dir!Phases

LEMMA CallOpenIs ==
    ASSUME Types, NEW n \in Names, NEW creat \in BOOLEAN, NEW trunc \in BOOLEAN, Dir!CallOpen(n, creat, trunc)
    PROVE  Looks
<1>1. point' \in Dir!Phases
  BY DEF Dir!CallOpen, Dir!Serving, Types, Dir!TypeOK
<1>2. at' = "lookup" /\ request' = [n |-> n, creat |-> creat, trunc |-> trunc]
  BY DEF Dir!CallOpen
<1>3. request' \in Requests /\ request'.n \in Names
  BY <1>2 DEF Requests
<1> QED
  BY <1>1, <1>2, <1>3 DEF Dir!CallOpen, Looks

LEMMA FoundIs ==
    ASSUME Types, Dir!Found
    PROVE  Looks
<1>1. point' \in Dir!Phases
  BY LookedUpIs DEF Dir!Found
<1>2. at' = "open" /\ request' = request /\ at = "lookup"
  BY DEF Dir!Found, Dir!Ready
<1>3. request.n \in Dir!NamesOn(root, blk)
  <2>1. Dir!Named(request.n) # {}
    BY DEF Dir!Found, Dir!Reached
  <2> QED
    BY <2>1, NamedIs
<1> QED
  BY <1>1, <1>2, <1>3 DEF Dir!Found, Looks, Types

LEMMA ReturnIs ==
    ASSUME Dir!Return, point' \in Dir!Phases, UNCHANGED <<Dir!memVars, Dir!diskVars, writes, Dir!histVars>>
    PROVE  Looks
BY DEF Dir!Return, Dir!NoOp, Looks, Requests

LEMMA StaysIs ==
    ASSUME Types, point' \in Dir!Phases, UNCHANGED <<Dir!memVars, Dir!diskVars, writes, at, request, Dir!histVars>>
    PROVE  Looks
BY DEF Types, Looks

LEMMA TestOpenIs ==
    ASSUME Types, Dir!TestOpen
    PROVE  Looks
<1>1. point' \in Dir!Phases
  BY DEF Dir!TestOpen, Types, Dir!TypeOK
<1>2. at' = "lookup" /\ (request' = [Dir!NoOp EXCEPT !.n = Newmotd] \/ request' = [Dir!NoOp EXCEPT !.n = Missing])
  BY DEF Dir!TestOpen
<1>3. request' \in Requests /\ request'.n \in Names
  BY <1>2, Numbers DEF Dir!NoOp, Requests
<1> QED
  BY <1>1, <1>2, <1>3 DEF Dir!TestOpen, Looks

LEMMA LooksAre ==
    ASSUME Types,
           \/ \E n \in Names, creat, trunc \in BOOLEAN : Dir!CallOpen(n, creat, trunc)
           \/ Dir!Found \/ Dir!NoDisk \/ Dir!NotFound \/ Dir!ReadsFree \/ Dir!CheckBc
           \/ Dir!TestAllocFails \/ Dir!TestOpen
    PROVE  Looks
<1>1. CASE Dir!NoDisk
  BY <1>1, LookedUpIs, ReturnIs DEF Dir!NoDisk
<1>2. CASE Dir!NotFound
  BY <1>2, LookedUpIs, ReturnIs DEF Dir!NotFound
<1>3. CASE Dir!ReadsFree
  BY <1>3, ReturnIs DEF Dir!ReadsFree, Dir!Phases
<1>4. CASE Dir!CheckBc
  <2>1. point' \in Dir!Phases
    BY <1>4 DEF Dir!CheckBc, Dir!Reach, Dir!Phases
  <2> QED
    BY <1>4, <2>1, StaysIs DEF Dir!CheckBc
<1>5. CASE Dir!TestAllocFails
  <2>1. point' \in Dir!Phases
    BY <1>5 DEF Dir!TestAllocFails, Dir!Reach, Dir!Phases
  <2> QED
    BY <1>5, <2>1, StaysIs DEF Dir!TestAllocFails
<1> QED
  BY <1>1, <1>2, <1>3, <1>4, <1>5, CallOpenIs, FoundIs, TestOpenIs

LEMMA TestCompareFailsIs ==
    ASSUME Types, Dir!TestCompareFails
    PROVE  Looks \/ Takes
<1>1. point' \in Dir!Phases /\ at' = at /\ request' = request /\ writes = << >>
  BY DEF Dir!TestCompareFails, Dir!Ready, Dir!Phases
<1>2. CASE Dir!At(Dir!Here).ptr = Dir!Nil /\ Dir!FreeBlocks # {}
  BY <1>1, <1>2 DEF Dir!TestCompareFails, Dir!Taken, Takes
<1>3. CASE ~(Dir!At(Dir!Here).ptr = Dir!Nil /\ Dir!FreeBlocks # {})
  <2>1. UNCHANGED <<Dir!memVars, Dir!diskVars, writes, at, request, Dir!histVars>>
    BY <1>3 DEF Dir!TestCompareFails, Dir!memVars
  <2> QED
    BY <1>1, <2>1, StaysIs
<1> QED
  BY <1>2, <1>3

LEMMA TestAllocIs ==
    ASSUME Dir!TestAlloc
    PROVE  Takes
BY DEF Dir!TestAlloc, Dir!Reach, Dir!Ready, Dir!Phases, Dir!Taken, Takes

(* Every step. *)
Writes == \E p \in Dir!Places, t \in [Dir!Slots -> Dir!Entry] : Dir!Put(p, t) /\ writes = << >> /\ Types'

LEMMA NextCases ==
    ASSUME Types, Dir!Next
    PROVE  \/ Looks \/ Takes \/ Writes
           \/ Dir!FillHole \/ Dir!Create \/ Dir!Grow \/ Dir!GrowFails \/ Dir!Open \/ Dir!TestTruncate
           \/ Dir!Sync \/ Dir!FlushBlock \/ Dir!Crash
<1>1. CASE \E n \in Names, text \in Texts : Dir!Write(n, text)
  BY <1>1, WriteIs DEF Writes
<1>2. CASE Dir!TestCompare
  BY <1>2, TestCompareIs DEF Writes
<1>3. CASE Dir!TestRewrite
  BY <1>3, TestRewriteIs DEF Writes
<1>4. CASE Dir!TestCompareFails
  BY <1>4, TestCompareFailsIs
<1>5. CASE Dir!TestAlloc
  BY <1>5, TestAllocIs
<1> QED
  BY <1>1, <1>2, <1>3, <1>4, <1>5, LooksAre DEF Dir!Next

LEMMA NextTypes ==
    ASSUME Types, Dir!Next
    PROVE  Types'
BY NextCases, QuietTypes, TakeTypes, FillHoleTypes, CreateTypes, GrowTypes, GrowFailsTypes, OpenTypes,
   TestTruncateTypes, SyncTypes, FlushTypes, CrashTypes DEF Writes

(* The two marks of what the directory got, once set, stay. *)
LEMMA Marks ==
    ASSUME Types, Dir!Next
    PROVE  (foreign' = foreign /\ stale' = stale) \/ Dir!Alloc
<1>1. CASE Looks
  BY <1>1 DEF Looks, Dir!histVars
<1>2. CASE Takes
  BY <1>2 DEF Takes, Dir!histVars
<1>3. CASE Writes
  BY <1>3 DEF Writes, Dir!Put
<1>4. CASE Dir!FillHole \/ Dir!Grow
  BY <1>4 DEF Dir!FillHole, Dir!Grow
<1>5. CASE Dir!Create
  BY <1>5 DEF Dir!Create
<1>6. CASE Dir!GrowFails
  BY <1>6 DEF Dir!GrowFails, Dir!histVars
<1>7. CASE Dir!Open
  BY <1>7 DEF Dir!Open
<1>8. CASE Dir!TestTruncate
  BY <1>8 DEF Dir!TestTruncate, Dir!histVars
<1>9. CASE Dir!Sync
  BY <1>9 DEF Dir!Sync, Dir!histVars
<1>10. CASE Dir!FlushBlock
  BY <1>10 DEF Dir!FlushBlock, Dir!histVars
<1>11. CASE Dir!Crash
  BY <1>11 DEF Dir!Crash
<1> QED
  BY <1>1, <1>2, <1>3, <1>4, <1>5, <1>6, <1>7, <1>8, <1>9, <1>10, <1>11, NextCases

LEMMA NextDInv ==
    ASSUME DInv, Dir!Next, ~foreign'
    PROVE  DInv'
<1>1. Types /\ Types'
  BY NextTypes DEF DInv
<1>2. CASE Looks
  BY <1>1, <1>2, Quiet DEF Looks
<1>3. CASE Writes
  BY <1>1, <1>3, PutStep DEF Writes
<1>4. CASE Dir!FlushBlock
  <2>1. writes[1] \in {Dir!Super, Dir!Bitmap} \cup Dir!Blocks
    BY <1>1, <1>4, FlushIs, Numbers DEF Dir!Blocks, Dir!Super, Dir!Bitmap
  <2> QED
    BY <1>4, <2>1, FlushSuperStep, FlushBitmapStep, FlushDataStep
<1> QED
  BY <1>1, <1>2, <1>3, <1>4, NextCases, TakeStep, FillHoleStep, CreateStep, GrowStep, GrowFailsStep, OpenStep,
     TestTruncateStep, SyncStep, CrashStep

LEMMA NextTInv == TInv /\ [Dir!Next]_(Dir!vars) => TInv'
<1> SUFFICES ASSUME TInv, [Dir!Next]_(Dir!vars) PROVE TInv'
  OBVIOUS
<1>1. CASE UNCHANGED Dir!vars
  <2>1. UNCHANGED <<Dir!memVars, Dir!diskVars, writes, at, request, Dir!histVars>> /\ point' = point
    BY <1>1 DEF Dir!vars, Dir!runVars
  <2>2. Types'
    <3>1. point' \in Dir!Phases
      BY <2>1 DEF TInv, Types, Dir!TypeOK
    <3> QED
      BY <2>1, <3>1, StaysIs, QuietTypes DEF TInv
  <2>3. foreign' = foreign /\ stale' = stale
    BY <2>1 DEF Dir!histVars
  <2> QED
    BY <2>1, <2>2, <2>3, Quiet DEF TInv
<1>2. CASE Dir!Next
  <2>1. Types'
    BY <1>2, NextTypes DEF TInv
  <2>2. foreign \in BOOLEAN /\ stale \in BOOLEAN
    BY Typed DEF TInv
  <2>3. CASE foreign' = foreign /\ stale' = stale
    BY <1>2, <2>1, <2>3, NextDInv DEF TInv
  <2>4. CASE Dir!Alloc
    <3>1. /\ stale' = (stale \/ Dir!FirstFree \in data)
          /\ foreign' = (foreign \/ Dir!Pointers(blk[Dir!FirstFree]) # {})
      BY <2>4 DEF Dir!Alloc
    <3>2. CASE foreign
      BY <2>1, <3>1, <3>2 DEF TInv
    <3>3. CASE ~foreign
      <4>1. DInv
        BY <3>3 DEF TInv
      <4>2. Dir!FirstFree \in Dir!Blocks \ marked
        BY <2>4, <4>1, TakenIs
      <4>3. Dir!FirstFree \notin data => Dir!Pointers(blk[Dir!FirstFree]) = {}
        <5>1. Dir!FirstFree \notin data => blk[Dir!FirstFree] = Dir!Zeros
          BY <4>1, <4>2 DEF DInv, Blockwise, Owned
        <5>2. Dir!Pointers(Dir!Zeros) = {}
          BY DEF Dir!Pointers, Dir!Zeros, Dir!Empty
        <5> QED
          BY <5>1, <5>2
      <4>4. foreign' => stale'
        BY <3>1, <3>3, <4>3
      <4>5. ~foreign' => DInv'
        BY <1>2, <4>1, NextDInv
      <4> QED
        BY <2>1, <4>4, <4>5 DEF TInv
    <3> QED
      BY <3>2, <3>3
  <2> QED
    BY <1>2, <2>3, <2>4, Marks DEF TInv
<1> QED
  BY <1>1, <1>2

LEMMA InitTInv == Dir!Init => TInv
<1>1. ASSUME Dir!Init PROVE DInv /\ foreign = FALSE
  BY <1>1, InitDInv DEF Dir!Init
<1> QED
  BY <1>1 DEF TInv, DInv

LEMMA TInvariance == Dir!Spec => []TInv
BY InitTInv, NextTInv, PTL DEF Dir!Spec

(* No two places of a name. *)
LEMMA OneEach ==
    ASSUME TInv
    PROVE  Dir!IInv
<1>1. Types /\ (~stale => DInv)
  BY DEF TInv
<1>2. Dir!TypeOK
  BY <1>1 DEF Types
<1>3. ASSUME ~stale, NEW n \in Names
      PROVE  \A p, q \in Dir!Named(n) : p = q
  <2>1. Distinct(In(root), blk) /\ Shape(root)
    BY <1>1, <1>3 DEF DInv, Once
  <2>2. ASSUME NEW p \in Dir!Named(n), NEW q \in Dir!Named(n)
        PROVE  p = q
    <3>1. /\ p \in Dir!Places /\ blk[root[p[1]]][p[2]].name = n
          /\ q \in Dir!Places /\ blk[root[q[1]]][q[2]].name = n /\ n # Dir!NoName
      BY <1>1, NamedIs, Numbers
    <3>2. /\ root[p[1]] \in In(root) /\ p[2] \in Dir!Slots /\ p[1] \in DOMAIN root /\ root[p[1]] # Dir!Nil
          /\ root[q[1]] \in In(root) /\ q[2] \in Dir!Slots /\ q[1] \in DOMAIN root
      BY <1>1, <3>1, PlaceIs, Numbers
    <3>3. root[p[1]] = root[q[1]] /\ p[2] = q[2]
      BY <2>1, <3>1, <3>2 DEF Distinct
    <3>4. p[1] = q[1]
      BY <2>1, <3>2, <3>3 DEF Shape
    <3>5. p = <<p[1], p[2]>> /\ q = <<q[1], q[2]>>
      BY <3>1 DEF Dir!Places
    <3> QED
      BY ONLY <3>3, <3>4, <3>5
  <2> QED
    BY <2>2
<1>4. Dir!Unique
  BY <1>3 DEF Dir!Unique
<1>5. Dir!OnlyMade
  <2>1. ASSUME ~stale, NEW n \in Names \ made
        PROVE  Dir!Named(n) = {}
    <3>1. Calls(In(root), blk, made)
      BY <1>1, <2>1 DEF DInv, Asked
    <3>2. n \notin Dir!NamesOn(root, blk)
      BY <3>1, InNames, Numbers DEF Calls
    <3> QED
      BY <1>1, <3>2, NamedIs
  <2> QED
    BY <2>1 DEF Dir!OnlyMade
<1> QED
  BY <1>2, <1>4, <1>5 DEF Dir!IInv

(* A name is in memory and on the disk once it is known. *)
LEMMA KnownNames ==
    ASSUME DInv
    PROVE  known \subseteq Dir!NamesOn(root, blk) \cap Dir!NamesOn(droot, dblk)
<1>1. ASSUME NEW n \in known PROVE n \in Dir!NamesOn(root, blk) /\ n \in Dir!NamesOn(droot, dblk)
  <2>1. n \in made /\ n \in Dir!NamesOn(droot, dblk)
    BY DEF DInv, Known
  <2>2. PICK b \in Dir!Blocks, j \in Dir!Slots : SavedAt(n, b, j)
    BY <2>1 DEF DInv, Saved
  <2>3. b \in In(root) /\ blk[b][j].name = n
    BY <2>2 DEF SavedAt
  <2> QED
    BY <2>1, <2>3, InNames
<1> QED
  BY <1>1

(* While the directory has had fresh blocks only, no name comes twice and  *)
(* none is there that no request has made: dir_alloc_file() gives every    *)
(* name an entry of its own, and a start finds what was flushed.           *)
THEOREM NamesInvariance == Dir!Spec => [](Dir!IInv /\ NamesIInv)
<1>1. TInv => Dir!IInv /\ NamesIInv
  BY OneEach DEF NamesIInv
<1> QED
  BY <1>1, TInvariance, PTL

(* A name that open() has come back with is in the directory from then on, *)
(* in memory and on the disk, wherever the machine stops, the start        *)
(* included: file_flush() writes the entry before the block that points to *)
(* it.  So it is whatever the blocks that the directory gets hold, until   *)
(* one of them has what looks like an entry with a block: fs.c does not    *)
(* clear it, and serves that entry.                                        *)
THEOREM NamesAreKept == Dir!Spec => [](Dir!NamesStay /\ NamesStay)
<1>1. TInv => Dir!NamesStay /\ NamesStay
  BY KnownNames DEF TInv, Dir!NamesStay, NamesStay
<1> QED
  BY <1>1, TInvariance, PTL

(* Until then, open() of such a name never ends with -E_NO_DISK: the hole  *)
(* a full disk leaves is at the end of the directory, and dir_lookup()     *)
(* comes to every name before it.                                          *)
THEOREM OpensAreFound == Dir!Spec => ExistingOpens
<1>1. ASSUME DInv, request.n \in known, Dir!NoDisk \/ Dir!GrowFails
      PROVE  FALSE
  <2>1. Types /\ Shape(root) /\ request.n \in Dir!NamesOn(root, blk)
    BY <1>1, KnownNames DEF DInv
  <2>2. PICK p : p \in Dir!Named(request.n)
    BY <2>1, NamedIs
  <2>3. p \in Dir!Places
    BY <2>1, <2>2, NamedIs
  <2>4. p[1] \in DOMAIN root /\ root[p[1]] # Dir!Nil
    BY <2>1, <2>3, PlaceIs, Numbers
  <2>5. ASSUME NEW i \in Dir!Hole PROVE p[1] < i
    <3>1. i \in DOMAIN root /\ root[i] = Dir!Nil
      BY DEF Dir!Hole
    <3>2. i = Len(root)
      BY <2>1, <3>1 DEF Shape
    <3>3. Len(root) \in Nat /\ DOMAIN root = 1..Len(root) /\ p[1] # i
      BY <2>1, <2>4, <3>1, Typed
    <3> QED
      BY <2>4, <3>2, <3>3
  <2>6. p \in Dir!Reached(request.n)
    BY <2>2, <2>5 DEF Dir!Reached
  <2> QED
    BY <1>1, <2>6 DEF Dir!NoDisk, Dir!GrowFails, Dir!Absent
<1>2. TInv /\ [Dir!Next]_(Dir!vars) => [~foreign /\ (Dir!NoDisk \/ Dir!GrowFails) => request.n \notin known]_(Dir!vars)
  BY <1>1 DEF TInv
<1> QED
  BY <1>2, TInvariance, PTL DEF Dir!Spec, Dir!ExistingOpens, ExistingOpens
=============================================================================
