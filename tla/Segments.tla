-------------------------------- MODULE Segments --------------------------------
(***************************************************************************)
(* The three loaders of TP 4: load_icode() puts the first programs in      *)
(* memory, map_segment() of spawn() all others, readseg() of the boot      *)
(* loader the kernel itself.  All read program headers, and all have to    *)
(* round: to pages the first two, to sectors the third.  Between them they *)
(* have four ways to fill the bytes that are not in the file.              *)
(*                                                                         *)
(* A byte of memory is None where nothing is mapped, Old when it is what a *)
(* page held before it was allocated, or 0, or a byte of the file; byte k  *)
(* of the file is k + 1, so that no two are alike.                         *)
(***************************************************************************)
EXTENDS Integers, Sequences

CONSTANTS PGSIZE,    \* bytes of a page
          SECTSIZE,  \* bytes of a sector
          FileSize,  \* bytes of the program's file
          Top        \* end of the addresses

ASSUME SizesAssumption ==
    /\ {PGSIZE, SECTSIZE, FileSize, Top} \subseteq Nat \ {0}
    /\ PGSIZE % SECTSIZE = 0 /\ Top % PGSIZE = 0

None == -2
Old  == -1
Addresses == 0..Top-1

RoundDown(a, n) == a - (a % n)
RoundUp(a, n)   == RoundDown(a + n - 1, n)
PgOff(a)        == a % PGSIZE
PagesOf(s)      == {RoundDown(a, PGSIZE) : a \in s.va..s.va+s.memsz-1}

(* What the linker guarantees of a segment, and of the two of a program:   *)
(* text, which is all in the file, and then data, with bss at its end.     *)
Headers ==
    {s \in [va : Addresses, memsz : 1..Top, filesz : 0..FileSize, offset : 0..FileSize-1] :
        /\ s.va + s.memsz <= Top /\ s.filesz <= s.memsz
        /\ s.offset + s.filesz <= FileSize
        /\ PgOff(s.offset) = PgOff(s.va)}

Executables ==
    {p \in Headers \X Headers :
        /\ p[1].filesz = p[1].memsz
        /\ p[1].va < p[2].va /\ PagesOf(p[1]) \cap PagesOf(p[2]) = {}}

VARIABLES loader,    \* who loads
          segs,      \* the program headers
          ph,        \* the one that is being loaded
          count,     \* bytes, or pages in region_alloc(), that are done
          mem,       \* memory
          stage      \* "load", "bss", "done" or "failed"

imageVars == <<loader, segs, ph, count, mem, stage>>

ImageInit ==
    /\ loader \in {"load_icode", "map_segment", "readseg"}
    /\ segs \in Executables
    /\ ph = 1 /\ count = 0 /\ stage = "load"
    /\ mem = [a \in Addresses |-> IF loader = "readseg" THEN Old ELSE None]

LoadedBy(name) == loader = name /\ stage = "load"

(* The bytes of the file from byte k on are at a and after it. *)
FromFile(m, a, k, n) == [b \in Addresses |-> IF b \in a..a+n-1 THEN k + (b - a) + 1 ELSE m[b]]
Filled(m, a, v, n)   == [b \in Addresses |-> IF b \in a..a+n-1 THEN v ELSE m[b]]

NextSegment(last) ==
    /\ count' = 0
    /\ IF ph < Len(segs) THEN ph' = ph + 1 /\ UNCHANGED stage ELSE stage' = last /\ UNCHANGED ph

-----------------------------------------------------------------------------
(* load_icode() *)

PageCount(s) ==
    (RoundUp(s.va + s.memsz, PGSIZE) - RoundDown(s.va, PGSIZE)) \div PGSIZE

(* A turn of the loop of region_alloc(); page_alloc(0) does not clear. *)
RegionAlloc ==
    /\ LoadedBy("load_icode") /\ count < PageCount(segs[ph])
    /\ mem' = Filled(mem, RoundDown(segs[ph].va, PGSIZE) + count * PGSIZE, Old, PGSIZE)
    /\ count' = count + 1
    /\ UNCHANGED <<loader, segs, ph, stage>>

(* memcpy() and memset(), which only reach what is mapped. *)
Copy ==
    /\ LoadedBy("load_icode") /\ count = PageCount(segs[ph])
    /\ LET s == segs[ph]
           m == Filled(FromFile(mem, s.va, s.offset, s.filesz),
                       s.va + s.filesz, 0, s.memsz - s.filesz)
       IN  mem' = [a \in Addresses |-> IF mem[a] = None THEN None ELSE m[a]]
    /\ NextSegment("done")
    /\ UNCHANGED <<loader, segs>>

-----------------------------------------------------------------------------
(* map_segment() *)

(* The segment as if it began with its first page. *)
Aligned(s) ==
    LET off == PgOff(s.va)
    IN  [va |-> s.va - off, memsz |-> s.memsz + off,
         filesz |-> s.filesz + off, offset |-> s.offset - off]

(* readn() at the offset reads no more than the file has. *)
CountWholePage(s) ==     \* Mutant: a page of the file also at its end
    IF s.offset + count + PGSIZE <= FileSize THEN PGSIZE ELSE FileSize - s.offset - count
Count(s) == IF s.filesz - count < PGSIZE THEN s.filesz - count ELSE PGSIZE

(* A turn of the loop: sys_page_alloc() gives a page of zeros. *)
MapPage ==
    LET s == Aligned(segs[ph])
        m == Filled(mem, s.va + count, 0, PGSIZE)
    IN  /\ LoadedBy("map_segment") /\ count < s.memsz
        /\ mem' = IF count >= s.filesz THEN m ELSE FromFile(m, s.va + count, s.offset + count, Count(s))
        /\ count' = count + PGSIZE
        /\ UNCHANGED <<loader, segs, ph, stage>>

EndSegment ==
    /\ LoadedBy("map_segment") /\ count >= Aligned(segs[ph]).memsz
    /\ NextSegment("done")
    /\ UNCHANGED <<loader, segs, mem>>

(* No memory: load_icode() panics, spawn() destroys the child. *)
NoMemory ==
    /\ \/ LoadedBy("load_icode") /\ count < PageCount(segs[ph])
       \/ LoadedBy("map_segment") /\ count < Aligned(segs[ph]).memsz
    /\ stage' = "failed"
    /\ mem' = [a \in Addresses |-> None]
    /\ UNCHANGED <<loader, segs, ph, count>>

-----------------------------------------------------------------------------
(* readseg() and the start of i386_init() *)

(* A turn of the loop: whole sectors, from the one that has byte va. *)
ReadSect ==
    LET s == segs[ph]
        pa == RoundDown(s.va, SECTSIZE) + count
    IN  /\ LoadedBy("readseg") /\ pa < s.va + s.memsz
        /\ mem' = FromFile(mem, pa, RoundDown(s.offset, SECTSIZE) + count, SECTSIZE)
        /\ count' = count + SECTSIZE
        /\ UNCHANGED <<loader, segs, ph, stage>>

EndSectors ==
    /\ LoadedBy("readseg") /\ RoundDown(segs[ph].va, SECTSIZE) + count >= segs[ph].va + segs[ph].memsz
    /\ NextSegment("bss")
    /\ UNCHANGED <<loader, segs, mem>>

(* memset(__bss_start, 0, end - __bss_start) *)
ClearBss ==
    /\ stage = "bss"
    /\ LET s == segs[ph]
       IN  mem' = Filled(mem, s.va + s.filesz, 0, s.memsz - s.filesz)
    /\ stage' = "done"
    /\ UNCHANGED <<loader, segs, ph, count>>

ImageNext ==
    \/ RegionAlloc \/ Copy
    \/ MapPage \/ EndSegment \/ NoMemory
    \/ ReadSect \/ EndSectors \/ ClearBss

ImageSpec == ImageInit /\ [][ImageNext]_imageVars

-----------------------------------------------------------------------------
(* Properties *)

ImageTypeOK ==
    /\ segs \in Executables /\ ph \in 1..2 /\ count \in 0..Top
    /\ mem \in [Addresses -> -2..Top+FileSize+SECTSIZE]
    /\ stage \in {"load", "bss", "done", "failed"}

(* ELF, as the comments of spawn() and load_icode() quote it: a program    *)
(* that runs finds the bytes of the file in the first filesz bytes of a    *)
(* segment and zeros in the rest, wherever the segment begins and ends in  *)
(* a page, and whatever was loaded after it.                               *)
ImageRight ==
    stage = "done" =>
        \A n \in 1..Len(segs), k \in 0..Top-1 :
            k < segs[n].memsz =>
                mem[segs[n].va + k] = IF k < segs[n].filesz THEN segs[n].offset + k + 1 ELSE 0

(* What a loader writes besides, to the end of a page or sector, is on the *)
(* pages of the segments.                                                  *)
OwnPages ==
    \A a \in Addresses :
        mem[a] \notin {None, Old} => \E n \in 1..ph : RoundDown(a, PGSIZE) \in PagesOf(segs[n])

ImageIInv == ImageTypeOK /\ OwnPages /\ ImageRight
=============================================================================
