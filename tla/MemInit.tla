--------------------------------- MODULE MemInit ---------------------------------
(***************************************************************************)
(* mem_init() of TP 4 (kern/pmap.c): how the boot processor comes from the *)
(* page directory of entry.S, which maps the first PTSIZE bytes of memory  *)
(* only, to its own free list and its own page directory.  boot_alloc()    *)
(* takes memory from the end of the kernel until page_init() makes the     *)
(* list, boot_map_region() takes pages of the list for its tables, and     *)
(* whatever the kernel stores to in between has to be mapped already.      *)
(*                                                                         *)
(* Memory and addresses are counted in pages.  The check_*() functions     *)
(* take pages and put them back, which moves the list, and are modelled by *)
(* what they leave; where an assertion of theirs fails the kernel panics.  *)
(***************************************************************************)
EXTENDS Integers, Sequences, Functions

CONSTANTS Sizes,         \* sizes memory may have
          KernelEnds,    \* pages at which the kernel may end
          PTPAGES,       \* pages that one page table maps; 1024
          NPDENTRIES,    \* entries of a page directory; 1024
          KERNPDX,       \* PDX(KERNBASE)
          IOPHYSMEM, EXTPHYSMEM, MPENTRY,
          KSTKSIZE, KSTKGAP, NCPU,
          PERPAGE,       \* struct PageInfo in a page; 512
          ENVPAGES       \* pages of envs[]

KernelCode == 1        \* pages before the stacks in the kernel's image

Bootstack  == EXTPHYSMEM + KernelCode
Kstack(c)  == Bootstack + (c + 1) * KSTKSIZE       \* percpu_kstacks[c]
PagesSize(n) == (n + PERPAGE - 1) \div PERPAGE     \* pages of pages[]

ASSUME LayoutAssumption ==
    /\ {PTPAGES, NPDENTRIES, KERNPDX, IOPHYSMEM, EXTPHYSMEM, MPENTRY} \subseteq Nat
    /\ {KSTKSIZE, KSTKGAP, NCPU, PERPAGE, ENVPAGES} \subseteq Nat \ {0}
    /\ KERNPDX >= 6 /\ KERNPDX < NPDENTRIES
    /\ NCPU * (KSTKSIZE + KSTKGAP) <= PTPAGES
    /\ 0 < MPENTRY /\ MPENTRY < IOPHYSMEM /\ IOPHYSMEM < EXTPHYSMEM

(* Memory has at most the 256 MB that are mapped at KERNBASE, and the      *)
(* kernel with its arrays ends below PTSIZE.                               *)
ASSUME MemoryAssumption ==
    /\ Sizes \subseteq Nat /\ KernelEnds \subseteq Nat
    /\ \A n \in Sizes : n <= (NPDENTRIES - KERNPDX) * PTPAGES
    /\ \A e \in KernelEnds, n \in Sizes :
          Kstack(NCPU) <= e /\ e <= n /\ e + 1 + PagesSize(n) + ENVPAGES <= PTPAGES

PDX(va)  == va \div PTPAGES
KERNBASE == KERNPDX * PTPAGES
KSTACKTOP == KERNBASE
MMIOBASE == KERNBASE - 2 * PTPAGES
UVPT     == KERNBASE - 3 * PTPAGES
UPAGES   == KERNBASE - 4 * PTPAGES
UENVS    == KERNBASE - 5 * PTPAGES
UTOP     == UENVS
VAs      == 0..NPDENTRIES * PTPAGES - 1
NoPage   == -1
NoEntry  == [pa |-> NoPage, perm |-> {}]

VARIABLES
    npages, end,       \* the machine and the kernel
    nextfree,          \* of boot_alloc()
    kern_pgdir, pages, envs,    \* where they are
    ref,               \* pp_ref
    first_list,        \* page_free_list
    halves,            \* pp1 and pp2 of check_page_free_list()
    pgdir,             \* the page table of each entry of kern_pgdir
    entry,             \* the page and permission of each address
    call,              \* the call of boot_map_region() that is made
    stored,            \* the pages the last step stored to
    cr3,               \* "entry_pgdir" or "kern_pgdir"
    turn,              \* of a loop
    ip                 \* where mem_init() is

machine  == <<npages, end>>
arrays   == <<nextfree, kern_pgdir, pages, envs>>
pool     == <<ref, first_list, halves>>
tables   == <<pgdir, entry, call>>
startVars == <<machine, arrays, pool, tables, stored, cr3, turn, ip>>

StartInit ==
    /\ npages \in Sizes /\ end \in KernelEnds
    /\ nextfree = end /\ kern_pgdir = NoPage /\ pages = NoPage /\ envs = NoPage
    /\ ref = [p \in 0..npages-1 |-> 0] /\ first_list = << >>
    /\ halves = [h \in {"low", "high"} |-> << >>]
    /\ pgdir = [x \in 0..NPDENTRIES-1 |-> NoPage]
    /\ entry = [va \in VAs |-> NoEntry]
    /\ call = 1 /\ stored = {} /\ cr3 = "entry_pgdir" /\ turn = 0 /\ ip = "pgdir"

Panic ==
    /\ ip' = "panic" /\ stored' = {}
    /\ UNCHANGED <<machine, arrays, pool, tables, cr3, turn>>

-----------------------------------------------------------------------------
(* boot_alloc() of n pages, and the memset() that follows. *)
BootAlloc(n) ==
    /\ nextfree + n < npages
    /\ nextfree' = nextfree + n
    /\ stored' = nextfree..nextfree+n-1

AllocPgdir ==
    /\ ip = "pgdir" /\ BootAlloc(1)
    /\ kern_pgdir' = nextfree
    /\ pgdir' = [pgdir EXCEPT ![PDX(UVPT)] = nextfree]
    /\ ip' = "pages"
    /\ UNCHANGED <<machine, pages, envs, pool, entry, call, cr3, turn>>

AllocPages ==
    /\ ip = "pages" /\ BootAlloc(PagesSize(npages))
    /\ pages' = nextfree
    /\ ip' = "envs"
    /\ UNCHANGED <<machine, kern_pgdir, envs, pool, tables, cr3, turn>>

AllocEnvs ==
    /\ ip = "envs" /\ BootAlloc(ENVPAGES)
    /\ envs' = nextfree
    /\ ip' = "page_init"
    /\ UNCHANGED <<machine, kern_pgdir, pages, pool, tables, cr3, turn>>

Need == CASE ip = "pgdir" -> 1 [] ip = "pages" -> PagesSize(npages) [] ip = "envs" -> ENVPAGES
NotEnough ==
    /\ ip \in {"pgdir", "pages", "envs"} /\ nextfree + Need >= npages
    /\ Panic

-----------------------------------------------------------------------------
(* page_init() *)

InUseButEntry(p) ==      \* Mutant: the page of mpentry.S is given out
    p = 0 \/ p \in IOPHYSMEM..nextfree-1
InUse(p) == p = 0 \/ p \in IOPHYSMEM..nextfree-1 \/ p = MPENTRY

Info(p) == pages + p \div PERPAGE                  \* the page of its struct PageInfo

(* A turn of its loop. *)
PageInit ==
    /\ ip = "page_init" /\ turn < npages
    /\ ref' = [ref EXCEPT ![turn] = IF InUse(turn) THEN 1 ELSE 0]
    /\ first_list' = IF InUse(turn) THEN first_list ELSE <<turn>> \o first_list
    /\ stored' = {Info(turn)}
    /\ turn' = turn + 1
    /\ UNCHANGED <<machine, arrays, halves, tables, cr3, ip>>

PageInitEnd ==
    /\ ip = "page_init" /\ turn = npages
    /\ ip' = "low_first" /\ stored' = {} /\ turn' = 0
    /\ UNCHANGED <<machine, arrays, pool, tables, cr3>>

-----------------------------------------------------------------------------
(* The checks *)

Low(p)  == PDX(p) = 0
Half(p) == IF Low(p) THEN "low" ELSE "high"
Link(list) == IF list = << >> THEN {} ELSE {Info(list[Len(list)])}    \* *tp

(* A turn of the loop that takes the list apart. *)
TakeApart ==
    /\ ip = "low_first" /\ turn < Len(first_list)
    /\ LET p == first_list[turn + 1]
       IN  /\ halves' = [halves EXCEPT ![Half(p)] = Append(@, p)]
           /\ stored' = Link(halves[Half(p)])
    /\ turn' = turn + 1
    /\ UNCHANGED <<machine, arrays, ref, first_list, tables, cr3, ip>>

HighFirst == halves["high"] \o halves["low"]      \* Mutant: joined the other way
LowFirst  == halves["low"] \o halves["high"]

(* check_page_free_list(1) joins the two, and stores to the low pages. *)
CheckLow ==
    /\ ip = "low_first" /\ turn = Len(first_list)
    /\ IF {p \in Range(first_list) : p < EXTPHYSMEM} # {}
          /\ {p \in Range(first_list) : p >= EXTPHYSMEM} # {}
       THEN /\ first_list' = LowFirst
            /\ stored' = {p \in Range(first_list) : Low(p)} \cup Link(halves["low"]) \cup Link(halves["high"])
            /\ ip' = "check_page_alloc"
            /\ UNCHANGED <<machine, arrays, ref, halves, tables, cr3, turn>>
       ELSE Panic

(* page_free(): its walk stops before the first page that is lower. *)
Stop(list, p) ==
    CHOOSE n \in 0..Len(list) :
        /\ \A j \in 1..n : list[j] >= p
        /\ n < Len(list) => list[n + 1] < p
FreeTo(list, p) ==
    SubSeq(list, 1, Stop(list, p)) \o <<p>> \o SubSeq(list, Stop(list, p) + 1, Len(list))

(* Three pages are taken, and given back. *)
Rest == SubSeq(first_list, 4, Len(first_list))
GivenBack(j, k, l) == FreeTo(FreeTo(FreeTo(Rest, first_list[j]), first_list[k]), first_list[l])

CheckPageAlloc ==
    /\ ip = "check_page_alloc"
    /\ IF Len(first_list) < 3 THEN Panic
       ELSE /\ first_list' = GivenBack(1, 2, 3)
            /\ stored' = {first_list[1]}
            /\ ip' = "check_page"
            /\ UNCHANGED <<machine, arrays, ref, halves, tables, cr3, turn>>

(* The calls of boot_map_region() in mem_init() and mem_init_mp(). *)
StackTopNoGap(c) == KSTACKTOP - c * KSTKSIZE       \* Mutant: the stacks touch
StackTop(c) == KSTACKTOP - c * (KSTKSIZE + KSTKGAP)

Region(va, size, pa, perm) == [va |-> va, size |-> size, pa |-> pa, perm |-> perm]
Calls   == 1..4+NCPU
Regions ==
    [m \in Calls |->
       CASE m = 1 -> Region(UPAGES, PTPAGES, pages, {"U"})
         [] m = 2 -> Region(UENVS, ENVPAGES, envs, {"U"})
         [] m = 3 -> Region(KSTACKTOP - KSTKSIZE, KSTKSIZE, Bootstack, {"W"})
         [] m = 4 -> Region(KERNBASE, (NPDENTRIES - KERNPDX) * PTPAGES, 0, {"W"})
         [] OTHER -> Region(StackTop(m - 5) - KSTKSIZE, KSTKSIZE, Kstack(m - 5), {"W"})]

(* check_page() takes its entries away again, and leaves the page table of *)
(* the two regions it has got from mmio_map_region().                      *)
CheckPage ==
    /\ ip = "check_page"
    /\ LET list  == GivenBack(1, 2, 3)
           table == Head(list)
       IN  /\ first_list' = Tail(list)
           /\ ref' = [ref EXCEPT ![table] = 1]
           /\ pgdir' = [pgdir EXCEPT ![PDX(MMIOBASE)] = table]
           /\ stored' = {first_list[1], kern_pgdir, table}
    /\ ip' = "map" /\ turn' = 0
    /\ UNCHANGED <<machine, arrays, halves, entry, call, cr3>>

-----------------------------------------------------------------------------
(* boot_map_region(), a turn of its loop.                                  *)

Here == Regions[call].va + turn

MapEntry ==
    LET r == Regions[call]
    IN  /\ entry' = [entry EXCEPT ![Here] = [pa |-> r.pa + turn, perm |-> r.perm]]
        /\ IF turn + 1 = r.size THEN call' = call + 1 /\ turn' = 0
           ELSE turn' = turn + 1 /\ UNCHANGED call

MapHere ==
    /\ ip = "map" /\ call \in Calls /\ pgdir[PDX(Here)] # NoPage
    /\ MapEntry
    /\ stored' = {pgdir[PDX(Here)]}
    /\ UNCHANGED <<machine, arrays, pool, pgdir, cr3, ip>>

(* pgdir_walk() takes a page for the table. *)
MapWithTable ==
    /\ ip = "map" /\ call \in Calls /\ pgdir[PDX(Here)] = NoPage
    /\ first_list # << >>
    /\ first_list' = Tail(first_list)
    /\ ref' = [ref EXCEPT ![Head(first_list)] = 1]
    /\ pgdir' = [pgdir EXCEPT ![PDX(Here)] = Head(first_list)]
    /\ MapEntry
    /\ stored' = {Head(first_list), kern_pgdir}
    /\ UNCHANGED <<machine, arrays, halves, cr3, ip>>

(* There is none, and the entry is stored through a null pointer. *)
MapFaults ==
    /\ ip = "map" /\ call \in Calls /\ pgdir[PDX(Here)] = NoPage
    /\ first_list = << >>
    /\ Panic

(* lcr3(); then check_page_free_list(0) stores to every free page. *)
Lcr3 ==
    /\ ip = "map" /\ call \notin Calls
    /\ cr3' = "kern_pgdir"
    /\ stored' = Range(first_list)
    /\ ip' = "check_installed"
    /\ UNCHANGED <<machine, arrays, pool, tables, turn>>

(* check_page_installed_pgdir() frees the first page and expects it as a   *)
(* page table.                                                             *)
CheckInstalled ==
    /\ ip = "check_installed"
    /\ IF Len(first_list) < 3 \/ Head(FreeTo(Rest, first_list[1])) # first_list[1]
       THEN Panic
       ELSE /\ first_list' = GivenBack(2, 3, 1)
            /\ stored' = {first_list[k] : k \in 1..3}
            /\ ip' = "done"
            /\ UNCHANGED <<machine, arrays, ref, halves, tables, cr3, turn>>

StartNext ==
    \/ AllocPgdir \/ AllocPages \/ AllocEnvs \/ NotEnough
    \/ PageInit \/ PageInitEnd \/ TakeApart \/ CheckLow \/ CheckPageAlloc \/ CheckPage
    \/ MapHere \/ MapWithTable \/ MapFaults \/ Lcr3 \/ CheckInstalled

StartSpec == StartInit /\ [][StartNext]_startVars

-----------------------------------------------------------------------------
(* Properties *)

StartTypeOK ==
    /\ nextfree \in end..npages /\ turn \in Nat /\ call \in 1..5+NCPU
    /\ ref \in [0..npages-1 -> {0, 1}]
    /\ first_list \in Seq(0..npages-1)
    /\ pgdir \in [0..NPDENTRIES-1 -> {NoPage} \cup 0..npages-1]
    /\ cr3 \in {"entry_pgdir", "kern_pgdir"}

PageTables == {pgdir[x] : x \in 0..NPDENTRIES-1} \ {NoPage}
ListMade   == ip \notin {"pgdir", "pages", "envs", "page_init", "panic"}

(* A page is free, and once, unless it is page 0, the page of mpentry.S,   *)
(* in the hole, of the kernel, taken by boot_alloc() or a page table; and  *)
(* pp_ref says so.                                                         *)
FreeExact ==
    ListMade =>
        /\ IsInjective(first_list)
        /\ Range(first_list) =
              (0..npages-1) \ (IOPHYSMEM..EXTPHYSMEM-1 \cup EXTPHYSMEM..nextfree-1
                               \cup {0, MPENTRY} \cup PageTables)
        /\ \A p \in 0..npages-1 : ref[p] = 0 <=> p \in Range(first_list)

(* Where the processor finds an address of the kernel. *)
Translated(va) ==
    IF cr3 = "entry_pgdir"
    THEN IF PDX(va) \in {0, KERNPDX} THEN va % PTPAGES ELSE NoPage
    ELSE IF pgdir[PDX(va)] = NoPage THEN NoPage ELSE entry[va].pa

(* Whatever the kernel stores to, and the kernel itself, is mapped at that *)
(* moment: before lcr3() only low pages are, after it all of them.         *)
Mapped ==
    \A p \in stored \cup EXTPHYSMEM..end-1 : Translated(KERNBASE + p) = p

(* The picture of inc/memlayout.h: all of memory at KERNBASE, the stack of *)
(* each processor with an unmapped guard below it, the arrays where users  *)
(* may read them, nothing that users may write, nothing below UTOP.        *)
MapsTo(va, pa, perm) == entry[va] = [pa |-> pa, perm |-> perm] /\ pgdir[PDX(va)] # NoPage
KernelMap ==
    ip = "done" =>
        /\ \A p \in 0..npages-1 : MapsTo(KERNBASE + p, p, {"W"})
        /\ \A c \in 0..NCPU-1 :
              LET bottom == KSTACKTOP - c * (KSTKSIZE + KSTKGAP) - KSTKSIZE
              IN  /\ \A k \in 0..KSTKSIZE-1 : MapsTo(bottom + k, Kstack(c) + k, {"W"})
                  /\ \A k \in 1..KSTKGAP : entry[bottom - k] = NoEntry
        /\ \A k \in 0..PagesSize(npages)-1 : MapsTo(UPAGES + k, pages + k, {"U"})
        /\ \A k \in 0..ENVPAGES-1 : MapsTo(UENVS + k, envs + k, {"U"})
        /\ \A va \in VAs : entry[va] # NoEntry => va >= UTOP /\ entry[va].perm # {"U", "W"}

(* The list is as module PageList begins: low pages first, each part in    *)
(* descending order.                                                       *)
ListOrder ==
    ip = "done" =>
        \A j, k \in 1..Len(first_list) :
            LET p == first_list[j]
                q == first_list[k]
            IN  j < k => IF Low(p) = Low(q) THEN p > q ELSE Low(p)

(* What is free and what is not, and in which order. *)
StartIInv == StartTypeOK /\ FreeExact /\ ListOrder
=============================================================================
