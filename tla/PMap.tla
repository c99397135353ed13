---------------------------------- MODULE PMap ----------------------------------
(***************************************************************************)
(* The memory of TP 4: reference counts and free pages (kern/pmap.c), the  *)
(* page tables of the environments, the page system calls                  *)
(* (kern/syscall.c), the address space of a new and of a freed environment *)
(* (kern/env.c), and the translations each processor keeps.                *)
(*                                                                         *)
(* A page is referred to by words: the entry of an address in a page       *)
(* table, the entry of a page table in a page directory, and env_pgdir.    *)
(* Module PageList shows that the free list gives out any of its pages and *)
(* loses none, so here it is a set.  Which environment runs where is as    *)
(* module Kernel proves it: an environment is on one processor at most,    *)
(* and any that is on none may be the next.                                *)
(* A call that returns an error changes nothing and has no action; the     *)
(* contents of pages and permissions other than PTE_W are left out.        *)
(***************************************************************************)
EXTENDS Integers, FiniteSets

CONSTANTS NPAGES,    \* npages; page 0 is never free (page_init)
          RefLimit,  \* pp_ref counts modulo this; 2^16 in the code
          Envs,      \* slots of envs[]
          BootEnv,   \* the first environment
          VAs,       \* page addresses below UTOP
          BootVa,    \* where the first environment has its page
          Dirs,      \* entries of a page directory below UTOP
          PDX,       \* the page directory entry of each address
          Root,      \* env_pgdir
          CPUS, NoEnv, NoPage

Pages   == 0..NPAGES-1
Entries == VAs \cup Dirs \cup {Root}
Words   == Envs \X Entries

ASSUME PagesAssumption == NPAGES \in Nat /\ NPAGES > 3 /\ NoPage \notin Pages
ASSUME RefAssumption   == RefLimit \in Nat /\ RefLimit > 1
ASSUME EnvsAssumption  == IsFiniteSet(Envs) /\ BootEnv \in Envs /\ NoEnv \notin Envs
ASSUME WordsAssumption ==
    /\ IsFiniteSet(VAs) /\ IsFiniteSet(Dirs)
    /\ BootVa \in VAs /\ PDX \in [VAs -> Dirs]
    /\ VAs \cap Dirs = {} /\ Root \notin VAs \cup Dirs

VARIABLES
    pp_ref,          \* per page
    page_free_list,  \* the set of its pages
    entry,           \* the page each word refers to
    writable,        \* the words of addresses that have PTE_W
    parent,          \* the environment that made each one, while it lives
    dying,           \* environments with status ENV_DYING
    cr3,             \* the environment whose directory each processor has loaded
    tlb              \* the translations each processor keeps

memVars == <<pp_ref, page_free_list, entry>>
vars    == <<memVars, writable, parent, dying, cr3, tlb>>

(* The memory as one value, so that operations can follow one another. *)
mem == [ref |-> pp_ref, free |-> page_free_list, entry |-> entry]

SetMem(m) ==
    pp_ref' = m.ref /\ page_free_list' = m.free /\ entry' = m.entry

TypeOK ==
    /\ pp_ref \in [Pages -> 0..RefLimit-1]
    /\ page_free_list \in SUBSET Pages
    /\ entry \in [Words -> Pages \cup {NoPage}]
    /\ writable \in SUBSET (Envs \X VAs)
    /\ parent \in [Envs -> Envs \cup {NoEnv}]
    /\ dying \in SUBSET Envs
    /\ cr3 \in [CPUS -> Envs \cup {NoEnv}]
    /\ tlb \in [CPUS -> [VAs -> Pages \cup {NoPage}]]

NoTranslation == [va \in VAs |-> NoPage]

(* One environment as env_create() leaves it, with one page: the directory, *)
(* the page of region_alloc() and its table.  Which pages they are is of   *)
(* no matter.                                                              *)
Init ==
    LET dir   == NPAGES-1
        page  == NPAGES-2
        table == NPAGES-3
    IN  /\ pp_ref = [p \in Pages |-> IF p = 0 \/ p >= table THEN 1 ELSE 0]
        /\ page_free_list = 1..table-1
        /\ entry = [x \in Words |->
              IF x = <<BootEnv, Root>> THEN dir
              ELSE IF x = <<BootEnv, BootVa>> THEN page
              ELSE IF x = <<BootEnv, PDX[BootVa]>> THEN table ELSE NoPage]
        /\ writable = {<<BootEnv, BootVa>>}
        /\ parent = [e \in Envs |-> NoEnv]
        /\ dying = {}
        /\ cr3 = [c \in CPUS |-> NoEnv]
        /\ tlb = [c \in CPUS |-> NoTranslation]

-----------------------------------------------------------------------------
(* kern/pmap.c, on a memory m *)

Up(r)      == (r + 1) % RefLimit
Down(r, k) == (r - k) % RefLimit

(* page_alloc() takes the head of the free list, which may be any free     *)
(* page.  It does not count a reference.                                   *)
PageAlloc(m, p) == [m EXCEPT !.free = @ \ {p}]

PageDecref(m, p) ==
    [m EXCEPT !.ref[p] = Down(@, 1),
              !.free = IF Down(m.ref[p], 1) = 0 THEN @ \cup {p} ELSE @]

(* A word is set, a page is counted, and both. *)
Store(m, x, p) == [m EXCEPT !.entry[x] = p]
Count(m, p)    == [m EXCEPT !.ref[p] = Up(@)]
Refer(m, x, p) == Store(Count(m, p), x, p)

PageRemove(m, x) ==
    IF m.entry[x] = NoPage THEN m ELSE Store(PageDecref(m, m.entry[x]), x, NoPage)

(* pgdir_walk() with create: the memory when the page table is there, none *)
(* when there is no page for it.                                           *)
PgdirWalk(m, e, va) ==
    IF m.entry[<<e, PDX[va]>>] # NoPage THEN {m}
    ELSE {Refer(PageAlloc(m, t), <<e, PDX[va]>>, t) : t \in m.free}

(* Mutant: the old page is removed before the new one is counted. *)
PageInsertRemoveFirst(m, e, p, va) ==
    {Refer(PageRemove(w, <<e, va>>), <<e, va>>, p) : w \in PgdirWalk(m, e, va)}

(* The page is counted before the old one is removed: they may be the same. *)
PageInsert(m, e, p, va) ==
    {Store(PageRemove(Count(w, p), <<e, va>>), <<e, va>>, p) : w \in PgdirWalk(m, e, va)}

(* page_lookup() finds a page wherever there is a page table: an entry     *)
(* that is zero is taken for one of page 0.                                *)
HasTable(e, va)   == entry[<<e, PDX[va]>>] # NoPage
PageLookup(e, va) == IF entry[<<e, va>>] = NoPage THEN 0 ELSE entry[<<e, va>>]

(* The words of e that refer to p. *)
WordsOf(m, e, p) == {s \in Entries : m.entry[<<e, s>>] = p}

EnvFreeKeepsTables(m, e) ==         \* Mutant: page tables not given back
    LET data(p) == {va \in VAs \cup {Root} : m.entry[<<e, va>>] = p}
    IN  [ref   |-> [p \in Pages |-> Down(m.ref[p], Cardinality(data(p)))],
         free  |-> m.free \cup {p \in Pages :
                      \E k \in 1..Cardinality(data(p)) : Down(m.ref[p], k) = 0},
         entry |-> [x \in Words |-> IF x[1] = e THEN NoPage ELSE m.entry[x]]]

(* env_free() removes every page of the user portion, then the page tables *)
(* and the directory: each word of e gives one reference back.             *)
EnvFree(m, e) ==
    [ref   |-> [p \in Pages |-> Down(m.ref[p], Cardinality(WordsOf(m, e, p)))],
     free  |-> m.free \cup {p \in Pages :
                  \E k \in 1..Cardinality(WordsOf(m, e, p)) : Down(m.ref[p], k) = 0},
     entry |-> [x \in Words |-> IF x[1] = e THEN NoPage ELSE m.entry[x]]]

-----------------------------------------------------------------------------
(* Processors *)

Exists(e)       == entry[<<e, Root>>] # NoPage
Elsewhere(c, e) == \E d \in CPUS \ {c} : cr3[d] = e

(* A kernel entry by the environment that runs on c. *)
Enter(c) == cr3[c] # NoEnv /\ cr3[c] \notin dying

(* Every return to user mode loads the directory with lcr3(), which drops  *)
(* the translations of this processor.                                     *)
Load(c, e) ==
    /\ cr3' = [cr3 EXCEPT ![c] = e]
    /\ tlb' = [tlb EXCEPT ![c] = NoTranslation]

Return(c) == Load(c, cr3[c])

(* sched_yield(): another environment, or sched_halt() with kern_pgdir.    *)
(* gone is the environment that was just freed, if any.                    *)
Schedule(c, gone) ==
    \/ Load(c, NoEnv)
    \/ \E e \in Envs \ {gone} : Exists(e) /\ ~Elsewhere(c, e) /\ Load(c, e)

Switch(c) ==
    /\ cr3[c] \notin dying
    /\ Schedule(c, NoEnv)
    /\ UNCHANGED <<memVars, writable, parent, dying>>

(* The program reads or writes at va: the processor walks the page tables  *)
(* and keeps what it finds until it is told to drop it.                    *)
Touch(c, va) ==
    /\ cr3[c] # NoEnv
    /\ tlb[c][va] = NoPage /\ entry[<<cr3[c], va>>] # NoPage
    /\ tlb' = [tlb EXCEPT ![c][va] = entry[<<cr3[c], va>>]]
    /\ UNCHANGED <<memVars, writable, parent, dying, cr3>>

-----------------------------------------------------------------------------
(* System calls *)

Permitted(c, e) == Exists(e) /\ (e = cr3[c] \/ parent[e] = cr3[c])

SetWritable(x, w) == writable' = IF w THEN writable \cup {x} ELSE writable \ {x}

SysPageAlloc(c, e, va, w) ==
    /\ Enter(c) /\ Permitted(c, e)
    /\ \E p \in page_free_list :
          \E m \in PageInsert(PageAlloc(mem, p), e, p, va) : SetMem(m)
    /\ SetWritable(<<e, va>>, w)
    /\ Return(c)
    /\ UNCHANGED <<parent, dying>>

MayGrantAny(e, va, w) == TRUE       \* Mutant: PTE_W of the source not asked for
MayGrant(e, va, w) == w => <<e, va>> \in writable

(* What sys_page_map() and sys_ipc_try_send() share. *)
MapPage(src, sva, dst, dva, w) ==
    /\ HasTable(src, sva) /\ MayGrant(src, sva, w)
    /\ \E m \in PageInsert(mem, dst, PageLookup(src, sva), dva) : SetMem(m)
    /\ SetWritable(<<dst, dva>>, w)

SysPageMap(c, src, sva, dst, dva, w) ==
    /\ Enter(c) /\ Permitted(c, src) /\ Permitted(c, dst)
    /\ MapPage(src, sva, dst, dva, w)
    /\ Return(c)
    /\ UNCHANGED <<parent, dying>>

(* The receiver is blocked, so it runs nowhere. *)
SysIpcTrySend(c, sva, dst, dva, w) ==
    /\ Enter(c) /\ Exists(dst) /\ dst # cr3[c] /\ ~Elsewhere(c, dst)
    /\ MapPage(cr3[c], sva, dst, dva, w)
    /\ Return(c)
    /\ UNCHANGED <<parent, dying>>

(* Where there is a page table.  Without one page_remove() uses a variable *)
(* nobody has set (README); no program calls it there.                     *)
SysPageUnmap(c, e, va) ==
    /\ Enter(c) /\ Permitted(c, e) /\ HasTable(e, va)
    /\ SetMem(PageRemove(mem, <<e, va>>))
    /\ SetWritable(<<e, va>>, FALSE)
    /\ Return(c)
    /\ UNCHANGED <<parent, dying>>

(* env_alloc() takes a page for the directory, and counts it itself. *)
SysExofork(c, e) ==
    /\ Enter(c) /\ ~Exists(e)
    /\ \E p \in page_free_list : SetMem(Refer(PageAlloc(mem, p), <<e, Root>>, p))
    /\ parent' = [parent EXCEPT ![e] = cr3[c]]
    /\ Return(c)
    /\ UNCHANGED <<writable, dying>>

Forget(e) ==
    /\ SetMem(EnvFree(mem, e))
    /\ writable' = {x \in writable : x[1] # e}
    /\ parent' = [k \in Envs |-> IF k = e \/ parent[k] = e THEN NoEnv ELSE parent[k]]

(* env_destroy() on another environment.  No program destroys one that is  *)
(* a zombie already; the code would free it while it runs.                 *)
DestroyChild(c, e) ==
    /\ Enter(c) /\ Permitted(c, e) /\ e # cr3[c]
    /\ \/ /\ Elsewhere(c, e) /\ e \notin dying
          /\ dying' = dying \cup {e}
          /\ UNCHANGED <<memVars, writable, parent>>
       \/ ~Elsewhere(c, e) /\ Forget(e) /\ UNCHANGED dying
    /\ Return(c)

(* env_destroy() on curenv: an exit or a fault nobody handles. *)
Exit(c) ==
    /\ Enter(c)
    /\ Forget(cr3[c]) /\ Schedule(c, cr3[c]) /\ UNCHANGED dying

(* trap() collects a zombie. *)
Reap(c) ==
    /\ cr3[c] \in dying
    /\ Forget(cr3[c]) /\ Schedule(c, cr3[c])
    /\ dying' = dying \ {cr3[c]}

-----------------------------------------------------------------------------
(* What the programs of user/, lib/ and fs/ ask for: they change their own *)
(* pages and those of children they have not started, share pages they     *)
(* have, and unmap where they have mapped.                                 *)
Alloc(c, e, va, w) == ~Elsewhere(c, e) /\ SysPageAlloc(c, e, va, w)

Share(c, src, sva, dst, dva, w) ==
    /\ entry[<<src, sva>>] # NoPage /\ ~Elsewhere(c, dst)
    /\ SysPageMap(c, src, sva, dst, dva, w)

Send(c, sva, dst, dva, w) ==
    /\ Enter(c) /\ entry[<<cr3[c], sva>>] # NoPage
    /\ SysIpcTrySend(c, sva, dst, dva, w)

Unmap(c, e, va) == ~Elsewhere(c, e) /\ SysPageUnmap(c, e, va)

Step(c) ==
    \/ Switch(c) \/ Exit(c) \/ Reap(c)
    \/ \E va \in VAs : Touch(c, va)
    \/ \E e \in Envs : SysExofork(c, e) \/ DestroyChild(c, e)
    \/ \E e \in Envs, va \in VAs : Unmap(c, e, va)
    \/ \E e \in Envs, va, sva \in VAs, w \in BOOLEAN :
          \/ Alloc(c, e, va, w)
          \/ Send(c, sva, e, va, w)
          \/ \E src \in Envs : Share(c, src, sva, e, va, w)

Next == \E c \in CPUS : Step(c)
Spec == Init /\ [][Next]_vars

-----------------------------------------------------------------------------
(* Properties *)

Users(p) == {x \in Words : entry[x] = p}

(* pp_ref, a counter that is incremented and decremented in six places, is *)
(* the number of words that refer to the page.                             *)
RefExact == \A p \in Pages \ {0} : pp_ref[p] = Cardinality(Users(p))

(* A page is free exactly when nothing refers to it: page_decref() frees   *)
(* none that is in use, and no page is lost.                               *)
FreeExact == page_free_list = {p \in Pages \ {0} : Users(p) = {}}

(* A page table or page directory is referred to by one word and by no     *)
(* address: no program can reach it, and freeing one environment does not  *)
(* take a table from another.                                              *)
TablesArePrivate ==
    \A x, y \in Words :
        x[2] \notin VAs /\ entry[x] # NoPage /\ entry[y] = entry[x] => x = y

(* No processor translates with an entry that has changed since: although  *)
(* tlb_invalidate() only reaches the processor it runs on, no program can  *)
(* reach a page that has been unmapped, or freed and given to another.     *)
TlbFresh ==
    \A c \in CPUS, va \in VAs :
        tlb[c][va] # NoPage => cr3[c] # NoEnv /\ tlb[c][va] = entry[<<cr3[c], va>>]

(* Write access to a page only comes from allocating it or from somebody   *)
(* who has it, whatever chain of mappings, messages and exits went before. *)
CanWrite(p)   == \E x \in writable : entry[x] = p
WriteIsGiven  == \A p \in Pages : CanWrite(p)' /\ ~CanWrite(p) => p \in page_free_list
WriteDescends == [][WriteIsGiven]_vars

(* The memory implements the abstract address spaces.                      *)
space == [x \in Envs \X VAs |-> entry[x]]
alive == {e \in Envs : Exists(e)}

Abstract == INSTANCE AddressSpaces
            WITH space <- space, writable <- writable, alive <- alive

ImplementsAddressSpaces == Abstract!Spec

-----------------------------------------------------------------------------
(* The inductive invariant *)

(* Page 0 is nobody's; a word of an address needs its page table and a     *)
(* page table its directory; what may be written is mapped.                *)
Shape ==
    /\ \A x \in Words : entry[x] # 0
    /\ \A e \in Envs, va \in VAs : entry[<<e, va>>] # NoPage => HasTable(e, va)
    /\ \A e \in Envs, d \in Dirs : entry[<<e, d>>] # NoPage => Exists(e)
    /\ \A x \in writable : entry[x] # NoPage

(* A loaded directory exists, on one processor, and zombies run.           *)
Loaded ==
    /\ \A c \in CPUS : cr3[c] # NoEnv => Exists(cr3[c])
    /\ \A c, d \in CPUS : cr3[c] = cr3[d] /\ cr3[c] # NoEnv => c = d
    /\ \A e \in dying : \E c \in CPUS : cr3[c] = e

IInv ==
    /\ TypeOK /\ Shape /\ Loaded
    /\ RefExact /\ FreeExact /\ TablesArePrivate /\ TlbFresh
=============================================================================
