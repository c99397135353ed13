-------------------------------- MODULE PageList --------------------------------
(***************************************************************************)
(* The free list of kern/pmap.c in TP 4, as the list it is: page_alloc()   *)
(* takes its head and page_free() walks it as if it were in descending     *)
(* order.  It is not: mem_init() leaves the low pages in front (module     *)
(* MemInit), so that the walk stops where it may, and what matters is that *)
(* no page is lost or comes twice.  Module PagePool is what the rest of    *)
(* the memory relies on.                                                   *)
(***************************************************************************)
EXTENDS Naturals, Sequences

CONSTANTS NPAGES,    \* pages 1..NPAGES-1 are free at first
          NLOW       \* those below are in the first PTSIZE bytes of memory

ASSUME NpagesAssumption ==
    NPAGES \in Nat \ {0} /\ NLOW \in Nat \ {0} /\ NLOW <= NPAGES

Pages == 1..NPAGES-1

VARIABLE page_free_list

ListTypeOK == page_free_list \in Seq(Pages)

(* The low pages from the highest down, then the others likewise. *)
ListInit ==
    page_free_list =
        [i \in Pages |-> IF i < NLOW THEN NLOW - i ELSE NPAGES + NLOW - 1 - i]

PageAlloc ==
    /\ page_free_list # << >>
    /\ page_free_list' = Tail(page_free_list)

(* The place where the walk stops: i pages stay before p.  It goes on      *)
(* while the next page is higher.                                          *)
Stops(p, i) ==
    \A j \in 1..Len(page_free_list) :
        IF j <= i THEN page_free_list[j] > p
        ELSE j = i + 1 => page_free_list[j] <= p

Before(i) == SubSeq(page_free_list, 1, i)
After(i)  == SubSeq(page_free_list, i + 1, Len(page_free_list))

LinkedOneWay(p, i) == Before(i) \o <<p>>     \* Mutant: pp->pp_link is not set
Linked(p, i)       == Before(i) \o <<p>> \o After(i)

(* Called for a page that is not in the list. *)
PageFree(p) ==
    /\ \A j \in 1..Len(page_free_list) : page_free_list[j] # p
    /\ \E i \in 0..Len(page_free_list) :
          Stops(p, i) /\ page_free_list' = Linked(p, i)

ListNext == PageAlloc \/ \E p \in Pages : PageFree(p)
ListSpec == ListInit /\ [][ListNext]_page_free_list

(* No page is in the list twice, in whatever order it has come to be. *)
NoTwice ==
    \A i, j \in 1..Len(page_free_list) :
        i # j => page_free_list[i] # page_free_list[j]

ListIInv == ListTypeOK /\ NoTwice

(* It is a set of pages: page_free() finds a place for every page and no   *)
(* other page is lost, although the list is not in the order the walk      *)
(* takes for granted.                                                      *)
free == {page_free_list[i] : i \in 1..Len(page_free_list)}

Pool == INSTANCE PagePool WITH free <- free

ImplementsPagePool == Pool!Spec
=============================================================================
