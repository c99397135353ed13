-------------------------------- MODULE PagePool --------------------------------
(***************************************************************************)
(* What page_alloc() and page_free() of kern/pmap.c promise in TP 4: a     *)
(* set of pages, of which one is given out.  Module PMap keeps the free    *)
(* list in this form.                                                      *)
(***************************************************************************)
EXTENDS Naturals

CONSTANT NPAGES

VARIABLE free

Init == free = 1..NPAGES-1

(* page_alloc() *)
Alloc == \E p \in free : free' = free \ {p}

(* page_free() *)
Free(p) == p \notin free /\ free' = free \cup {p}

Next == Alloc \/ \E p \in 1..NPAGES-1 : Free(p)

Spec == Init /\ [][Next]_free
=============================================================================
