-------------------------------- MODULE MCStart --------------------------------
(* The start of a machine, in three parts: mem_init() on machines of       *)
(* several sizes (MemInit), where a page table maps 29 pages; page_alloc() *)
(* and page_free() on such a list later (PageList); and the boot processor *)
(* starting three others, which then go on using the lock (Boot).  What is *)
(* looked at is chosen at the start; the other parts stay as they begin.   *)
EXTENDS Boot, PageList, MemInit

CONSTANTS p0, p1, p2, p3    \* the processors

VARIABLE part

OneSize == npages = (CHOOSE n \in Sizes : TRUE) /\ end = (CHOOSE e \in KernelEnds : TRUE)

MCInit ==
    /\ BootInit /\ ListInit /\ StartInit
    /\ part = "mem_init" \/ (part \in {"page_list", "processors"} /\ OneSize)

(* mem_init() returns, or the machine stops. *)
Ended == ip \in {"done", "panic"} /\ UNCHANGED startVars

MCNext ==
    /\ UNCHANGED part
    /\ \/ /\ part = "mem_init" /\ (StartNext \/ Ended)
          /\ UNCHANGED <<page_free_list, allVars>>
       \/ /\ part = "page_list" /\ ListNext
          /\ UNCHANGED <<startVars, allVars>>
       \/ /\ part = "processors" /\ BootNext
          /\ UNCHANGED <<startVars, page_free_list>>

Goes(step) == part = "processors" /\ step

MCFairness ==
    /\ WF_allVars(Goes(BootStep))
    /\ \A c \in CPUS :
          /\ WF_allVars(Goes(ApStep(c)))
          /\ WF_allVars(Goes((at[c] = "lock" \/ pc[c] # "out") /\ LockStep(c)))

MCSpec == MCInit /\ [][MCNext]_<<part, page_free_list, startVars, allVars>> /\ MCFairness

(* BootProgress of module Boot, where the processors do something at all:  *)
(* the start ends, and somebody gets the kernel lock again and again.      *)
MachineStarts == part = "processors" => BootProgress
=============================================================================
