------------------------------ MODULE BigKernelLock ------------------------------
(***************************************************************************)
(* What kern/spinlock.h promises of lock_kernel() and unlock_kernel(): a   *)
(* mutual exclusion lock.  The other modules of this project rest on this  *)
(* promise when they make a whole kernel entry, from lock_kernel() to      *)
(* unlock_kernel(), one action.                                            *)
(***************************************************************************)
CONSTANTS CPUS,      \* the processors, cpus[] of kern/cpu.h
          NoCpu      \* the owner of a free lock

VARIABLE owner

Init == owner = NoCpu

(* lock_kernel() returns on processor c. *)
Acquire(c) == owner = NoCpu /\ owner' = c

(* unlock_kernel() gives the lock back on processor c. *)
Release(c) == owner = c /\ owner' = NoCpu

Next == \E c \in CPUS : Acquire(c) \/ Release(c)

Spec == Init /\ [][Next]_owner
=============================================================================
