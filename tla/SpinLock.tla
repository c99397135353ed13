-------------------------------- MODULE SpinLock --------------------------------
(***************************************************************************)
(* The big kernel lock of TP 4 (kern/spinlock.c, compiled with             *)
(* DEBUG_SPINLOCK as kern/spinlock.h has it).  One step per memory access  *)
(* that another processor can see: the two reads of holding(), the xchg,   *)
(* the store that records the owner, the store that clears it and the xchg *)
(* that frees the lock.  The recorded call stack (pcs[]) is left out.      *)
(***************************************************************************)
EXTENDS Naturals

CONSTANTS CPUS,      \* the processors, cpus[] of kern/cpu.h
          NoCpu      \* lk->cpu == 0

ASSUME NoCpuAssumption == NoCpu \notin CPUS

VARIABLES locked,    \* lk->locked
          lockCpu,   \* lk->cpu, the debugging record of the owner
          pc         \* where each processor is in spin_lock and spin_unlock

vars == <<locked, lockCpu, pc>>

(* Control points.  "out": outside the kernel; "in": between lock_kernel() *)
(* and unlock_kernel(); "dead": panic() was called and never returns.      *)
Locking   == {"read_cpu", "xchg", "record"}
Unlocking == {"check_cpu", "clear", "release"}
Points    == {"out", "in", "dead"} \cup Locking \cup Unlocking

TypeOK ==
    /\ locked \in {0, 1}
    /\ lockCpu \in CPUS \cup {NoCpu}
    /\ pc \in [CPUS -> Points]

Init ==
    /\ locked = 0
    /\ lockCpu = NoCpu
    /\ pc = [c \in CPUS |-> "out"]

Goto(c, point) == pc' = [pc EXCEPT ![c] = point]

-----------------------------------------------------------------------------
(* spin_lock *)

(* holding() reads lk->locked; && stops there when the lock is free. *)
LockReadLocked(c) ==
    /\ pc[c] = "out"
    /\ Goto(c, IF locked = 0 THEN "xchg" ELSE "read_cpu")
    /\ UNCHANGED <<locked, lockCpu>>

(* holding() reads lk->cpu: the lock is not recursive. *)
LockReadCpu(c) ==
    /\ pc[c] = "read_cpu"
    /\ Goto(c, IF lockCpu = c THEN "dead" ELSE "xchg")
    /\ UNCHANGED <<locked, lockCpu>>

(* Mutant: test and set in two accesses, the store lost. *)
LockXchgNoStore(c) ==
    /\ pc[c] = "xchg"
    /\ Goto(c, IF locked = 0 THEN "record" ELSE "xchg")
    /\ UNCHANGED <<locked, lockCpu>>

(* The spinning exchange: atomically sets the lock and sees its old value. *)
LockXchg(c) ==
    /\ pc[c] = "xchg"
    /\ locked' = 1
    /\ Goto(c, IF locked = 0 THEN "record" ELSE "xchg")
    /\ UNCHANGED lockCpu

(* The owner is recorded after the lock is taken. *)
LockRecord(c) ==
    /\ pc[c] = "record"
    /\ lockCpu' = c
    /\ Goto(c, "in")
    /\ UNCHANGED locked

-----------------------------------------------------------------------------
(* spin_unlock *)

UnlockReadLocked(c) ==
    /\ pc[c] = "in"
    /\ Goto(c, IF locked = 0 THEN "dead" ELSE "check_cpu")
    /\ UNCHANGED <<locked, lockCpu>>

UnlockReadCpu(c) ==
    /\ pc[c] = "check_cpu"
    /\ Goto(c, IF lockCpu = c THEN "clear" ELSE "dead")
    /\ UNCHANGED <<locked, lockCpu>>

UnlockClear(c) ==
    /\ pc[c] = "clear"
    /\ lockCpu' = NoCpu
    /\ Goto(c, "release")
    /\ UNCHANGED locked

(* xchg(&lk->locked, 0) *)
UnlockRelease(c) ==
    /\ pc[c] = "release"
    /\ locked' = 0
    /\ Goto(c, "out")
    /\ UNCHANGED lockCpu

-----------------------------------------------------------------------------
Step(c) ==
    \/ LockReadLocked(c) \/ LockReadCpu(c) \/ LockXchg(c) \/ LockRecord(c)
    \/ UnlockReadLocked(c) \/ UnlockReadCpu(c)
    \/ UnlockClear(c) \/ UnlockRelease(c)

(* Every processor keeps executing instructions.  A processor outside the  *)
(* kernel need not come back, so its first step is not fair.               *)
Continue(c) == pc[c] # "out" /\ Step(c)

Next == \E c \in CPUS : Step(c)

Spec == Init /\ [][Next]_vars

FairSpec == Spec /\ \A c \in CPUS : WF_vars(Continue(c))

-----------------------------------------------------------------------------
(* Who really owns the lock: the processor between the exchange that found *)
(* it free and the exchange that frees it.                                 *)
Owns(c) == pc[c] \in {"record", "in"} \cup Unlocking

(* Two processors are never both between their exchanges, so a kernel      *)
(* entry of kern/trap.c is atomic for the other processors.                *)
MutualExclusion == \A c, d \in CPUS : Owns(c) /\ Owns(d) => c = d

(* The debugging checks of spin_lock and spin_unlock never panic, although *)
(* lk->locked and lk->cpu are read and written in separate accesses and    *)
(* the record lags behind the lock on both sides.                          *)
NoFalsePanic == \A c \in CPUS : pc[c] # "dead"

(* The lock implements the abstract one, owned from the exchange that      *)
(* found it free to the exchange that frees it.                            *)
owner == IF \E c \in CPUS : Owns(c) THEN CHOOSE c \in CPUS : Owns(c) ELSE NoCpu

Abstract == INSTANCE BigKernelLock WITH owner <- owner

ImplementsBigKernelLock == Abstract!Spec

(* Whenever processors spin on the lock one of them gets into the kernel:  *)
(* xchg cannot leave them all waiting.  Which one is not promised.         *)
SomeoneEnters ==
    (\E c \in CPUS : pc[c] = "xchg") ~> (\E c \in CPUS : pc[c] = "in")

-----------------------------------------------------------------------------
(* The inductive invariant: the lock word is set exactly while a processor *)
(* owns the lock, and the record of the owner is right except in the two   *)
(* windows where it lags.                                                  *)
LockWord == locked = 1 <=> \E c \in CPUS : Owns(c)

Record ==
    /\ \A c \in CPUS : pc[c] \in {"in", "check_cpu", "clear"} => lockCpu = c
    /\ \A c \in CPUS : lockCpu = c => pc[c] \in {"in", "check_cpu", "clear"}

IInv == TypeOK /\ MutualExclusion /\ LockWord /\ Record /\ NoFalsePanic
=============================================================================
