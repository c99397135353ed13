---------------------------------- MODULE Boot ----------------------------------
(***************************************************************************)
(* The start of the processors in TP 4: i386_init() and boot_aps() on the  *)
(* boot processor, mpentry.S and mp_main() on the others (kern/init.c),    *)
(* composed with the big kernel lock, whose steps are those of SpinLock.   *)
(*                                                                         *)
(* The new processors do their first work in the kernel without the lock,  *)
(* which the boot processor holds meanwhile: they share mpentry_kstack,    *)
(* the page tables of the kernel and the address where mmio_map_region()   *)
(* maps next.  Only the wait of boot_aps() keeps them apart.               *)
(***************************************************************************)
EXTENDS SpinLock

CONSTANT BootCpu

ASSUME BootAssumption == BootCpu \in CPUS

VARIABLES
    at,        \* where each processor is in i386_init() or mp_main()
    up,        \* the processors whose cpu_status is CPU_STARTED
    kstack,    \* mpentry_kstack: the processor whose stack it is
    stack,     \* the stack each processor took
    starting,  \* the loop variable of boot_aps()
    regions,   \* regions mapped by mmio_map_region(): its variable base
    base,      \* what each processor read from it
    created    \* the first environments are there

lockVars == <<locked, lockCpu, pc>>
bootVars == <<at, up, kstack, stack, starting, regions, base, created>>
allVars  == <<lockVars, bootVars>>

Setup  == {"map", "mapped", "report"}            \* in mp_main(), without the lock
Phases == {"off", "entry", "lock", "loop", "send", "wait", "running"} \cup Setup

(* lapic_init() of the boot processor has mapped the first region. *)
BootInit ==
    /\ Init
    /\ at = [c \in CPUS |-> IF c = BootCpu THEN "lock" ELSE "off"]
    /\ up = {BootCpu}
    /\ kstack = NoCpu /\ stack = [c \in CPUS |-> IF c = BootCpu THEN c ELSE NoCpu]
    /\ starting = NoCpu
    /\ regions = 1 /\ base = [c \in CPUS |-> 0]
    /\ created = FALSE

Enter(c, phase) == at' = [at EXCEPT ![c] = phase]

-----------------------------------------------------------------------------
(* The accesses of spin_lock() and spin_unlock(): of lock_kernel() while a *)
(* processor starts, of every kernel entry and exit once it is running.    *)
LockStep(c) ==
    /\ at[c] = "running" \/ (at[c] = "lock" /\ pc[c] # "in")
    /\ Step(c)
    /\ UNCHANGED bootVars

(* Mutant: boot_aps() is called before lock_kernel(). *)
LocksLate == at[BootCpu] = "lock"
Locks     == at[BootCpu] = "lock" /\ pc[BootCpu] = "in"

BootAps ==
    /\ Locks
    /\ Enter(BootCpu, "loop")
    /\ UNCHANGED <<lockVars, up, kstack, stack, starting, regions, base, created>>

(* One turn of the loop of boot_aps(), up to the startup interrupt. *)
GiveStack(c) ==
    /\ at[BootCpu] = "loop" /\ at[c] = "off"
    /\ kstack' = c /\ starting' = c
    /\ Enter(BootCpu, "send")
    /\ UNCHANGED <<lockVars, up, stack, regions, base, created>>

StartAp ==
    /\ at[BootCpu] = "send"
    /\ at' = [at EXCEPT ![BootCpu] = "wait", ![starting] = "entry"]
    /\ UNCHANGED <<lockVars, up, kstack, stack, starting, regions, base, created>>

Answered       == starting \in up

Waited ==
    /\ at[BootCpu] = "wait" /\ Answered
    /\ Enter(BootCpu, "loop")
    /\ UNCHANGED <<lockVars, up, kstack, stack, starting, regions, base, created>>

(* The calls of env_create(), up to sched_yield(). *)
CreateEnvs ==
    /\ at[BootCpu] = "loop" /\ \A c \in CPUS : at[c] # "off"
    /\ created' = TRUE
    /\ Enter(BootCpu, "running")
    /\ UNCHANGED <<lockVars, up, kstack, stack, starting, regions, base>>

-----------------------------------------------------------------------------
(* mpentry.S takes the stack that it finds. *)
LoadStack(c) ==
    /\ at[c] = "entry"
    /\ stack' = [stack EXCEPT ![c] = kstack]
    /\ Enter(c, "map")
    /\ UNCHANGED <<lockVars, up, kstack, starting, regions, base, created>>

(* mmio_map_region() reads base, and stores it after boot_map_region(). *)
MapRead(c) ==
    /\ at[c] = "map"
    /\ base' = [base EXCEPT ![c] = regions]
    /\ Enter(c, "mapped")
    /\ UNCHANGED <<lockVars, up, kstack, stack, starting, regions, created>>

MapStore(c) ==
    /\ at[c] = "mapped"
    /\ regions' = base[c] + 1
    /\ Enter(c, "report")
    /\ UNCHANGED <<lockVars, up, kstack, stack, starting, base, created>>

(* Mutant: the processor reports after lock_kernel(). *)
ReportLocked(c) ==
    \/ /\ at[c] = "report" /\ Enter(c, "lock")
       /\ UNCHANGED <<lockVars, up, kstack, stack, starting, regions, base, created>>
    \/ /\ at[c] = "running" /\ c \notin up /\ up' = up \cup {c}
       /\ UNCHANGED <<lockVars, at, kstack, stack, starting, regions, base, created>>

Report(c) ==
    /\ at[c] = "report"
    /\ up' = up \cup {c}
    /\ Enter(c, "lock")
    /\ UNCHANGED <<lockVars, kstack, stack, starting, regions, base, created>>

(* lock_kernel() has returned in mp_main(), which calls sched_yield(). *)
Schedule(c) ==
    /\ c # BootCpu /\ at[c] = "lock" /\ pc[c] = "in"
    /\ Enter(c, "running")
    /\ UNCHANGED <<lockVars, up, kstack, stack, starting, regions, base, created>>

-----------------------------------------------------------------------------
BootStep == BootAps \/ (\E c \in CPUS : GiveStack(c)) \/ StartAp \/ Waited \/ CreateEnvs

ApStep(c) == LoadStack(c) \/ MapRead(c) \/ MapStore(c) \/ Report(c) \/ Schedule(c)

BootNext == BootStep \/ \E c \in CPUS : ApStep(c) \/ LockStep(c)

BootSpec == BootInit /\ [][BootNext]_allVars

(* Processors execute their instructions; one that runs need not enter the *)
(* kernel again, but one that starts goes on to lock_kernel().             *)
FairBootSpec ==
    /\ BootSpec /\ WF_allVars(BootStep)
    /\ \A c \in CPUS :
          /\ WF_allVars(ApStep(c))
          /\ WF_allVars((at[c] = "lock" \/ pc[c] # "out") /\ LockStep(c))

-----------------------------------------------------------------------------
(* Properties *)

BootTypeOK ==
    /\ at \in [CPUS -> Phases]
    /\ up \subseteq CPUS
    /\ kstack \in CPUS \cup {NoCpu} /\ stack \in [CPUS -> CPUS \cup {NoCpu}]
    /\ starting \in CPUS \cup {NoCpu}
    /\ regions \in Nat /\ base \in [CPUS -> Nat]
    /\ created \in BOOLEAN

(* While a processor is between the startup interrupt and its report, the  *)
(* boot processor waits for this one, with the lock.                       *)
OneStarts ==
    /\ \A c \in CPUS : at[c] \in {"entry"} \cup Setup =>
          at[BootCpu] = "wait" /\ starting = c /\ c \notin up
    /\ at[BootCpu] \notin {"off", "entry"} \cup Setup
    /\ at[BootCpu] \in {"loop", "send", "wait"} => pc[BootCpu] = "in"
    /\ at[BootCpu] \in {"send", "wait"} => starting \in CPUS \ {BootCpu}
    /\ at[BootCpu] = "send" => at[starting] = "off"
    /\ at[BootCpu] = "wait" => kstack = starting /\ at[starting] # "off"
    /\ at[BootCpu] = "send" => kstack = starting

Started ==
    /\ \A c \in CPUS \ {BootCpu} : at[c] \notin {"loop", "send", "wait"}
    /\ \A c \in CPUS \ {BootCpu} : c \in up <=> at[c] \in {"lock", "running"}
    /\ \A c \in CPUS : at[c] \in {"off", "entry"} \cup Setup => pc[c] = "out"
    /\ created <=> at[BootCpu] = "running"
    /\ at[BootCpu] = "lock" => \A c \in CPUS \ {BootCpu} : at[c] = "off"

(* Every processor in the kernel is on the stack of its own, although all  *)
(* of them find it in one variable.                                        *)
OwnStack ==
    \A c \in CPUS : at[c] \notin {"off", "entry"} => stack[c] = c

(* The unlocked work of mp_main() is never done by two processors at once, *)
(* nor next to one that has the lock and is past boot_aps(): each region   *)
(* is mapped once, and page_alloc() is called by one processor.            *)
SetupAlone ==
    \A c \in CPUS : at[c] \in Setup =>
        /\ \A d \in CPUS \ {c} : at[d] \notin Setup
        /\ ~created
        /\ at[c] = "mapped" => base[c] = regions

(* No processor schedules before the first environments are there: it      *)
(* would find none and stop in the monitor, with the lock.                 *)
SchedulesCreated == \A c \in CPUS : at[c] = "running" => created

BootingIInv == BootTypeOK /\ OneStarts /\ Started /\ OwnStack /\ SetupAlone /\ SchedulesCreated

(* The lock is where SpinLock says, and the start where boot_aps() is,     *)
(* at every moment: the inductive invariant of both.                       *)
BootIInv == IInv /\ BootingIInv

(* The start comes to its end although the boot processor waits for the    *)
(* others with the lock that they will want.                               *)
StartEnds == <>(created /\ up = CPUS)

(* The machine starts, and whoever wants the kernel lock, during the start *)
(* or after it, does not make all wait: somebody gets it again and again.  *)
BootProgress == StartEnds /\ SomeoneEnters
=============================================================================
