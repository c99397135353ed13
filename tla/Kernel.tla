--------------------------------- MODULE Kernel ---------------------------------
(***************************************************************************)
(* Environments and processors of TP 4: the table envs[] with its free     *)
(* list (kern/env.c), the round robin scheduler (kern/sched.c), the entry  *)
(* to the kernel and the return from it (kern/trap.c) and the system calls *)
(* that change the status of an environment (kern/syscall.c).              *)
(*                                                                         *)
(* A processor enters the kernel, does its work and leaves holding the big *)
(* kernel lock all along, so a whole kernel entry is one action: module    *)
(* SpinLock proves that the lock gives the exclusion this rests on.  A     *)
(* call that returns an error changes nothing here and has no action.      *)
(* Memory, the contents of messages and registers are left out; of a saved *)
(* trap frame only the interrupt flag is kept.                             *)
(***************************************************************************)
EXTENDS Naturals, Sequences

CONSTANTS NENV,      \* size of envs[]
          NBoot,     \* environments i386_init creates
          CPUS,      \* cpus[]
          BootCpu,   \* bootcpu, the processor that runs i386_init
          NoEnv,     \* curenv == NULL
          NoCpu,     \* kernel_lock is free
          GenLimit,  \* the last generation of an env_id; 2^19 - 1 in the code
          GenBound   \* bound on the generations that are explored

ASSUME NenvAssumption == NENV \in Nat \ {0} /\ NBoot \in 1..NENV
ASSUME CpusAssumption == BootCpu \in CPUS /\ NoCpu \notin CPUS
ASSUME GenAssumption == GenLimit \in Nat \ {0} /\ GenBound \in 1..GenLimit

Slots == 0..NENV-1

ASSUME NoEnvAssumption == NoEnv \notin Slots

VARIABLES
    env_status,       \* per slot
    env_gen,          \* the uniqueifier part of env_id
    env_parent_id,    \* per slot
    env_ipc_recving,  \* per slot
    env_if,           \* FL_IF: in force while the environment runs, else in its env_tf
    env_free_list,    \* slots, first to be allocated first
    curenv,           \* per processor
    cpuAt,            \* what each processor executes
    cpu_status,       \* per processor, as trap() reads it
    kernel_lock,      \* the processor that keeps the lock between two actions
    panicstr          \* some processor called panic()

envVars == <<env_gen, env_parent_id, env_ipc_recving, env_if, env_free_list>>
cpuVars == <<curenv, cpuAt, cpu_status, kernel_lock>>
vars    == <<env_status, envVars, cpuVars, panicstr>>

Statuses == {"FREE", "DYING", "RUNNABLE", "RUNNING", "NOT_RUNNABLE"}

EnvId(e) == <<env_gen[e], e>>
NoId     == <<0, 0>>                  \* envid 0: the caller, or no parent
EnvIds   == {NoId} \cup ((1..GenLimit) \X Slots)

TypeOK ==
    /\ env_status \in [Slots -> Statuses]
    /\ env_gen \in [Slots -> 0..GenLimit]
    /\ env_parent_id \in [Slots -> EnvIds]
    /\ env_ipc_recving \in [Slots -> BOOLEAN]
    /\ env_if \in [Slots -> BOOLEAN]
    /\ env_free_list \in Seq(Slots)
    /\ curenv \in [CPUS -> Slots \cup {NoEnv}]
    /\ cpuAt \in [CPUS -> {"boot", "user", "halted", "monitor"}]
    /\ cpu_status \in [CPUS -> {"STARTED", "HALTED"}]
    /\ kernel_lock \in CPUS \cup {NoCpu}
    /\ panicstr \in BOOLEAN

(* After the ENV_CREATEs of i386_init, about to call sched_yield() with    *)
(* the lock held.  The other processors wait for it in mp_main().          *)
Init ==
    /\ env_status = [e \in Slots |-> IF e < NBoot THEN "RUNNABLE" ELSE "FREE"]
    /\ env_gen = [e \in Slots |-> IF e < NBoot THEN 1 ELSE 0]
    /\ env_parent_id = [e \in Slots |-> NoId]
    /\ env_ipc_recving = [e \in Slots |-> FALSE]
    /\ env_if = [e \in Slots |-> e < NBoot]
    /\ env_free_list = [i \in 1..(NENV - NBoot) |-> NBoot + i - 1]
    /\ curenv = [c \in CPUS |-> NoEnv]
    /\ cpuAt = [c \in CPUS |-> "boot"]
    /\ cpu_status = [c \in CPUS |-> "STARTED"]
    /\ kernel_lock = BootCpu
    /\ panicstr = FALSE

-----------------------------------------------------------------------------
(* Leaving the kernel.  old is curenv of processor c and st the status     *)
(* table as the handler leaves them when it calls one of these.            *)

(* What xchg(&thiscpu->cpu_status, CPU_STARTED) leaves in trap(). *)
StatusInTrap(c) == "STARTED"

EnvRun(c, old, st, e) ==
    /\ env_status' = [s \in Slots |->
            IF s = e THEN "RUNNING"
            ELSE IF s = old /\ st[s] = "RUNNING" THEN "RUNNABLE" ELSE st[s]]
    /\ curenv' = [curenv EXCEPT ![c] = e]
    /\ cpuAt' = [cpuAt EXCEPT ![c] = "user"]
    /\ cpu_status' = [cpu_status EXCEPT ![c] = StatusInTrap(c)]
    /\ kernel_lock' = NoCpu

Alive == {"RUNNABLE", "RUNNING", "DYING"}

(* With nothing alive the processor stays in the kernel monitor, holding   *)
(* the lock.  Otherwise it halts, outside the kernel.                      *)
SchedHalt(c, old, st) ==
    /\ env_status' = st
    /\ \/ /\ \A e \in Slots : st[e] \notin Alive
          /\ curenv' = [curenv EXCEPT ![c] = old]
          /\ cpuAt' = [cpuAt EXCEPT ![c] = "monitor"]
          /\ cpu_status' = [cpu_status EXCEPT ![c] = StatusInTrap(c)]
          /\ kernel_lock' = c
       \/ /\ \E e \in Slots : st[e] \in Alive
          /\ curenv' = [curenv EXCEPT ![c] = NoEnv]
          /\ cpuAt' = [cpuAt EXCEPT ![c] = "halted"]
          /\ cpu_status' = [cpu_status EXCEPT ![c] = "HALTED"]
          /\ kernel_lock' = NoCpu


(* The i-th slot the scan of envs[] visits. *)
Turn(old, i) ==
    LET k == i + (IF old = NoEnv THEN 0 ELSE old)
    IN  IF k >= NENV THEN k - NENV ELSE k

SchedYieldStays(c, old, st) ==    \* Mutant: tries curenv before the scan
    IF old # NoEnv /\ st[old] = "RUNNING" THEN EnvRun(c, old, st, old)
    ELSE \/ \E e \in Slots : st[e] = "RUNNABLE" /\ EnvRun(c, old, st, e)
         \/ (\A e \in Slots : st[e] # "RUNNABLE") /\ SchedHalt(c, old, st)

SchedYield(c, old, st) ==
    \/ \E i \in 1..NENV :
          /\ st[Turn(old, i)] = "RUNNABLE"
          /\ \A j \in 1..i-1 : st[Turn(old, j)] # "RUNNABLE"
          /\ EnvRun(c, old, st, Turn(old, i))
    \/ /\ \A e \in Slots : st[e] # "RUNNABLE"
       /\ IF old # NoEnv /\ st[old] = "RUNNING"
             THEN EnvRun(c, old, st, old)
             ELSE SchedHalt(c, old, st)

(* The end of trap(): back to curenv if that makes sense. *)
Resume(c, st) ==
    IF st[curenv[c]] = "RUNNING"
       THEN EnvRun(c, curenv[c], st, curenv[c])
       ELSE SchedYield(c, curenv[c], st)

-----------------------------------------------------------------------------
(* Entering the kernel *)

(* A trap from user mode takes the lock.  With cpu_status still CPU_HALTED *)
(* trap() takes it twice and spin_lock() panics.                           *)
TrapFromUser(c) ==
    /\ cpuAt[c] = "user" /\ kernel_lock = NoCpu /\ ~panicstr
    /\ panicstr' = (cpu_status[c] = "HALTED")

(* trap() goes on to the handler unless curenv is a zombie. *)
Enter(c) == TrapFromUser(c) /\ env_status[curenv[c]] # "DYING"

(* mp_main(), and the end of i386_init() on the boot processor. *)
FirstSchedule(c) ==
    /\ cpuAt[c] = "boot" /\ kernel_lock \in {c, NoCpu} /\ ~panicstr
    /\ SchedYield(c, NoEnv, env_status)
    /\ UNCHANGED <<envVars, panicstr>>

(* The timer interrupt on a halted processor.  If cpu_status did not say   *)
(* so trap() would run without the lock and unlock_kernel() would panic.   *)
WakeUp(c) ==
    /\ cpuAt[c] = "halted" /\ kernel_lock = NoCpu /\ ~panicstr
    /\ panicstr' = (cpu_status[c] # "HALTED")
    /\ SchedYield(c, NoEnv, env_status)
    /\ UNCHANGED envVars

(* while (1) monitor(NULL) *)
InMonitor(c) == cpuAt[c] = "monitor" /\ UNCHANGED vars

-----------------------------------------------------------------------------
(* The life of an environment *)

EnvFree(e) == env_free_list' = <<e>> \o env_free_list

ReapNever(c) ==                               \* Mutant: the zombie goes on
    /\ TrapFromUser(c) /\ env_status[curenv[c]] = "DYING"
    /\ UNCHANGED <<env_status, envVars, cpuVars>>

(* trap() finds that curenv was destroyed from another processor. *)
Reap(c) ==
    LET e == curenv[c]
    IN  /\ TrapFromUser(c) /\ env_status[e] = "DYING"
        /\ EnvFree(e)
        /\ SchedYield(c, NoEnv, [env_status EXCEPT ![e] = "FREE"])
        /\ UNCHANGED <<env_gen, env_parent_id, env_ipc_recving, env_if>>

EnvDestroyNow(c, e) ==                        \* Mutant: frees it wherever it runs
    /\ UNCHANGED <<env_gen, env_parent_id, env_ipc_recving, env_if>>
    /\ EnvFree(e)
    /\ IF e = curenv[c]
          THEN SchedYield(c, NoEnv, [env_status EXCEPT ![e] = "FREE"])
          ELSE Resume(c, [env_status EXCEPT ![e] = "FREE"])

EnvDestroy(c, e) ==
    /\ UNCHANGED <<env_gen, env_parent_id, env_ipc_recving, env_if>>
    /\ \/ /\ env_status[e] = "RUNNING" /\ e # curenv[c]
          /\ Resume(c, [env_status EXCEPT ![e] = "DYING"])
          /\ UNCHANGED env_free_list
       \/ /\ env_status[e] # "RUNNING" /\ e # curenv[c]
          /\ EnvFree(e)
          /\ Resume(c, [env_status EXCEPT ![e] = "FREE"])
       \/ /\ e = curenv[c]
          /\ EnvFree(e)
          /\ SchedYield(c, NoEnv, [env_status EXCEPT ![e] = "FREE"])

NextGen(g) == IF g = GenLimit THEN 1 ELSE g + 1

(* The slot env_alloc() makes into a new environment. *)
EnvAlloc(e, parent) ==
    /\ env_free_list # << >> /\ e = Head(env_free_list)
    /\ NextGen(env_gen[e]) <= GenBound
    /\ env_gen' = [env_gen EXCEPT ![e] = NextGen(env_gen[e])]
    /\ env_parent_id' = [env_parent_id EXCEPT ![e] = parent]
    /\ env_ipc_recving' = [env_ipc_recving EXCEPT ![e] = FALSE]
    /\ env_free_list' = Tail(env_free_list)

SysExofork(c) ==
    /\ Enter(c)
    /\ \E e \in Slots :
          /\ EnvAlloc(e, EnvId(curenv[c]))
          /\ env_if' = [env_if EXCEPT ![e] = env_if[curenv[c]]]
          /\ Resume(c, [env_status EXCEPT ![e] = "NOT_RUNNABLE"])

-----------------------------------------------------------------------------
(* System calls on an environment named by an id *)

Target(c, id) == IF id = NoId THEN curenv[c] ELSE id[2]

IsParentSlot(c, e) == env_parent_id[e][2] = curenv[c]   \* Mutant: ignores generations
IsParent(c, e) == env_parent_id[e] = EnvId(curenv[c])

(* envid2env() finds the environment, without and with checkperm. *)
Exists(c, id) ==
    id # NoId => env_status[id[2]] # "FREE" /\ EnvId(id[2]) = id
Permitted(c, id) ==
    /\ Exists(c, id)
    /\ LET e == Target(c, id) IN e = curenv[c] \/ IsParent(c, e)

SysEnvDestroy(c, id) ==
    Enter(c) /\ Permitted(c, id) /\ EnvDestroy(c, Target(c, id))

SysEnvSetStatus(c, id, status) ==
    /\ Enter(c) /\ Permitted(c, id)
    /\ Resume(c, [env_status EXCEPT ![Target(c, id)] = status])
    /\ UNCHANGED envVars

(* The new trap frame of an environment that runs elsewhere is lost: its   *)
(* next trap overwrites env_tf.                                            *)
SysEnvSetTrapframe(c, id, interrupts) ==
    LET e == Target(c, id)
        elsewhere == \E d \in CPUS \ {c} : cpuAt[d] = "user" /\ curenv[d] = e
    IN  /\ Enter(c) /\ Permitted(c, id)
        /\ env_if' = [env_if EXCEPT ![e] = IF elsewhere THEN @ ELSE interrupts]
        /\ Resume(c, env_status)
        /\ UNCHANGED <<env_gen, env_parent_id, env_ipc_recving, env_free_list>>

SysYield(c) ==
    Enter(c) /\ SchedYield(c, curenv[c], env_status) /\ UNCHANGED envVars

(* Also when dstva is not aligned: the status is set before the check.     *)
SysIpcRecv(c) ==
    LET e == curenv[c]
    IN  /\ Enter(c)
        /\ env_ipc_recving' = [env_ipc_recving EXCEPT ![e] = TRUE]
        /\ SchedYield(c, e, [env_status EXCEPT ![e] = "NOT_RUNNABLE"])
        /\ UNCHANGED <<env_gen, env_parent_id, env_if, env_free_list>>

(* The receiver is taken to be waiting when it is not runnable. *)
SysIpcTrySend(c, id) ==
    LET e == Target(c, id)
    IN  /\ Enter(c) /\ Exists(c, id) /\ env_status[e] = "NOT_RUNNABLE"
        /\ env_ipc_recving' = [env_ipc_recving EXCEPT ![e] = FALSE]
        /\ Resume(c, [env_status EXCEPT ![e] = "RUNNABLE"])
        /\ UNCHANGED <<env_gen, env_parent_id, env_if, env_free_list>>

(* A fault nobody handles: a page fault with no upcall, a bad pointer in a *)
(* system call, a trap that trap_dispatch() does not know.                 *)
UserFault(c) == Enter(c) /\ EnvDestroy(c, curenv[c])

(* The kernel monitor is entered and never left, since none of its         *)
(* commands ends the loop that reads them; the lock is kept.               *)
StayInMonitor(c) ==
    /\ cpuAt' = [cpuAt EXCEPT ![c] = "monitor"]
    /\ cpu_status' = [cpu_status EXCEPT ![c] = StatusInTrap(c)]
    /\ kernel_lock' = c
    /\ UNCHANGED <<env_status, envVars, curenv>>

(* A breakpoint calls the monitor.  A program that panics ends in one.     *)
Breakpoint(c) == Enter(c) /\ StayInMonitor(c)

(* A key, or a character on the serial line.  Their interrupts reach the   *)
(* boot processor, and have no gate: a protection fault, which destroys    *)
(* the environment that runs, or, on a halted processor, a panic.          *)
DeviceInterrupt(c) ==
    /\ c = BootCpu
    /\ \/ cpuAt[c] = "user" /\ env_if[curenv[c]] /\ UserFault(c)
       \/ /\ cpuAt[c] = "halted" /\ kernel_lock = NoCpu /\ ~panicstr
          /\ panicstr' = TRUE
          /\ StayInMonitor(c)

TimerInterrupt(c) ==
    /\ Enter(c) /\ env_if[curenv[c]]
    /\ SchedYield(c, curenv[c], env_status)
    /\ UNCHANGED envVars

-----------------------------------------------------------------------------
(* What the programs of user/ and the library of lib/ ask of the kernel.   *)
(* The system calls accept more: README says what, and what came of it.    *)

(* fork(), dumbfork() and spawn() start the child they have just made. *)
StartChild(c, id) ==
    LET e == Target(c, id)
    IN  /\ e # curenv[c] /\ env_status[e] = "NOT_RUNNABLE" /\ ~env_ipc_recving[e]
        /\ SysEnvSetStatus(c, id, "RUNNABLE")

(* spawn() sets the entry point and stack of the child before starting it, *)
(* in a copy of the child's own trap frame.                                *)
SetChildTrapframe(c, id) ==
    LET e == Target(c, id)
    IN  /\ e # curenv[c] /\ env_status[e] = "NOT_RUNNABLE" /\ ~env_ipc_recving[e]
        /\ SysEnvSetTrapframe(c, id, env_if[e])

(* exit() and programs that kill a child; no program kills a child twice. *)
Kill(c, id) == SysEnvDestroy(c, id) /\ env_status[Target(c, id)] # "DYING"

(* ipc_send(), whose receiver calls ipc_recv(). *)
Send(c, id) == SysIpcTrySend(c, id) /\ env_ipc_recving[Target(c, id)]

(* What can happen without anybody leaving. *)
Compute(c) ==
    \/ FirstSchedule(c) \/ WakeUp(c) \/ TimerInterrupt(c) \/ InMonitor(c)
    \/ SysYield(c) \/ SysExofork(c) \/ SysIpcRecv(c)
    \/ \E id \in EnvIds :
          StartChild(c, id) \/ SetChildTrapframe(c, id) \/ Send(c, id)

Leave(c) ==
    Reap(c) \/ UserFault(c) \/ \E id \in EnvIds : Kill(c, id)

Step(c) == Compute(c) \/ Leave(c) \/ Breakpoint(c) \/ DeviceInterrupt(c)
Next    == \E c \in CPUS : Step(c)
Spec    == Init /\ [][Next]_vars

(* The local APIC timer is periodic: it interrupts every processor that    *)
(* accepts interrupts again and again, whatever the programs do.  Nothing  *)
(* else is fair.                                                           *)
Tick(c) ==
    \/ TimerInterrupt(c)
    \/ Reap(c) /\ env_if[curenv[c]]
    \/ WakeUp(c)
    \/ FirstSchedule(c)

TimerFairness == \A c \in CPUS : WF_vars(Tick(c))
FairSpec      == Spec /\ TimerFairness

-----------------------------------------------------------------------------
(* Properties *)

Runs(c, e) == cpuAt[c] = "user" /\ curenv[c] = e

(* At a breakpoint, which it will never leave.                             *)
Stands(c, e) == cpuAt[c] = "monitor" /\ curenv[c] = e /\ env_status[e] = "RUNNING"

(* The states ENV_RUNNING and ENV_DYING say exactly that one processor     *)
(* executes the environment, or has it at a breakpoint, and that           *)
(* processor's curenv names it.  Every decision of env_destroy(),          *)
(* sched_yield() and sched_halt() rests on it.                             *)
RunningExact ==
    /\ \A c \in CPUS : cpuAt[c] = "user" =>
          curenv[c] \in Slots /\ env_status[curenv[c]] \in {"RUNNING", "DYING"}
    /\ \A c \in CPUS : cpuAt[c] \in {"boot", "halted"} => curenv[c] = NoEnv
    /\ \A e \in Slots : env_status[e] \in {"RUNNING", "DYING"} =>
          \E c \in CPUS : Runs(c, e) \/ Stands(c, e)
    /\ \A c, d \in CPUS : \A e \in Slots :
          Runs(c, e) /\ (Runs(d, e) \/ Stands(d, e)) => c = d

(* sched.c: never choose an environment that is running on another CPU.    *)
OneCpuPerEnv ==
    \A c, d \in CPUS : \A e \in Slots : Runs(c, e) /\ Runs(d, e) => c = d

(* env.c: an environment that runs on another processor is not freed under *)
(* it, but becomes a zombie that its own next trap frees.                  *)
NeverRunsFreed ==
    \A c \in CPUS : \A e \in Slots : Runs(c, e) => env_status[e] # "FREE"

(* The free list holds every free slot once and nothing else.              *)
FreeListExact ==
    /\ \A i, j \in 1..Len(env_free_list) :
          env_free_list[i] = env_free_list[j] => i = j
    /\ \A e \in Slots : env_status[e] = "FREE" <=>
          \E i \in 1..Len(env_free_list) : env_free_list[i] = e

(* trap() never takes the lock twice nor works without it, because         *)
(* cpu_status says exactly which processors halted: the kernel panics only *)
(* on the halted boot processor, for the interrupt of a device.            *)
OnlyDevicesPanic ==
    panicstr => cpuAt[BootCpu] = "monitor" /\ curenv[BootCpu] = NoEnv

(* A processor is in the monitor because no environment is left to run, as *)
(* sched.c says, because its own is at a breakpoint, or because it has     *)
(* panicked.  It stays, since it keeps the lock for good.                  *)
MonitorHasCause ==
    \A c \in CPUS : cpuAt[c] = "monitor" =>
        \/ \A e \in Slots : env_status[e] \in {"FREE", "NOT_RUNNABLE"}
        \/ \E e \in Slots : Stands(c, e)
        \/ panicstr /\ c = BootCpu

(* A new environment has no children yet: the orphans of the previous      *)
(* owner of its slot do not take it for their parent.  True until          *)
(* generations wrap around.                                                *)
NewbornIsAlone ==
    \A p, e \in Slots :
        /\ env_status[p] = "FREE" /\ env_status'[p] # "FREE"
        /\ e # p /\ env_status[e] # "FREE"
        => env_parent_id'[e] # EnvId(p)'

NewbornHasNoChildren == [][NewbornIsAlone]_vars

(* An environment is only destroyed while it runs itself or its parent,    *)
(* the very environment that made it, is running to ask for it.            *)
KilledByFamily ==
    \A e \in Slots :
        /\ env_status[e] \notin {"FREE", "DYING"}
        /\ env_status'[e] \in {"FREE", "DYING"}
        => \E c \in CPUS : \/ Runs(c, e)
                           \/ \E p \in Slots : Runs(c, p) /\ env_parent_id[e] = EnvId(p)

OnlyFamilyKills == [][KilledByFamily]_vars

(* Nobody gets into the kernel any more. *)
Stopped == \E c \in CPUS : cpuAt[c] = "monitor"

(* A zombie is collected: the timer brings its processor to the kernel,    *)
(* unless the machine stops before.                                        *)
ZombieCollected ==
    \A e \in Slots : (env_status[e] = "DYING") ~> (env_status[e] # "DYING" \/ Stopped)

(* Once nobody exits, faults or is killed any more, no environment that    *)
(* can run waits for ever, unless the machine has stopped: the scan of     *)
(* sched_yield() comes to all of them.                                     *)
NobodyLeaves == [][\E c \in CPUS : Compute(c)]_vars
RunnableRuns ==
    <>NobodyLeaves =>
        \A e \in Slots : (env_status[e] = "RUNNABLE") ~> (env_status[e] # "RUNNABLE" \/ Stopped)

-----------------------------------------------------------------------------
(* The inductive invariants *)

(* cpu_status, read by trap() outside the lock, tells who halted.          *)
StatusExact == \A c \in CPUS : cpu_status[c] = "HALTED" <=> cpuAt[c] = "halted"

(* Between two kernel entries only a processor that has not left the       *)
(* kernel holds the lock.                                                  *)
LockExact ==
    /\ \A c \in CPUS : kernel_lock = c => cpuAt[c] \in {"boot", "monitor"}
    /\ \A c \in CPUS : cpuAt[c] = "monitor" => kernel_lock = c

(* The id of an environment is greater than 0, so nobody is called NoId.   *)
RealIds == \A e \in Slots : env_status[e] # "FREE" => env_gen[e] > 0

IInv ==
    /\ TypeOK /\ RunningExact /\ FreeListExact /\ RealIds
    /\ StatusExact /\ LockExact /\ MonitorHasCause /\ OnlyDevicesPanic

(* While generations do not wrap around, a parent is never younger than    *)
(* the environments its slot has had.                                      *)
ParentsAreOld ==
    \A e \in Slots :
        /\ env_gen[e] <= GenBound
        /\ env_status[e] # "FREE" =>
              env_parent_id[e][1] <= env_gen[env_parent_id[e][2]]
=============================================================================
