-------------------------------- MODULE Registers --------------------------------
(***************************************************************************)
(* The registers of environments in TP 4: how a trap saves them in env_tf, *)
(* what the system calls store there, and how env_run() brings them back   *)
(* (kern/trap.c, kern/trapentry.S, kern/syscall.c, kern/env.c).  A visit   *)
(* to the kernel is one step, as the kernel lock makes it (BigKernelLock), *)
(* up to unlock_kernel(); env_pop_tf() reads env_tf after that, in two     *)
(* steps here: popal, and iret.  Which environment is chosen next is left  *)
(* open (Kernel says which).                                               *)
(***************************************************************************)
EXTENDS Naturals, FiniteSets

CONSTANTS Cpus, NENV, Values,
          Interruptible,    \* what FL_IF is in the frames that programs make
          Faulting          \* those that have page faults

Envs    == 1..NENV
Nobody  == [eax |-> 0, reg |-> 0, eip |-> "none", intr |-> TRUE]
Error   == NENV + 1
CallNo  == NENV + 2        \* eax holds the number of the call
Results == 0..CallNo
(* eip: at an instruction of the program, at one that makes a system call, *)
(* or in the upcall for page faults.                                       *)
Frames  == [eax : Results, reg : Values, eip : {"program", "call", "upcall"}, intr : BOOLEAN]

ASSUME RegistersAssumption == NENV \in Nat \ {0} /\ 0 \in Values /\ Interruptible \subseteq BOOLEAN

VARIABLES
    status, parent, recving,  \* of struct Env
    tf,        \* env_tf
    utf,       \* the frame on the exception stack; Nobody if there is none
    cpu        \* curenv (0: none), what the processor does, and its registers

vars == <<status, parent, recving, tf, utf, cpu>>

First == [eax |-> 0, reg |-> 0, eip |-> "program", intr |-> TRUE]

Init ==
    /\ status = [e \in Envs |-> IF e = 1 THEN "runnable" ELSE "free"]
    /\ parent = [e \in Envs |-> 0] /\ recving = {}
    /\ tf = [e \in Envs |-> IF e = 1 THEN First ELSE Nobody]
    /\ utf = [e \in Envs |-> Nobody]
    /\ cpu = [c \in Cpus |-> [env |-> 0, at |-> "halt", regs |-> Nobody]]

-----------------------------------------------------------------------------
(* env_run() of e, when the statuses are st. *)
Run(c, st, e) ==
    LET old == cpu[c].env
        st1 == IF old # 0 /\ st[old] = "running" THEN [st EXCEPT ![old] = "runnable"] ELSE st
    IN  /\ status' = [st1 EXCEPT ![e] = "running"]
        /\ cpu' = [cpu EXCEPT ![c] = [env |-> e, at |-> "pop", regs |-> Nobody]]

Halt(c, st) ==
    /\ status' = st
    /\ cpu' = [cpu EXCEPT ![c] = [env |-> 0, at |-> "halt", regs |-> Nobody]]

Ready(st) == {e \in Envs : st[e] = "runnable"}
Goes(c, st) == cpu[c].env # 0 /\ st[cpu[c].env] = "running"

(* sched_yield() *)
SchedYield(c, st) ==
    \/ \E e \in Ready(st) : Run(c, st, e)
    \/ Ready(st) = {} /\ IF Goes(c, st) THEN Run(c, st, cpu[c].env) ELSE Halt(c, st)

(* The end of trap() *)
Resume(c, st) == IF Goes(c, st) THEN Run(c, st, cpu[c].env) ELSE SchedYield(c, st)

WakeUp(c) ==
    /\ cpu[c].at = "halt" /\ Ready(status) # {}
    /\ SchedYield(c, status)
    /\ UNCHANGED <<parent, recving, tf, utf>>

(* env_pop_tf(), without the lock. *)
Popal(c) ==
    /\ cpu[c].at = "pop"
    /\ LET f == tf[cpu[c].env]
       IN  cpu' = [cpu EXCEPT ![c].at = "iret", ![c].regs.eax = f.eax, ![c].regs.reg = f.reg]
    /\ UNCHANGED <<status, parent, recving, tf, utf>>

Iret(c) ==
    /\ cpu[c].at = "iret"
    /\ LET f == tf[cpu[c].env]
       IN  cpu' = [cpu EXCEPT ![c].at = "user", ![c].regs.eip = f.eip, ![c].regs.intr = f.intr]
    /\ UNCHANGED <<status, parent, recving, tf, utf>>

-----------------------------------------------------------------------------
(* The program that runs on a processor *)

User(c, e)    == cpu[c].at = "user" /\ e = cpu[c].env
Program(c, e) == User(c, e) /\ cpu[c].regs.eip # "upcall"

(* An instruction; in the upcall as well. *)
Work(c) ==
    /\ cpu[c].at = "user" /\ cpu[c].regs.eip # "call"
    /\ \E v \in Values : cpu' = [cpu EXCEPT ![c].regs.reg = v]
    /\ UNCHANGED <<status, parent, recving, tf, utf>>

(* It comes to a system call, whose number is in eax. *)
Ask(c) ==
    /\ cpu[c].at = "user" /\ cpu[c].regs.eip = "program"
    /\ cpu' = [cpu EXCEPT ![c].regs = [@ EXCEPT !.eax = CallNo, !.eip = "call"]]
    /\ UNCHANGED <<status, parent, recving, tf, utf>>

(* _pgfault_upcall returns to what was interrupted. *)
UpcallReturn(c) ==
    /\ cpu[c].at = "user" /\ cpu[c].regs.eip = "upcall"
    /\ LET e == cpu[c].env
       IN  cpu' = [cpu EXCEPT ![c].regs = [utf[e] EXCEPT !.intr = cpu[c].regs.intr]]
           /\ utf' = [utf EXCEPT ![e] = Nobody]
    /\ UNCHANGED <<status, parent, recving, tf>>

-----------------------------------------------------------------------------
(* Traps: the frame is saved, the handler changes it. *)

Freed(st, e) == [st EXCEPT ![e] = "free"]

(* Its identifier is no longer that of anybody, its children's parent.     *)
EnvFree(e) ==
    /\ recving' = recving \ {e} /\ utf' = [utf EXCEPT ![e] = Nobody]
    /\ parent' = [k \in Envs |-> IF k = e \/ parent[k] = e THEN 0 ELSE parent[k]]

Zombie(c) == status[cpu[c].env] = "dying"
Trap(c, e) == User(c, e) /\ ~Zombie(c)
Asks(c, e) == Trap(c, e) /\ cpu[c].regs.eip = "call"

(* The trap saves the registers. *)
SavedNot(c, e)    == tf                     \* Mutant: env_tf is left as it was
Saved(c, e)       == [tf EXCEPT ![e] = cpu[c].regs]

(* The saved frame, after a call that returned r. *)
AnswerLost(c, r)  == [cpu[c].regs EXCEPT !.eip = "program"]  \* Mutant: not in env_tf
Answer(c, r)      == [cpu[c].regs EXCEPT !.eax = r, !.eip = "program"]
Returned(e, c, r) == [Saved(c, e) EXCEPT ![e] = Answer(c, r)]

(* A zombie is freed by its next trap. *)
Reap(c) ==
    /\ cpu[c].at = "user" /\ Zombie(c)
    /\ LET e == cpu[c].env
       IN  EnvFree(e) /\ SchedYield(c, Freed(status, e)) /\ tf' = [tf EXCEPT ![e] = Nobody]

Timer(c) ==
    /\ \E e \in Envs :
        /\ Trap(c, e) /\ cpu[c].regs.intr
        /\ tf' = Saved(c, e)
    /\ SchedYield(c, status)
    /\ UNCHANGED <<parent, recving, utf>>

(* A page fault: the frame moves to the exception stack. *)
Fault(c) ==
    /\ \E e \in Envs :
        /\ e \in Faulting /\ Trap(c, e) /\ cpu[c].regs.eip # "upcall"
        /\ utf' = [utf EXCEPT ![e] = cpu[c].regs]
        /\ tf' = [tf EXCEPT ![e] = [cpu[c].regs EXCEPT !.eip = "upcall"]]
        /\ Run(c, status, e)
    /\ UNCHANGED <<parent, recving>>

(* sys_yield() does not come back to trap_dispatch(): eax keeps the number. *)
SysYield(c) ==
    /\ \E e \in Envs : Asks(c, e) /\ tf' = Returned(e, c, cpu[c].regs.eax)
    /\ SchedYield(c, status)
    /\ UNCHANGED <<parent, recving, utf>>

SysExofork(c) ==
    /\ \E e \in Envs :
        /\ Asks(c, e)
        /\ \/ \E k \in Envs :
               /\ status[k] = "free" /\ parent' = [parent EXCEPT ![k] = e]
               /\ tf' = [Returned(e, c, k) EXCEPT
                           ![k] = [cpu[c].regs EXCEPT !.eax = 0, !.eip = "program"]]
               /\ Resume(c, [status EXCEPT ![k] = "newborn"])
           \/ /\ \A k \in Envs : status[k] # "free"
              /\ tf' = Returned(e, c, Error) /\ UNCHANGED parent
              /\ Resume(c, status)
    /\ UNCHANGED <<recving, utf>>

(* envid2env(), with checkperm *)
Child(e, k) == parent[k] = e /\ status[k] # "free"

SysRefused(c, k) ==
    /\ \E e \in Envs :
        /\ Asks(c, e) /\ k # e /\ ~Child(e, k) /\ tf' = Returned(e, c, Error)
    /\ Resume(c, status)
    /\ UNCHANGED <<parent, recving, utf>>

(* What the caller gives as a frame; its value is in a register. *)
Given(c, i) == [eax |-> 0, reg |-> cpu[c].regs.reg, eip |-> "program", intr |-> i]

SysEnvSetTrapframe(c, k) ==
    /\ \E e \in Envs :
        /\ Asks(c, e) /\ (k = e \/ Child(e, k))
        /\ \E i \in Interruptible : tf' = [Returned(e, c, 0) EXCEPT ![k] = Given(c, i)]
    /\ Resume(c, status)
    /\ UNCHANGED <<parent, recving, utf>>

(* Programs start the children they have just made. *)
SysEnvSetStatus(c, k) ==
    /\ \E e \in Envs :
        /\ Asks(c, e) /\ Child(e, k) /\ status[k] = "newborn"
        /\ tf' = Returned(e, c, 0)
    /\ Resume(c, [status EXCEPT ![k] = "runnable"])
    /\ UNCHANGED <<parent, recving, utf>>

(* The result of sys_ipc_recv() is stored before it waits. *)
SysIpcRecv(c) ==
    /\ \E e \in Envs :
        /\ Asks(c, e) /\ tf' = Returned(e, c, 0)
        /\ recving' = recving \cup {e}
        /\ Resume(c, [status EXCEPT ![e] = "waiting"])
    /\ UNCHANGED <<parent, utf>>

SysIpcTrySend(c, k) ==
    /\ \E e \in Envs :
        /\ Asks(c, e)
        /\ IF k \in recving
           THEN /\ tf' = Returned(e, c, 0) /\ recving' = recving \ {k}
                /\ Resume(c, [status EXCEPT ![k] = "runnable"])
           ELSE /\ tf' = Returned(e, c, Error) /\ UNCHANGED recving
                /\ Resume(c, status)
    /\ UNCHANGED <<parent, utf>>

(* One that runs on another processor becomes a zombie. *)
Destroyed(e)    == IF status[e] = "running" THEN "dying" ELSE "free"

(* No program kills a child twice. *)
SysEnvDestroy(c, k) ==
    /\ \E e \in Envs :
        /\ Asks(c, e) /\ Child(e, k) /\ e # k /\ status[k] # "dying"
        /\ LET next == Destroyed(k)
           IN  /\ tf' = [Returned(e, c, 0) EXCEPT ![k] = IF next = "free" THEN Nobody ELSE @]
               /\ IF next = "free" THEN EnvFree(k) ELSE UNCHANGED <<parent, recving, utf>>
               /\ Resume(c, [status EXCEPT ![k] = next])

Exit(c) ==
    /\ \E e \in Envs :
        /\ Asks(c, e)
        /\ EnvFree(e) /\ tf' = [tf EXCEPT ![e] = Nobody]
        /\ SchedYield(c, Freed(status, e))

Next == \E c \in Cpus :
    \/ WakeUp(c) \/ Popal(c) \/ Iret(c) \/ Work(c) \/ Ask(c) \/ UpcallReturn(c)
    \/ Reap(c) \/ Timer(c) \/ Fault(c) \/ SysYield(c) \/ SysExofork(c) \/ SysIpcRecv(c) \/ Exit(c)
    \/ \E k \in Envs : SysRefused(c, k) \/ SysEnvSetTrapframe(c, k) \/ SysEnvSetStatus(c, k)
                       \/ SysIpcTrySend(c, k) \/ SysEnvDestroy(c, k)

Spec == Init /\ [][Next]_vars

-----------------------------------------------------------------------------
(* Properties *)

TypeOK ==
    /\ status \in [Envs -> {"free", "newborn", "runnable", "running", "waiting", "dying"}]
    /\ parent \in [Envs -> 0..NENV] /\ recving \subseteq Envs
    /\ {tf, utf} \subseteq [Envs -> Frames \cup {Nobody}]
    /\ cpu \in [Cpus -> [env : 0..NENV, at : {"halt", "pop", "iret", "user"},
                         regs : [eax : Results, reg : Values,
                                 eip : {"none", "program", "call", "upcall"}, intr : BOOLEAN]]]

Here(e) == {c \in Cpus : cpu[c].env = e}

(* A processor pops the frame of an environment that nobody else has.      *)
IInv ==
    /\ TypeOK
    /\ \A e \in Envs : Cardinality(Here(e)) = IF status[e] \in {"running", "dying"} THEN 1 ELSE 0

(* Where the registers of e are: env_tf, a processor, or both. *)
Now(e) ==
    IF \E c \in Here(e) : cpu[c].at # "pop"
    THEN LET c == CHOOSE c \in Here(e) : TRUE
         IN  IF cpu[c].at = "user" THEN cpu[c].regs
             ELSE [tf[e] EXCEPT !.eax = cpu[c].regs.eax, !.reg = cpu[c].regs.reg]
    ELSE tf[e]

(* The program is in its upcall when its registers say so: its own are on   *)
(* the exception stack then.                                               *)
Regs(e) == IF Now(e).eip = "upcall" THEN [utf[e] EXCEPT !.intr = Now(e).intr] ELSE Now(e)

AllRegs == [e \in Envs |-> Regs(e)]
Placed  == {e \in Envs : \E c \in Cpus : cpu[c].env = e}
Runs    == {e \in Envs : \E c \in Cpus : Program(c, e)}
Newborn == {e \in Envs : status[e] = "newborn"}
Dying   == {e \in Envs : status[e] = "dying"}

(* No program sees that it was interrupted, moved to another processor or  *)
(* had a page fault, that its frame was read without the lock, or that     *)
(* other environments come and go in its slot; what a call returns goes to *)
(* the program that made it, and what a parent loads to a child that is on *)
(* no processor, in full.                                                  *)
Programs == INSTANCE Computations
    WITH regs <- AllRegs, runs <- Runs, placed <- Placed, newborn <- Newborn, dying <- Dying
ImplementsComputations == Programs!Spec

=============================================================================
