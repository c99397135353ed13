------------------------------ MODULE KernelProofs ------------------------------
(***************************************************************************)
(* Two inductive invariants of kern/, for machines of every size.          *)
(*                                                                         *)
(* IInv of module Kernel: every handler of the kernel ends the same way,   *)
(* in env_run() or sched_halt(); Handler says what a handler leaves for    *)
(* them, Left what they make of it.                                        *)
(*                                                                         *)
(* MemoryInv of module MemInit, before the first environment: what         *)
(* mem_init() has done of the free list and of the kernel's page directory *)
(* after each step, and that what it stores to is mapped.                  *)
(***************************************************************************)
EXTENDS Kernel, MemInit, FiniteSetTheorems, SequenceTheorems, TLAPS

(* Processor c is in the kernel and about to leave it: the environments of *)
(* the others are untouched, and old, the only other that may be running,  *)
(* is nobody else's.                                                       *)
Handler(c, old, st) ==
    /\ st \in [Slots -> Statuses]
    /\ old \in Slots \cup {NoEnv}
    /\ kernel_lock \in {c, NoCpu} /\ cpuAt[c] # "monitor"
    /\ \A d \in CPUS \ {c} : \A e \in Slots :
          Runs(d, e) => st[e] \in {"RUNNING", "DYING"} /\ e # old
    /\ \A e \in Slots : st[e] \in {"RUNNING", "DYING"} =>
          \/ e = old /\ st[e] = "RUNNING"
          \/ \E d \in CPUS \ {c} : Runs(d, e)

CpuTypeOK ==
    /\ curenv \in [CPUS -> Slots \cup {NoEnv}]
    /\ cpuAt \in [CPUS -> {"boot", "user", "halted", "monitor"}]
    /\ cpu_status \in [CPUS -> {"STARTED", "HALTED"}]
    /\ kernel_lock \in CPUS \cup {NoCpu}

CpuInv == CpuTypeOK /\ RunningExact /\ StatusExact /\ LockExact

(* Leaving the kernel neither ends nor begins a life. *)
LivesAsIn(st) ==
    \A e \in Slots :
        /\ env_status'[e] = "FREE" <=> st[e] = "FREE"
        /\ env_status'[e] = "DYING" <=> st[e] = "DYING"

Left(st) ==
    /\ env_status' \in [Slots -> Statuses]
    /\ CpuInv' /\ MonitorHasCause' /\ LivesAsIn(st)

(* Nobody is in the monitor while somebody is in the rest of the kernel.   *)
LEMMA NoMonitor ==
    ASSUME LockExact, NEW c \in CPUS, kernel_lock \in {c, NoCpu}, cpuAt[c] # "monitor"
    PROVE  \A d \in CPUS : cpuAt[d] # "monitor"
BY CpusAssumption DEF LockExact

-----------------------------------------------------------------------------
(* The scan of sched_yield() stays within envs[]. *)
LEMMA TurnInSlots ==
    ASSUME NEW old \in Slots \cup {NoEnv}, NEW i \in 1..NENV
    PROVE  Turn(old, i) \in Slots
BY NenvAssumption, NoEnvAssumption DEF Turn, Slots

(* env_run() of an environment that can run, or of the current one. *)
LEMMA EnvRunLeaves ==
    ASSUME CpuInv, NEW c \in CPUS, NEW old, NEW st, Handler(c, old, st),
           NEW e \in Slots,
           st[e] = "RUNNABLE" \/ (e = old /\ st[e] = "RUNNING"),
           EnvRun(c, old, st, e)
    PROVE  Left(st)
<1> USE DEF Handler, CpuInv, CpuTypeOK, EnvRun, StatusInTrap, Statuses
<1>1. env_status' \in [Slots -> Statuses]
  OBVIOUS
<1>2. LivesAsIn(st)
  BY DEF LivesAsIn
<1>3. \A d \in CPUS : cpuAt'[d] # "monitor"
  BY CpusAssumption DEF LockExact
<1>4. CpuTypeOK'
  BY CpusAssumption
<1>5. StatusExact'
  BY DEF StatusExact
<1>6. LockExact'
  BY <1>3, CpusAssumption DEF LockExact
<1>7. \A d \in CPUS \ {c} : \A s \in Slots :
         /\ Runs(d, s)' <=> Runs(d, s)
         /\ Runs(d, s) => s # e /\ env_status'[s] = st[s]
  BY DEF Runs
<1>8. RunningExact'
  <2>1. \A d \in CPUS : cpuAt'[d] = "user" =>
           curenv'[d] \in Slots /\ env_status'[curenv'[d]] \in {"RUNNING", "DYING"}
    BY <1>7 DEF RunningExact, Runs
  <2>2. \A d \in CPUS : cpuAt'[d] \in {"boot", "halted"} => curenv'[d] = NoEnv
    BY DEF RunningExact
  <2>3. \A s \in Slots : env_status'[s] \in {"RUNNING", "DYING"} =>
           \E d \in CPUS : Runs(d, s)'
    BY <1>7 DEF Runs
  <2>4. \A d, f \in CPUS : \A s \in Slots : Runs(d, s)' /\ Runs(f, s)' => d = f
    BY <1>7 DEF RunningExact, Runs
  <2>5. \A d \in CPUS : \A s \in Slots : ~Stands(d, s)'
    BY <1>3 DEF Stands
  <2>. QED  BY <2>1, <2>2, <2>3, <2>4, <2>5 DEF RunningExact, Runs, Stands
<1>9. MonitorHasCause'
  BY <1>3 DEF MonitorHasCause
<1>. QED  BY <1>1, <1>2, <1>4, <1>5, <1>6, <1>8, <1>9 DEF Left

(* sched_halt() when neither another environment nor old can run. *)
LEMMA SchedHaltLeaves ==
    ASSUME CpuInv, NEW c \in CPUS, NEW old, NEW st, Handler(c, old, st),
           \A e \in Slots : st[e] # "RUNNABLE",
           old = NoEnv \/ st[old] # "RUNNING",
           SchedHalt(c, old, st)
    PROVE  Left(st)
<1> USE DEF Handler, CpuInv, CpuTypeOK, SchedHalt, StatusInTrap, Statuses, Alive
<1>1. env_status' = st
  OBVIOUS
<1>2. \A d \in CPUS \ {c} : cpuAt'[d] # "monitor" /\ cpuAt'[d] = cpuAt[d]
  BY CpusAssumption DEF LockExact
<1>3. CpuTypeOK'
  BY CpusAssumption
<1>4. StatusExact'
  BY DEF StatusExact
<1>5. LockExact'
  BY <1>2, CpusAssumption DEF LockExact
<1>6. \A d \in CPUS, s \in Slots : Runs(d, s)' <=> d # c /\ Runs(d, s)
  BY DEF Runs
<1>7. \A s \in Slots : st[s] \in {"RUNNING", "DYING"} =>
         \E d \in CPUS \ {c} : Runs(d, s)
  BY NoEnvAssumption
<1>8. RunningExact'
  <2>1. \A d \in CPUS : cpuAt'[d] = "user" =>
           curenv'[d] \in Slots /\ env_status'[curenv'[d]] \in {"RUNNING", "DYING"}
    BY <1>1, <1>6 DEF RunningExact, Runs
  <2>2. \A d \in CPUS : cpuAt'[d] \in {"boot", "halted"} => curenv'[d] = NoEnv
    BY DEF RunningExact
  <2>3. \A s \in Slots : env_status'[s] \in {"RUNNING", "DYING"} =>
           \E d \in CPUS : Runs(d, s)'
    BY <1>1, <1>6, <1>7
  <2>4. \A d, f \in CPUS : \A s \in Slots : Runs(d, s)' /\ Runs(f, s)' => d = f
    BY <1>6 DEF RunningExact
  <2>5. \A d \in CPUS : \A s \in Slots : ~Stands(d, s)'
    BY <1>1, <1>2 DEF Stands
  <2>. QED  BY <2>1, <2>2, <2>3, <2>4, <2>5 DEF RunningExact, Runs, Stands
<1>9. MonitorHasCause'
  BY <1>1, <1>2 DEF MonitorHasCause
<1>. QED  BY <1>1, <1>3, <1>4, <1>5, <1>8, <1>9 DEF Left, LivesAsIn

LEMMA SchedYieldLeaves ==
    ASSUME CpuInv, NEW c \in CPUS, NEW old, NEW st, Handler(c, old, st),
           SchedYield(c, old, st)
    PROVE  Left(st)
<1>1. CASE \E i \in 1..NENV : st[Turn(old, i)] = "RUNNABLE"
                              /\ EnvRun(c, old, st, Turn(old, i))
  <2>1. PICK i \in 1..NENV : st[Turn(old, i)] = "RUNNABLE"
                             /\ EnvRun(c, old, st, Turn(old, i))
    BY <1>1
  <2>2. Turn(old, i) \in Slots
    BY TurnInSlots DEF Handler
  <2>. QED  BY <2>1, <2>2, EnvRunLeaves
<1>2. CASE old # NoEnv /\ st[old] = "RUNNING" /\ EnvRun(c, old, st, old)
  <2>1. old \in Slots
    BY <1>2 DEF Handler
  <2>. QED  BY <1>2, <2>1, EnvRunLeaves
<1>3. CASE /\ \A e \in Slots : st[e] # "RUNNABLE"
           /\ ~(old # NoEnv /\ st[old] = "RUNNING")
           /\ SchedHalt(c, old, st)
  BY <1>3, SchedHaltLeaves
<1>. QED  BY <1>1, <1>2, <1>3 DEF SchedYield

LEMMA ResumeLeaves ==
    ASSUME CpuInv, NEW c \in CPUS, cpuAt[c] = "user", NEW st,
           Handler(c, curenv[c], st), Resume(c, st)
    PROVE  Left(st)
<1>1. curenv[c] \in Slots
  BY DEF CpuInv, RunningExact
<1>2. CASE st[curenv[c]] = "RUNNING"
  <2>1. EnvRun(c, curenv[c], st, curenv[c])
    BY <1>2 DEF Resume
  <2>. QED  BY <1>1, <1>2, <2>1, EnvRunLeaves
<1>3. CASE st[curenv[c]] # "RUNNING"
  <2>1. SchedYield(c, curenv[c], st)
    BY <1>3 DEF Resume
  <2>. QED  BY <2>1, SchedYieldLeaves
<1>. QED  BY <1>2, <1>3

-----------------------------------------------------------------------------
(* The free list *)

FreeListOf(l, st) ==
    /\ \A i, j \in 1..Len(l) : l[i] = l[j] => i = j
    /\ \A e \in Slots : st[e] = "FREE" <=> \E i \in 1..Len(l) : l[i] = e

(* env_free() puts a slot that was not free in front. *)
LEMMA PushFree ==
    ASSUME NEW l \in Seq(Slots), NEW st \in [Slots -> Statuses], FreeListOf(l, st),
           NEW e \in Slots, st[e] # "FREE"
    PROVE  /\ <<e>> \o l \in Seq(Slots)
           /\ FreeListOf(<<e>> \o l, [st EXCEPT ![e] = "FREE"])
<1> DEFINE m == <<e>> \o l
<1>1. /\ m \in Seq(Slots)
      /\ Len(m) = Len(l) + 1
      /\ m[1] = e
      /\ \A i \in 2..Len(l) + 1 : m[i] = l[i - 1]
  OBVIOUS
<1>2. \A i \in 1..Len(l) : l[i] = m[i + 1] /\ i + 1 \in 1..Len(m)
  BY <1>1
<1>. HIDE DEF m
<1>3. \A i \in 1..Len(l) : l[i] # e
  BY DEF FreeListOf
<1>4. \A i, j \in 1..Len(m) : m[i] = m[j] => i = j
  <2>. TAKE i, j \in 1..Len(m)
  <2>. HAVE m[i] = m[j]
  <2>1. CASE i = 1 /\ j = 1
    BY <2>1
  <2>2. CASE i = 1 /\ j # 1
    BY <2>2, <1>1, <1>3, j - 1 \in 1..Len(l)
  <2>3. CASE i # 1 /\ j = 1
    BY <2>3, <1>1, <1>3, i - 1 \in 1..Len(l)
  <2>4. CASE i # 1 /\ j # 1
    BY <2>4, <1>1, i - 1 \in 1..Len(l), j - 1 \in 1..Len(l), i - 1 = j - 1 => i = j, SMTT(20)
       DEF FreeListOf
  <2>. QED  BY <2>1, <2>2, <2>3, <2>4
<1>5. \A s \in Slots : (\E i \in 1..Len(m) : m[i] = s)
                        <=> s = e \/ \E i \in 1..Len(l) : l[i] = s
  <2>. TAKE s \in Slots
  <2>1. ASSUME NEW i \in 1..Len(m), m[i] = s
        PROVE  s = e \/ \E k \in 1..Len(l) : l[k] = s
    BY <2>1, <1>1, i = 1 \/ i - 1 \in 1..Len(l)
  <2>2. ASSUME NEW i \in 1..Len(l), l[i] = s
        PROVE  \E k \in 1..Len(m) : m[k] = s
    BY <2>2, <1>2
  <2>3. \E k \in 1..Len(m) : m[k] = e
    BY <1>1
  <2>. QED  BY <2>1, <2>2, <2>3
<1>6. \A s \in Slots : [st EXCEPT ![e] = "FREE"][s] = "FREE"
                        <=> s = e \/ st[s] = "FREE"
  OBVIOUS
<1>7. FreeListOf(m, [st EXCEPT ![e] = "FREE"])
  BY <1>4, <1>5, <1>6 DEF FreeListOf
<1>. QED  BY <1>1, <1>7 DEF m

(* env_alloc() takes the first free slot, and only that one. *)
LEMMA PopFree ==
    ASSUME NEW l \in Seq(Slots), NEW st \in [Slots -> Statuses], FreeListOf(l, st),
           l # << >>
    PROVE  /\ Head(l) \in Slots /\ st[Head(l)] = "FREE"
           /\ Tail(l) \in Seq(Slots)
           /\ FreeListOf(Tail(l), [st EXCEPT ![Head(l)] = "NOT_RUNNABLE"])
<1> DEFINE h == Head(l)
           m == Tail(l)
           new == [st EXCEPT ![h] = "NOT_RUNNABLE"]
<1>1. /\ h = l[1] /\ 1 \in 1..Len(l) /\ h \in Slots
      /\ m \in Seq(Slots)
      /\ Len(m) = Len(l) - 1
      /\ \A i \in 1..Len(m) : m[i] = l[i + 1] /\ i + 1 \in 1..Len(l)
  OBVIOUS
<1>2. st[h] = "FREE"
  BY <1>1 DEF FreeListOf
<1>3. \A s \in Slots : new[s] = "FREE" <=> s # h /\ st[s] = "FREE"
  BY <1>1
<1>. HIDE DEF h, m, new
<1>4. \A i, j \in 1..Len(m) : m[i] = m[j] => i = j
  <2>. TAKE i, j \in 1..Len(m)
  <2>1. m[i] = m[j] => i + 1 = j + 1
    BY <1>1 DEF FreeListOf
  <2>. QED  BY <2>1
<1>5. \A i \in 1..Len(m) : m[i] # h
  <2>. TAKE i \in 1..Len(m)
  <2>1. m[i] = h => i + 1 = 1
    BY <1>1 DEF FreeListOf
  <2>. QED  BY <2>1
<1>6. \A s \in Slots : (\E i \in 1..Len(m) : m[i] = s)
                        <=> s # h /\ \E i \in 1..Len(l) : l[i] = s
  <2>. TAKE s \in Slots
  <2>1. ASSUME NEW i \in 1..Len(l), l[i] = s, s # h
        PROVE  \E k \in 1..Len(m) : m[k] = s
    <3>1. i # 1
      BY <1>1, <2>1
    <3>2. i - 1 \in 1..Len(m) /\ (i - 1) + 1 = i
      BY <1>1, <3>1
    <3>. QED  BY <1>1, <2>1, <3>2
  <2>. QED  BY <1>1, <1>5, <2>1
<1>7. FreeListOf(m, new)
  BY <1>3, <1>4, <1>6 DEF FreeListOf
<1>. QED  BY <1>1, <1>2, <1>7 DEF h, m, new

-----------------------------------------------------------------------------
(* From the entry of a handler to its exit *)

(* The parts of IInv about what only env.c and syscall.c change. *)
EnvInv ==
    /\ env_gen \in [Slots -> 0..GenLimit]
    /\ env_parent_id \in [Slots -> EnvIds]
    /\ env_ipc_recving \in [Slots -> BOOLEAN]
    /\ env_if \in [Slots -> BOOLEAN]

(* st is the status table a handler of processor c leaves, when it changed *)
(* neither who runs elsewhere nor the free list behind its back.           *)
OthersKept(c, st) ==
    /\ st \in [Slots -> Statuses]
    /\ \A e \in Slots \ {curenv[c]} :
          st[e] \in {"RUNNING", "DYING"} <=> env_status[e] \in {"RUNNING", "DYING"}

LEMMA UserHandler ==
    ASSUME IInv, NEW c \in CPUS, cpuAt[c] = "user", kernel_lock = NoCpu,
           NEW st, OthersKept(c, st)
    PROVE  /\ st[curenv[c]] # "DYING" => Handler(c, curenv[c], st)
           /\ st[curenv[c]] \notin {"RUNNING", "DYING"} => Handler(c, NoEnv, st)
<1>1. curenv[c] \in Slots
  BY DEF IInv, RunningExact
<1>2. \A d \in CPUS \ {c} : \A e \in Slots :
         Runs(d, e) => e # curenv[c] /\ env_status[e] \in {"RUNNING", "DYING"}
  BY <1>1 DEF IInv, RunningExact, Runs
<1>3. \A d \in CPUS \ {c} : \A e \in Slots :
         Runs(d, e) => e # curenv[c] /\ st[e] \in {"RUNNING", "DYING"}
  BY <1>2 DEF OthersKept
<1>4. \A e \in Slots \ {curenv[c]} : st[e] \in {"RUNNING", "DYING"} =>
         \E d \in CPUS \ {c} : Runs(d, e)
  <2>1. \A d \in CPUS : \A e \in Slots : ~Stands(d, e)
    BY NoMonitor DEF IInv, Stands
  <2>. QED  BY <2>1 DEF OthersKept, IInv, RunningExact, Runs
<1>. QED
  BY <1>1, <1>3, <1>4, NoEnvAssumption, st \in [Slots -> Statuses]
     DEF Handler, OthersKept, Statuses

LEMMA IdleHandler ==
    ASSUME IInv, NEW c \in CPUS, cpuAt[c] \in {"boot", "halted"},
           kernel_lock \in {c, NoCpu}
    PROVE  Handler(c, NoEnv, env_status)
<1>1. \A d \in CPUS : \A e \in Slots :
         Runs(d, e) => d # c /\ env_status[e] \in {"RUNNING", "DYING"}
  BY DEF IInv, RunningExact, Runs
<1>2. \A d \in CPUS : \A e \in Slots : ~Stands(d, e)
  BY NoMonitor DEF IInv, Stands
<1>. QED  BY <1>1, <1>2, NoEnvAssumption DEF Handler, IInv, TypeOK, RunningExact

LEMMA InvariantParts ==
    ASSUME IInv
    PROVE  /\ CpuInv /\ EnvInv
           /\ env_status \in [Slots -> Statuses] /\ env_free_list \in Seq(Slots)
           /\ FreeListOf(env_free_list, env_status)
BY DEF IInv, TypeOK, CpuInv, CpuTypeOK, EnvInv, FreeListOf, FreeListExact

(* What is left to show of a handler once Left is known. *)
LEMMA Concluded ==
    ASSUME NEW st, st \in [Slots -> Statuses], Left(st), EnvInv',
           env_free_list' \in Seq(Slots), FreeListOf(env_free_list', st),
           \A e \in Slots : st[e] # "FREE" => env_gen'[e] > 0,
           panicstr' = FALSE
    PROVE  IInv' /\ LivesAsIn(st)
<1>1. TypeOK'
  BY DEF Left, EnvInv, CpuInv, CpuTypeOK, TypeOK
<1>2. FreeListExact' /\ RealIds'
  BY DEF FreeListOf, FreeListExact, Left, LivesAsIn, RealIds
<1>3. OnlyDevicesPanic'
  BY DEF OnlyDevicesPanic
<1>. QED  BY <1>1, <1>2, <1>3 DEF IInv, Left, CpuInv

(* A trap from user mode takes the lock once. *)
LEMMA TrapFromUserOK ==
    ASSUME IInv, NEW c \in CPUS, TrapFromUser(c)
    PROVE  /\ cpuAt[c] = "user" /\ kernel_lock = NoCpu /\ panicstr' = FALSE
           /\ curenv[c] \in Slots
           /\ env_status[curenv[c]] \in {"RUNNING", "DYING"}
BY DEF IInv, TrapFromUser, StatusExact, RunningExact

LEMMA TargetInSlots ==
    ASSUME NEW c \in CPUS, curenv[c] \in Slots, NEW id \in EnvIds
    PROVE  Target(c, id) \in Slots
BY DEF Target, EnvIds

-----------------------------------------------------------------------------
(* One lemma per handler *)

(* Only environments of S are destroyed. *)
Ends(S) ==
    \A e \in Slots :
        env_status[e] \notin {"FREE", "DYING"} /\ env_status'[e] \in {"FREE", "DYING"}
        => e \in S

(* No slot comes into use. *)
NoBirth == \A e \in Slots : env_status[e] = "FREE" => env_status'[e] = "FREE"

LEMMA LivesEnd ==
    ASSUME IInv, NEW st, LivesAsIn(st), NEW S,
           \A e \in Slots \ S : st[e] = env_status[e] \/ st[e] \notin {"FREE", "DYING"}
    PROVE  Ends(S)
BY DEF LivesAsIn, Ends

LEMMA LivesBegin ==
    ASSUME IInv, NEW st, LivesAsIn(st),
           \A e \in Slots : env_status[e] = "FREE" => st[e] = "FREE"
    PROVE  NoBirth
BY DEF LivesAsIn, NoBirth

(* A handler that leaves envs[] to sched_yield() as it found it.           *)
LEMMA YieldKeepsInv ==
    ASSUME IInv, NEW c \in CPUS, NEW old, Handler(c, old, env_status),
           SchedYield(c, old, env_status), UNCHANGED envVars, panicstr' = FALSE
    PROVE  IInv' /\ LivesAsIn(env_status)
<1>1. Left(env_status)
  BY InvariantParts, SchedYieldLeaves
<1>2. EnvInv'
  BY InvariantParts DEF EnvInv, envVars
<1>. QED
  BY <1>1, <1>2, InvariantParts, Concluded DEF envVars, IInv, RealIds

(* A handler that changes the status of the environments that do not run,  *)
(* or of the caller, but frees none, and then goes back or yields.         *)
LEMMA StatusKeepsInv ==
    ASSUME IInv, NEW c \in CPUS, TrapFromUser(c),
           NEW st, OthersKept(c, st), st[curenv[c]] # "DYING",
           \A e \in Slots : st[e] = "FREE" <=> env_status[e] = "FREE",
           Resume(c, st) \/ SchedYield(c, curenv[c], st),
           UNCHANGED <<env_gen, env_free_list>>, EnvInv'
    PROVE  IInv' /\ LivesAsIn(st)
<1>1. Handler(c, curenv[c], st) /\ cpuAt[c] = "user" /\ panicstr' = FALSE
  BY TrapFromUserOK, UserHandler
<1>2. Left(st)
  BY <1>1, InvariantParts, SchedYieldLeaves, ResumeLeaves
<1>3. st \in [Slots -> Statuses]
  BY DEF OthersKept
<1>4. FreeListOf(env_free_list', st) /\ env_free_list' \in Seq(Slots)
  BY InvariantParts DEF FreeListOf
<1>5. \A e \in Slots : st[e] # "FREE" => env_gen'[e] > 0
  BY DEF IInv, RealIds
<1>. QED  BY <1>1, <1>2, <1>3, <1>4, <1>5, Concluded

(* A handler that frees an environment that is the caller, or is not       *)
(* running at all.                                                         *)
LEMMA FreeKeepsInv ==
    ASSUME IInv, NEW c \in CPUS, TrapFromUser(c),
           NEW e \in Slots, env_status[e] # "FREE",
           e = curenv[c] \/ env_status[e] \notin {"RUNNING", "DYING"},
           NEW st, st = [env_status EXCEPT ![e] = "FREE"],
           EnvFree(e),
           \/ e = curenv[c] /\ SchedYield(c, NoEnv, st)
           \/ e # curenv[c] /\ env_status[curenv[c]] = "RUNNING" /\ Resume(c, st),
           UNCHANGED <<env_gen, env_parent_id, env_ipc_recving, env_if>>
    PROVE  IInv' /\ LivesAsIn(st)
<1>1. /\ cpuAt[c] = "user" /\ kernel_lock = NoCpu /\ panicstr' = FALSE
      /\ curenv[c] \in Slots
  BY TrapFromUserOK
<1>2. OthersKept(c, st) /\ st \in [Slots -> Statuses]
  BY InvariantParts DEF OthersKept, Statuses
<1>3. Left(st)
  <2>1. CASE e = curenv[c] /\ SchedYield(c, NoEnv, st)
    <3>1. st[curenv[c]] \notin {"RUNNING", "DYING"}
      BY <2>1, InvariantParts
    <3>. QED  BY <1>1, <1>2, <2>1, <3>1, UserHandler, SchedYieldLeaves, InvariantParts
  <2>2. CASE e # curenv[c] /\ env_status[curenv[c]] = "RUNNING" /\ Resume(c, st)
    <3>1. st[curenv[c]] # "DYING"
      BY <1>1, <2>2, InvariantParts
    <3>. QED  BY <1>1, <1>2, <2>2, <3>1, UserHandler, ResumeLeaves, InvariantParts
  <2>. QED  BY <2>1, <2>2
<1>4. FreeListOf(env_free_list', st) /\ env_free_list' \in Seq(Slots)
  BY PushFree, InvariantParts DEF EnvFree
<1>5. EnvInv'
  BY InvariantParts DEF EnvInv
<1>6. \A s \in Slots : st[s] # "FREE" => env_gen'[s] > 0
  BY InvariantParts DEF IInv, RealIds
<1>. QED  BY <1>1, <1>2, <1>3, <1>4, <1>5, <1>6, Concluded

LEMMA EnvDestroyKeepsInv ==
    ASSUME IInv, NEW c \in CPUS, Enter(c),
           NEW e \in Slots, env_status[e] \notin {"FREE", "DYING"},
           EnvDestroy(c, e)
    PROVE  IInv' /\ Ends({e}) /\ NoBirth
<1>1. /\ TrapFromUser(c) /\ curenv[c] \in Slots
      /\ env_status[curenv[c]] = "RUNNING"
  BY TrapFromUserOK DEF Enter
<1>2. CASE /\ env_status[e] = "RUNNING" /\ e # curenv[c]
           /\ Resume(c, [env_status EXCEPT ![e] = "DYING"])
           /\ UNCHANGED env_free_list
  <2> DEFINE st == [env_status EXCEPT ![e] = "DYING"]
  <2>1. /\ OthersKept(c, st) /\ st[curenv[c]] # "DYING"
        /\ \A s \in Slots : st[s] = "FREE" <=> env_status[s] = "FREE"
    BY <1>1, <1>2, InvariantParts DEF OthersKept, Statuses
  <2>2. EnvInv' /\ UNCHANGED <<env_gen, env_free_list>>
    BY <1>2, InvariantParts DEF EnvDestroy, EnvInv
  <2>3. /\ \A s \in Slots \ {e} : st[s] = env_status[s]
        /\ \A s \in Slots : env_status[s] = "FREE" => st[s] = "FREE"
    BY InvariantParts
  <2>4. Resume(c, st)
    BY <1>2
  <2>. HIDE DEF st
  <2>5. IInv' /\ LivesAsIn(st)
    BY <1>1, <2>1, <2>2, <2>4, StatusKeepsInv
  <2>. QED  BY <2>3, <2>5, LivesEnd, LivesBegin
<1>3. CASE /\ env_status[e] # "RUNNING" /\ e # curenv[c]
           /\ EnvFree(e)
           /\ Resume(c, [env_status EXCEPT ![e] = "FREE"])
  <2> DEFINE st == [env_status EXCEPT ![e] = "FREE"]
  <2>1. IInv' /\ LivesAsIn(st)
    BY <1>1, <1>3, FreeKeepsInv DEF EnvDestroy
  <2>2. /\ \A s \in Slots \ {e} : st[s] = env_status[s]
        /\ \A s \in Slots : env_status[s] = "FREE" => st[s] = "FREE"
    BY InvariantParts
  <2>. HIDE DEF st
  <2>. QED  BY <2>1, <2>2, LivesEnd, LivesBegin
<1>4. CASE /\ e = curenv[c]
           /\ EnvFree(e)
           /\ SchedYield(c, NoEnv, [env_status EXCEPT ![e] = "FREE"])
  <2> DEFINE st == [env_status EXCEPT ![e] = "FREE"]
  <2>1. IInv' /\ LivesAsIn(st)
    BY <1>1, <1>4, FreeKeepsInv DEF EnvDestroy
  <2>2. /\ \A s \in Slots \ {e} : st[s] = env_status[s]
        /\ \A s \in Slots : env_status[s] = "FREE" => st[s] = "FREE"
    BY InvariantParts
  <2>. HIDE DEF st
  <2>. QED  BY <2>1, <2>2, LivesEnd, LivesBegin
<1>. QED  BY <1>2, <1>3, <1>4 DEF EnvDestroy

(* trap() collecting a zombie. *)
LEMMA ReapKeepsInv ==
    ASSUME IInv, NEW c \in CPUS, Reap(c)
    PROVE  IInv' /\ Ends({}) /\ NoBirth
<1>1. TrapFromUser(c) /\ curenv[c] \in Slots /\ env_status[curenv[c]] = "DYING"
  BY TrapFromUserOK DEF Reap
<1> DEFINE st == [env_status EXCEPT ![curenv[c]] = "FREE"]
<1>2. IInv' /\ LivesAsIn(st)
  BY <1>1, FreeKeepsInv DEF Reap
<1>3. /\ \A s \in Slots \ {curenv[c]} : st[s] = env_status[s]
      /\ \A s \in Slots : env_status[s] = "FREE" => st[s] = "FREE"
  BY InvariantParts
<1>. HIDE DEF st
<1>4. Ends({curenv[c]}) /\ NoBirth
  BY <1>2, <1>3, LivesEnd, LivesBegin
<1>. QED  BY <1>1, <1>2, <1>4 DEF Ends

LEMMA SysExoforkKeepsInv ==
    ASSUME IInv, NEW c \in CPUS, SysExofork(c)
    PROVE  IInv' /\ Ends({})
<1> DEFINE e == Head(env_free_list)
           st == [env_status EXCEPT ![e] = "NOT_RUNNABLE"]
<1>1. /\ TrapFromUser(c) /\ curenv[c] \in Slots /\ cpuAt[c] = "user"
      /\ kernel_lock = NoCpu /\ panicstr' = FALSE
      /\ env_status[curenv[c]] = "RUNNING"
  BY TrapFromUserOK DEF SysExofork, Enter
<1>2. /\ e \in Slots /\ env_status[e] = "FREE"
      /\ Tail(env_free_list) \in Seq(Slots)
      /\ FreeListOf(Tail(env_free_list), st)
  BY PopFree, InvariantParts DEF SysExofork, EnvAlloc
<1>3. /\ env_gen' = [env_gen EXCEPT ![e] = NextGen(env_gen[e])]
      /\ env_parent_id' = [env_parent_id EXCEPT ![e] = EnvId(curenv[c])]
      /\ env_ipc_recving' = [env_ipc_recving EXCEPT ![e] = FALSE]
      /\ env_if' = [env_if EXCEPT ![e] = env_if[curenv[c]]]
      /\ env_free_list' = Tail(env_free_list)
      /\ Resume(c, st)
  BY DEF SysExofork, EnvAlloc
<1>. HIDE DEF e, st
<1>4. st = [env_status EXCEPT ![e] = "NOT_RUNNABLE"]
  BY DEF st
<1>5. OthersKept(c, st) /\ st \in [Slots -> Statuses] /\ st[curenv[c]] = "RUNNING"
  BY <1>1, <1>2, <1>4, InvariantParts DEF OthersKept, Statuses
<1>6. Left(st)
  BY <1>1, <1>3, <1>5, UserHandler, ResumeLeaves, InvariantParts
<1>7. NextGen(env_gen[e]) \in 1..GenLimit
  BY <1>2, GenAssumption, InvariantParts DEF NextGen, EnvInv
<1>8. EnvId(curenv[c]) \in EnvIds
  BY <1>1, InvariantParts DEF EnvId, EnvIds, EnvInv, IInv, RealIds
<1>9. EnvInv'
  BY <1>1, <1>2, <1>3, <1>7, <1>8, InvariantParts DEF EnvInv
<1>10. \A s \in Slots : st[s] # "FREE" => env_gen'[s] > 0
  BY <1>2, <1>3, <1>4, <1>7, InvariantParts DEF EnvInv, IInv, RealIds
<1>11. env_free_list' \in Seq(Slots) /\ FreeListOf(env_free_list', st)
  BY <1>2, <1>3 DEF e, st
<1>12. IInv' /\ LivesAsIn(st)
  BY <1>1, <1>5, <1>6, <1>9, <1>10, <1>11, Concluded
<1>13. \A s \in Slots : st[s] = env_status[s] \/ st[s] \notin {"FREE", "DYING"}
  BY <1>4, InvariantParts
<1>. QED  BY <1>12, <1>13, LivesEnd

(* The handlers that neither make nor destroy an environment. *)
Harmless == Ends({}) /\ NoBirth /\ UNCHANGED <<env_gen, env_parent_id>>

LEMMA HarmlessLives ==
    ASSUME IInv, NEW st, LivesAsIn(st),
           \A e \in Slots : st[e] = "FREE" <=> env_status[e] = "FREE",
           \A e \in Slots : st[e] = "DYING" => env_status[e] = "DYING"
    PROVE  Ends({}) /\ NoBirth
BY DEF LivesAsIn, Ends, NoBirth

LEMMA YieldsAreHarmless ==
    ASSUME IInv, NEW c \in CPUS,
           FirstSchedule(c) \/ WakeUp(c) \/ TimerInterrupt(c) \/ SysYield(c)
    PROVE  IInv' /\ Harmless
<1>1. ASSUME NEW old, Handler(c, old, env_status),
             SchedYield(c, old, env_status), UNCHANGED envVars, panicstr' = FALSE
      PROVE  IInv' /\ Harmless
  <2>1. IInv' /\ LivesAsIn(env_status)
    BY <1>1, YieldKeepsInv
  <2>. QED  BY <1>1, <2>1, HarmlessLives DEF Harmless, envVars
<1>2. CASE FirstSchedule(c)
  BY <1>1, <1>2, IdleHandler DEF FirstSchedule, IInv, TypeOK
<1>3. CASE WakeUp(c)
  <2>1. panicstr' = FALSE
    BY <1>3 DEF WakeUp, IInv, StatusExact
  <2>. QED  BY <1>1, <1>3, <2>1, IdleHandler DEF WakeUp
<1>4. CASE TimerInterrupt(c) \/ SysYield(c)
  <2>1. /\ Enter(c) /\ UNCHANGED envVars
        /\ SchedYield(c, curenv[c], env_status)
    BY <1>4 DEF TimerInterrupt, SysYield
  <2>2. OthersKept(c, env_status)
    BY InvariantParts DEF OthersKept
  <2>3. panicstr' = FALSE /\ Handler(c, curenv[c], env_status)
    BY <2>1, <2>2, TrapFromUserOK, UserHandler DEF Enter
  <2>. QED  BY <1>1, <2>1, <2>3
<1>. QED  BY <1>2, <1>3, <1>4

LEMMA SysIpcRecvIsHarmless ==
    ASSUME IInv, NEW c \in CPUS, SysIpcRecv(c)
    PROVE  IInv' /\ Harmless
<1> DEFINE st == [env_status EXCEPT ![curenv[c]] = "NOT_RUNNABLE"]
<1>1. TrapFromUser(c) /\ curenv[c] \in Slots /\ env_status[curenv[c]] = "RUNNING"
  BY TrapFromUserOK DEF SysIpcRecv, Enter
<1>2. /\ OthersKept(c, st) /\ st[curenv[c]] # "DYING"
      /\ \A e \in Slots : st[e] = "FREE" <=> env_status[e] = "FREE"
      /\ \A e \in Slots : st[e] = "DYING" => env_status[e] = "DYING"
  BY <1>1, InvariantParts DEF OthersKept, Statuses
<1>3. EnvInv' /\ UNCHANGED <<env_gen, env_parent_id, env_free_list>>
  BY InvariantParts DEF SysIpcRecv, EnvInv
<1>4. SchedYield(c, curenv[c], st)
  BY DEF SysIpcRecv
<1>. HIDE DEF st
<1>5. IInv' /\ LivesAsIn(st)
  BY <1>1, <1>2, <1>3, <1>4, StatusKeepsInv
<1>. QED  BY <1>2, <1>3, <1>5, HarmlessLives DEF Harmless

(* The system calls on an environment that does not run. *)
LEMMA CallsOnSleepersAreHarmless ==
    ASSUME IInv, NEW c \in CPUS, NEW id \in EnvIds,
           StartChild(c, id) \/ SetChildTrapframe(c, id) \/ Send(c, id)
    PROVE  IInv' /\ Harmless
<1> DEFINE e == Target(c, id)
<1>1. Enter(c)
  BY DEF StartChild, SysEnvSetStatus, SetChildTrapframe, SysEnvSetTrapframe,
         Send, SysIpcTrySend
<1>2. TrapFromUser(c) /\ curenv[c] \in Slots /\ env_status[curenv[c]] = "RUNNING"
  BY <1>1, TrapFromUserOK DEF Enter
<1>3. e \in Slots
  BY <1>2, TargetInSlots
<1>4. ASSUME NEW st, st = env_status \/ st = [env_status EXCEPT ![e] = "RUNNABLE"],
             env_status[e] = "NOT_RUNNABLE",
             Resume(c, st), EnvInv',
             UNCHANGED <<env_gen, env_parent_id, env_free_list>>
      PROVE  IInv' /\ Harmless
  <2>1. /\ OthersKept(c, st) /\ st[curenv[c]] # "DYING"
        /\ \A s \in Slots : st[s] = "FREE" <=> env_status[s] = "FREE"
        /\ \A s \in Slots : st[s] = "DYING" => env_status[s] = "DYING"
    BY <1>2, <1>3, <1>4, InvariantParts DEF OthersKept, Statuses
  <2>2. IInv' /\ LivesAsIn(st)
    BY <1>2, <1>4, <2>1, StatusKeepsInv
  <2>. QED  BY <1>4, <2>1, <2>2, HarmlessLives DEF Harmless
<1>5. CASE StartChild(c, id)
  <2>1. EnvInv' /\ UNCHANGED <<env_gen, env_parent_id, env_free_list>>
    BY <1>5, InvariantParts DEF StartChild, SysEnvSetStatus, envVars, EnvInv
  <2>. QED  BY <1>4, <1>5, <2>1 DEF StartChild, SysEnvSetStatus
<1>6. CASE SetChildTrapframe(c, id)
  <2>1. EnvInv' /\ UNCHANGED <<env_gen, env_parent_id, env_free_list>>
    BY <1>3, <1>6, InvariantParts DEF SetChildTrapframe, SysEnvSetTrapframe, EnvInv
  <2>. QED  BY <1>4, <1>6, <2>1 DEF SetChildTrapframe, SysEnvSetTrapframe
<1>7. CASE Send(c, id)
  <2>1. EnvInv' /\ UNCHANGED <<env_gen, env_parent_id, env_free_list>>
    BY <1>7, InvariantParts DEF Send, SysIpcTrySend, EnvInv
  <2>. QED  BY <1>4, <1>7, <2>1 DEF Send, SysIpcTrySend
<1>. QED  BY <1>5, <1>6, <1>7

(* Leaving for good.  The target is the caller or a child of it. *)
LEMMA LeaveOK ==
    ASSUME IInv, NEW c \in CPUS, Leave(c)
    PROVE  IInv' /\ KilledByFamily /\ NoBirth /\ UNCHANGED <<env_gen, env_parent_id>>
<1>1. CASE Reap(c)
  BY <1>1, ReapKeepsInv DEF Reap, Ends, KilledByFamily
<1>2. CASE UserFault(c)
  <2>1. /\ Enter(c) /\ curenv[c] \in Slots /\ cpuAt[c] = "user"
        /\ env_status[curenv[c]] \notin {"FREE", "DYING"}
        /\ EnvDestroy(c, curenv[c])
    BY <1>2, TrapFromUserOK DEF UserFault, Enter
  <2>2. IInv' /\ Ends({curenv[c]}) /\ NoBirth
    BY <2>1, EnvDestroyKeepsInv
  <2>. QED  BY <2>1, <2>2 DEF EnvDestroy, Ends, KilledByFamily, Runs
<1>3. ASSUME NEW id \in EnvIds, Kill(c, id)
      PROVE  IInv' /\ KilledByFamily /\ NoBirth /\ UNCHANGED <<env_gen, env_parent_id>>
  <2> DEFINE e == Target(c, id)
  <2>1. /\ Enter(c) /\ Permitted(c, id) /\ EnvDestroy(c, e)
        /\ env_status[e] # "DYING"
    BY <1>3 DEF Kill, SysEnvDestroy
  <2>2. /\ curenv[c] \in Slots /\ cpuAt[c] = "user"
        /\ env_status[curenv[c]] = "RUNNING"
    BY <2>1, TrapFromUserOK DEF Enter
  <2>3. e \in Slots
    BY <2>2, TargetInSlots
  <2>4. env_status[e] # "FREE"
    BY <2>1, <2>2 DEF Permitted, Exists, Target
  <2>5. e = curenv[c] \/ env_parent_id[e] = EnvId(curenv[c])
    BY <2>1 DEF Permitted, IsParent
  <2>6. UNCHANGED <<env_gen, env_parent_id>>
    BY <2>1 DEF EnvDestroy
  <2>. HIDE DEF e
  <2>7. IInv' /\ Ends({e}) /\ NoBirth
    BY <2>1, <2>3, <2>4, EnvDestroyKeepsInv
  <2>8. KilledByFamily
    BY <2>2, <2>5, <2>7 DEF Ends, KilledByFamily, Runs
  <2>. QED  BY <2>6, <2>7, <2>8
<1>. QED  BY <1>1, <1>2, <1>3 DEF Leave

LEMMA HarmlessIsFamily ==
    ASSUME Ends({})
    PROVE  KilledByFamily
BY DEF Ends, KilledByFamily

LEMMA StutterOK ==
    ASSUME IInv, UNCHANGED vars
    PROVE  IInv' /\ KilledByFamily /\ NoBirth /\ UNCHANGED <<env_gen, env_parent_id>>
<1>1. IInv'
  BY DEF vars, envVars, cpuVars, IInv, TypeOK, RunningExact, Runs, Stands, FreeListExact,
     RealIds, StatusExact, LockExact, MonitorHasCause, OnlyDevicesPanic
<1>. QED  BY <1>1 DEF vars, envVars, KilledByFamily, NoBirth

(* Entering the monitor leaves all environments as they are.               *)
LEMMA MonitorKeepsRest ==
    ASSUME IInv, NEW c \in CPUS, kernel_lock = NoCpu, cpuAt[c] # "monitor",
           StayInMonitor(c),
           \/ cpuAt[c] = "user" /\ env_status[curenv[c]] = "RUNNING" /\ panicstr' = FALSE
           \/ cpuAt[c] = "halted" /\ c = BootCpu /\ panicstr' = TRUE
    PROVE  IInv' /\ KilledByFamily /\ NoBirth /\ UNCHANGED <<env_gen, env_parent_id>>
<1> USE DEF StayInMonitor, StatusInTrap
<1>1. \A d \in CPUS : cpuAt[d] # "monitor"
  BY NoMonitor DEF IInv
<1>2. /\ UNCHANGED <<env_status, env_gen, env_parent_id, env_ipc_recving, env_if,
                     env_free_list, curenv>>
  BY DEF envVars
<1>3. cpuAt \in [CPUS -> {"boot", "user", "halted", "monitor"}]
  BY DEF IInv, TypeOK
<1>4. /\ cpuAt'[c] = "monitor"
      /\ \A d \in CPUS \ {c} : cpuAt'[d] = cpuAt[d]
  BY <1>3
<1>5. TypeOK'
  BY <1>2 DEF IInv, TypeOK
<1>6. RunningExact'
  <2>1. \A d \in CPUS \ {c}, e \in Slots : Runs(d, e)' <=> Runs(d, e)
    BY <1>2, <1>4 DEF Runs
  <2>2. \A e \in Slots : ~Runs(c, e)' /\ (Runs(c, e) /\ panicstr' = FALSE => Stands(c, e)')
    BY <1>2, <1>4 DEF Runs, Stands
  <2>3. \A d \in CPUS \ {c}, e \in Slots : ~Stands(d, e)' /\ ~Stands(d, e)
    BY <1>1, <1>4 DEF Stands
  <2>4. \A e \in Slots : ~Stands(c, e)
    BY <1>1 DEF Stands
  <2>5. \A e \in Slots : Stands(c, e)' => Runs(c, e)
    BY <1>2, NoEnvAssumption DEF Stands, Runs, IInv, RunningExact
  <2>6. \A d \in CPUS : cpuAt'[d] = "user" =>
           curenv'[d] \in Slots /\ env_status'[curenv'[d]] \in {"RUNNING", "DYING"}
    BY <1>2, <1>4 DEF IInv, RunningExact
  <2>7. \A d \in CPUS : cpuAt'[d] \in {"boot", "halted"} => curenv'[d] = NoEnv
    BY <1>2, <1>4 DEF IInv, RunningExact
  <2>8. \A e \in Slots : env_status'[e] \in {"RUNNING", "DYING"} =>
           \E d \in CPUS : (Runs(d, e) \/ Stands(d, e))'
    <3>. SUFFICES ASSUME NEW e \in Slots, env_status'[e] \in {"RUNNING", "DYING"}
                  PROVE  \E d \in CPUS : Runs(d, e)' \/ Stands(d, e)'
      OBVIOUS
    <3>1. PICK d \in CPUS : Runs(d, e)
      BY <1>2, <2>3, <2>4 DEF IInv, RunningExact
    <3>2. d = c => panicstr' = FALSE
      BY <3>1 DEF Runs
    <3>. QED  BY <2>1, <2>2, <3>1, <3>2
  <2>9. \A d, f \in CPUS : \A e \in Slots :
           Runs(d, e)' /\ (Runs(f, e)' \/ Stands(f, e)') => d = f
    BY <2>1, <2>2, <2>3, <2>5 DEF IInv, RunningExact
  <2>. QED  BY <2>6, <2>7, <2>8, <2>9 DEF RunningExact
<1>7. FreeListExact' /\ RealIds'
  BY <1>2 DEF IInv, FreeListExact, RealIds
<1>8. StatusExact' /\ LockExact'
  BY <1>1, <1>4, CpusAssumption DEF IInv, TypeOK, StatusExact, LockExact
<1>9. MonitorHasCause' /\ OnlyDevicesPanic'
  BY <1>1, <1>2, <1>4 DEF MonitorHasCause, OnlyDevicesPanic, Stands, IInv, RunningExact
<1>. QED
  BY <1>2, <1>5, <1>6, <1>7, <1>8, <1>9 DEF IInv, KilledByFamily, NoBirth

LEMMA BreakpointOK ==
    ASSUME IInv, NEW c \in CPUS, Breakpoint(c)
    PROVE  IInv' /\ KilledByFamily /\ NoBirth /\ UNCHANGED <<env_gen, env_parent_id>>
BY TrapFromUserOK, MonitorKeepsRest DEF Breakpoint, Enter

LEMMA DeviceInterruptOK ==
    ASSUME IInv, NEW c \in CPUS, DeviceInterrupt(c)
    PROVE  IInv' /\ KilledByFamily /\ NoBirth /\ UNCHANGED <<env_gen, env_parent_id>>
BY LeaveOK, MonitorKeepsRest DEF DeviceInterrupt, Leave

(* Every step keeps the invariant, kills within the family, and leaves the *)
(* ids alone unless it makes an environment.                               *)
LEMMA StepOK ==
    ASSUME IInv, NEW c \in CPUS, Step(c)
    PROVE  /\ IInv' /\ KilledByFamily
           /\ SysExofork(c) \/ (NoBirth /\ UNCHANGED <<env_gen, env_parent_id>>)
<1>1. CASE FirstSchedule(c) \/ WakeUp(c) \/ TimerInterrupt(c) \/ SysYield(c)
  BY <1>1, YieldsAreHarmless, HarmlessIsFamily DEF Harmless
<1>2. CASE SysIpcRecv(c)
  BY <1>2, SysIpcRecvIsHarmless, HarmlessIsFamily DEF Harmless
<1>3. CASE \E id \in EnvIds :
              StartChild(c, id) \/ SetChildTrapframe(c, id) \/ Send(c, id)
  BY <1>3, CallsOnSleepersAreHarmless, HarmlessIsFamily DEF Harmless
<1>4. CASE SysExofork(c)
  BY <1>4, SysExoforkKeepsInv, HarmlessIsFamily
<1>5. CASE InMonitor(c)
  BY <1>5, StutterOK DEF InMonitor
<1>6. CASE Leave(c)
  BY <1>6, LeaveOK
<1>7. CASE Breakpoint(c) \/ DeviceInterrupt(c)
  BY <1>7, BreakpointOK, DeviceInterruptOK
<1>. QED  BY <1>1, <1>2, <1>3, <1>4, <1>5, <1>6, <1>7 DEF Step, Compute

-----------------------------------------------------------------------------
(* The theorems *)

LEMMA InitOK == Init => IInv
<1> SUFFICES ASSUME Init PROVE IInv
  OBVIOUS
<1> USE DEF Init
<1>1. \A i \in 1..NENV - NBoot : NBoot + i - 1 \in Slots /\ NBoot + i - 1 >= NBoot
  BY NenvAssumption DEF Slots
<1>2. NENV - NBoot \in Nat
  BY NenvAssumption
<1>3. env_free_list \in Seq(Slots) /\ Len(env_free_list) = NENV - NBoot
  BY <1>1, <1>2
<1>4. FreeListExact
  <2>1. \A i, j \in 1..Len(env_free_list) :
           env_free_list[i] = env_free_list[j] => i = j
    BY <1>3, NenvAssumption
  <2>2. ASSUME NEW e \in Slots, env_status[e] = "FREE"
        PROVE  \E i \in 1..Len(env_free_list) : env_free_list[i] = e
    <3>1. e >= NBoot /\ e - NBoot + 1 \in 1..NENV - NBoot
      BY <2>2, NenvAssumption DEF Slots
    <3>2. env_free_list[e - NBoot + 1] = e
      BY <3>1, NenvAssumption DEF Slots
    <3>. QED  BY <1>3, <3>1, <3>2
  <2>3. ASSUME NEW e \in Slots, NEW i \in 1..Len(env_free_list), env_free_list[i] = e
        PROVE  env_status[e] = "FREE"
    BY <1>1, <1>3, <2>3, NenvAssumption DEF Slots
  <2>. QED  BY <2>1, <2>2, <2>3 DEF FreeListExact
<1>5. TypeOK
  <2>1. env_gen \in [Slots -> 0..GenLimit]
    BY GenAssumption
  <2>2. env_status \in [Slots -> Statuses] /\ env_parent_id \in [Slots -> EnvIds]
    BY DEF Statuses, EnvIds
  <2>3. env_ipc_recving \in [Slots -> BOOLEAN] /\ env_if \in [Slots -> BOOLEAN]
    BY NenvAssumption DEF Slots
  <2>4. CpuTypeOK
    BY CpusAssumption DEF CpuTypeOK
  <2>. QED  BY <1>3, <2>1, <2>2, <2>3, <2>4 DEF TypeOK, CpuTypeOK
<1>6. RunningExact
  BY DEF RunningExact, Runs
<1>7. /\ RealIds /\ StatusExact /\ LockExact /\ MonitorHasCause /\ OnlyDevicesPanic
  BY CpusAssumption DEF RealIds, StatusExact, LockExact, MonitorHasCause, OnlyDevicesPanic
<1>. QED  BY <1>4, <1>5, <1>6, <1>7 DEF IInv

LEMMA NextOK ==
    ASSUME IInv, [Next]_vars
    PROVE  /\ IInv' /\ KilledByFamily
           /\ \/ \E c \in CPUS : SysExofork(c)
              \/ NoBirth /\ UNCHANGED <<env_gen, env_parent_id>>
<1>1. CASE UNCHANGED vars
  BY <1>1, StutterOK
<1>2. CASE Next
  BY <1>2, StepOK DEF Next
<1>. QED  BY <1>1, <1>2

(* The invariant of the kernel, for every size of envs[] and every number  *)
(* of processors.                                                          *)
THEOREM Invariance == Spec => []IInv
<1>1. IInv /\ [Next]_vars => IInv'
  BY NextOK
<1>. QED  BY InitOK, <1>1, PTL DEF Spec

(* ENV_RUNNING and ENV_DYING tell exactly who executes.                    *)
THEOREM RunningIsExact == Spec => []RunningExact
<1>1. IInv => RunningExact
  BY DEF IInv
<1>. QED  BY Invariance, <1>1, PTL

(* No environment runs on two processors.                                  *)
THEOREM OneProcessorEach == Spec => []OneCpuPerEnv
<1>1. IInv => OneCpuPerEnv
  BY DEF IInv, RunningExact, OneCpuPerEnv
<1>. QED  BY Invariance, <1>1, PTL

(* No processor executes an environment that was freed.                    *)
THEOREM FreedNeverRuns == Spec => []NeverRunsFreed
<1>1. IInv => NeverRunsFreed
  BY DEF IInv, RunningExact, Runs, NeverRunsFreed
<1>. QED  BY Invariance, <1>1, PTL

(* The free list of env_alloc() and env_free() is exact.                   *)
THEOREM FreeListIsExact == Spec => []FreeListExact
<1>1. IInv => FreeListExact
  BY DEF IInv
<1>. QED  BY Invariance, <1>1, PTL

(* The lock is never taken twice nor worked without: a halted processor    *)
(* that a device interrupts is all that panics.                            *)
THEOREM PanicsOnlyForDevices == Spec => []OnlyDevicesPanic
<1>1. IInv => OnlyDevicesPanic
  BY DEF IInv
<1>. QED  BY Invariance, <1>1, PTL

(* The monitor means that no environment is left to run, that the current  *)
(* one is at a breakpoint, or a panic.                                     *)
THEOREM MonitorIsCaused == Spec => []MonitorHasCause
<1>1. IInv => MonitorHasCause
  BY DEF IInv
<1>. QED  BY Invariance, <1>1, PTL

(* The permission check of envid2env(), with its generations, keeps every  *)
(* environment from being destroyed by strangers.                          *)
THEOREM FamilyOnly == Spec => OnlyFamilyKills
<1>1. IInv /\ [Next]_vars => [KilledByFamily]_vars
  BY NextOK
<1>. QED  BY Invariance, <1>1, PTL DEF Spec, OnlyFamilyKills

-----------------------------------------------------------------------------
(* Generations, as long as they do not wrap around *)

LEMMA ParentsStayOld ==
    ASSUME GenBound < GenLimit, IInv, ParentsAreOld, [Next]_vars
    PROVE  ParentsAreOld' /\ NewbornIsAlone
<1> USE GenAssumption DEF EnvIds
<1>1. CASE NoBirth /\ UNCHANGED <<env_gen, env_parent_id>>
  BY <1>1 DEF ParentsAreOld, NewbornIsAlone, NoBirth
<1>2. ASSUME NEW c \in CPUS, SysExofork(c)
      PROVE  ParentsAreOld' /\ NewbornIsAlone
  <2> DEFINE n == Head(env_free_list)
  <2>1. /\ curenv[c] \in Slots /\ env_status[curenv[c]] = "RUNNING"
        /\ n \in Slots /\ env_status[n] = "FREE"
        /\ FreeListOf(env_free_list, env_status)
    BY <1>2, TrapFromUserOK, PopFree, InvariantParts DEF SysExofork, EnvAlloc, Enter
  <2>2. /\ NextGen(env_gen[n]) <= GenBound
        /\ env_gen' = [env_gen EXCEPT ![n] = NextGen(env_gen[n])]
        /\ env_parent_id' = [env_parent_id EXCEPT ![n] = EnvId(curenv[c])]
    BY <1>2 DEF SysExofork, EnvAlloc
  <2>. HIDE DEF n
  <2>3. env_gen \in [Slots -> 0..GenLimit] /\ env_parent_id \in [Slots -> EnvIds]
    BY InvariantParts DEF EnvInv
  <2>4. env_gen'[n] = env_gen[n] + 1
    BY <2>1, <2>2, <2>3 DEF ParentsAreOld, NextGen
  <2>5. \A s \in Slots : env_gen'[s] >= env_gen[s] /\ env_gen'[s] <= GenBound
    BY <2>1, <2>2, <2>3, <2>4 DEF ParentsAreOld
  <2>6. \A s \in Slots : env_status[s] = "FREE" /\ s # n => env_status'[s] = "FREE"
    <3>1. IInv' /\ env_free_list' = Tail(env_free_list) /\ env_free_list # << >>
      BY <1>2, SysExoforkKeepsInv DEF SysExofork, EnvAlloc
    <3>2. FreeListOf(Tail(env_free_list), [env_status EXCEPT ![n] = "NOT_RUNNABLE"])
      BY <2>1, <3>1, PopFree, InvariantParts DEF n
    <3>3. FreeListOf(Tail(env_free_list), env_status')
      BY <3>1 DEF IInv, FreeListExact, FreeListOf
    <3>. QED  BY <2>1, <3>2, <3>3, InvariantParts DEF FreeListOf
  <2>7. ParentsAreOld'
    <3>. SUFFICES ASSUME NEW e \in Slots, env_status'[e] # "FREE"
                  PROVE  env_parent_id'[e][1] <= env_gen'[env_parent_id'[e][2]]
      BY <2>5 DEF ParentsAreOld
    <3>1. CASE e = n
      BY <2>1, <2>2, <2>3, <2>4, <3>1 DEF EnvId
    <3>2. CASE e # n
      <4>1. env_parent_id'[e] = env_parent_id[e] /\ env_status[e] # "FREE"
        BY <2>2, <2>3, <2>6, <3>2
      <4>2. env_parent_id[e][1] <= env_gen[env_parent_id[e][2]]
        BY <4>1 DEF ParentsAreOld
      <4>3. /\ env_parent_id[e][2] \in Slots /\ env_parent_id[e][1] \in Nat
            /\ \A s \in Slots : env_gen[s] \in Nat /\ env_gen'[s] \in Nat
        BY <2>1, <2>3, <2>2, <2>4, NenvAssumption, SMTT(20) DEF NoId, Slots
      <4>. DEFINE g == env_parent_id[e][1]
                  q == env_parent_id[e][2]
      <4>4. g \in Nat /\ q \in Slots /\ g <= env_gen[q] /\ env_gen'[q] >= env_gen[q]
        BY <2>5, <4>2, <4>3
      <4>5. g <= env_gen'[q]
        BY <4>3, <4>4
      <4>. QED  BY <4>1, <4>5
    <3>. QED  BY <3>1, <3>2
  <2>8. NewbornIsAlone
    <3>. SUFFICES ASSUME NEW e \in Slots, e # n, env_status[e] # "FREE"
                  PROVE  env_parent_id'[e] # <<env_gen'[n], n>>
      BY <2>6 DEF NewbornIsAlone, EnvId
    <3>1. env_parent_id'[e] = env_parent_id[e]
      BY <2>2, <2>3
    <3>2. env_parent_id[e][1] <= env_gen[env_parent_id[e][2]]
      BY DEF ParentsAreOld
    <3>. QED  BY <2>1, <2>3, <2>4, <3>1, <3>2
  <2>. QED  BY <2>7, <2>8
<1>. QED  BY <1>1, <1>2, NextOK

(* A slot that is used again does not inherit the children of its former   *)
(* owner, as long as generations do not wrap around.                       *)
THEOREM OrphansStayOrphans ==
    ASSUME GenBound < GenLimit
    PROVE  Spec => NewbornHasNoChildren
<1>1. Init => ParentsAreOld
  BY GenAssumption, NenvAssumption DEF Init, ParentsAreOld, NoId, Slots
<1>2. IInv /\ ParentsAreOld /\ [Next]_vars => ParentsAreOld' /\ [NewbornIsAlone]_vars
  BY ParentsStayOld
<1>. QED  BY Invariance, <1>1, <1>2, PTL DEF Spec, NewbornHasNoChildren

-----------------------------------------------------------------------------
(* The start of the memory *)

(* Where things are. *)

LEMMA AtLeastOnce ==
    ASSUME NEW n \in Nat \ {0}, NEW q \in Int
    PROVE  /\ q >= 1 => n * q >= n
           /\ q <= -1 => n * q <= -n
<1>1. ASSUME q >= 1 PROVE n * q >= n
  <2>1. n * (q - 1) >= 0 BY <1>1
  <2>2. n * q = n * (q - 1) + n OBVIOUS
  <2> QED BY <2>1, <2>2
<1>2. ASSUME q <= -1 PROVE n * q <= -n
  <2>1. n * (-1 - q) >= 0 BY <1>2
  <2>2. n * q = -n - n * (-1 - q) OBVIOUS
  <2> QED BY <2>1, <2>2
<1> QED BY <1>1, <1>2

LEMMA Division ==
    ASSUME NEW n \in Nat \ {0}, NEW a \in Nat
    PROVE  /\ a % n \in 0..(n-1)
           /\ a \div n \in Nat
           /\ a = n * (a \div n) + (a % n)
<1>1. /\ a % n \in 0..(n-1)
      /\ a \div n \in Int
      /\ a = n * (a \div n) + (a % n)
  OBVIOUS
<1> DEFINE q == a \div n
           r == a % n
<1> HIDE DEF q, r
<1>2. r \in 0..n-1 /\ q \in Int /\ a = n * q + r
  BY <1>1 DEF q, r
<1>3. q >= 0
  BY <1>2, AtLeastOnce
<1> QED
  BY <1>2, <1>3 DEF q, r

LEMMA QuotientOf ==
    ASSUME NEW n \in Nat \ {0}, NEW q \in Nat, NEW r \in 0..n-1, NEW a \in Nat, a = n * q + r
    PROVE  a \div n = q /\ a % n = r
<1> DEFINE d == a \div n
           m == a % n
<1>1. m \in 0..n-1 /\ d \in Nat /\ a = n * d + m
  BY Division
<1> HIDE DEF d, m
<1>2. n * (q - d) = m - r
  BY <1>1
<1>3. q - d = 0
  <2>1. CASE q - d >= 1 BY <2>1, <1>1, <1>2, AtLeastOnce
  <2>2. CASE q - d <= -1 BY <2>2, <1>1, <1>2, AtLeastOnce
  <2> QED BY <1>1, <2>1, <2>2
<1>4. q = d /\ r = m
  BY <1>1, <1>2, <1>3
<1> QED
  BY <1>4 DEF d, m

LEMMA Monotone ==
    ASSUME NEW n \in Nat \ {0}, NEW a \in Nat, NEW b \in Nat, a <= b
    PROVE  a \div n <= b \div n
<1> DEFINE c == a \div n
           d == b \div n
<1>1. /\ a % n \in 0..n-1 /\ c \in Nat /\ a = n * c + (a % n)
      /\ b % n \in 0..n-1 /\ d \in Nat /\ b = n * d + (b % n)
  BY Division
<1> DEFINE r == a % n
           s == b % n
<1> HIDE DEF c, d, r, s
<1>2. /\ r \in 0..n-1 /\ c \in Nat /\ a = n * c + r
      /\ s \in 0..n-1 /\ d \in Nat /\ b = n * d + s
  BY <1>1 DEF r, s
<1>3. n * (d - c) = b - a + r - s
  BY <1>2
<1>4. CASE d - c <= -1
  BY <1>2, <1>3, <1>4, AtLeastOnce
<1> QED
  BY <1>2, <1>4 DEF c, d

(* What the code's constants are. *)
LEMMA Constant ==
    /\ PTPAGES \in Nat \ {0} /\ NPDENTRIES \in Nat /\ KERNPDX \in Nat
    /\ KERNPDX >= 6 /\ KERNPDX < NPDENTRIES
    /\ IOPHYSMEM \in Nat /\ EXTPHYSMEM \in Nat /\ MPENTRY \in Nat
    /\ 0 < MPENTRY /\ MPENTRY < IOPHYSMEM /\ IOPHYSMEM < EXTPHYSMEM
    /\ KSTKSIZE \in Nat \ {0} /\ KSTKGAP \in Nat \ {0} /\ NCPU \in Nat \ {0}
    /\ PERPAGE \in Nat \ {0} /\ ENVPAGES \in Nat \ {0}
    /\ NCPU * (KSTKSIZE + KSTKGAP) <= PTPAGES
<1>1. NCPU * (KSTKSIZE + KSTKGAP) >= NCPU
  <2>1. NCPU \in Nat \ {0} /\ KSTKSIZE + KSTKGAP \in Int /\ KSTKSIZE + KSTKGAP >= 1
    BY LayoutAssumption
  <2> QED
    BY <2>1, AtLeastOnce
<1>2. PTPAGES \in Nat /\ NCPU \in Nat \ {0} /\ NCPU * (KSTKSIZE + KSTKGAP) <= PTPAGES
      /\ NCPU * (KSTKSIZE + KSTKGAP) \in Int
  BY LayoutAssumption
<1>3. PTPAGES # 0
  BY <1>1, <1>2
<1> QED
  BY <1>2, <1>3, LayoutAssumption

LEMMA Bases ==
    /\ KERNBASE \in Nat /\ KERNBASE = PTPAGES * KERNPDX /\ KERNBASE >= 6 * PTPAGES
    /\ (NPDENTRIES - KERNPDX) * PTPAGES \in Nat
    /\ (NPDENTRIES - KERNPDX) * PTPAGES >= PTPAGES
    /\ NPDENTRIES * PTPAGES = KERNBASE + (NPDENTRIES - KERNPDX) * PTPAGES
    /\ KSTACKTOP = KERNBASE
    /\ MMIOBASE = KERNBASE - 2 * PTPAGES /\ UVPT = KERNBASE - 3 * PTPAGES
    /\ UPAGES = KERNBASE - 4 * PTPAGES /\ UENVS = KERNBASE - 5 * PTPAGES
<1>1. PTPAGES * (KERNPDX - 6) >= 0 /\ PTPAGES * (KERNPDX - 6) = KERNPDX * PTPAGES - 6 * PTPAGES
  BY Constant
<1>2. PTPAGES * (NPDENTRIES - KERNPDX) >= PTPAGES
  BY Constant, AtLeastOnce
<1>3. PTPAGES * (NPDENTRIES - KERNPDX) = (NPDENTRIES - KERNPDX) * PTPAGES
  BY Constant
<1>4. NPDENTRIES * PTPAGES = KERNPDX * PTPAGES + (NPDENTRIES - KERNPDX) * PTPAGES
  BY Constant
<1>5. KERNPDX * PTPAGES = PTPAGES * KERNPDX /\ KERNPDX * PTPAGES \in Nat
      /\ (NPDENTRIES - KERNPDX) * PTPAGES \in Int
  BY Constant
<1> QED
  BY <1>1, <1>2, <1>3, <1>4, <1>5, Constant DEF KERNBASE, KSTACKTOP, MMIOBASE, UVPT, UPAGES, UENVS

LEMMA Below ==
    ASSUME NEW k \in 0..PTPAGES-1, NEW j \in 0..6
    PROVE  /\ KERNBASE - j * PTPAGES + k \in Nat
           /\ PDX(KERNBASE - j * PTPAGES + k) = KERNPDX - j
           /\ (KERNBASE - j * PTPAGES + k) % PTPAGES = k
<1>1. KERNPDX - j \in Nat /\ PTPAGES * (KERNPDX - j) = KERNBASE - j * PTPAGES
  BY Constant, Bases
<1>2. PTPAGES * (KERNPDX - j) + k \in Nat
  BY <1>1, Constant
<1>3. PTPAGES * (KERNPDX - j) + k = KERNBASE - j * PTPAGES + k
  BY <1>1
<1>4. (KERNBASE - j * PTPAGES + k) \div PTPAGES = KERNPDX - j
      /\ (KERNBASE - j * PTPAGES + k) % PTPAGES = k
  <2> DEFINE a == KERNBASE - j * PTPAGES + k
             q == KERNPDX - j
  <2>1. a \in Nat /\ a = PTPAGES * q + k /\ q \in Nat
    BY <1>1, <1>2, <1>3
  <2> HIDE DEF a, q
  <2>2. a \div PTPAGES = q /\ a % PTPAGES = k
    BY <2>1, QuotientOf, Constant
  <2> QED
    BY <2>2 DEF a, q
<1> QED
  BY <1>2, <1>3, <1>4 DEF PDX

LEMMA Above ==
    ASSUME NEW p \in 0..(NPDENTRIES - KERNPDX) * PTPAGES - 1
    PROVE  KERNBASE + p \in VAs /\ PDX(KERNBASE + p) \in KERNPDX..NPDENTRIES-1
<1>1. p \in Nat
  BY Bases
<1> DEFINE q == p \div PTPAGES
           r == p % PTPAGES
<1>2. r \in 0..PTPAGES-1 /\ q \in Nat /\ p = PTPAGES * q + r
  BY <1>1, Division, Constant
<1> HIDE DEF q, r
<1>3. PTPAGES * (KERNPDX + q) + r = KERNBASE + p
  <2>1. PTPAGES * (KERNPDX + q) = PTPAGES * KERNPDX + PTPAGES * q
    BY <1>2, Constant
  <2> QED
    BY <2>1, <1>2, Bases, Constant
<1>4. KERNBASE + p \in Nat /\ KERNPDX + q \in Nat
  BY <1>1, <1>2, Bases, Constant
<1>5. (KERNBASE + p) \div PTPAGES = KERNPDX + q
  <2> DEFINE a == KERNBASE + p
             d == KERNPDX + q
  <2>1. a \in Nat /\ d \in Nat /\ a = PTPAGES * d + r
    BY <1>3, <1>4
  <2> HIDE DEF a, d
  <2>2. a \div PTPAGES = d
    BY <2>1, <1>2, QuotientOf, Constant
  <2> QED
    BY <2>2 DEF a, d
<1>6. KERNPDX + q <= NPDENTRIES - 1
  <2>1. CASE q >= NPDENTRIES - KERNPDX
    <3>1. PTPAGES * (q - (NPDENTRIES - KERNPDX)) >= 0
      BY <2>1, <1>2, Constant
    <3>2. PTPAGES * q >= (NPDENTRIES - KERNPDX) * PTPAGES
      BY <3>1, <1>2, Constant
    <3> QED
      BY <3>2, <1>2, Constant, Bases
  <2> QED
    BY <2>1, <1>2, Constant
<1>7. KERNBASE + p \in VAs
  BY <1>1, Bases DEF VAs
<1> QED
  BY <1>2, <1>4, <1>5, <1>6, <1>7, Constant DEF PDX

(* The stacks of the processors, and the guards below them. *)
LEMMA StackAt ==
    ASSUME NEW c \in 0..NCPU-1
    PROVE  /\ c * (KSTKSIZE + KSTKGAP) \in Nat
           /\ c * (KSTKSIZE + KSTKGAP) + KSTKSIZE + KSTKGAP <= PTPAGES
           /\ StackTop(c) = KERNBASE - c * (KSTKSIZE + KSTKGAP)
<1> DEFINE w == KSTKSIZE + KSTKGAP
<1>1. w \in Nat \ {0} /\ w = KSTKSIZE + KSTKGAP
  BY Constant
<1>2. NCPU * w <= PTPAGES
  BY Constant
<1>w. StackTop(c) = KSTACKTOP - c * w
  BY DEF StackTop
<1> HIDE DEF w
<1>3. w * (NCPU - (c + 1)) >= 0
  BY <1>1, Constant
<1>4. w * (NCPU - (c + 1)) = NCPU * w - c * w - w
  BY <1>1, Constant
<1>5. c * w \in Nat
  BY <1>1
<1>6. c * w + w <= PTPAGES
  <2>1. NCPU * w \in Int
    BY <1>1, Constant
  <2> QED
    BY <1>1, <1>2, <1>3, <1>4, <1>5, <2>1, Constant
<1>7. c * w + KSTKSIZE + KSTKGAP <= PTPAGES
  BY <1>1, <1>5, <1>6, Constant
<1>8. StackTop(c) = KERNBASE - c * w
  BY <1>w, Bases
<1> QED
  BY <1>5, <1>7, <1>8 DEF w

LEMMA StacksApart ==
    ASSUME NEW c \in 0..NCPU-1, NEW d \in 0..NCPU-1, c < d
    PROVE  c * (KSTKSIZE + KSTKGAP) + KSTKSIZE + KSTKGAP <= d * (KSTKSIZE + KSTKGAP)
<1> DEFINE w == KSTKSIZE + KSTKGAP
<1>1. w \in Nat \ {0} /\ w = KSTKSIZE + KSTKGAP
  BY Constant
<1> HIDE DEF w
<1>2. w * (d - c) >= w
  BY <1>1, AtLeastOnce
<1>3. w * (d - c) = d * w - c * w
  BY <1>1
<1>4. d * w \in Nat /\ c * w \in Nat
  BY <1>1
<1>5. c * w + KSTKSIZE + KSTKGAP <= d * w
  BY <1>1, <1>2, <1>3, <1>4, Constant
<1> QED
  BY <1>5 DEF w

(* The free pages of conventional memory, below IOPHYSMEM, suffice for the *)
(* page tables of the kernel and for the pages the checks hold: in the     *)
(* code 158 for 73.  Page tables that are higher are not mapped yet.       *)
LowPages == IOPHYSMEM - 2 >= NPDENTRIES - KERNPDX + 9

Boots    == {"pgdir", "pages", "envs"}
Maps     == {"map", "check_installed", "done"}
Sorted   == {"check_page_alloc", "check_page"} \cup Maps
Listed   == {"page_init", "low_first"} \cup Sorted

(* p comes before q in the list that the checks leave. *)
Earlier(p, q)    == IF Low(p) = Low(q) THEN p > q ELSE Low(p)
InOrder(list)    == \A j, k \in 1..Len(list) : j < k => Earlier(list[j], list[k])
Descending(list) == \A j, k \in 1..Len(list) : j < k => list[j] > list[k]
Available        == (0..npages-1) \ ({0, MPENTRY} \cup IOPHYSMEM..nextfree-1 \cup PageTables)

StartTypes ==
    /\ StartTypeOK
    /\ npages \in Sizes /\ end \in KernelEnds
    /\ halves \in [{"low", "high"} -> Seq(0..npages-1)]
    /\ entry \in [VAs -> [pa : Int, perm : SUBSET {"U", "W"}]]
    /\ ip \in Boots \cup Listed \cup {"panic"}
    /\ cr3 = "kern_pgdir" <=> ip \in {"check_installed", "done"}

Arrays ==
    /\ ip = "pgdir" => nextfree = end
    /\ ip \in {"pages", "envs"} \cup Listed => kern_pgdir = end
    /\ ip = "pages" => nextfree = end + 1
    /\ ip \in {"envs"} \cup Listed => pages = end + 1
    /\ ip = "envs" => nextfree = end + 1 + PagesSize(npages)
    /\ ip \in Listed => /\ envs = end + 1 + PagesSize(npages)
                        /\ nextfree = envs + ENVPAGES

Directory ==
    /\ \A x \in 0..NPDENTRIES-1 :
          pgdir[x] # NoPage => x >= KERNPDX - 5 /\ pgdir[x] < PTPAGES
    /\ ip = "pgdir" => \A x \in 0..NPDENTRIES-1 : pgdir[x] = NoPage
    /\ ip \notin {"pgdir", "panic"} \cup Maps =>
          \A x \in 0..NPDENTRIES-1 : pgdir[x] = IF x = KERNPDX - 3 THEN kern_pgdir ELSE NoPage

(* What the first n pages of the list add to a half. *)
HalfOf(list, n, half) == {list[j] : j \in {i \in 1..n : Half(list[i]) = half}}

(* The list while it is made, taken apart and put together. *)
Lists ==
    /\ ip \in Boots => turn = 0 /\ first_list = << >>
    /\ ip \in Boots \cup {"page_init"} => halves = [h \in {"low", "high"} |-> << >>]
    /\ ip = "page_init" =>
          /\ turn <= npages /\ Descending(first_list)
          /\ Range(first_list) = {p \in 0..turn-1 : ~InUse(p)}
          /\ \A p \in 0..turn-1 : ref[p] = 0 <=> ~InUse(p)
    /\ ip = "low_first" =>
          /\ turn <= Len(first_list) /\ Descending(first_list)
          /\ Range(first_list) = {p \in 0..npages-1 : ~InUse(p)}
          /\ \A p \in 0..npages-1 : ref[p] = 0 <=> ~InUse(p)
          /\ \A h \in {"low", "high"} :
                /\ Descending(halves[h])
                /\ Range(halves[h]) = HalfOf(first_list, turn, h)
    /\ ip \in Sorted =>
          /\ InOrder(first_list)
          /\ Range(first_list) = Available
          /\ \A p \in 0..npages-1 : ref[p] = 0 <=> p \in Available

(* The k-th page of the m-th region is mapped. *)
IsMapped(m, k) == m < call \/ (m = call /\ k < turn)
Turns(m)       == 0..Regions[m].size - 1

(* The stack of the first processor is mapped twice. *)
Entries ==
    /\ ip \notin {"panic"} \cup Maps => call = 1 /\ \A va \in VAs : entry[va] = NoEntry
    /\ ip = "map" => IF call \in Calls THEN turn < Regions[call].size ELSE turn = 0
    /\ ip \in {"check_installed", "done"} => call = 5 + NCPU /\ turn = 0
    /\ ip \in Maps =>
          /\ \A m \in Calls : \A k \in Turns(m) :
                IsMapped(m, k) /\ ~(m = 3 /\ IsMapped(5, k)) =>
                    MapsTo(Regions[m].va + k, Regions[m].pa + k, Regions[m].perm)
          /\ \A va \in VAs : entry[va] # NoEntry =>
                \E m \in Calls : \E k \in Turns(m) :
                    va = Regions[m].va + k /\ entry[va].perm = Regions[m].perm

Stores ==
    /\ cr3 = "entry_pgdir" => stored \subseteq 0..PTPAGES-1
    /\ stored \subseteq 0..npages-1

MemoryInv == StartTypes /\ Arrays /\ Directory /\ Lists /\ Entries /\ Stores

-----------------------------------------------------------------------------
(* Lists *)

LEMMA Members ==
    ASSUME NEW S, NEW list \in Seq(S)
    PROVE  /\ Len(list) \in Nat /\ DOMAIN list = 1..Len(list)
           /\ \A j \in 1..Len(list) : list[j] \in S /\ list[j] \in Range(list)
           /\ \A p \in Range(list) : \E j \in 1..Len(list) : list[j] = p
           /\ Range(list) \subseteq S
  BY LenProperties DEF Range

LEMMA Consed ==
    ASSUME NEW S, NEW list \in Seq(S), NEW p \in S
    PROVE  /\ <<p>> \o list \in Seq(S) /\ Len(<<p>> \o list) = Len(list) + 1
           /\ (<<p>> \o list)[1] = p
           /\ \A j \in 2..Len(list) + 1 : (<<p>> \o list)[j] = list[j - 1]
           /\ Range(<<p>> \o list) = {p} \cup Range(list)
<1> DEFINE l == <<p>> \o list
<1>1. <<p>> \in Seq(S) /\ Len(<<p>>) = 1 /\ <<p>>[1] = p /\ Len(list) \in Nat
  BY LenProperties
<1>2. /\ l \in Seq(S) /\ Len(l) = 1 + Len(list)
      /\ \A i \in 1..1 + Len(list) : l[i] = IF i <= 1 THEN <<p>>[i] ELSE list[i - 1]
  BY <1>1, ConcatProperties, ZenonT(60)
<1> HIDE DEF l
<1>5. l[1] = p /\ \A j \in 2..Len(list) + 1 : l[j] = list[j - 1]
  BY <1>1, <1>2
<1>6. Len(l) = Len(list) + 1
  BY <1>1, <1>2
<1>3. Range(l) = {l[j] : j \in 1..Len(l)} /\ Range(list) = {list[j] : j \in 1..Len(list)}
  BY <1>2, RangeEquality
<1>4. Range(l) = {p} \cup Range(list)
  <2>1. ASSUME NEW j \in 1..Len(l) PROVE l[j] \in {p} \cup Range(list)
    <3>1. CASE j = 1
      BY <3>1, <1>5
    <3>2. CASE j # 1
      <4>1. j \in 2..Len(list) + 1 /\ j - 1 \in 1..Len(list)
        BY <3>2, <1>1, <1>6
      <4> QED
        BY <4>1, <1>3, <1>5
    <3> QED
      BY <3>1, <3>2
  <2>2. ASSUME NEW j \in 1..Len(list) PROVE list[j] \in Range(l)
    <3>1. j + 1 \in 2..Len(list) + 1 /\ j + 1 \in 1..Len(l) /\ (j + 1) - 1 = j
      BY <1>1, <1>6
    <3> QED
      BY <3>1, <1>3, <1>5
  <2>3. p \in Range(l)
    <3>1. 1 \in 1..Len(l)
      BY <1>1, <1>6
    <3> QED
      BY <3>1, <1>3, <1>5
  <2> QED
    BY <1>3, <2>1, <2>2, <2>3
<1> QED
  BY <1>2, <1>4, <1>5, <1>6 DEF l

LEMMA Appended ==
    ASSUME NEW S, NEW list \in Seq(S), NEW p \in S
    PROVE  /\ Append(list, p) \in Seq(S) /\ Len(Append(list, p)) = Len(list) + 1
           /\ \A j \in 1..Len(list) : Append(list, p)[j] = list[j]
           /\ Append(list, p)[Len(list) + 1] = p
           /\ Range(Append(list, p)) = Range(list) \cup {p}
<1> DEFINE l == Append(list, p)
<1>1. /\ l \in Seq(S) /\ Len(l) = Len(list) + 1 /\ Len(list) \in Nat
      /\ \A j \in 1..Len(list) : l[j] = list[j]
      /\ l[Len(list) + 1] = p
  BY AppendProperties, LenProperties
<1> HIDE DEF l
<1>2. Range(l) = {l[j] : j \in 1..Len(l)} /\ Range(list) = {list[j] : j \in 1..Len(list)}
  BY <1>1, RangeEquality
<1>3. Range(l) = Range(list) \cup {p}
  BY <1>1, <1>2
<1> QED
  BY <1>1, <1>3 DEF l

(* l is the list with p after its first i pages. *)
Linked(l, list, p, i) ==
    /\ l \in Seq(Nat) /\ Len(l) = Len(list) + 1
    /\ \A j \in 1..Len(list) + 1 :
          l[j] = IF j <= i THEN list[j] ELSE IF j = i + 1 THEN p ELSE list[j - 1]

LEMMA Inserted ==
    ASSUME NEW list \in Seq(Nat), NEW p \in Nat, NEW i \in 0..Len(list)
    PROVE  Linked(SubSeq(list, 1, i) \o <<p>> \o SubSeq(list, i + 1, Len(list)), list, p, i)
<1> DEFINE a == SubSeq(list, 1, i)
           b == SubSeq(list, i + 1, Len(list))
           c == a \o <<p>>
           l == c \o b
<1>1. Len(list) \in Nat /\ i \in Nat /\ i <= Len(list)
  BY LenProperties
<1>2. a \in Seq(Nat) /\ Len(a) = i /\ \A j \in 1..i : a[j] = list[j]
  BY <1>1
<1>3. b \in Seq(Nat) /\ Len(b) = Len(list) - i /\ \A j \in 1..Len(list) - i : b[j] = list[i + j]
  BY <1>1
<1>4. <<p>> \in Seq(Nat) /\ Len(<<p>>) = 1 /\ <<p>>[1] = p
  OBVIOUS
<1> HIDE DEF a, b
<1>5. /\ c \in Seq(Nat) /\ Len(c) = Len(a) + 1
      /\ \A j \in 1..Len(a) + 1 : c[j] = IF j <= Len(a) THEN a[j] ELSE <<p>>[j - Len(a)]
  BY <1>2, <1>4, ConcatProperties, ZenonT(60)
<1> HIDE DEF c
<1>6. /\ l \in Seq(Nat) /\ Len(l) = Len(c) + Len(b)
      /\ \A j \in 1..Len(c) + Len(b) : l[j] = IF j <= Len(c) THEN c[j] ELSE b[j - Len(c)]
  <2>1. c \in Seq(Nat)
    BY <1>5
  <2> QED
    BY <2>1, <1>3, ConcatProperties, ZenonT(60)
<1> HIDE DEF l
<1>n. Len(c) = i + 1 /\ Len(c) + Len(b) = Len(list) + 1
  BY <1>1, <1>2, <1>3, <1>5
<1>7. Len(l) = Len(list) + 1 /\ Len(a) = i
  BY <1>2, <1>6, <1>n
<1>8. ASSUME NEW j \in 1..Len(list) + 1
      PROVE  l[j] = IF j <= i THEN list[j] ELSE IF j = i + 1 THEN p ELSE list[j - 1]
  <2>0. l[j] = IF j <= i + 1 THEN c[j] ELSE b[j - (i + 1)]
    BY <1>6, <1>n
  <2>1. CASE j <= i
    <3>1. l[j] = c[j] /\ j \in 1..i /\ j \in 1..Len(a) + 1
      BY <2>0, <2>1, <1>1, <1>7
    <3>2. c[j] = a[j] /\ a[j] = list[j]
      BY <2>1, <3>1, <1>2, <1>5, <1>7
    <3> QED
      BY <2>1, <3>1, <3>2
  <2>2. CASE j = i + 1
    <3>1. l[j] = c[j] /\ c[j] = <<p>>[j - i] /\ j - i = 1
      BY <2>0, <2>2, <1>1, <1>5, <1>7
    <3> QED
      BY <3>1, <2>2, <1>1, <1>4
  <2>3. CASE j > i + 1
    <3>1. l[j] = b[j - (i + 1)] /\ j - (i + 1) \in 1..Len(list) - i
      BY <2>0, <2>3, <1>1
    <3>2. b[j - (i + 1)] = list[i + (j - (i + 1))]
      BY <3>1, <1>3
    <3>3. i + (j - (i + 1)) = j - 1
      BY <1>1
    <3> QED
      BY <3>1, <3>2, <3>3, <2>3, <1>1
  <2> QED
    BY <2>1, <2>2, <2>3, <1>1
<1>9. Linked(l, list, p, i)
  BY <1>6, <1>7, <1>8 DEF Linked
<1> QED
  BY <1>9 DEF l, c, a, b

(* page_free() links a page in before the first that is lower. *)
StopsAt(list, p, i) ==
    /\ i \in 0..Len(list)
    /\ \A j \in 1..i : list[j] >= p
    /\ i < Len(list) => list[i + 1] < p

LEMMA LinkedIs ==
    ASSUME NEW l, NEW list, NEW p, NEW i \in Nat, NEW n \in Nat, Len(list) + 1 = n, Linked(l, list, p, i)
    PROVE  /\ l \in Seq(Nat) /\ Len(l) = n
           /\ \A j \in 1..n : /\ j <= i => l[j] = list[j]
                              /\ j = i + 1 => l[j] = p
                              /\ j > i + 1 => l[j] = list[j - 1]
<1>1. /\ l \in Seq(Nat) /\ Len(l) = n
      /\ \A j \in 1..n : l[j] = IF j <= i THEN list[j] ELSE IF j = i + 1 THEN p ELSE list[j - 1]
  BY Zenon DEF Linked
<1>2. ASSUME NEW j \in 1..n, j <= i PROVE l[j] = list[j]
  BY <1>1, <1>2, Zenon
<1>3. ASSUME NEW j \in 1..n, j = i + 1 PROVE l[j] = p
  <2>1. ~(j <= i)
    BY <1>3
  <2> QED
    BY <1>1, <1>3, <2>1, Zenon
<1>4. ASSUME NEW j \in 1..n, j > i + 1 PROVE l[j] = list[j - 1]
  <2>1. ~(j <= i) /\ j # i + 1
    BY <1>4
  <2> QED
    BY <1>1, <2>1, Zenon
<1> QED
  BY <1>1, <1>2, <1>3, <1>4, Zenon

LEMMA FreeAt ==
    ASSUME NEW list \in Seq(Nat), NEW p \in Nat, NEW i, StopsAt(list, p, i)
    PROVE  Linked(FreeTo(list, p), list, p, i)
<1>1. Len(list) \in Nat /\ \A j \in 1..Len(list) : list[j] \in Nat
  BY Members
<1>2. ASSUME NEW n, StopsAt(list, p, n) PROVE n = i
  <2>0. n \in Nat /\ i \in Nat
    BY <1>1, <1>2 DEF StopsAt
  <2>1. CASE n < i
    BY <2>0, <2>1, <1>1, <1>2 DEF StopsAt
  <2>2. CASE i < n
    BY <2>0, <2>2, <1>1, <1>2 DEF StopsAt
  <2> QED
    BY <2>0, <2>1, <2>2
<1>3. \E n \in 0..Len(list) : /\ \A j \in 1..n : list[j] >= p
                             /\ n < Len(list) => list[n + 1] < p
  BY Zenon DEF StopsAt
<1>4. StopsAt(list, p, Stop(list, p))
  BY <1>3, Zenon DEF StopsAt, Stop
<1>5. Stop(list, p) = i
  BY <1>2, <1>4
<1>6. FreeTo(list, p) = SubSeq(list, 1, i) \o <<p>> \o SubSeq(list, i + 1, Len(list))
  BY <1>5 DEF FreeTo
<1>7. i \in 0..Len(list)
  BY DEF StopsAt
<1> QED
  BY <1>6, <1>7, Inserted

LEMMA FreeFirst ==
    ASSUME NEW list \in Seq(Nat), NEW p \in Nat, Len(list) >= 1, list[1] < p
    PROVE  FreeTo(list, p) = <<p>> \o list /\ StopsAt(list, p, 0)
<1> DEFINE l == FreeTo(list, p)
           m == <<p>> \o list
           n == Len(list) + 1
<1>1. Len(list) \in Nat /\ 0 \in Nat /\ n \in Nat
  BY LenProperties
<1>2. StopsAt(list, p, 0)
  BY <1>1 DEF StopsAt
<1>3. Linked(l, list, p, 0)
  BY <1>2, FreeAt
<1>4. m \in Seq(Nat) /\ Len(m) = n /\ m[1] = p /\ \A j \in 2..Len(list) + 1 : m[j] = list[j - 1]
  BY Consed
<1> HIDE DEF l, m
<1>5. /\ l \in Seq(Nat) /\ Len(l) = n
      /\ \A j \in 1..n : (j = 0 + 1 => l[j] = p) /\ (j > 0 + 1 => l[j] = list[j - 1])
  BY <1>1, <1>3, LinkedIs
<1>6. ASSUME NEW j \in 1..n PROVE l[j] = m[j]
  <2>1. CASE j = 1
    BY <2>1, <1>4, <1>5
  <2>2. CASE j # 1
    <3>1. j > 0 + 1 /\ j \in 2..Len(list) + 1
      BY <2>2, <1>1
    <3> QED
      BY <3>1, <1>4, <1>5
  <2> QED
    BY <2>1, <2>2
<1>7. l = m
  BY <1>4, <1>5, <1>6, SeqEqual
<1> QED
  BY <1>2, <1>7 DEF l, m

LEMMA FreeAfter ==
    ASSUME NEW list \in Seq(Nat), NEW a \in Nat, NEW p \in Nat, a >= p, NEW i \in Nat, StopsAt(list, p, i)
    PROVE  FreeTo(<<a>> \o list, p) = <<a>> \o FreeTo(list, p) /\ StopsAt(<<a>> \o list, p, i + 1)
<1> DEFINE more == <<a>> \o list
           n    == Len(list) + 1
           l    == FreeTo(list, p)
           m    == FreeTo(more, p)
           q    == <<a>> \o l
<1>1. Len(list) \in Nat /\ n \in Nat /\ i <= Len(list)
  BY LenProperties DEF StopsAt
<1>2. more \in Seq(Nat) /\ Len(more) = n /\ more[1] = a /\ \A j \in 2..n : more[j] = list[j - 1]
  BY Consed
<1>3. Linked(l, list, p, i)
  BY FreeAt
<1>4. /\ l \in Seq(Nat) /\ Len(l) = n
      /\ \A j \in 1..n : /\ j <= i => l[j] = list[j]
                         /\ j = i + 1 => l[j] = p
                         /\ j > i + 1 => l[j] = list[j - 1]
  BY <1>1, <1>3, LinkedIs
<1>q. q \in Seq(Nat) /\ Len(q) = Len(l) + 1 /\ q[1] = a /\ \A j \in 2..Len(l) + 1 : q[j] = l[j - 1]
  BY <1>4, Consed
<1> HIDE DEF more, l, q
<1>5. StopsAt(more, p, i + 1)
  <2>1. ASSUME NEW j \in 1..i + 1 PROVE more[j] >= p
    <3>1. CASE j = 1
      BY <3>1, <1>2
    <3>2. CASE j # 1
      <4>1. j \in 2..n /\ j - 1 \in 1..i
        BY <3>2, <1>1
      <4>2. list[j - 1] >= p
        BY <4>1 DEF StopsAt
      <4> QED
        BY <4>1, <4>2, <1>2
    <3> QED
      BY <3>1, <3>2
  <2>2. ASSUME i + 1 < Len(more) PROVE more[i + 1 + 1] < p
    <3>1. i + 2 \in 2..n /\ (i + 2) - 1 = i + 1 /\ i < Len(list) /\ i + 1 + 1 = i + 2
      BY <2>2, <1>1, <1>2
    <3>2. list[i + 1] < p
      BY <3>1 DEF StopsAt
    <3>3. more[i + 2] = list[(i + 2) - 1]
      BY <3>1, <1>2
    <3> QED
      BY <3>1, <3>2, <3>3
  <2>3. i + 1 \in 0..Len(more)
    BY <1>1, <1>2
  <2> QED
    BY <2>1, <2>2, <2>3 DEF StopsAt
<1>6. Linked(m, more, p, i + 1)
  BY <1>2, <1>5, FreeAt
<1> HIDE DEF m
<1>7. i + 1 \in Nat /\ n + 1 \in Nat /\ Len(more) + 1 = n + 1
  BY <1>1, <1>2
<1>8. /\ m \in Seq(Nat) /\ Len(m) = n + 1
      /\ \A j \in 1..n + 1 : /\ j <= i + 1 => m[j] = more[j]
                             /\ j = i + 1 + 1 => m[j] = p
                             /\ j > i + 1 + 1 => m[j] = more[j - 1]
  BY <1>6, <1>7, LinkedIs
<1>9. ASSUME NEW j \in 1..n + 1 PROVE m[j] = q[j]
  <2>1. CASE j = 1
    <3>1. 1 \in 1..n + 1 /\ 1 <= i + 1
      BY <1>1
    <3>2. m[1] = more[1]
      BY <3>1, <1>8
    <3> QED
      BY <3>2, <2>1, <1>2, <1>q
  <2>2. CASE j # 1
    <3> DEFINE k == j - 1
    <3>1. k \in 1..n /\ j \in 2..n + 1 /\ j \in 2..Len(l) + 1 /\ k \in Int
      BY <2>2, <1>1, <1>4
    <3>2. q[j] = l[k]
      BY <3>1, <1>q
    <3>3. CASE k <= i
      <4>1. j <= i + 1 /\ j \in 2..n
        BY <3>1, <3>3, <1>1
      <4>2. m[j] = more[j] /\ more[j] = list[k]
        BY <4>1, <1>2, <1>8
      <4>3. l[k] = list[k]
        BY <3>1, <3>3, <1>4
      <4> QED
        BY <4>2, <4>3, <3>2
    <3>4. CASE k = i + 1
      <4>1. j = i + 1 + 1
        BY <3>1, <3>4, <1>1
      <4>2. m[j] = p
        BY <4>1, <1>8
      <4>3. l[k] = p
        BY <3>1, <3>4, <1>4
      <4> QED
        BY <4>2, <4>3, <3>2
    <3>5. CASE k > i + 1
      <4>1. j > i + 1 + 1 /\ k \in 2..n
        BY <3>1, <3>5, <1>1
      <4>2. m[j] = more[k] /\ more[k] = list[k - 1]
        BY <4>1, <1>2, <1>8
      <4>3. l[k] = list[k - 1]
        BY <3>1, <3>5, <1>4
      <4> QED
        BY <4>2, <4>3, <3>2
    <3> QED
      BY <3>1, <3>3, <3>4, <3>5, <1>1
  <2> QED
    BY <2>1, <2>2
<1>10. m = q
  <2>1. Len(q) = n + 1
    BY <1>q, <1>4
  <2> QED
    BY <1>q, <2>1, <1>8, <1>9, SeqEqual
<1> QED
  BY <1>5, <1>10 DEF m, q, l, more

(* The list from its k-th page on. *)
LEMMA FromOn ==
    ASSUME NEW list \in Seq(Nat), NEW k \in 1..Len(list)
    PROVE  /\ SubSeq(list, k, Len(list)) \in Seq(Nat)
           /\ Len(SubSeq(list, k, Len(list))) = Len(list) - k + 1
           /\ \A j \in 1..Len(list) - k + 1 : SubSeq(list, k, Len(list))[j] = list[k + j - 1]
<1>1. Len(list) \in Nat /\ \A j \in 1..Len(list) : list[j] \in Nat
  BY Members
<1> DEFINE n == Len(list)
<1>2. \A j \in k..n : list[j] \in Nat
  BY <1>1
<1> HIDE DEF n
<1>3. k \in Int /\ n \in Int /\ k <= n
  BY <1>1 DEF n
<1>4. /\ SubSeq(list, k, n) \in Seq(Nat)
      /\ Len(SubSeq(list, k, n)) = IF k <= n THEN n - k + 1 ELSE 0
      /\ \A j \in 1..n - k + 1 : SubSeq(list, k, n)[j] = list[k + j - 1]
  BY <1>2, <1>3, SubSeqProperties
<1> QED
  BY <1>3, <1>4 DEF n

LEMMA FirstAndRest ==
    ASSUME NEW list \in Seq(Nat), NEW k \in Nat \ {0}, k < Len(list)
    PROVE  SubSeq(list, k, Len(list)) = <<list[k]>> \o SubSeq(list, k + 1, Len(list))
<1> DEFINE n == Len(list)
           s == SubSeq(list, k, n)
           t == SubSeq(list, k + 1, n)
           u == <<list[k]>> \o t
           x == n - k
<1>1. n \in Nat /\ k \in 1..n /\ k + 1 \in 1..n /\ list[k] \in Nat /\ x \in Nat /\ n - k + 1 = x + 1 /\ n - (k + 1) + 1 = x
  BY Members
<1>2. s \in Seq(Nat) /\ Len(s) = x + 1 /\ \A j \in 1..x + 1 : s[j] = list[k + j - 1]
  BY <1>1, FromOn
<1>3. t \in Seq(Nat) /\ Len(t) = x /\ \A j \in 1..x : t[j] = list[(k + 1) + j - 1]
  BY <1>1, FromOn
<1>4. u \in Seq(Nat) /\ Len(u) = x + 1 /\ u[1] = list[k] /\ \A j \in 2..x + 1 : u[j] = t[j - 1]
  BY <1>1, <1>3, Consed
<1> HIDE DEF n, s, t, u, x
<1>5. ASSUME NEW j \in 1..x + 1 PROVE s[j] = u[j]
  <2>1. s[j] = list[k + j - 1]
    BY <1>2
  <2>2. CASE j = 1
    <3>1. k + j - 1 = k
      BY <2>2
    <3> QED
      BY <2>1, <2>2, <3>1, <1>4
  <2>3. CASE j # 1
    <3> DEFINE i == j - 1
    <3>1. i \in 1..x /\ j \in 2..x + 1 /\ (k + 1) + i - 1 = k + j - 1
      BY <2>3, <1>1
    <3>2. u[j] = t[i]
      BY <3>1, <1>4
    <3>3. t[i] = list[(k + 1) + i - 1]
      BY <3>1, <1>3
    <3> QED
      BY <2>1, <3>1, <3>2, <3>3
  <2> QED
    BY <2>2, <2>3
<1>6. s = u
  BY <1>2, <1>4, <1>5, SeqEqual
<1> QED
  BY <1>6 DEF s, u, t, n

(* Three pages of a descending list go back to where they were. *)
LEMMA BackAgain ==
    ASSUME NEW list \in Seq(Nat), Len(list) >= 4,
           list[1] > list[2], list[2] > list[3], list[3] > list[4]
    PROVE  LET rest == SubSeq(list, 4, Len(list))
           IN  /\ FreeTo(FreeTo(FreeTo(rest, list[1]), list[2]), list[3]) = list
               /\ FreeTo(FreeTo(FreeTo(rest, list[2]), list[3]), list[1]) = list
               /\ Head(FreeTo(rest, list[1])) = list[1]
<1> DEFINE p == list[1]
           q == list[2]
           r == list[3]
           rest  == SubSeq(list, 4, Len(list))
<1>1. /\ Len(list) \in Nat /\ p \in Nat /\ q \in Nat /\ r \in Nat /\ list[4] \in Nat
      /\ 1 \in 1..Len(list) /\ 4 \in 1..Len(list)
  <2> DEFINE n == Len(list)
  <2>1. n \in Nat /\ \A j \in 1..n : list[j] \in Nat
    BY Members
  <2>2. n >= 4
    OBVIOUS
  <2> HIDE DEF n
  <2>3. 1 \in 1..n /\ 2 \in 1..n /\ 3 \in 1..n /\ 4 \in 1..n
    BY <2>1, <2>2
  <2> QED
    BY <2>1, <2>3 DEF n
<1>2. rest \in Seq(Nat) /\ Len(rest) >= 1 /\ rest[1] = list[4]
  <2>1. /\ rest \in Seq(Nat) /\ Len(rest) = Len(list) - 4 + 1
        /\ \A j \in 1..Len(list) - 4 + 1 : rest[j] = list[4 + j - 1]
    BY <1>1, FromOn
  <2>2. 1 \in 1..Len(list) - 4 + 1 /\ 4 + 1 - 1 = 4
    BY <1>1
  <2>3. rest[1] = list[4 + 1 - 1]
    BY <2>1, <2>2
  <2> HIDE DEF rest
  <2> QED
    BY <2>1, <2>2, <2>3, <1>1
<1>3. list = <<p>> \o (<<q>> \o (<<r>> \o rest))
  <2>1. SubSeq(list, 1, Len(list)) = list
    BY SubSeqFull
  <2>2. 1 < Len(list) /\ 2 < Len(list) /\ 3 < Len(list) /\ 1 \in Nat \ {0} /\ 2 \in Nat \ {0} /\ 3 \in Nat \ {0}
    BY <1>1
  <2>3. /\ SubSeq(list, 1, Len(list)) = <<p>> \o SubSeq(list, 1 + 1, Len(list))
        /\ SubSeq(list, 2, Len(list)) = <<q>> \o SubSeq(list, 2 + 1, Len(list))
        /\ SubSeq(list, 3, Len(list)) = <<r>> \o SubSeq(list, 3 + 1, Len(list))
    BY <2>2, FirstAndRest
  <2>4. 1 + 1 = 2 /\ 2 + 1 = 3 /\ 3 + 1 = 4
    OBVIOUS
  <2> QED
    BY <2>1, <2>3, <2>4
<1>4. /\ p > q /\ q > r /\ p >= q /\ p >= r /\ q >= r
      /\ rest[1] < p /\ rest[1] < q /\ rest[1] < r
  BY <1>1, <1>2
<1>c. \A x \in Nat : \A s \in Seq(Nat) : <<x>> \o s \in Seq(Nat) /\ Len(<<x>> \o s) >= 1 /\ (<<x>> \o s)[1] = x
  <2> SUFFICES ASSUME NEW x \in Nat, NEW s \in Seq(Nat)
               PROVE  <<x>> \o s \in Seq(Nat) /\ Len(<<x>> \o s) >= 1 /\ (<<x>> \o s)[1] = x
    OBVIOUS
  <2>1. <<x>> \o s \in Seq(Nat) /\ Len(<<x>> \o s) = Len(s) + 1 /\ (<<x>> \o s)[1] = x /\ Len(s) \in Nat
    BY Consed, LenProperties
  <2> QED
    BY <2>1
<1> DEFINE two   == <<q>> \o rest
           three == <<r>> \o rest
           four  == <<p>> \o rest
<1>5. two \in Seq(Nat) /\ three \in Seq(Nat) /\ four \in Seq(Nat) /\ four[1] = p /\ Len(four) >= 1
  BY <1>1, <1>2, <1>c
<1> HIDE DEF p, q, r, rest
<1>6. /\ FreeTo(rest, p) = four /\ FreeTo(rest, q) = two /\ FreeTo(rest, r) = three
      /\ StopsAt(rest, p, 0) /\ StopsAt(rest, q, 0) /\ StopsAt(rest, r, 0)
  BY <1>1, <1>2, <1>4, FreeFirst
<1>7. /\ FreeTo(four, q) = <<p>> \o two
      /\ FreeTo(two, r) = <<q>> \o three /\ StopsAt(two, r, 0 + 1)
  <2>1. 0 \in Nat
    OBVIOUS
  <2>2. FreeTo(<<p>> \o rest, q) = <<p>> \o FreeTo(rest, q)
    BY <2>1, <1>1, <1>2, <1>4, <1>6, FreeAfter
  <2>3. FreeTo(<<q>> \o rest, r) = <<q>> \o FreeTo(rest, r) /\ StopsAt(<<q>> \o rest, r, 0 + 1)
    BY <2>1, <1>1, <1>2, <1>4, <1>6, FreeAfter
  <2> QED
    BY <2>2, <2>3, <1>6
<1> HIDE DEF two, three, four
<1>8. FreeTo(<<p>> \o two, r) = <<p>> \o (<<q>> \o three)
  <2> DEFINE one == 0 + 1
  <2>1. /\ two \in Seq(Nat) /\ p \in Nat /\ r \in Nat /\ p >= r
        /\ one \in Nat /\ StopsAt(two, r, one)
    BY <1>1, <1>4, <1>5, <1>7
  <2> HIDE DEF one
  <2>2. FreeTo(<<p>> \o two, r) = <<p>> \o FreeTo(two, r)
    BY <2>1, FreeAfter, Zenon
  <2> QED
    BY <2>2, <1>7
<1>9. FreeTo(<<q>> \o three, p) = <<p>> \o (<<q>> \o three)
  <2>1. <<q>> \o three \in Seq(Nat) /\ Len(<<q>> \o three) >= 1 /\ (<<q>> \o three)[1] = q
    BY <1>1, <1>5, <1>c
  <2>2. (<<q>> \o three)[1] < p
    BY <2>1, <1>1, <1>4
  <2> HIDE DEF three
  <2> QED
    BY <2>1, <2>2, <1>1, FreeFirst
<1>10. Head(four) = p
  BY <1>5
<1>11. /\ FreeTo(FreeTo(FreeTo(rest, p), q), r) = list
       /\ FreeTo(FreeTo(FreeTo(rest, q), r), p) = list
       /\ Head(FreeTo(rest, p)) = p
  <2>1. list = <<p>> \o (<<q>> \o three)
    BY <1>3 DEF three
  <2> QED
    BY <2>1, <1>6, <1>7, <1>8, <1>9, <1>10
<1> QED
  BY <1>11 DEF p, q, r, rest

LEMMA LowIs ==
    ASSUME NEW p \in Nat
    PROVE  Low(p) <=> p < PTPAGES
<1> DEFINE q == p \div PTPAGES
           r == p % PTPAGES
<1>1. r \in 0..PTPAGES-1 /\ q \in Nat /\ p = PTPAGES * q + r
  BY Division, Constant
<1>d. Low(p) <=> q = 0
  BY DEF Low, PDX
<1> HIDE DEF q, r
<1>2. q >= 1 => PTPAGES * q >= PTPAGES
  BY <1>1, Constant, AtLeastOnce
<1>3. q = 0 => p < PTPAGES
  BY <1>1, Constant
<1>4. q >= 1 => p >= PTPAGES
  BY <1>1, <1>2, Constant
<1> QED
  BY <1>1, <1>3, <1>4, <1>d, Constant

LEMMA ConsDescending ==
    ASSUME NEW list \in Seq(Nat), NEW p \in Nat, Descending(list), \A q \in Range(list) : q < p
    PROVE  Descending(<<p>> \o list)
<1> DEFINE l == <<p>> \o list
<1>1. /\ Len(l) = Len(list) + 1 /\ l[1] = p /\ Len(list) \in Nat
      /\ \A j \in 2..Len(list) + 1 : l[j] = list[j - 1]
  BY Consed, LenProperties
<1> HIDE DEF l
<1>2. ASSUME NEW j \in 1..Len(l), NEW k \in 1..Len(l), j < k PROVE l[j] > l[k]
  <2>1. k \in 2..Len(list) + 1 /\ k - 1 \in 1..Len(list) /\ l[k] = list[k - 1]
    BY <1>1, <1>2
  <2>2. CASE j = 1
    <3>1. list[k - 1] \in Range(list) /\ list[k - 1] \in Nat
      BY <2>1, Members
    <3> QED
      BY <2>1, <2>2, <3>1, <1>1
  <2>3. CASE j # 1
    <3>1. j - 1 \in 1..Len(list) /\ l[j] = list[j - 1] /\ j - 1 < k - 1
      BY <2>3, <1>1, <1>2
    <3> QED
      BY <2>1, <3>1 DEF Descending
  <2> QED
    BY <2>2, <2>3
<1> QED
  BY <1>2 DEF Descending, l

LEMMA AppendDescending ==
    ASSUME NEW list \in Seq(Nat), NEW p \in Nat, Descending(list), \A q \in Range(list) : q > p
    PROVE  Descending(Append(list, p))
<1> DEFINE l == Append(list, p)
<1>1. /\ Len(l) = Len(list) + 1 /\ l[Len(list) + 1] = p /\ Len(list) \in Nat
      /\ \A j \in 1..Len(list) : l[j] = list[j]
  BY Appended, LenProperties
<1> HIDE DEF l
<1>2. ASSUME NEW j \in 1..Len(l), NEW k \in 1..Len(l), j < k PROVE l[j] > l[k]
  <2>1. j \in 1..Len(list) /\ l[j] = list[j]
    BY <1>1, <1>2
  <2>2. CASE k = Len(list) + 1
    <3>1. list[j] \in Range(list)
      BY <2>1, Members
    <3> QED
      BY <2>1, <2>2, <3>1, <1>1
  <2>3. CASE k # Len(list) + 1
    <3>1. k \in 1..Len(list) /\ l[k] = list[k]
      BY <2>3, <1>1
    <3> QED
      BY <2>1, <3>1, <1>2 DEF Descending
  <2> QED
    BY <2>2, <2>3
<1> QED
  BY <1>2 DEF Descending, l

LEMMA JoinInOrder ==
    ASSUME NEW a \in Seq(Nat), NEW b \in Seq(Nat), Descending(a), Descending(b),
           \A p \in Range(a) : Low(p), \A p \in Range(b) : ~Low(p)
    PROVE  InOrder(a \o b)
<1> DEFINE l == a \o b
           n == Len(a)
<1>0. n \in Nat /\ Len(b) \in Nat
  BY LenProperties
<1>1. /\ Len(l) = n + Len(b) /\ n \in Nat /\ Len(b) \in Nat
      /\ \A j \in 1..n + Len(b) : l[j] = IF j <= n THEN a[j] ELSE b[j - n]
  BY <1>0, ConcatProperties, ZenonT(60)
<1> HIDE DEF l
<1>2. ASSUME NEW j \in 1..Len(l), NEW k \in 1..Len(l), j < k PROVE Earlier(l[j], l[k])
  <2>0. j \in 1..n + Len(b) /\ k \in 1..n + Len(b)
    BY <1>1
  <2> HIDE DEF n
  <2>1. CASE k <= n
    <3>1. j \in 1..n /\ k \in 1..n /\ j <= n
      BY <2>0, <2>1, <1>0, <1>1, <1>2
    <3>3. l[j] = a[j] /\ l[k] = a[k]
      BY <2>0, <2>1, <3>1, <1>1, Zenon
    <3>2. Low(a[j]) /\ Low(a[k])
      BY <3>1, Members DEF n
    <3> QED
      BY <3>1, <3>2, <3>3, <1>2 DEF Descending, Earlier, n
  <2>2. CASE j > n
    <3>0. /\ j - n \in 1..Len(b) /\ k - n \in 1..Len(b) /\ j - n < k - n
          /\ ~(j <= n) /\ ~(k <= n)
      BY <2>0, <2>2, <1>0, <1>1, <1>2
    <3>1. l[j] = b[j - n] /\ l[k] = b[k - n] /\ j - n \in 1..Len(b) /\ k - n \in 1..Len(b) /\ j - n < k - n
      BY <2>0, <3>0, <1>1, Zenon
    <3>2. ~Low(b[j - n]) /\ ~Low(b[k - n])
      BY <3>1, Members
    <3>3. b[j - n] > b[k - n]
      BY <3>1 DEF Descending
    <3> QED
      BY <3>1, <3>2, <3>3 DEF Earlier, Low
  <2>3. CASE j <= n /\ k > n
    <3>1. l[j] = a[j] /\ l[k] = b[k - n] /\ j \in 1..n /\ k - n \in 1..Len(b)
      BY <2>0, <2>3, <1>1
    <3>2. Low(a[j]) /\ ~Low(b[k - n])
      BY <3>1, Members DEF n
    <3> QED
      BY <3>1, <3>2 DEF Earlier
  <2> QED
    BY <2>1, <2>2, <2>3, <1>1, <1>2
<1> QED
  BY <1>2 DEF InOrder, l

(* The list without its first page. *)
LEMMA TailInOrder ==
    ASSUME NEW list \in Seq(Nat), InOrder(list), list # << >>
    PROVE  /\ Tail(list) \in Seq(Nat) /\ InOrder(Tail(list))
           /\ Head(list) \in Nat /\ Head(list) \in Range(list)
           /\ Range(Tail(list)) = Range(list) \ {Head(list)}
           /\ \A p \in Range(list) : p = Head(list) \/ Earlier(Head(list), p)
<1> DEFINE l == Tail(list)
           h == Head(list)
<1>1. /\ l \in Seq(Nat) /\ Len(l) = Len(list) - 1
      /\ \A j \in 1..Len(l) : l[j] = list[j + 1]
      /\ h \in Nat
  BY HeadTailProperties, Zenon
<1>2. Len(list) \in Nat /\ Len(list) >= 1 /\ h = list[1]
  <2>1. Len(list) \in Nat
    BY LenProperties
  <2>2. Len(list) # 0
    OBVIOUS
  <2>3. h = list[1]
    OBVIOUS
  <2> QED
    BY <2>1, <2>2, <2>3
<1> HIDE DEF l, h
<1>3. \A j \in 1..Len(l) : j + 1 \in 1..Len(list)
  BY <1>1, <1>2
<1>4. InOrder(l)
  <2> SUFFICES ASSUME NEW j \in 1..Len(l), NEW k \in 1..Len(l), j < k PROVE Earlier(l[j], l[k])
    BY DEF InOrder
  <2>1. j + 1 \in 1..Len(list) /\ k + 1 \in 1..Len(list) /\ j + 1 < k + 1
    BY <1>1, <1>2
  <2> QED
    BY <2>1, <1>1 DEF InOrder
<1>5. h \in Range(list)
  BY <1>2, Members
<1>6. ASSUME NEW j \in 1..Len(list), j # 1 PROVE Earlier(h, list[j]) /\ list[j] # h /\ list[j] \in Range(l)
  <2>1. Earlier(h, list[j])
    BY <1>2, <1>6 DEF InOrder
  <2>2. list[j] # h
    BY <2>1, <1>1 DEF Earlier
  <2>3. j - 1 \in 1..Len(l) /\ (j - 1) + 1 = j
    BY <1>1, <1>2, <1>6
  <2>4. l[j - 1] = list[j]
    BY <2>3, <1>1
  <2> QED
    BY <2>1, <2>2, <2>3, <2>4, <1>1, Members
<1>7. ASSUME NEW p \in Range(l) PROVE p \in Range(list) /\ p # h
  <2>1. PICK j \in 1..Len(l) : l[j] = p
    BY <1>1, Members
  <2>2. j + 1 \in 1..Len(list) /\ j + 1 # 1 /\ p = list[j + 1]
    BY <2>1, <1>1, <1>3
  <2> QED
    BY <2>2, <1>6, Members
<1>8. ASSUME NEW p \in Range(list), p # h PROVE p \in Range(l) /\ Earlier(h, p)
  <2>1. PICK j \in 1..Len(list) : list[j] = p
    BY Members
  <2> QED
    BY <2>1, <1>2, <1>6, <1>8
<1> QED
  BY <1>1, <1>4, <1>5, <1>7, <1>8 DEF l, h

-----------------------------------------------------------------------------
(* The machine and the regions *)

LEMMA TheMachine ==
    ASSUME npages \in Sizes, end \in KernelEnds
    PROVE  /\ npages \in Nat /\ end \in Nat /\ EXTPHYSMEM < end /\ end <= npages
           /\ npages <= (NPDENTRIES - KERNPDX) * PTPAGES
           /\ PagesSize(npages) \in Nat \ {0}
           /\ end + 1 + PagesSize(npages) + ENVPAGES <= PTPAGES
           /\ ENVPAGES <= PTPAGES /\ PagesSize(npages) <= PTPAGES
           /\ \A p \in 0..npages-1 : p \div PERPAGE \in 0..PagesSize(npages)-1
<1>1. /\ npages \in Nat /\ end \in Nat /\ Kstack(NCPU) <= end /\ end <= npages
      /\ npages <= (NPDENTRIES - KERNPDX) * PTPAGES
      /\ end + 1 + PagesSize(npages) + ENVPAGES <= PTPAGES
  BY MemoryAssumption
<1>2. EXTPHYSMEM < end
  <2>1. (NCPU + 1) * KSTKSIZE >= 0
    BY Constant
  <2>2. Kstack(NCPU) = EXTPHYSMEM + 1 + (NCPU + 1) * KSTKSIZE
    BY DEF Kstack, Bootstack, KernelCode
  <2>3. (NCPU + 1) * KSTKSIZE \in Int
    BY Constant
  <2> QED
    BY <2>1, <2>2, <2>3, <1>1, Constant
<1>3. ASSUME NEW p \in 0..npages-1
      PROVE  p \div PERPAGE \in Nat /\ p \div PERPAGE + 1 <= PagesSize(npages)
  <2> DEFINE q == p \div PERPAGE
             r == p % PERPAGE
             a == p + PERPAGE
             b == npages + PERPAGE - 1
  <2>0. p \in Nat
    BY <1>1
  <2>1. r \in 0..PERPAGE-1 /\ q \in Nat /\ p = PERPAGE * q + r /\ p \in Nat
    BY <2>0, Division, Constant
  <2> HIDE DEF q, r
  <2>2. a \in Nat /\ b \in Nat /\ a <= b
    BY <2>1, <1>1, Constant
  <2>3. a = PERPAGE * (q + 1) + r /\ q + 1 \in Nat
    <3>1. PERPAGE * (q + 1) = PERPAGE * q + PERPAGE
      BY <2>1, Constant
    <3> QED
      BY <3>1, <2>1, Constant
  <2> HIDE DEF a, b
  <2>4. a \div PERPAGE = q + 1
    <3> DEFINE d == q + 1
    <3>1. a = PERPAGE * d + r /\ d \in Nat
      BY <2>3
    <3> HIDE DEF d
    <3>2. a \div PERPAGE = d
      BY <2>1, <2>2, <3>1, QuotientOf, Constant
    <3> QED
      BY <3>2 DEF d
  <2>5. a \div PERPAGE <= b \div PERPAGE
    BY <2>2, Monotone, Constant
  <2>6. PagesSize(npages) = b \div PERPAGE
    BY DEF PagesSize, b
  <2> QED
    BY <2>1, <2>4, <2>5, <2>6 DEF q
<1>4. PagesSize(npages) \in Nat
  <2>1. npages + PERPAGE - 1 \in Nat
    BY <1>1, Constant
  <2> QED
    BY <2>1, Division, Constant DEF PagesSize
<1>5. PagesSize(npages) >= 1
  <2>1. 0 \in 0..npages-1
    BY <1>1, <1>2, Constant
  <2> QED
    BY <2>1, <1>3, <1>4
<1>6. \A p \in 0..npages-1 : p \div PERPAGE \in 0..PagesSize(npages)-1
  BY <1>3, <1>4
<1>7. ENVPAGES <= PTPAGES /\ PagesSize(npages) <= PTPAGES
  BY <1>1, <1>4, Constant
<1> QED
  BY <1>1, <1>2, <1>4, <1>5, <1>6, <1>7

LEMMA RegionsAre ==
    /\ 1 \in Calls /\ 2 \in Calls /\ 3 \in Calls /\ 4 \in Calls /\ 5 \in Calls
    /\ Regions[1] = Region(UPAGES, PTPAGES, pages, {"U"})
    /\ Regions[2] = Region(UENVS, ENVPAGES, envs, {"U"})
    /\ Regions[3] = Region(KSTACKTOP - KSTKSIZE, KSTKSIZE, Bootstack, {"W"})
    /\ Regions[4] = Region(KERNBASE, (NPDENTRIES - KERNPDX) * PTPAGES, 0, {"W"})
    /\ \A m \in Calls \ 1..4 :
          Regions[m] = Region(StackTop(m - 5) - KSTKSIZE, KSTKSIZE, Kstack(m - 5), {"W"})
    /\ \A m \in Calls \ 1..4 : m - 5 \in 0..NCPU-1
<1>1. 1 \in Calls /\ 2 \in Calls /\ 3 \in Calls /\ 4 \in Calls /\ 5 \in Calls
  BY Constant DEF Calls
<1>2. \A m \in Calls \ 1..4 : m - 5 \in 0..NCPU-1 /\ m # 1 /\ m # 2 /\ m # 3 /\ m # 4
  BY Constant DEF Calls
<1> QED
  BY <1>1, <1>2 DEF Regions

(* The place of a stack below KERNBASE. *)
Place(m)     == IF m = 3 THEN 0 ELSE m - 5
StackCalls   == Calls \ {1, 2, 4}
KstackGap    == KSTKSIZE + KSTKGAP

LEMMA StackRegion ==
    ASSUME NEW m \in StackCalls
    PROVE  /\ Place(m) \in 0..NCPU-1
           /\ Place(m) * KstackGap \in Nat
           /\ Place(m) * KstackGap + KSTKSIZE + KSTKGAP <= PTPAGES
           /\ Regions[m].va = KERNBASE - Place(m) * KstackGap - KSTKSIZE
           /\ Regions[m].size = KSTKSIZE /\ Regions[m].perm = {"W"}
<1>1. CASE m = 3
  <2>1. Place(m) = 0 /\ 0 \in 0..NCPU-1 /\ 0 * KstackGap = 0
    BY <1>1, Constant DEF Place, KstackGap
  <2>2. 0 * KstackGap + KSTKSIZE + KSTKGAP <= PTPAGES
    BY <2>1, StackAt DEF KstackGap
  <2>3. Regions[m] = Region(KERNBASE - KSTKSIZE, KSTKSIZE, Bootstack, {"W"})
    BY <1>1, RegionsAre, Bases
  <2>4. Regions[m].va = KERNBASE - KSTKSIZE /\ Regions[m].size = KSTKSIZE /\ Regions[m].perm = {"W"}
    BY <2>3 DEF Region
  <2>5. KERNBASE - 0 - KSTKSIZE = KERNBASE - KSTKSIZE
    BY Bases, Constant
  <2> QED
    BY <2>1, <2>2, <2>4, <2>5
<1>2. CASE m # 3
  <2>1. m \in Calls \ 1..4
    BY <1>2 DEF StackCalls, Calls
  <2>2. Place(m) = m - 5 /\ m - 5 \in 0..NCPU-1
    BY <1>2, <2>1, RegionsAre DEF Place
  <2>3. Regions[m] = Region(StackTop(m - 5) - KSTKSIZE, KSTKSIZE, Kstack(m - 5), {"W"})
    BY <2>1, RegionsAre
  <2>4. /\ (m - 5) * KstackGap \in Nat
        /\ (m - 5) * KstackGap + KSTKSIZE + KSTKGAP <= PTPAGES
        /\ StackTop(m - 5) = KERNBASE - (m - 5) * KstackGap
    BY <2>2, StackAt DEF KstackGap
  <2>5. /\ Regions[m].va = StackTop(m - 5) - KSTKSIZE
        /\ Regions[m].size = KSTKSIZE /\ Regions[m].perm = {"W"}
    BY <2>3 DEF Region
  <2> QED
    BY <2>2, <2>4, <2>5
<1> QED
  BY <1>1, <1>2

LEMMA RegionAt ==
    ASSUME ENVPAGES <= PTPAGES, NEW m \in Calls
    PROVE  /\ Regions[m].va \in Int /\ Regions[m].size \in Nat \ {0}
           /\ \A k \in Turns(m) :
                /\ Regions[m].va + k \in VAs /\ Regions[m].va + k >= UTOP
                /\ PDX(Regions[m].va + k) \in KERNPDX-5..NPDENTRIES-1
                /\ m = 1 => PDX(Regions[m].va + k) = KERNPDX - 4
                /\ m = 2 => PDX(Regions[m].va + k) = KERNPDX - 5
                /\ m = 4 => PDX(Regions[m].va + k) >= KERNPDX
                /\ m \in StackCalls => PDX(Regions[m].va + k) = KERNPDX - 1
<1> DEFINE Fine(va, x) ==
        /\ va \in VAs /\ va >= UTOP /\ PDX(va) = x /\ x \in KERNPDX-5..NPDENTRIES-1
<1>1. ASSUME NEW r \in 0..PTPAGES-1, NEW j \in 1..5
      PROVE  Fine(KERNBASE - j * PTPAGES + r, KERNPDX - j)
  <2>1. /\ KERNBASE - j * PTPAGES + r \in Nat
        /\ PDX(KERNBASE - j * PTPAGES + r) = KERNPDX - j
    BY Below
  <2>2. j * PTPAGES >= PTPAGES /\ j * PTPAGES <= 5 * PTPAGES
    <3>1. j = 1 \/ j = 2 \/ j = 3 \/ j = 4 \/ j = 5
      OBVIOUS
    <3> QED
      BY <3>1, Constant
  <2>3. KERNBASE - j * PTPAGES + r < NPDENTRIES * PTPAGES
    BY <2>1, <2>2, Bases, Constant
  <2>4. NPDENTRIES * PTPAGES \in Int
    BY Bases, Constant
  <2>5. KERNBASE - j * PTPAGES + r \in VAs
    BY <2>1, <2>3, <2>4 DEF VAs
  <2>6. KERNBASE - j * PTPAGES + r >= UTOP
    BY <2>1, <2>2, Bases, Constant DEF UTOP
  <2>7. KERNPDX - j \in KERNPDX-5..NPDENTRIES-1
    BY Constant
  <2> QED
    BY <2>1, <2>5, <2>6, <2>7
<1>2. CASE m = 1
  <2>1. Regions[m].va = KERNBASE - 4 * PTPAGES /\ Regions[m].size = PTPAGES
    BY <1>2, RegionsAre, Bases DEF Region
  <2>2. ASSUME NEW k \in Turns(m) PROVE Fine(Regions[m].va + k, KERNPDX - 4)
    <3>1. k \in 0..PTPAGES-1
      BY <2>1 DEF Turns
    <3> QED
      BY <3>1, <2>1, <1>1
  <2> QED
    BY <1>2, <2>1, <2>2, Bases, Constant DEF StackCalls
<1>3. CASE m = 2
  <2>1. Regions[m].va = KERNBASE - 5 * PTPAGES /\ Regions[m].size = ENVPAGES
    BY <1>3, RegionsAre, Bases DEF Region
  <2>2. ASSUME NEW k \in Turns(m) PROVE Fine(Regions[m].va + k, KERNPDX - 5)
    <3>1. k \in 0..PTPAGES-1
      BY <2>1, Constant DEF Turns
    <3> QED
      BY <3>1, <2>1, <1>1
  <2> QED
    BY <1>3, <2>1, <2>2, Bases, Constant DEF StackCalls
<1>4. CASE m = 4
  <2>1. Regions[m].va = KERNBASE /\ Regions[m].size = (NPDENTRIES - KERNPDX) * PTPAGES
    BY <1>4, RegionsAre DEF Region
  <2>2. ASSUME NEW k \in Turns(m)
        PROVE  /\ Regions[m].va + k \in VAs /\ Regions[m].va + k >= UTOP
               /\ PDX(Regions[m].va + k) \in KERNPDX..NPDENTRIES-1
    <3>1. k \in 0..(NPDENTRIES - KERNPDX) * PTPAGES - 1
      BY <2>1 DEF Turns
    <3>2. KERNBASE + k \in VAs /\ PDX(KERNBASE + k) \in KERNPDX..NPDENTRIES-1
      BY <3>1, Above
    <3>3. KERNBASE + k >= UTOP
      BY <3>1, Bases, Constant DEF UTOP
    <3> QED
      BY <3>2, <3>3, <2>1
  <2>3. ASSUME NEW x \in KERNPDX..NPDENTRIES-1 PROVE x \in KERNPDX-5..NPDENTRIES-1 /\ x >= KERNPDX
    BY Constant
  <2>4. (NPDENTRIES - KERNPDX) * PTPAGES \in Nat \ {0} /\ KERNBASE \in Int
    BY Bases, Constant
  <2> QED
    BY <1>4, <2>1, <2>2, <2>3, <2>4 DEF StackCalls
<1>5. CASE m \in StackCalls
  <2> DEFINE b == Place(m) * KstackGap
  <2>1. /\ b \in Nat /\ b + KSTKSIZE + KSTKGAP <= PTPAGES
        /\ Regions[m].va = KERNBASE - b - KSTKSIZE /\ Regions[m].size = KSTKSIZE
    BY <1>5, StackRegion
  <2> HIDE DEF b
  <2>2. ASSUME NEW k \in Turns(m) PROVE Fine(Regions[m].va + k, KERNPDX - 1)
    <3>1. PTPAGES - b - KSTKSIZE + k \in 0..PTPAGES-1
      BY <2>1, Constant DEF Turns
    <3>2. KERNBASE - 1 * PTPAGES + (PTPAGES - b - KSTKSIZE + k) = KERNBASE - b - KSTKSIZE + k
      BY <2>1, Bases, Constant DEF Turns
    <3>3. Fine(KERNBASE - 1 * PTPAGES + (PTPAGES - b - KSTKSIZE + k), KERNPDX - 1)
      BY <3>1, <1>1
    <3> QED
      BY <3>2, <3>3, <2>1
  <2> QED
    BY <1>5, <2>1, <2>2, Bases, Constant DEF StackCalls
<1>6. m = 1 \/ m = 2 \/ m = 4 \/ m \in StackCalls
  BY DEF StackCalls
<1> QED
  BY <1>2, <1>3, <1>4, <1>5, <1>6

(* No two regions overlap, but the stack of the first processor, twice. *)
LEMMA RegionsApart ==
    ASSUME ENVPAGES <= PTPAGES, NEW m \in Calls, NEW o \in Calls, m # o,
           NEW k \in Turns(m), NEW i \in Turns(o), Regions[m].va + k = Regions[o].va + i
    PROVE  k = i /\ {m, o} = {3, 5}
<1>1. m \in StackCalls /\ o \in StackCalls
  <2>1. PDX(Regions[m].va + k) = PDX(Regions[o].va + i) /\ PDX(Regions[m].va + k) \in Int
    BY RegionAt
  <2>2. m = 1 \/ m = 2 \/ m = 4 \/ m \in StackCalls
    BY DEF StackCalls
  <2>3. o = 1 \/ o = 2 \/ o = 4 \/ o \in StackCalls
    BY DEF StackCalls
  <2>4. ASSUME NEW n \in Calls, NEW j \in Turns(n)
        PROVE  /\ n = 1 => PDX(Regions[n].va + j) = KERNPDX - 4
               /\ n = 2 => PDX(Regions[n].va + j) = KERNPDX - 5
               /\ n = 4 => PDX(Regions[n].va + j) >= KERNPDX
               /\ n \in StackCalls => PDX(Regions[n].va + j) = KERNPDX - 1
    BY RegionAt
  <2> DEFINE x == PDX(Regions[m].va + k)
             y == PDX(Regions[o].va + i)
  <2>5. /\ m = 1 => x = KERNPDX - 4 
        /\ m = 2 => x = KERNPDX - 5
        /\ m = 4 => x >= KERNPDX
        /\ m \in StackCalls => x = KERNPDX - 1
    BY <2>4
  <2>6. /\ o = 1 => y = KERNPDX - 4 
        /\ o = 2 => y = KERNPDX - 5
        /\ o = 4 => y >= KERNPDX
        /\ o \in StackCalls => y = KERNPDX - 1
    BY <2>4
  <2>7. x = y /\ x \in Int
    BY <2>1
  <2> HIDE DEF x, y
  <2> QED
    BY <2>2, <2>3, <2>5, <2>6, <2>7, Constant
<1> DEFINE b == Place(m) * KstackGap
           c == Place(o) * KstackGap
<1>2. /\ Place(m) \in 0..NCPU-1 /\ b \in Nat
      /\ Regions[m].va = KERNBASE - b - KSTKSIZE /\ Regions[m].size = KSTKSIZE
  BY <1>1, StackRegion
<1>3. /\ Place(o) \in 0..NCPU-1 /\ c \in Nat
      /\ Regions[o].va = KERNBASE - c - KSTKSIZE /\ Regions[o].size = KSTKSIZE
  BY <1>1, StackRegion
<1>4. Place(m) < Place(o) => b + KSTKSIZE + KSTKGAP <= c
  BY <1>2, <1>3, StacksApart DEF KstackGap
<1>5. Place(o) < Place(m) => c + KSTKSIZE + KSTKGAP <= b
  BY <1>2, <1>3, StacksApart DEF KstackGap
<1>6. Place(m) = Place(o) => b = c
  OBVIOUS
<1> HIDE DEF b, c
<1>7. k \in 0..KSTKSIZE-1 /\ i \in 0..KSTKSIZE-1 /\ KERNBASE - b - KSTKSIZE + k = KERNBASE - c - KSTKSIZE + i
  BY <1>2, <1>3 DEF Turns
<1>8. ~(Place(m) < Place(o)) /\ ~(Place(o) < Place(m))
  BY <1>2, <1>3, <1>4, <1>5, <1>7, Bases, Constant
<1>9. Place(m) = Place(o)
  BY <1>2, <1>3, <1>8
<1>10. k = i
  BY <1>2, <1>3, <1>6, <1>7, <1>9, Bases, Constant
<1>11. {m, o} = {3, 5}
  <2>1. m \in Int /\ o \in Int
    BY DEF Calls
  <2>2. (m = 3 /\ o = 5) \/ (m = 5 /\ o = 3)
    BY <2>1, <1>9 DEF Place
  <2> QED
    BY <2>2
<1> QED
  BY <1>10, <1>11

(* The guard below each stack is in no region. *)
LEMMA GuardFree ==
    ASSUME ENVPAGES <= PTPAGES, NEW c \in 0..NCPU-1, NEW g \in 1..KSTKGAP
    PROVE  LET va == KSTACKTOP - c * (KSTKSIZE + KSTKGAP) - KSTKSIZE - g
           IN  va \in VAs /\ \A m \in Calls : \A k \in Turns(m) : va # Regions[m].va + k
<1> DEFINE b == c * KstackGap
           va == KSTACKTOP - c * (KSTKSIZE + KSTKGAP) - KSTKSIZE - g
<1>1. b \in Nat /\ b + KSTKSIZE + KSTKGAP <= PTPAGES
  BY StackAt DEF KstackGap
<1>2. va = KERNBASE - b - KSTKSIZE - g
  BY Bases DEF KstackGap
<1>b. \A m \in StackCalls :
         /\ Place(m) < c => Place(m) * KstackGap + KSTKSIZE + KSTKGAP <= b
         /\ c < Place(m) => b + KSTKSIZE + KSTKGAP <= Place(m) * KstackGap
         /\ c = Place(m) => Place(m) * KstackGap = b
  BY StacksApart, StackRegion DEF KstackGap
<1> HIDE DEF va, b
<1>3. PTPAGES - b - KSTKSIZE - g \in 0..PTPAGES-1
  BY <1>1, Constant
<1>4. va = KERNBASE - 1 * PTPAGES + (PTPAGES - b - KSTKSIZE - g)
  BY <1>1, <1>2, Bases, Constant
<1>5. va \in Nat /\ PDX(va) = KERNPDX - 1
  BY <1>3, <1>4, Below
<1>6. va \in VAs
  <2>1. va < NPDENTRIES * PTPAGES /\ NPDENTRIES * PTPAGES \in Int
    BY <1>1, <1>2, Bases, Constant
  <2> QED
    BY <2>1, <1>5 DEF VAs
<1>7. ASSUME NEW m \in Calls, NEW k \in Turns(m), va = Regions[m].va + k PROVE FALSE
  <2>1. m \in StackCalls
    <3>1. m = 1 \/ m = 2 \/ m = 4 \/ m \in StackCalls
      BY DEF StackCalls
    <3>2. /\ m = 1 => PDX(va) = KERNPDX - 4
          /\ m = 2 => PDX(va) = KERNPDX - 5
          /\ m = 4 => PDX(va) >= KERNPDX
      BY <1>7, RegionAt
    <3> QED
      BY <3>1, <3>2, <1>5, Constant
  <2> DEFINE d == Place(m) * KstackGap
  <2>2. /\ Place(m) \in 0..NCPU-1 /\ d \in Nat
        /\ Regions[m].va = KERNBASE - d - KSTKSIZE /\ Regions[m].size = KSTKSIZE
    BY <2>1, StackRegion
  <2>3. /\ Place(m) < c => d + KSTKSIZE + KSTKGAP <= b
        /\ c < Place(m) => b + KSTKSIZE + KSTKGAP <= d
        /\ c = Place(m) => d = b
    BY <2>1, <1>b
  <2> HIDE DEF d
  <2>4. k \in 0..KSTKSIZE-1
    BY <2>2 DEF Turns
  <2>5. KERNBASE - b - KSTKSIZE - g = KERNBASE - d - KSTKSIZE + k
    BY <1>2, <1>7, <2>2
  <2>6. Place(m) < c \/ c < Place(m) \/ c = Place(m)
    BY <2>2
  <2> QED
    BY <1>1, <2>2, <2>3, <2>4, <2>5, <2>6, Bases, Constant
<1> QED
  BY <1>6, <1>7 DEF va

-----------------------------------------------------------------------------
(* There are always low pages left *)

LEMMA FewTables ==
    ASSUME pgdir \in [0..NPDENTRIES-1 -> Int],
           \A x \in 0..NPDENTRIES-1 : pgdir[x] # NoPage => x >= KERNPDX - 5
    PROVE  IsFiniteSet(PageTables) /\ Cardinality(PageTables) <= NPDENTRIES - KERNPDX + 5
<1> DEFINE places == KERNPDX-5..NPDENTRIES-1
           found  == {pgdir[x] : x \in places}
           f      == [x \in places |-> pgdir[x]]
<1>1. KERNPDX - 5 \in Int /\ NPDENTRIES - 1 \in Int /\ KERNPDX - 5 <= NPDENTRIES - 1
  BY Constant
<1>2. IsFiniteSet(places) /\ Cardinality(places) = NPDENTRIES - KERNPDX + 5
  <2>1. /\ IsFiniteSet(places)
        /\ Cardinality(places) = IF KERNPDX - 5 > NPDENTRIES - 1 THEN 0
                                 ELSE NPDENTRIES - 1 - (KERNPDX - 5) + 1
    BY <1>1, FS_Interval
  <2> QED
    BY <2>1, <1>1, Constant
<1>3. f \in Surjection(places, found)
  BY DEF Surjection
<1>4. IsFiniteSet(found) /\ Cardinality(found) <= Cardinality(places)
  <2> HIDE DEF f, found, places
  <2> QED
    BY <1>2, <1>3, FS_Surjection
<1>5. PageTables \subseteq found
  <2> SUFFICES ASSUME NEW x \in 0..NPDENTRIES-1, pgdir[x] # NoPage PROVE x \in places
    BY DEF PageTables
  <2> QED
    BY Constant
<1> HIDE DEF found, places
<1>6. /\ IsFiniteSet(PageTables) /\ Cardinality(PageTables) <= Cardinality(found)
      /\ Cardinality(PageTables) \in Nat /\ Cardinality(found) \in Nat
  BY <1>4, <1>5, FS_Subset, FS_CardinalityType
<1> QED
  BY <1>2, <1>4, <1>6, Constant

(* What page_init() finds below the hole. *)
Conventional == (1..IOPHYSMEM-1) \ {MPENTRY}

LEMMA LowsLeft ==
    ASSUME LowPages, pgdir \in [0..NPDENTRIES-1 -> Int],
           \A x \in 0..NPDENTRIES-1 : pgdir[x] # NoPage => x >= KERNPDX - 5
    PROVE  IsFiniteSet(Conventional \ PageTables) /\ Cardinality(Conventional \ PageTables) >= 4
<1> DEFINE all == 1..IOPHYSMEM-1
           c   == Conventional
           t   == PageTables
<1>1. IsFiniteSet(all) /\ Cardinality(all) = IOPHYSMEM - 1
  <2>1. /\ IsFiniteSet(all)
        /\ Cardinality(all) = IF 1 > IOPHYSMEM - 1 THEN 0 ELSE IOPHYSMEM - 1 - 1 + 1
    BY Constant, FS_Interval
  <2> QED
    BY <2>1, Constant
<1>2. MPENTRY \in all
  BY Constant
<1>3. IsFiniteSet(c) /\ Cardinality(c) = IOPHYSMEM - 2
  <2> HIDE DEF all
  <2>1. IsFiniteSet(all \ {MPENTRY}) /\ Cardinality(all \ {MPENTRY}) = Cardinality(all) - 1
    BY <1>1, <1>2, FS_RemoveElement
  <2>2. c = all \ {MPENTRY}
    BY DEF Conventional, all
  <2> QED
    BY <2>1, <2>2, <1>1, Constant
<1>4. IsFiniteSet(t) /\ Cardinality(t) <= NPDENTRIES - KERNPDX + 5
  BY FewTables
<1> HIDE DEF c, t
<1>5. IsFiniteSet(c \ t) /\ Cardinality(c \ t) = Cardinality(c) - Cardinality(c \cap t)
  BY <1>3, FS_Difference
<1>6. IsFiniteSet(c \cap t) /\ Cardinality(c \cap t) <= Cardinality(t)
  <2>1. c \cap t \in SUBSET t
    OBVIOUS
  <2> QED
    BY <2>1, <1>4, FS_Subset
<1>7. Cardinality(c \cap t) \in Nat /\ Cardinality(t) \in Nat
  BY <1>4, <1>6, FS_CardinalityType
<1>8. Cardinality(c \ t) >= 4
  BY <1>3, <1>4, <1>5, <1>6, <1>7, Constant DEF LowPages
<1> QED
  BY <1>5, <1>8 DEF c, t

LEMMA FourLow ==
    ASSUME NEW low, IsFiniteSet(low), Cardinality(low) >= 4,
           NEW list \in Seq(Nat), InOrder(list), low \subseteq Range(list), \A p \in low : Low(p)
    PROVE  /\ Len(list) >= 4 /\ \A j \in 1..4 : Low(list[j])
           /\ list[1] > list[2] /\ list[2] > list[3] /\ list[3] > list[4]
<1> DEFINE one   == {list[1]}
           two   == one \cup {list[2]}
           three == two \cup {list[3]}
<1>1. IsFiniteSet(three) /\ Cardinality(three) <= 3 /\ Cardinality(three) \in Nat
  <2>1. IsFiniteSet(one) /\ Cardinality(one) = 1
    BY FS_Singleton
  <2> HIDE DEF one
  <2>2. IsFiniteSet(two) /\ Cardinality(two) <= 2 /\ Cardinality(two) \in Nat
    <3>1. /\ IsFiniteSet(two)
          /\ Cardinality(two) = IF list[2] \in one THEN Cardinality(one) ELSE Cardinality(one) + 1
      BY <2>1, FS_AddElement
    <3> QED
      BY <2>1, <3>1
  <2> HIDE DEF two
  <2>3. /\ IsFiniteSet(three)
        /\ Cardinality(three) = IF list[3] \in two THEN Cardinality(two) ELSE Cardinality(two) + 1
    BY <2>2, FS_AddElement
  <2> QED
    BY <2>2, <2>3
<1>2. PICK p \in low : p \notin three
  <2> HIDE DEF three
  <2>1. low \subseteq three => Cardinality(low) <= Cardinality(three) /\ Cardinality(low) \in Nat
    BY <1>1, FS_Subset, FS_CardinalityType
  <2> QED
    BY <1>1, <2>1
<1>3. PICK j \in 1..Len(list) : list[j] = p
  BY Members
<1>4. Len(list) \in Nat /\ j >= 4
  BY <1>2, <1>3, LenProperties
<1>5. ASSUME NEW i \in 1..4 PROVE Low(list[i])
  <2>1. CASE i = j
    BY <2>1, <1>3
  <2>2. CASE i # j
    <3>1. i \in 1..Len(list) /\ i < j
      BY <2>2, <1>3, <1>4
    <3>2. Earlier(list[i], list[j]) /\ Low(list[j])
      BY <3>1, <1>3 DEF InOrder
    <3> QED
      BY <3>2 DEF Earlier, Low
  <2> QED
    BY <2>1, <2>2
<1>6. ASSUME NEW i \in 1..3 PROVE list[i] > list[i + 1]
  <2>1. i \in 1..Len(list) /\ i + 1 \in 1..Len(list) /\ i < i + 1 /\ i \in 1..4 /\ i + 1 \in 1..4
    BY <1>4
  <2>2. Earlier(list[i], list[i + 1])
    BY <2>1 DEF InOrder
  <2>3. Low(list[i]) /\ Low(list[i + 1])
    BY <2>1, <1>5
  <2> QED
    BY <2>2, <2>3 DEF Earlier, Low
<1>7. list[1] > list[1 + 1] /\ list[2] > list[2 + 1] /\ list[3] > list[3 + 1]
  BY <1>6
<1> QED
  BY <1>4, <1>5, <1>7

-----------------------------------------------------------------------------
(* The invariant *)

LEMMA MemoryFacts ==
    ASSUME MemoryInv
    PROVE  /\ npages \in Nat /\ end \in Nat /\ EXTPHYSMEM < end /\ end <= npages
           /\ npages <= (NPDENTRIES - KERNPDX) * PTPAGES
           /\ PagesSize(npages) \in Nat \ {0}
           /\ end + 1 + PagesSize(npages) + ENVPAGES <= PTPAGES
           /\ ENVPAGES <= PTPAGES /\ PagesSize(npages) <= PTPAGES
           /\ \A p \in 0..npages-1 : p \div PERPAGE \in 0..PagesSize(npages)-1
  BY TheMachine, Zenon DEF MemoryInv, StartTypes

LEMMA InitMemory == StartInit => MemoryInv
<1> SUFFICES ASSUME StartInit PROVE MemoryInv
  OBVIOUS
<1> USE DEF StartInit
<1>0. /\ npages \in Nat /\ end \in Nat /\ end <= npages /\ EXTPHYSMEM < end
  BY TheMachine
<1>1. StartTypes
  <2>1. turn \in Nat /\ call \in 1..5+NCPU /\ nextfree \in end..npages
    BY <1>0, Constant
  <2>2. ref \in [0..npages-1 -> {0, 1}]
    OBVIOUS
  <2>3. first_list \in Seq(0..npages-1) /\ << >> \in Seq(0..npages-1)
    OBVIOUS
  <2>4. halves \in [{"low", "high"} -> Seq(0..npages-1)]
    BY <2>3
  <2>5. pgdir \in [0..NPDENTRIES-1 -> {NoPage} \cup 0..npages-1]
    OBVIOUS
  <2>6. entry \in [VAs -> [pa : Int, perm : SUBSET {"U", "W"}]]
    <3>1. NoEntry \in [pa : Int, perm : SUBSET {"U", "W"}]
      BY DEF NoEntry, NoPage
    <3> QED
      BY <3>1
  <2> QED
    BY <2>1, <2>2, <2>3, <2>4, <2>5, <2>6 DEF StartTypes, StartTypeOK, Boots
<1>2. Arrays
  BY DEF Arrays, Listed, Sorted, Maps
<1>3. Directory
  BY DEF Directory, Maps
<1>4. Lists
  BY DEF Lists, Boots, Sorted, Maps
<1>5. Entries
  BY DEF Entries, Maps
<1>6. Stores
  BY DEF Stores
<1> QED
  BY <1>1, <1>2, <1>3, <1>4, <1>5, <1>6 DEF MemoryInv

LEMMA PanicStep ==
    ASSUME MemoryInv, ip \notin {"check_installed", "done"}, Panic
    PROVE  MemoryInv'
<1> USE DEF MemoryInv, Panic, machine, arrays, pool, tables
<1>1. StartTypes'
  BY DEF StartTypes, StartTypeOK
<1>2. Arrays'
  BY DEF Arrays, Listed, Sorted, Maps
<1>3. Directory'
  BY DEF Directory, Maps
<1>4. Lists'
  BY DEF Lists, Boots, Sorted, Maps
<1>5. Entries'
  BY DEF Entries, Maps
<1>6. Stores'
  BY DEF Stores
<1> QED
  BY <1>1, <1>2, <1>3, <1>4, <1>5, <1>6

LEMMA AllocPgdirStep ==
    ASSUME MemoryInv, AllocPgdir
    PROVE  MemoryInv'
<1> USE DEF AllocPgdir, BootAlloc, machine, pool
<1>0. /\ npages \in Nat /\ end \in Nat /\ end <= npages /\ end + 1 <= PTPAGES
      /\ nextfree = end /\ ip = "pgdir" /\ PTPAGES \in Nat
  <2>1. nextfree = end /\ ip = "pgdir"
    BY DEF MemoryInv, Arrays
  <2>2. /\ npages \in Nat /\ end \in Nat /\ end <= npages /\ PagesSize(npages) \in Nat
        /\ end + 1 + PagesSize(npages) + ENVPAGES <= PTPAGES
    BY MemoryFacts
  <2> QED
    BY <2>1, <2>2, Constant
<1>p. PDX(UVPT) = KERNPDX - 3
  <2>1. PDX(KERNBASE - 3 * PTPAGES + 0) = KERNPDX - 3
    BY Below, Constant
  <2>2. KERNBASE - 3 * PTPAGES + 0 = UVPT
    BY Bases, Constant
  <2> QED
    BY <2>1, <2>2
<1>1. StartTypes'
  <2>1. nextfree' \in end'..npages'
    BY <1>0
  <2>2. nextfree \in 0..npages-1
    BY <1>0
  <2>3. pgdir' \in [0..NPDENTRIES-1 -> {NoPage} \cup 0..npages'-1]
    BY <2>2 DEF MemoryInv, StartTypes, StartTypeOK
  <2> QED
    BY <2>1, <2>3 DEF MemoryInv, StartTypes, StartTypeOK, Boots, Listed, Sorted, Maps
<1>2. Arrays'
  BY <1>0 DEF MemoryInv, Arrays, Listed, Sorted, Maps
<1>3. Directory'
  <2>1. pgdir \in [0..NPDENTRIES-1 -> {NoPage} \cup 0..npages-1]
    BY DEF MemoryInv, StartTypes, StartTypeOK
  <2>2. \A x \in 0..NPDENTRIES-1 : pgdir[x] = NoPage
    BY <1>0 DEF MemoryInv, Directory
  <2>3. KERNPDX - 3 \in 0..NPDENTRIES-1
    BY Constant
  <2>4. \A x \in 0..NPDENTRIES-1 : pgdir'[x] = IF x = KERNPDX - 3 THEN kern_pgdir' ELSE NoPage
    BY <1>p, <2>1, <2>2, <2>3
  <2>5. KERNPDX - 3 >= KERNPDX - 5 /\ kern_pgdir' < PTPAGES
    BY <1>0, Constant
  <2>6. ip' = "pages"
    OBVIOUS
  <2> QED
    BY <2>4, <2>5, <2>6 DEF Directory
<1>4. Lists'
  BY <1>0 DEF MemoryInv, Lists, Boots, Sorted, Maps
<1>5. Entries'
  BY <1>0 DEF MemoryInv, Entries, Maps
<1>6. Stores'
  BY <1>0 DEF Stores
<1> QED
  BY <1>1, <1>2, <1>3, <1>4, <1>5, <1>6 DEF MemoryInv

LEMMA AllocPagesStep ==
    ASSUME MemoryInv, AllocPages
    PROVE  MemoryInv'
<1> USE DEF AllocPages, BootAlloc, machine, pool, tables
<1>0. /\ npages \in Nat /\ end \in Nat /\ PagesSize(npages) \in Nat /\ PTPAGES \in Nat
      /\ end + 1 + PagesSize(npages) <= PTPAGES
      /\ nextfree = end + 1 /\ kern_pgdir = end /\ ip = "pages"
  BY MemoryFacts, Constant DEF MemoryInv, Arrays
<1> DEFINE n == PagesSize(npages)
<1>n. n \in Nat /\ end + 1 + n <= PTPAGES /\ nextfree + n < npages
      /\ nextfree' = nextfree + n /\ stored' = nextfree..nextfree+n-1 /\ n = PagesSize(npages)
  BY <1>0
<1> HIDE DEF n
<1>1. StartTypes'
  <2>1. nextfree' \in end'..npages'
    BY <1>0, <1>n
  <2> QED
    BY <2>1 DEF MemoryInv, StartTypes, StartTypeOK, Boots, Listed, Sorted, Maps
<1>2. Arrays'
  <2>1. nextfree' = end' + 1 + PagesSize(npages')
    BY <1>0, <1>n
  <2> QED
    BY <1>0, <2>1 DEF MemoryInv, Arrays, Listed, Sorted, Maps
<1>3. Directory'
  BY <1>0 DEF MemoryInv, Directory, Maps
<1>4. Lists'
  BY <1>0 DEF MemoryInv, Lists, Boots, Sorted, Maps
<1>5. Entries'
  BY <1>0 DEF MemoryInv, Entries, Maps
<1>6. Stores'
  BY <1>0, <1>n DEF MemoryInv, Stores
<1> QED
  BY <1>1, <1>2, <1>3, <1>4, <1>5, <1>6 DEF MemoryInv

LEMMA AllocEnvsStep ==
    ASSUME MemoryInv, AllocEnvs
    PROVE  MemoryInv'
<1> USE DEF AllocEnvs, BootAlloc, machine, pool, tables
<1>0. /\ npages \in Nat /\ end \in Nat /\ PagesSize(npages) \in Nat /\ PTPAGES \in Nat /\ ENVPAGES \in Nat
      /\ end + 1 + PagesSize(npages) + ENVPAGES <= PTPAGES
      /\ nextfree = end + 1 + PagesSize(npages) /\ kern_pgdir = end /\ pages = end + 1 /\ ip = "envs"
  BY MemoryFacts, Constant DEF MemoryInv, Arrays
<1> DEFINE n == PagesSize(npages)
<1>n. /\ n \in Nat /\ end + 1 + n + ENVPAGES <= PTPAGES /\ nextfree + ENVPAGES < npages
      /\ nextfree' = nextfree + ENVPAGES /\ stored' = nextfree..nextfree+ENVPAGES-1
      /\ envs' = nextfree /\ nextfree = end + 1 + n
  BY <1>0
<1> HIDE DEF n
<1>1. StartTypes'
  <2>1. nextfree' \in end'..npages'
    BY <1>0, <1>n
  <2> QED
    BY <2>1 DEF MemoryInv, StartTypes, StartTypeOK, Boots, Listed, Sorted, Maps
<1>2. Arrays'
  BY <1>0 DEF MemoryInv, Arrays, Listed, Sorted, Maps
<1>3. Directory'
  BY <1>0 DEF MemoryInv, Directory, Maps
<1>4. Lists'
  <2>1. ip' = "page_init" /\ turn' = 0 /\ first_list' = << >>
    BY <1>0 DEF MemoryInv, Lists, Boots
  <2>2. halves' = [h \in {"low", "high"} |-> << >>]
    BY <1>0 DEF MemoryInv, Lists, Boots
  <2>3. Range(first_list') = {} /\ Descending(first_list')
    BY <2>1 DEF Range, Descending
  <2>4. \A p \in 0..turn'-1 : FALSE
    BY <2>1
  <2> QED
    BY <2>1, <2>2, <2>3, <2>4, <1>0 DEF Lists, Boots, Sorted, Maps
<1>5. Entries'
  BY <1>0 DEF MemoryInv, Entries, Maps
<1>6. Stores'
  <2>1. \A p \in stored' : p \in 0..PTPAGES-1 /\ p \in 0..npages-1
    BY <1>0, <1>n
  <2> QED
    BY <1>0, <2>1 DEF MemoryInv, Stores
<1> QED
  BY <1>1, <1>2, <1>3, <1>4, <1>5, <1>6 DEF MemoryInv

LEMMA ListedFacts ==
    ASSUME MemoryInv, ip \in Listed
    PROVE  /\ kern_pgdir = end /\ pages = end + 1 /\ envs = end + 1 + PagesSize(npages)
           /\ nextfree = end + 1 + PagesSize(npages) + ENVPAGES
           /\ nextfree \in Nat /\ nextfree <= PTPAGES /\ nextfree <= npages
           /\ IOPHYSMEM < nextfree /\ EXTPHYSMEM < nextfree
<1>1. /\ kern_pgdir = end /\ pages = end + 1 /\ envs = end + 1 + PagesSize(npages)
      /\ nextfree = envs + ENVPAGES
  BY DEF MemoryInv, Arrays
<1>2. nextfree \in end..npages
  BY DEF MemoryInv, StartTypes, StartTypeOK
<1> QED
  BY <1>1, <1>2, MemoryFacts, Constant

LEMMA InfoIs ==
    ASSUME MemoryInv, ip \in Listed, NEW p \in 0..npages-1
    PROVE  Info(p) \in 0..PTPAGES-1 /\ Info(p) \in 0..npages-1
<1>1. p \div PERPAGE \in 0..PagesSize(npages)-1
  BY MemoryFacts
<1>2. /\ pages = end + 1 /\ end \in Nat /\ PagesSize(npages) \in Nat /\ npages \in Nat
      /\ nextfree = end + 1 + PagesSize(npages) + ENVPAGES
      /\ nextfree \in Nat /\ nextfree <= PTPAGES /\ nextfree <= npages
  BY MemoryFacts, ListedFacts
<1> DEFINE q == p \div PERPAGE
           n == PagesSize(npages)
<1>3. q \in 0..n-1 /\ n \in Nat /\ nextfree = end + 1 + n + ENVPAGES
  BY <1>1, <1>2
<1>4. Info(p) = pages + q
  BY DEF Info
<1> HIDE DEF q, n
<1> QED
  BY <1>2, <1>3, <1>4, Constant

LEMMA PageInitStep ==
    ASSUME MemoryInv, PageInit
    PROVE  MemoryInv'
<1> USE DEF PageInit, machine, arrays, tables
<1>0. npages \in Nat /\ turn \in Nat /\ turn < npages /\ turn \in 0..npages-1 /\ ip = "page_init"
  BY MemoryFacts DEF MemoryInv, StartTypes, StartTypeOK
<1>l. ip \in Listed
  BY <1>0 DEF Listed
<1>i. \A p : InUse(p)' = InUse(p)
  BY DEF InUse
<1>L. /\ Descending(first_list) /\ first_list \in Seq(0..npages-1)
      /\ Range(first_list) = {p \in 0..turn-1 : ~InUse(p)}
      /\ \A p \in 0..turn-1 : ref[p] = 0 <=> ~InUse(p)
      /\ ref \in [0..npages-1 -> {0, 1}]
  BY <1>0 DEF MemoryInv, Lists, StartTypes, StartTypeOK
<1>s. first_list \in Seq(Nat)
  BY <1>0, <1>L
<1>1. StartTypes'
  <2>1. first_list' \in Seq(0..npages-1)
    <3>1. CASE InUse(turn)
      BY <3>1, <1>L
    <3>2. CASE ~InUse(turn)
      BY <3>2, <1>L, <1>0, Consed
    <3> QED
      BY <3>1, <3>2
  <2>2. ref' \in [0..npages-1 -> {0, 1}]
    BY <1>L
  <2>3. turn' \in Nat
    BY <1>0
  <2> QED
    BY <2>1, <2>2, <2>3 DEF MemoryInv, StartTypes, StartTypeOK
<1>2. Arrays'
  BY DEF MemoryInv, Arrays
<1>3. Directory'
  BY DEF MemoryInv, Directory
<1>4. Lists'
  <2>1. turn' = turn + 1 /\ turn' <= npages
    BY <1>0
  <2>2. Descending(first_list')
    <3>1. CASE InUse(turn)
      BY <3>1, <1>L
    <3>2. CASE ~InUse(turn)
      <4>1. \A q \in Range(first_list) : q < turn
        BY <1>0, <1>L
      <4> QED
        BY <3>2, <4>1, <1>0, <1>L, <1>s, ConsDescending
    <3> QED
      BY <3>1, <3>2
  <2>3. Range(first_list') = {p \in 0..turn'-1 : ~InUse(p)}
    <3>1. CASE InUse(turn)
      <4>1. first_list' = first_list
        BY <3>1
      <4>2. \A p \in 0..turn : ~InUse(p) => p \in 0..turn-1
        BY <3>1, <1>0
      <4>3. {p \in 0..turn'-1 : ~InUse(p)} = {p \in 0..turn-1 : ~InUse(p)}
        BY <4>2, <2>1, <1>0
      <4> QED
        BY <4>1, <4>3, <1>L
    <3>2. CASE ~InUse(turn)
      <4>1. Range(first_list') = {turn} \cup Range(first_list)
        BY <3>2, <1>0, <1>L, Consed
      <4>2. {p \in 0..turn'-1 : ~InUse(p)} = {turn} \cup {p \in 0..turn-1 : ~InUse(p)}
        BY <3>2, <2>1, <1>0
      <4> QED
        BY <4>1, <4>2, <1>L
    <3> QED
      BY <3>1, <3>2
  <2>4. \A p \in 0..turn'-1 : ref'[p] = 0 <=> ~InUse(p)
    <3> SUFFICES ASSUME NEW p \in 0..turn PROVE ref'[p] = 0 <=> ~InUse(p)
      BY <2>1, <1>0
    <3>1. CASE p = turn
      BY <3>1, <1>0, <1>L
    <3>2. CASE p # turn
      <4>1. p \in 0..turn-1 /\ ref'[p] = ref[p]
        BY <3>2, <1>0, <1>L
      <4> QED
        BY <4>1, <1>L
    <3> QED
      BY <3>1, <3>2
  <2>5. halves' = [h \in {"low", "high"} |-> << >>]
    BY <1>0 DEF MemoryInv, Lists
  <2>6. ip' = "page_init" /\ npages' = npages
    BY <1>0
  <2>7. Range(first_list') = {p \in 0..turn'-1 : ~InUse(p)'} /\ \A p \in 0..turn'-1 : ref'[p] = 0 <=> ~InUse(p)'
    BY <2>3, <2>4, <1>i
  <2> QED
    BY <2>1, <2>2, <2>5, <2>6, <2>7 DEF Lists, Boots, Sorted, Maps
<1>5. Entries'
  BY <1>0 DEF MemoryInv, Entries, Maps
<1>6. Stores'
  BY <1>0, <1>l, InfoIs DEF Stores
<1> QED
  BY <1>1, <1>2, <1>3, <1>4, <1>5, <1>6 DEF MemoryInv

LEMMA PageInitEndStep ==
    ASSUME MemoryInv, PageInitEnd
    PROVE  MemoryInv'
<1> USE DEF PageInitEnd, machine, arrays, pool, tables
<1>0. npages \in Nat /\ turn = npages /\ ip = "page_init" /\ ip' = "low_first"
  BY MemoryFacts
<1>i. \A p : InUse(p)' = InUse(p)
  BY DEF InUse
<1>1. StartTypes'
  BY <1>0 DEF MemoryInv, StartTypes, StartTypeOK, Boots, Listed, Sorted, Maps
<1>2. Arrays'
  BY <1>0 DEF MemoryInv, Arrays, Listed, Sorted, Maps
<1>3. Directory'
  BY <1>0 DEF MemoryInv, Directory, Maps
<1>4. Lists'
  <2>1. /\ Descending(first_list) /\ first_list \in Seq(0..npages-1)
        /\ Range(first_list) = {p \in 0..npages-1 : ~InUse(p)}
        /\ \A p \in 0..npages-1 : ref[p] = 0 <=> ~InUse(p)
        /\ halves = [h \in {"low", "high"} |-> << >>]
    BY <1>0 DEF MemoryInv, Lists, StartTypes, StartTypeOK
  <2>2. turn' = 0 /\ 0 <= Len(first_list)
    BY <2>1, LenProperties
  <2>3. ASSUME NEW h \in {"low", "high"}
        PROVE  /\ Descending(halves[h])
               /\ Range(halves[h]) = HalfOf(first_list, 0, h)
    <3>1. halves[h] = << >>
      BY <2>1
    <3>2. Descending(<< >>) /\ Range(<< >>) = {}
      BY DEF Descending, Range
    <3>3. HalfOf(first_list, 0, h) = {}
      BY DEF HalfOf
    <3> QED
      BY <3>1, <3>2, <3>3
  <2>5. Range(first_list) = {p \in 0..npages-1 : ~InUse(p)'} /\ \A p \in 0..npages-1 : ref[p] = 0 <=> ~InUse(p)'
    BY <2>1, <1>i
  <2>6. first_list' = first_list /\ ref' = ref /\ halves' = halves /\ npages' = npages
    OBVIOUS
  <2> HIDE DEF PageInitEnd
  <2>7. \A h \in {"low", "high"} :
          /\ Descending(halves'[h])
          /\ Range(halves'[h]) = HalfOf(first_list', turn', h)
    BY <2>2, <2>3, <2>6
  <2> QED
    BY <2>1, <2>2, <2>5, <2>6, <2>7, <1>0 DEF Lists, Boots, Sorted, Maps
<1>5. Entries'
  BY <1>0 DEF MemoryInv, Entries, Maps
<1>6. Stores'
  BY DEF Stores
<1> QED
  BY <1>1, <1>2, <1>3, <1>4, <1>5, <1>6 DEF MemoryInv

LEMMA LinkIs ==
    ASSUME MemoryInv, ip \in Listed, NEW list \in Seq(0..npages-1)
    PROVE  Link(list) \subseteq 0..PTPAGES-1 /\ Link(list) \subseteq 0..npages-1
<1>1. CASE list = << >>
  BY <1>1 DEF Link
<1>2. CASE list # << >>
  <2>1. Len(list) \in Nat /\ Len(list) # 0
    BY <1>2, LenProperties
  <2>2. Len(list) \in 1..Len(list)
    BY <2>1
  <2>3. list[Len(list)] \in 0..npages-1
    BY <2>2, Members
  <2>4. Link(list) = {Info(list[Len(list)])}
    BY <1>2 DEF Link
  <2>5. Info(list[Len(list)]) \in 0..PTPAGES-1 /\ Info(list[Len(list)]) \in 0..npages-1
    BY <2>3, InfoIs
  <2> QED
    BY <2>4, <2>5
<1> QED
  BY <1>1, <1>2

(* A turn of the loop, for one of the two lists. *)
LEMMA TakenApart ==
    ASSUME NEW list \in Seq(Nat), Descending(list), NEW t \in Nat, t < Len(list),
           NEW half, NEW taken \in Seq(Nat), Descending(taken),
           Range(taken) = HalfOf(list, t, half),
           NEW more, more = IF Half(list[t + 1]) = half THEN Append(taken, list[t + 1]) ELSE taken
    PROVE  /\ Descending(more)
           /\ Range(more) = HalfOf(list, t + 1, half)
<1> DEFINE a == {i \in 1..t : Half(list[i]) = half}
           b == {i \in 1..t+1 : Half(list[i]) = half}
<1>0. HalfOf(list, t, half) = {list[j] : j \in a} /\ HalfOf(list, t + 1, half) = {list[j] : j \in b}
  BY DEF HalfOf
<1>1. Len(list) \in Nat /\ t + 1 \in 1..Len(list) /\ list[t + 1] \in Nat
  BY LenProperties, Members
<1>2. CASE Half(list[t + 1]) = half
  <2>1. b = a \cup {t + 1}
    BY <1>2
  <2>2. Range(more) = Range(taken) \cup {list[t + 1]}
    BY <1>1, <1>2, Appended
  <2>3. ASSUME NEW q \in Range(taken) PROVE q > list[t + 1]
    <3>1. PICK j \in a : q = list[j]
      BY <1>0
    <3>2. j \in 1..Len(list) /\ j < t + 1
      BY <1>1
    <3> QED
      BY <1>1, <3>1, <3>2 DEF Descending
  <2>4. Descending(more)
    BY <1>1, <1>2, <2>3, AppendDescending
  <2> QED
    <3>1. Range(more) = {list[j] : j \in b}
      <4>1. Range(taken) = {list[j] : j \in a}
        BY <1>0
      <4> QED
        BY <4>1, <2>1, <2>2
    <3> QED
      BY <3>1, <2>4, <1>0
<1>3. CASE Half(list[t + 1]) # half
  <2>1. a = b
    BY <1>3
  <2> QED
    BY <1>0, <1>3, <2>1
<1> QED
  BY <1>2, <1>3

LEMMA TakeApartStep ==
    ASSUME MemoryInv, TakeApart
    PROVE  MemoryInv'
<1> DEFINE p == first_list[turn + 1]
           n == Len(first_list)
<1> USE DEF TakeApart, machine, arrays, tables
<1>0. npages \in Nat /\ turn \in Nat /\ turn < n /\ ip = "low_first" /\ ip' = "low_first"
  BY MemoryFacts DEF MemoryInv, StartTypes, StartTypeOK
<1>L. /\ Descending(first_list) /\ first_list \in Seq(0..npages-1)
      /\ Range(first_list) = {q \in 0..npages-1 : ~InUse(q)}
      /\ \A q \in 0..npages-1 : ref[q] = 0 <=> ~InUse(q)
      /\ halves \in [{"low", "high"} -> Seq(0..npages-1)]
      /\ \A h \in {"low", "high"} :
            /\ Descending(halves[h])
            /\ Range(halves[h]) = HalfOf(first_list, turn, h)
  BY <1>0 DEF MemoryInv, Lists, StartTypes, StartTypeOK
<1>n. n \in Nat /\ turn + 1 \in 1..n
  BY <1>0, <1>L, LenProperties
<1>p. p \in 0..npages-1 /\ Half(p) \in {"low", "high"}
  BY <1>n, <1>L, Members DEF Half
<1>l. ip \in Listed
  BY <1>0 DEF Listed
<1>h. /\ halves' = [halves EXCEPT ![Half(p)] = Append(halves[Half(p)], p)]
      /\ turn' = turn + 1 /\ first_list' = first_list /\ ref' = ref /\ npages' = npages
      /\ nextfree' = nextfree /\ stored' = Link(halves[Half(p)])
  OBVIOUS
<1> HIDE DEF p, n
<1>1. StartTypes'
  <2>1. Append(halves[Half(p)], p) \in Seq(0..npages-1)
    BY <1>p, <1>L
  <2>2. halves' \in [{"low", "high"} -> Seq(0..npages'-1)]
    BY <2>1, <1>h, <1>p, <1>L
  <2>3. turn' \in Nat
    BY <1>h, <1>0
  <2> QED
    BY <2>2, <2>3 DEF MemoryInv, StartTypes, StartTypeOK
<1>2. Arrays'
  BY DEF MemoryInv, Arrays
<1>3. Directory'
  BY DEF MemoryInv, Directory
<1>4. Lists'
  <2>1. ASSUME NEW h \in {"low", "high"}
        PROVE  /\ Descending(halves'[h])
               /\ Range(halves'[h]) = HalfOf(first_list, turn + 1, h)
    <3>1. halves'[h] = IF Half(first_list[turn + 1]) = h THEN Append(halves[h], first_list[turn + 1]) ELSE halves[h]
      BY <1>h, <1>p, <1>L DEF p
    <3>2. halves[h] \in Seq(Nat) /\ first_list \in Seq(Nat) /\ turn < Len(first_list)
      BY <1>0, <1>L, SMTT(20) DEF n
    <3>3. /\ Descending(halves[h]) /\ Descending(first_list)
          /\ Range(halves[h]) = HalfOf(first_list, turn, h)
      BY <1>L
    <3>4. turn \in Nat
      BY <1>0
    <3> HIDE DEF TakeApart
    <3>5. \A more : more = (IF Half(first_list[turn + 1]) = h THEN Append(halves[h], first_list[turn + 1]) ELSE halves[h]) =>
             Descending(more) /\ Range(more) = HalfOf(first_list, turn + 1, h)
      BY <3>2, <3>3, <3>4, TakenApart, ZenonT(30)
    <3> QED
      BY <3>1, <3>5
  <2>2. turn' <= Len(first_list')
    BY <1>0, <1>n, <1>h DEF n
  <2>3. \A q : InUse(q)' = InUse(q) /\ Half(q)' = Half(q)
    BY DEF InUse, Half, Low, PDX
  <2>4. \A h \in {"low", "high"} :
          /\ Descending(halves'[h])
          /\ Range(halves'[h]) = HalfOf(first_list', turn', h)
    BY <2>1, <1>h
  <2>5. Range(first_list') = {q \in 0..npages'-1 : ~InUse(q)'} /\ \A q \in 0..npages'-1 : ref'[q] = 0 <=> ~InUse(q)'
    BY <2>3, <1>L, <1>h
  <2>6. Descending(first_list')
    BY <1>L, <1>h
  <2> QED
    BY <2>2, <2>4, <2>5, <2>6, <1>0 DEF Lists, Boots, Sorted, Maps
<1>5. Entries'
  BY <1>0 DEF MemoryInv, Entries, Maps
<1>6. Stores'
  <2>1. halves[Half(p)] \in Seq(0..npages-1)
    BY <1>p, <1>L
  <2>2. stored' \subseteq 0..PTPAGES-1 /\ stored' \subseteq 0..npages-1
    BY <2>1, <1>h, <1>l, LinkIs
  <2> QED
    BY <2>2 DEF Stores
<1> QED
  BY <1>1, <1>2, <1>3, <1>4, <1>5, <1>6 DEF MemoryInv

(* Before check_page() the only page table is the directory itself. *)
LEMMA OnlyDirectory ==
    ASSUME MemoryInv, ip \in Listed \ Maps
    PROVE  PageTables = {end} /\ Available = {p \in 0..npages-1 : ~InUse(p)}
<1>1. \A x \in 0..NPDENTRIES-1 : pgdir[x] = IF x = KERNPDX - 3 THEN end ELSE NoPage
  <2>1. ip \notin {"pgdir", "panic"} \cup Maps
    BY DEF Listed, Sorted, Maps
  <2>2. kern_pgdir = end
    BY ListedFacts
  <2> QED
    BY <2>1, <2>2 DEF MemoryInv, Directory
<1>2. KERNPDX - 3 \in 0..NPDENTRIES-1 /\ end \in Nat
  BY MemoryFacts, Constant
<1>3. PageTables = {end}
  BY <1>1, <1>2 DEF PageTables, NoPage
<1>4. end \in IOPHYSMEM..nextfree-1
  <2>1. nextfree = end + 1 + PagesSize(npages) + ENVPAGES /\ PagesSize(npages) \in Nat
        /\ EXTPHYSMEM < end
    BY ListedFacts, MemoryFacts
  <2> QED
    BY <2>1, <1>2, Constant
<1>5. Available = {p \in 0..npages-1 : ~InUse(p)}
  BY <1>3, <1>4 DEF Available, InUse
<1> QED
  BY <1>3, <1>5

LEMMA CheckLowStep ==
    ASSUME MemoryInv, CheckLow
    PROVE  MemoryInv'
<1>0. npages \in Nat /\ ip = "low_first" /\ turn = Len(first_list)
  BY MemoryFacts DEF CheckLow
<1>1. CASE Panic
  BY <1>0, <1>1, PanicStep
<1>2. CASE /\ first_list' = LowFirst
           /\ stored' = {p \in Range(first_list) : Low(p)} \cup Link(halves["low"]) \cup Link(halves["high"])
           /\ ip' = "check_page_alloc"
           /\ UNCHANGED <<machine, arrays, ref, halves, tables, cr3, turn>>
  <2> USE <1>2 DEF machine, arrays, tables
  <2>L. /\ Range(first_list) = {q \in 0..npages-1 : ~InUse(q)}
        /\ first_list \in Seq(0..npages-1)
        /\ \A q \in 0..npages-1 : ref[q] = 0 <=> ~InUse(q)
        /\ halves \in [{"low", "high"} -> Seq(0..npages-1)]
        /\ \A h \in {"low", "high"} :
              /\ Descending(halves[h])
              /\ Range(halves[h]) = HalfOf(first_list, turn, h)
    BY <1>0 DEF MemoryInv, Lists, StartTypes, StartTypeOK
  <2>l. ip \in Listed \ Maps
    BY <1>0 DEF Listed, Maps
  <2>a. halves["low"] \in Seq(0..npages-1) /\ halves["high"] \in Seq(0..npages-1)
    BY <2>L
  <2>b. Range(first_list) = {first_list[j] : j \in 1..turn}
    BY <1>0, <2>L, RangeEquality
  <2>c. \A p \in Range(halves["low"]) : p \in Range(first_list) /\ Low(p)
    BY <2>L, <2>b, <1>0 DEF Half, HalfOf
  <2>d. \A p \in Range(halves["high"]) : p \in Range(first_list) /\ ~Low(p)
    BY <2>L, <2>b, <1>0 DEF Half, HalfOf
  <2>e. Range(first_list') = Range(first_list)
    <3>1. Range(first_list') = Range(halves["low"]) \cup Range(halves["high"])
      BY <2>a, RangeConcatenation DEF LowFirst
    <3>2. ASSUME NEW p \in Range(first_list) PROVE p \in Range(halves["low"]) \/ p \in Range(halves["high"])
      <4>1. PICK j \in 1..turn : p = first_list[j]
        BY <2>b
      <4>2. Half(first_list[j]) = "low" \/ Half(first_list[j]) = "high"
        BY DEF Half
      <4> QED
        BY <4>1, <4>2, <2>L, <1>0 DEF HalfOf
    <3> QED
      BY <3>1, <3>2, <2>c, <2>d
  <2>f. InOrder(first_list')
    <3>1. halves["low"] \in Seq(Nat) /\ halves["high"] \in Seq(Nat)
      BY <2>a, <1>0
    <3>2. Descending(halves["low"]) /\ Descending(halves["high"])
      BY <2>L
    <3> QED
      BY <3>1, <3>2, <2>c, <2>d, JoinInOrder DEF LowFirst
  <2>g. first_list' \in Seq(0..npages-1)
    BY <2>a DEF LowFirst
  <2>1. StartTypes'
    BY <2>g, <1>0 DEF MemoryInv, StartTypes, StartTypeOK, Boots, Listed, Sorted, Maps
  <2>2. Arrays'
    BY <1>0 DEF MemoryInv, Arrays, Listed, Sorted, Maps
  <2>3. Directory'
    BY <1>0 DEF MemoryInv, Directory, Maps
  <2>4. Lists'
    <3>1. Available = {p \in 0..npages-1 : ~InUse(p)}
      BY <2>l, OnlyDirectory
    <3>2. Available' = Available
      BY DEF Available, PageTables
    <3>3. Range(first_list') = Available'
      BY <3>1, <3>2, <2>e, <2>L
    <3>4. \A p \in 0..npages'-1 : ref'[p] = 0 <=> p \in Available'
      BY <3>1, <3>2, <2>L
    <3>5. ip' = "check_page_alloc"
      OBVIOUS
    <3> QED
      BY <3>3, <3>4, <3>5, <2>f DEF Lists, Boots
  <2>5. Entries'
    BY <1>0 DEF MemoryInv, Entries, Maps
  <2>6. Stores'
    <3>1. ASSUME NEW p \in Range(first_list), Low(p) PROVE p \in 0..PTPAGES-1 /\ p \in 0..npages-1
      <4>1. p \in 0..npages-1 /\ p \in Nat
        BY <2>L, <1>0
      <4> QED
        BY <4>1, <3>1, LowIs, Constant
    <3>2. /\ Link(halves["low"]) \subseteq 0..PTPAGES-1 /\ Link(halves["low"]) \subseteq 0..npages-1
          /\ Link(halves["high"]) \subseteq 0..PTPAGES-1 /\ Link(halves["high"]) \subseteq 0..npages-1
      BY <2>a, <2>l, LinkIs
    <3>3. stored' \subseteq 0..PTPAGES-1 /\ stored' \subseteq 0..npages-1
      BY <3>1, <3>2
    <3> QED
      BY <3>3 DEF Stores
  <2> QED
    BY <2>1, <2>2, <2>3, <2>4, <2>5, <2>6 DEF MemoryInv
<1> QED
  BY <1>1, <1>2 DEF CheckLow

LEMMA SortedFacts ==
    ASSUME LowPages, MemoryInv, ip \in Sorted
    PROVE  /\ first_list \in Seq(Nat) /\ Len(first_list) >= 4 /\ first_list # << >>
           /\ \A j \in 1..4 : first_list[j] \in 0..npages-1 /\ first_list[j] < PTPAGES
           /\ Head(first_list) = first_list[1]
           /\ GivenBack(1, 2, 3) = first_list /\ GivenBack(2, 3, 1) = first_list
           /\ Head(FreeTo(Rest, first_list[1])) = first_list[1]
<1>1. npages \in Nat /\ first_list \in Seq(0..npages-1)
  BY MemoryFacts DEF MemoryInv, StartTypes, StartTypeOK
<1>2. first_list \in Seq(Nat)
  BY <1>1
<1>3. InOrder(first_list) /\ Range(first_list) = Available
  BY DEF MemoryInv, Lists
<1> DEFINE low == Conventional \ PageTables
<1>4. IsFiniteSet(low) /\ Cardinality(low) >= 4
  <2>1. pgdir \in [0..NPDENTRIES-1 -> Int]
    BY <1>1 DEF MemoryInv, StartTypes, StartTypeOK, NoPage
  <2>2. \A x \in 0..NPDENTRIES-1 : pgdir[x] # NoPage => x >= KERNPDX - 5
    BY DEF MemoryInv, Directory
  <2> QED
    BY <2>1, <2>2, LowsLeft
<1>5. ASSUME NEW p \in low PROVE p \in Range(first_list) /\ Low(p)
  <2>1. p \in Nat /\ 0 < p /\ p < IOPHYSMEM /\ p # MPENTRY /\ p \notin PageTables
    BY Constant DEF Conventional
  <2>2. nextfree <= npages /\ nextfree <= PTPAGES /\ nextfree \in Nat /\ IOPHYSMEM < nextfree
    BY ListedFacts DEF Listed
  <2>3. p \in Available
    BY <2>1, <2>2, <1>1, Constant DEF Available
  <2>4. Low(p)
    BY <2>1, <2>2, LowIs, Constant
  <2> QED
    BY <2>3, <2>4, <1>3
<1> HIDE DEF low
<1>6. /\ Len(first_list) >= 4 /\ \A j \in 1..4 : Low(first_list[j])
      /\ first_list[1] > first_list[2] /\ first_list[2] > first_list[3] /\ first_list[3] > first_list[4]
  BY <1>2, <1>3, <1>4, <1>5, FourLow
<1>7. first_list # << >> /\ Head(first_list) = first_list[1]
  BY <1>2, <1>6
<1>8. /\ GivenBack(1, 2, 3) = first_list /\ GivenBack(2, 3, 1) = first_list
      /\ Head(FreeTo(Rest, first_list[1])) = first_list[1]
  BY <1>2, <1>6, BackAgain DEF GivenBack, Rest
<1>9. ASSUME NEW j \in 1..4 PROVE first_list[j] \in 0..npages-1 /\ first_list[j] < PTPAGES
  <2>1. j \in 1..Len(first_list)
    BY <1>2, <1>6, LenProperties
  <2>2. first_list[j] \in 0..npages-1 /\ first_list[j] \in Nat
    BY <2>1, <1>1, Members
  <2> QED
    BY <2>2, <1>6, LowIs
<1> QED
  BY <1>2, <1>6, <1>7, <1>8, <1>9

LEMMA CheckPageAllocStep ==
    ASSUME LowPages, MemoryInv, CheckPageAlloc
    PROVE  MemoryInv'
<1> USE DEF machine, arrays, tables
<1>0. ip = "check_page_alloc" /\ ip \in Sorted /\ npages \in Nat
  BY MemoryFacts DEF CheckPageAlloc, Sorted
<1>1. /\ Len(first_list) >= 4 /\ Len(first_list) \in Nat /\ GivenBack(1, 2, 3) = first_list
      /\ first_list[1] \in 0..npages-1 /\ first_list[1] < PTPAGES
  BY <1>0, SortedFacts, LenProperties
<1>2. /\ first_list' = first_list /\ stored' = {first_list[1]} /\ ip' = "check_page"
      /\ UNCHANGED <<machine, arrays, ref, halves, tables, cr3, turn>>
  BY <1>1 DEF CheckPageAlloc
<1>3. StartTypes'
  BY <1>0, <1>2 DEF MemoryInv, StartTypes, StartTypeOK, Boots, Listed, Sorted, Maps
<1>4. Arrays'
  BY <1>0, <1>2 DEF MemoryInv, Arrays, Listed, Sorted, Maps
<1>5. Directory'
  BY <1>0, <1>2 DEF MemoryInv, Directory, Maps
<1>6. Lists'
  <2>1. Available' = Available
    BY <1>2 DEF Available, PageTables
  <2>2. /\ InOrder(first_list) /\ Range(first_list) = Available
        /\ \A p \in 0..npages-1 : ref[p] = 0 <=> p \in Available
    BY <1>0 DEF MemoryInv, Lists
  <2> QED
    BY <2>1, <2>2, <1>2 DEF Lists, Boots
<1>7. Entries'
  BY <1>0, <1>2 DEF MemoryInv, Entries, Maps
<1>8. Stores'
  BY <1>0, <1>1, <1>2, Constant DEF Stores
<1> QED
  BY <1>3, <1>4, <1>5, <1>6, <1>7, <1>8 DEF MemoryInv

(* A page of the list becomes the page table of entry x. *)
LEMMA TakeTable ==
    ASSUME LowPages, MemoryInv, ip \in Sorted, NEW x \in KERNPDX-5..NPDENTRIES-1, pgdir[x] = NoPage,
           first_list' = Tail(first_list), ref' = [ref EXCEPT ![Head(first_list)] = 1],
           pgdir' = [pgdir EXCEPT ![x] = Head(first_list)], npages' = npages, nextfree' = nextfree
    PROVE  /\ Head(first_list) \in 0..npages-1 /\ Head(first_list) < PTPAGES
           /\ first_list' \in Seq(0..npages-1) /\ ref' \in [0..npages-1 -> {0, 1}]
           /\ pgdir' \in [0..NPDENTRIES-1 -> {NoPage} \cup 0..npages-1]
           /\ \A y \in 0..NPDENTRIES-1 : pgdir'[y] # NoPage => y >= KERNPDX - 5 /\ pgdir'[y] < PTPAGES
           /\ \A y \in 0..NPDENTRIES-1 : pgdir[y] # NoPage => pgdir'[y] # NoPage
           /\ pgdir'[x] = Head(first_list) /\ pgdir'[x] # NoPage
           /\ InOrder(first_list') /\ Range(first_list') = Available'
           /\ \A p \in 0..npages-1 : ref'[p] = 0 <=> p \in Available'
<1> DEFINE h == Head(first_list)
<1>1. npages \in Nat /\ x \in 0..NPDENTRIES-1 /\ x >= KERNPDX - 5
  BY MemoryFacts, Constant
<1>2. /\ first_list \in Seq(0..npages-1) /\ ref \in [0..npages-1 -> {0, 1}]
      /\ pgdir \in [0..NPDENTRIES-1 -> {NoPage} \cup 0..npages-1]
  BY DEF MemoryInv, StartTypes, StartTypeOK
<1>3. /\ InOrder(first_list) /\ Range(first_list) = Available
      /\ \A p \in 0..npages-1 : ref[p] = 0 <=> p \in Available
  BY DEF MemoryInv, Lists
<1>4. /\ first_list \in Seq(Nat) /\ first_list # << >>
      /\ h \in 0..npages-1 /\ h < PTPAGES
  <2>1. 1 \in 1..4
    OBVIOUS
  <2> QED
    BY <2>1, SortedFacts
<1>5. /\ InOrder(Tail(first_list)) /\ h \in Range(first_list)
      /\ Range(Tail(first_list)) = Range(first_list) \ {h}
  BY <1>3, <1>4, TailInOrder
<1>6. Tail(first_list) \in Seq(0..npages-1)
  BY <1>2, <1>4, HeadTailProperties
<1> HIDE DEF h
<1>7. /\ first_list' = Tail(first_list) /\ ref' = [ref EXCEPT ![h] = 1]
      /\ pgdir' = [pgdir EXCEPT ![x] = h]
  BY DEF h
<1>8. pgdir'[x] = h /\ h # NoPage /\ \A y \in 0..NPDENTRIES-1 : y # x => pgdir'[y] = pgdir[y]
  BY <1>1, <1>2, <1>4, <1>7 DEF NoPage
<1>9. PageTables' = PageTables \cup {h}
  <2>1. PageTables' = {pgdir'[y] : y \in 0..NPDENTRIES-1} \ {NoPage}
    BY DEF PageTables
  <2>2. ASSUME NEW q \in PageTables' PROVE q \in PageTables \cup {h}
    <3>1. PICK y \in 0..NPDENTRIES-1 : q = pgdir'[y] /\ q # NoPage
      BY <2>1, <2>2
    <3> QED
      BY <3>1, <1>8 DEF PageTables
  <2>3. ASSUME NEW q \in PageTables PROVE q \in PageTables'
    <3>1. PICK y \in 0..NPDENTRIES-1 : q = pgdir[y] /\ q # NoPage
      BY <2>3 DEF PageTables
    <3>2. y # x
      BY <3>1
    <3> QED
      BY <3>1, <3>2, <2>1, <1>8
  <2>4. h \in PageTables'
    BY <2>1, <1>1, <1>8
  <2> QED
    BY <2>2, <2>3, <2>4
<1>10. Available' = Available \ {h}
  BY <1>9 DEF Available
<1>11. \A p \in 0..npages-1 : ref'[p] = 0 <=> p \in Available'
  BY <1>2, <1>3, <1>4, <1>7, <1>10
<1>12. \A y \in 0..NPDENTRIES-1 : pgdir'[y] # NoPage => y >= KERNPDX - 5 /\ pgdir'[y] < PTPAGES
  <2>1. \A y \in 0..NPDENTRIES-1 : pgdir[y] # NoPage => y >= KERNPDX - 5 /\ pgdir[y] < PTPAGES
    BY DEF MemoryInv, Directory
  <2> QED
    BY <2>1, <1>1, <1>4, <1>8
<1>13. \A y \in 0..NPDENTRIES-1 : pgdir[y] # NoPage => pgdir'[y] # NoPage
  BY <1>8
<1>14. ref' \in [0..npages-1 -> {0, 1}] /\ pgdir' \in [0..NPDENTRIES-1 -> {NoPage} \cup 0..npages-1]
  <2>1. ref' \in [0..npages-1 -> {0, 1}]
    BY <1>2, <1>7
  <2>2. pgdir' \in [0..NPDENTRIES-1 -> {NoPage} \cup 0..npages-1]
    BY <1>2, <1>4, <1>7
  <2> QED
    BY <2>1, <2>2
<1> QED
  BY <1>3, <1>4, <1>5, <1>6, <1>7, <1>8, <1>10, <1>11, <1>12, <1>13, <1>14 DEF h

LEMMA DirectoryPage ==
    ASSUME MemoryInv, ip \in Listed
    PROVE  kern_pgdir \in 0..PTPAGES-1 /\ kern_pgdir \in 0..npages-1
<1>1. /\ kern_pgdir = end /\ end \in Nat /\ nextfree <= PTPAGES /\ nextfree <= npages /\ nextfree \in Nat
      /\ nextfree = end + 1 + PagesSize(npages) + ENVPAGES /\ PagesSize(npages) \in Nat
      /\ npages \in Nat
  BY ListedFacts, MemoryFacts
<1> QED
  BY <1>1, Constant

LEMMA CheckPageStep ==
    ASSUME LowPages, MemoryInv, CheckPage
    PROVE  MemoryInv'
<1> USE DEF machine, arrays
<1>0. ip = "check_page" /\ ip \in Sorted /\ ip \in Listed /\ npages \in Nat
  BY MemoryFacts DEF CheckPage, Sorted, Listed
<1>1. GivenBack(1, 2, 3) = first_list /\ first_list[1] \in 0..npages-1 /\ first_list[1] < PTPAGES
  BY <1>0, SortedFacts
<1>2. /\ first_list' = Tail(first_list) /\ ref' = [ref EXCEPT ![Head(first_list)] = 1]
      /\ pgdir' = [pgdir EXCEPT ![PDX(MMIOBASE)] = Head(first_list)]
      /\ stored' = {first_list[1], kern_pgdir, Head(first_list)}
      /\ ip' = "map" /\ turn' = 0
      /\ UNCHANGED <<machine, arrays, halves, entry, call, cr3>>
  BY <1>1 DEF CheckPage
<1>3. PDX(MMIOBASE) = KERNPDX - 2
  <2>1. PDX(KERNBASE - 2 * PTPAGES + 0) = KERNPDX - 2
    BY Below, Constant
  <2>2. KERNBASE - 2 * PTPAGES + 0 = MMIOBASE
    BY Bases, Constant
  <2> QED
    BY <2>1, <2>2
<1>4. KERNPDX - 2 \in KERNPDX-5..NPDENTRIES-1 /\ pgdir[KERNPDX - 2] = NoPage
  <2>1. ip \notin {"pgdir", "panic"} \cup Maps
    BY <1>0 DEF Maps
  <2>2. KERNPDX - 2 \in 0..NPDENTRIES-1 /\ KERNPDX - 2 # KERNPDX - 3 /\ KERNPDX - 2 \in KERNPDX-5..NPDENTRIES-1
    BY Constant
  <2> QED
    BY <2>1, <2>2 DEF MemoryInv, Directory
<1> DEFINE x == KERNPDX - 2
<1>x. x \in KERNPDX-5..NPDENTRIES-1 /\ pgdir[x] = NoPage /\ pgdir' = [pgdir EXCEPT ![x] = Head(first_list)]
  BY <1>2, <1>3, <1>4
<1> HIDE DEF x
<1>5. /\ Head(first_list) \in 0..npages-1 /\ Head(first_list) < PTPAGES
      /\ first_list' \in Seq(0..npages-1) /\ ref' \in [0..npages-1 -> {0, 1}]
      /\ pgdir' \in [0..NPDENTRIES-1 -> {NoPage} \cup 0..npages-1]
      /\ \A y \in 0..NPDENTRIES-1 : pgdir'[y] # NoPage => y >= KERNPDX - 5 /\ pgdir'[y] < PTPAGES
      /\ InOrder(first_list') /\ Range(first_list') = Available'
      /\ \A p \in 0..npages-1 : ref'[p] = 0 <=> p \in Available'
  BY <1>0, <1>2, <1>x, TakeTable
<1>6. StartTypes'
  BY <1>0, <1>2, <1>5 DEF MemoryInv, StartTypes, StartTypeOK, Boots, Listed, Sorted, Maps
<1>7. Arrays'
  BY <1>0, <1>2 DEF MemoryInv, Arrays, Listed, Sorted, Maps
<1>8. Directory'
  BY <1>2, <1>5 DEF Directory, Maps
<1>9. Lists'
  BY <1>2, <1>5 DEF Lists, Boots
<1>10. Entries'
  <2>1. call = 1 /\ \A va \in VAs : entry[va] = NoEntry
    BY <1>0 DEF MemoryInv, Entries, Maps
  <2>2. 1 \in Calls' /\ 0 < Regions'[1].size
    <3>1. 1 \in Calls /\ Regions[1].size = PTPAGES
      BY RegionsAre DEF Region
    <3>2. Regions' = Regions
      BY <1>2 DEF Regions, Region, Kstack, StackTop
    <3> QED
      BY <3>1, <3>2, Constant
  <2>3. ASSUME NEW m \in Calls', NEW k \in Turns(m)' PROVE ~IsMapped(m, k)'
    <3>1. m >= 1 /\ k >= 0 /\ m \in Int /\ k \in Int
      BY DEF Calls, Turns
    <3> QED
      BY <3>1, <2>1, <1>2 DEF IsMapped
  <2>4. \A va \in VAs : entry'[va] = NoEntry
    BY <2>1, <1>2
  <2> QED
    BY <2>1, <2>2, <2>3, <2>4, <1>2 DEF Entries, Maps
<1>11. Stores'
  <2>2. kern_pgdir \in 0..PTPAGES-1 /\ kern_pgdir \in 0..npages-1
    BY <1>0, DirectoryPage
  <2>3. /\ first_list[1] \in 0..PTPAGES-1 /\ Head(first_list) \in 0..PTPAGES-1
    BY <1>0, <1>1, <1>5, Constant
  <2>4. npages' = npages
    BY <1>2
  <2> QED
    BY <1>1, <1>2, <1>5, <2>2, <2>3, <2>4 DEF Stores
<1> QED
  BY <1>6, <1>7, <1>8, <1>9, <1>10, <1>11 DEF MemoryInv

-----------------------------------------------------------------------------
(* The loop of boot_map_region() *)

LEMMA SameRegions ==
    ASSUME pages' = pages, envs' = envs
    PROVE  Regions' = Regions /\ Calls' = Calls /\ \A m : Turns(m)' = Turns(m)
<1>1. Regions' = Regions
  BY DEF Regions, Region, Kstack, StackTop
<1>2. Calls' = Calls
  BY DEF Calls
<1> QED
  BY <1>1, <1>2 DEF Turns

LEMMA MapFacts ==
    ASSUME MemoryInv, ip = "map", call \in Calls
    PROVE  /\ turn \in Nat /\ turn \in Turns(call) /\ turn < Regions[call].size
           /\ Here \in VAs /\ PDX(Here) \in KERNPDX-5..NPDENTRIES-1
           /\ Regions[call].pa \in Int /\ Regions[call].perm \in SUBSET {"U", "W"}
           /\ ENVPAGES <= PTPAGES
<1>1. ENVPAGES <= PTPAGES
  BY MemoryFacts
<1>2. turn \in Nat /\ turn < Regions[call].size
  BY DEF MemoryInv, StartTypes, StartTypeOK, Entries
<1>3. turn \in Turns(call)
  BY <1>1, <1>2, RegionAt DEF Turns
<1>4. Here \in VAs /\ PDX(Here) \in KERNPDX-5..NPDENTRIES-1
  BY <1>1, <1>3, RegionAt DEF Here
<1>5. Regions[call].pa \in Int /\ Regions[call].perm \in SUBSET {"U", "W"}
  <2>1. pages \in Int /\ envs \in Int
    <3>1. ip \in Listed
      BY DEF Listed, Sorted, Maps
    <3>2. pages = end + 1 /\ envs = end + 1 + PagesSize(npages)
      BY <3>1, ListedFacts
    <3>3. end \in Nat /\ PagesSize(npages) \in Nat
      BY MemoryFacts
    <3> QED
      BY <3>2, <3>3
  <2>2. call = 1 \/ call = 2 \/ call = 3 \/ call = 4 \/ call \in Calls \ 1..4
    OBVIOUS
  <2>3. CASE call \in Calls \ 1..4
    <3>1. Regions[call] = Region(StackTop(call - 5) - KSTKSIZE, KSTKSIZE, Kstack(call - 5), {"W"})
          /\ call - 5 \in 0..NCPU-1
      BY <2>3, RegionsAre
    <3>2. Kstack(call - 5) \in Int
      <4> DEFINE c == call - 5
      <4>1. c \in Int
        BY <3>1
      <4> HIDE DEF c
      <4>2. Kstack(c) \in Int
        BY <4>1, Constant DEF Kstack, Bootstack, KernelCode
      <4> QED
        BY <4>2 DEF c
    <3> QED
      BY <3>1, <3>2 DEF Region
  <2>4. Bootstack \in Int
    BY Constant DEF Bootstack, KernelCode
  <2> QED
    BY <2>1, <2>2, <2>3, <2>4, RegionsAre DEF Region
<1> QED
  BY <1>1, <1>2, <1>3, <1>4, <1>5

LEMMA MapEntryKeeps ==
    ASSUME MemoryInv, ip = "map", call \in Calls, MapEntry, pages' = pages, envs' = envs, ip' = ip,
           \A y \in 0..NPDENTRIES-1 : pgdir[y] # NoPage => pgdir'[y] # NoPage,
           pgdir'[PDX(Here)] # NoPage
    PROVE  /\ Entries' /\ turn' \in Nat /\ call' \in 1..5+NCPU
           /\ entry' \in [VAs -> [pa : Int, perm : SUBSET {"U", "W"}]]
<1> DEFINE r == Regions[call]
<1>1. /\ turn \in Nat /\ turn \in Turns(call) /\ turn < r.size
      /\ Here \in VAs /\ PDX(Here) \in KERNPDX-5..NPDENTRIES-1
      /\ r.pa \in Int /\ r.perm \in SUBSET {"U", "W"} /\ ENVPAGES <= PTPAGES
  BY MapFacts
<1>s. r.size \in Nat \ {0} /\ r.va \in Int
  BY <1>1, RegionAt
<1>2. /\ entry' = [entry EXCEPT ![Here] = [pa |-> r.pa + turn, perm |-> r.perm]]
      /\ IF turn + 1 = r.size THEN call' = call + 1 /\ turn' = 0
         ELSE turn' = turn + 1 /\ call' = call
  BY DEF MapEntry
<1>3. Here = r.va + turn
  BY DEF Here
<1>4. entry \in [VAs -> [pa : Int, perm : SUBSET {"U", "W"}]]
  BY DEF MemoryInv, StartTypes
<1>5. call \in 1..4+NCPU /\ call \in Int /\ Calls = 1..4+NCPU /\ NCPU \in Nat
  BY Constant DEF Calls
<1>6. entry' \in [VAs -> [pa : Int, perm : SUBSET {"U", "W"}]]
  <2>1. [pa |-> r.pa + turn, perm |-> r.perm] \in [pa : Int, perm : SUBSET {"U", "W"}]
    BY <1>1
  <2> HIDE DEF r
  <2> QED
    BY <2>1, <1>1, <1>2, <1>4
<1>7. turn' \in Nat /\ call' \in 1..5+NCPU
  BY <1>1, <1>2, <1>5
<1>S. Regions' = Regions /\ Calls' = Calls /\ \A m : Turns(m)' = Turns(m)
  BY SameRegions
<1>8. IF call' \in Calls' THEN turn' < Regions'[call'].size ELSE turn' = 0
  <2>1. CASE turn + 1 = r.size
    <3>1. call' = call + 1 /\ turn' = 0
      BY <2>1, <1>2
    <3>2. ASSUME call' \in Calls PROVE 0 < Regions[call'].size
      BY <3>2, <1>1, RegionAt
    <3> QED
      BY <3>1, <3>2, <1>S
  <2>2. CASE turn + 1 # r.size
    <3>1. call' = call /\ turn' = turn + 1 /\ turn + 1 < r.size
      BY <2>2, <1>1, <1>2, <1>s
    <3> QED
      BY <3>1, <1>S
  <2> QED
    BY <2>1, <2>2
<1> DEFINE Now(m, k) == m < call' \/ (m = call' /\ k < turn')
<1>9. ASSUME NEW m \in Calls, NEW k \in Turns(m)
      PROVE  Now(m, k) <=> IsMapped(m, k) \/ (m = call /\ k = turn)
  <2>1. m \in Int /\ k \in Int /\ k >= 0
    BY <1>5 DEF Turns
  <2>2. m = call => k < r.size
    BY <1>s DEF Turns
  <2> HIDE DEF r
  <2>3. CASE turn + 1 = r.size
    BY <2>1, <2>2, <2>3, <1>1, <1>2, <1>5, <1>s DEF IsMapped
  <2>4. CASE turn + 1 # r.size
    BY <2>1, <2>2, <2>4, <1>1, <1>2, <1>5, <1>s DEF IsMapped
  <2> QED
    BY <2>3, <2>4
<1>10. ASSUME NEW m \in Calls, NEW k \in Turns(m), Now(m, k), ~(m = 3 /\ Now(5, k))
       PROVE  /\ entry'[Regions[m].va + k] = [pa |-> Regions[m].pa + k, perm |-> Regions[m].perm]
              /\ pgdir'[PDX(Regions[m].va + k)] # NoPage
  <2> DEFINE va == Regions[m].va + k
  <2>1. va \in VAs /\ PDX(va) \in KERNPDX-5..NPDENTRIES-1
    BY <1>1, RegionAt
  <2>2. CASE m = call /\ k = turn
    <3>1. entry'[Here] = [pa |-> r.pa + turn, perm |-> r.perm]
      BY <1>1, <1>2, <1>4
    <3> QED
      BY <3>1, <2>2, <1>3
  <2>3. CASE ~(m = call /\ k = turn)
    <3>1. IsMapped(m, k)
      BY <2>3, <1>9, <1>10
    <3>2. ~(m = 3 /\ IsMapped(5, k))
      <4>1. ASSUME m = 3, IsMapped(5, k) PROVE Now(5, k)
        <5>1. 5 \in Calls /\ k \in Turns(5)
          <6>1. 5 \in Calls /\ Regions[5].size = KSTKSIZE /\ Regions[3].size = KSTKSIZE
            <7>1. 5 \in StackCalls /\ 3 \in StackCalls
              BY RegionsAre DEF StackCalls
            <7> QED
              BY <7>1, StackRegion, RegionsAre
          <6> QED
            BY <6>1, <4>1 DEF Turns
        <5> QED
          BY <5>1, <4>1, <1>9
      <4> QED
        BY <4>1, <1>10
    <3>3. MapsTo(va, Regions[m].pa + k, Regions[m].perm)
      BY <3>1, <3>2 DEF MemoryInv, Entries, Maps
    <3>4. va # Here
      <4>1. ASSUME va = Here PROVE FALSE
        <5>1. CASE m = call
          <6>1. k # turn /\ k \in Int /\ Regions[m].va = r.va
            BY <5>1, <2>3 DEF Turns
          <6> QED
            BY <6>1, <4>1, <1>1, <1>3, <1>s
        <5>2. CASE m # call
          <6>1. k = turn /\ {m, call} = {3, 5}
            BY <5>2, <4>1, <1>1, <1>3, RegionsApart
          <6>2. CASE m = 3 /\ call = 5
            <7>1. 5 \in Calls /\ k \in Turns(5) /\ Now(5, k)
              BY <6>1, <6>2, <1>1, <1>9
            <7> QED
              BY <7>1, <6>2, <1>10
          <6>3. CASE m = 5 /\ call = 3
            BY <6>3, <3>1 DEF IsMapped
          <6> QED
            BY <6>1, <6>2, <6>3
        <5> QED
          BY <5>1, <5>2
      <4> QED
        BY <4>1
    <3>5. entry'[va] = entry[va]
      BY <3>4, <2>1, <1>1, <1>2, <1>4
    <3>6. pgdir'[PDX(va)] # NoPage
      <4>1. PDX(va) \in 0..NPDENTRIES-1
        BY <2>1, Constant
      <4> QED
        BY <4>1, <3>3 DEF MapsTo
    <3> QED
      BY <3>3, <3>5, <3>6 DEF MapsTo
  <2> QED
    BY <2>2, <2>3
<1>11. ASSUME NEW va \in VAs, entry'[va] # NoEntry
       PROVE  \E m \in Calls : \E k \in Turns(m) :
                 va = Regions[m].va + k /\ entry'[va].perm = Regions[m].perm
  <2>1. CASE va = Here
    <3>1. entry'[va].perm = r.perm
      BY <2>1, <1>1, <1>2, <1>4
    <3> QED
      BY <3>1, <2>1, <1>1, <1>3
  <2>2. CASE va # Here
    <3>1. entry'[va] = entry[va]
      BY <2>2, <1>1, <1>2, <1>4
    <3>2. \E m \in Calls : \E k \in Turns(m) :
             va = Regions[m].va + k /\ entry[va].perm = Regions[m].perm
      BY <3>1, <1>11 DEF MemoryInv, Entries, Maps
    <3> QED
      BY <3>1, <3>2
  <2> QED
    BY <2>1, <2>2
<1>12. /\ \A m \in Calls' : \A k \in Turns(m)' :
             IsMapped(m, k)' /\ ~(m = 3 /\ IsMapped(5, k)') =>
                 MapsTo(Regions[m].va + k, Regions[m].pa + k, Regions[m].perm)'
       /\ \A va \in VAs : entry'[va] # NoEntry =>
             \E m \in Calls' : \E k \in Turns(m)' :
                 va = Regions'[m].va + k /\ entry'[va].perm = Regions'[m].perm
  <2>1. \A m, k : IsMapped(m, k)' <=> Now(m, k)
    BY DEF IsMapped
  <2>2. \A m, k : MapsTo(Regions[m].va + k, Regions[m].pa + k, Regions[m].perm)' <=>
             /\ entry'[Regions[m].va + k] = [pa |-> Regions[m].pa + k, perm |-> Regions[m].perm]
             /\ pgdir'[PDX(Regions[m].va + k)] # NoPage
    BY <1>S DEF MapsTo, PDX
  <2> HIDE DEF Now
  <2> QED
    BY <2>1, <2>2, <1>S, <1>10, <1>11
<1>13. Entries'
  BY <1>8, <1>12 DEF Entries, Maps
<1> QED
  BY <1>6, <1>7, <1>13

(* After the last call the entries stay as they are. *)
LEMMA SameEntries ==
    ASSUME MemoryInv, ip \in Maps, ip' \in {"check_installed", "done"}, call = 5 + NCPU, turn = 0,
           pages' = pages, envs' = envs, UNCHANGED <<pgdir, entry, call, turn>>
    PROVE  Entries'
<1>1. Regions' = Regions /\ Calls' = Calls /\ \A m : Turns(m)' = Turns(m)
  BY SameRegions
<1>2. /\ \A m \in Calls : \A k \in Turns(m) :
             IsMapped(m, k) /\ ~(m = 3 /\ IsMapped(5, k)) =>
                 MapsTo(Regions[m].va + k, Regions[m].pa + k, Regions[m].perm)
      /\ \A va \in VAs : entry[va] # NoEntry =>
             \E m \in Calls : \E k \in Turns(m) :
                 va = Regions[m].va + k /\ entry[va].perm = Regions[m].perm
  BY DEF MemoryInv, Entries
<1>3. \A m, k : IsMapped(m, k)' <=> IsMapped(m, k)
  BY DEF IsMapped
<1>4. \A m, k : MapsTo(Regions[m].va + k, Regions[m].pa + k, Regions[m].perm)' <=>
                 MapsTo(Regions[m].va + k, Regions[m].pa + k, Regions[m].perm)
  BY <1>1 DEF MapsTo, PDX
<1>5. /\ \A m \in Calls' : \A k \in Turns(m)' :
             IsMapped(m, k)' /\ ~(m = 3 /\ IsMapped(5, k)') =>
                 MapsTo(Regions[m].va + k, Regions[m].pa + k, Regions[m].perm)'
      /\ \A va \in VAs : entry'[va] # NoEntry =>
             \E m \in Calls' : \E k \in Turns(m)' :
                 va = Regions'[m].va + k /\ entry'[va].perm = Regions'[m].perm
  BY <1>1, <1>2, <1>3, <1>4
<1> QED
  BY <1>5 DEF Entries, Maps

LEMMA MapHereStep ==
    ASSUME LowPages, MemoryInv, MapHere
    PROVE  MemoryInv'
<1> USE DEF machine, arrays, pool
<1>0. /\ ip = "map" /\ ip' = ip /\ call \in Calls /\ pgdir[PDX(Here)] # NoPage /\ MapEntry
      /\ stored' = {pgdir[PDX(Here)]} /\ pgdir' = pgdir /\ cr3' = cr3
      /\ UNCHANGED <<machine, arrays, pool>>
  BY DEF MapHere
<1> HIDE DEF MapHere
<1>1. PDX(Here) \in 0..NPDENTRIES-1
  BY <1>0, MapFacts, Constant
<1>2. /\ Entries' /\ turn' \in Nat /\ call' \in 1..5+NCPU
      /\ entry' \in [VAs -> [pa : Int, perm : SUBSET {"U", "W"}]]
  BY <1>0, MapEntryKeeps
<1>3. StartTypes'
  BY <1>0, <1>2 DEF MemoryInv, StartTypes, StartTypeOK
<1>4. Arrays'
  BY <1>0 DEF MemoryInv, Arrays
<1>5. Directory'
  BY <1>0 DEF MemoryInv, Directory, Maps
<1>6. Lists'
  <2>1. Available' = Available
    BY <1>0 DEF Available, PageTables
  <2>2. /\ InOrder(first_list) /\ Range(first_list) = Available
        /\ \A p \in 0..npages-1 : ref[p] = 0 <=> p \in Available
    BY <1>0 DEF MemoryInv, Lists, Sorted, Maps
  <2> QED
    BY <2>1, <2>2, <1>0 DEF Lists, Boots
<1>7. Stores'
  <2>1. pgdir[PDX(Here)] \in 0..npages-1 /\ pgdir[PDX(Here)] < PTPAGES /\ npages \in Nat
    BY <1>0, <1>1, MemoryFacts DEF MemoryInv, StartTypes, StartTypeOK, Directory
  <2>2. pgdir[PDX(Here)] \in 0..PTPAGES-1
    BY <2>1, Constant
  <2> QED
    BY <2>1, <2>2, <1>0 DEF Stores
<1> QED
  BY <1>2, <1>3, <1>4, <1>5, <1>6, <1>7 DEF MemoryInv

LEMMA MapWithTableStep ==
    ASSUME LowPages, MemoryInv, MapWithTable
    PROVE  MemoryInv'
<1> USE DEF machine, arrays
<1> DEFINE x == PDX(Here)
<1>0. /\ ip = "map" /\ ip' = ip /\ call \in Calls /\ pgdir[x] = NoPage /\ MapEntry
      /\ first_list' = Tail(first_list) /\ ref' = [ref EXCEPT ![Head(first_list)] = 1]
      /\ pgdir' = [pgdir EXCEPT ![x] = Head(first_list)]
      /\ stored' = {Head(first_list), kern_pgdir} /\ cr3' = cr3
      /\ UNCHANGED <<machine, arrays, halves>>
  BY DEF MapWithTable
<1>s. ip \in Sorted /\ ip \in Listed
  BY <1>0 DEF Sorted, Listed, Maps
<1>1. x \in KERNPDX-5..NPDENTRIES-1
  BY <1>0, MapFacts
<1> HIDE DEF x
<1>2. /\ Head(first_list) \in 0..npages-1 /\ Head(first_list) < PTPAGES
      /\ first_list' \in Seq(0..npages-1) /\ ref' \in [0..npages-1 -> {0, 1}]
      /\ pgdir' \in [0..NPDENTRIES-1 -> {NoPage} \cup 0..npages-1]
      /\ \A y \in 0..NPDENTRIES-1 : pgdir'[y] # NoPage => y >= KERNPDX - 5 /\ pgdir'[y] < PTPAGES
      /\ \A y \in 0..NPDENTRIES-1 : pgdir[y] # NoPage => pgdir'[y] # NoPage
      /\ pgdir'[x] # NoPage
      /\ InOrder(first_list') /\ Range(first_list') = Available'
      /\ \A p \in 0..npages-1 : ref'[p] = 0 <=> p \in Available'
  BY <1>0, <1>1, <1>s, TakeTable
<1>3. /\ Entries' /\ turn' \in Nat /\ call' \in 1..5+NCPU
      /\ entry' \in [VAs -> [pa : Int, perm : SUBSET {"U", "W"}]]
  BY <1>0, <1>2, MapEntryKeeps DEF x
<1>4. StartTypes'
  BY <1>0, <1>2, <1>3 DEF MemoryInv, StartTypes, StartTypeOK
<1>5. Arrays'
  BY <1>0 DEF MemoryInv, Arrays
<1>6. Directory'
  BY <1>0, <1>2 DEF Directory, Maps
<1>7. Lists'
  BY <1>0, <1>2 DEF Lists, Boots
<1>8. Stores'
  <2>1. kern_pgdir \in 0..PTPAGES-1 /\ kern_pgdir \in 0..npages-1
    BY <1>s, DirectoryPage
  <2>2. Head(first_list) \in 0..PTPAGES-1
    <3> DEFINE h == Head(first_list)
    <3>1. h \in 0..npages-1 /\ h < PTPAGES /\ npages \in Nat
      BY <1>2, MemoryFacts
    <3> HIDE DEF h
    <3>2. h \in 0..PTPAGES-1
      BY <3>1, Constant
    <3> QED
      BY <3>2 DEF h
  <2> QED
    BY <2>1, <2>2, <1>0, <1>2 DEF Stores
<1> QED
  BY <1>3, <1>4, <1>5, <1>6, <1>7, <1>8 DEF MemoryInv

LEMMA Lcr3Step ==
    ASSUME MemoryInv, Lcr3
    PROVE  MemoryInv'
<1> USE DEF machine, arrays, pool, tables
<1>0. /\ ip = "map" /\ ip' = "check_installed" /\ call \notin Calls /\ cr3' = "kern_pgdir"
      /\ stored' = Range(first_list) /\ UNCHANGED <<machine, arrays, pool, tables, turn>>
  BY DEF Lcr3
<1> HIDE DEF Lcr3
<1>1. call = 5 + NCPU /\ turn = 0
  <2>1. call \in 1..5+NCPU /\ Calls = 1..4+NCPU /\ NCPU \in Nat
    BY Constant DEF MemoryInv, StartTypes, StartTypeOK, Calls
  <2> QED
    BY <2>1, <1>0 DEF MemoryInv, Entries
<1>2. StartTypes'
  BY <1>0 DEF MemoryInv, StartTypes, StartTypeOK, Boots, Listed, Sorted, Maps
<1>3. Arrays'
  BY <1>0 DEF MemoryInv, Arrays, Listed, Sorted, Maps
<1>4. Directory'
  BY <1>0 DEF MemoryInv, Directory, Maps
<1>5. Lists'
  <2>1. Available' = Available
    BY <1>0 DEF Available, PageTables
  <2>2. /\ InOrder(first_list) /\ Range(first_list) = Available
        /\ \A p \in 0..npages-1 : ref[p] = 0 <=> p \in Available
    BY <1>0 DEF MemoryInv, Lists, Sorted, Maps
  <2> QED
    BY <2>1, <2>2, <1>0 DEF Lists, Boots
<1>6. Entries'
  BY <1>0, <1>1, SameEntries DEF Maps
<1>7. Stores'
  <2>1. Range(first_list) \subseteq 0..npages-1
    BY Members DEF MemoryInv, StartTypes, StartTypeOK
  <2> QED
    BY <2>1, <1>0 DEF Stores
<1> QED
  BY <1>2, <1>3, <1>4, <1>5, <1>6, <1>7 DEF MemoryInv

LEMMA CheckInstalledStep ==
    ASSUME LowPages, MemoryInv, CheckInstalled
    PROVE  MemoryInv'
<1> USE DEF machine, arrays, tables
<1>0. ip = "check_installed" /\ ip \in Sorted /\ npages \in Nat
  BY MemoryFacts DEF CheckInstalled, Sorted, Maps
<1>1. /\ Len(first_list) >= 4 /\ Len(first_list) \in Nat /\ GivenBack(2, 3, 1) = first_list
      /\ Head(FreeTo(Rest, first_list[1])) = first_list[1]
      /\ \A j \in 1..4 : first_list[j] \in 0..npages-1
  BY <1>0, SortedFacts, LenProperties
<1>2. /\ first_list' = first_list /\ stored' = {first_list[k] : k \in 1..3} /\ ip' = "done"
      /\ UNCHANGED <<machine, arrays, ref, halves, tables, cr3, turn>>
  BY <1>1 DEF CheckInstalled
<1> HIDE DEF CheckInstalled
<1>c. cr3 = "kern_pgdir" /\ call = 5 + NCPU /\ turn = 0
  BY <1>0 DEF MemoryInv, StartTypes, Entries
<1>3. StartTypes'
  BY <1>0, <1>2 DEF MemoryInv, StartTypes, StartTypeOK, Boots, Listed, Sorted, Maps
<1>4. Arrays'
  BY <1>0, <1>2 DEF MemoryInv, Arrays, Listed, Sorted, Maps
<1>5. Directory'
  BY <1>0, <1>2 DEF MemoryInv, Directory, Maps
<1>6. Lists'
  <2>1. Available' = Available
    BY <1>2 DEF Available, PageTables
  <2>2. /\ InOrder(first_list) /\ Range(first_list) = Available
        /\ \A p \in 0..npages-1 : ref[p] = 0 <=> p \in Available
    BY <1>0 DEF MemoryInv, Lists
  <2> QED
    BY <2>1, <2>2, <1>2 DEF Lists, Boots
<1>7. Entries'
  BY <1>0, <1>2, <1>c, SameEntries DEF Maps
<1>8. Stores'
  <2>1. stored' \subseteq 0..npages-1
    BY <1>1, <1>2
  <2> QED
    BY <2>1, <1>2, <1>c DEF Stores
<1> QED
  BY <1>3, <1>4, <1>5, <1>6, <1>7, <1>8 DEF MemoryInv

LEMMA NextMemory ==
    ASSUME LowPages, MemoryInv, [StartNext]_startVars
    PROVE  MemoryInv'
<1>1. CASE NotEnough
  <2>1. ip \notin {"check_installed", "done"} /\ Panic
    BY <1>1 DEF NotEnough
  <2> QED
    BY <2>1, PanicStep
<1>2. CASE MapFaults
  <2>1. ip \in Sorted /\ first_list = << >>
    BY <1>2 DEF MapFaults, Sorted, Maps
  <2> QED
    BY <2>1, SortedFacts
<1>3. CASE UNCHANGED startVars
  <2> USE <1>3 DEF startVars, machine, arrays, pool, tables
  <2>1. StartTypes'
    BY DEF MemoryInv, StartTypes, StartTypeOK
  <2>2. Arrays'
    BY DEF MemoryInv, Arrays
  <2>3. Directory'
    BY DEF MemoryInv, Directory
  <2>4. Lists'
    <3>1. Available' = Available /\ \A p : InUse(p)' = InUse(p)
      BY DEF Available, PageTables, InUse
    <3> QED
      BY <3>1 DEF MemoryInv, Lists
  <2>5. Entries'
    <3>1. Regions' = Regions /\ Calls' = Calls /\ \A m : Turns(m)' = Turns(m)
      BY SameRegions
    <3>2. /\ \A m, k : IsMapped(m, k)' <=> IsMapped(m, k)
          /\ \A m, k : MapsTo(Regions[m].va + k, Regions[m].pa + k, Regions[m].perm)' <=>
                        MapsTo(Regions[m].va + k, Regions[m].pa + k, Regions[m].perm)
      BY <3>1 DEF IsMapped, MapsTo, PDX
    <3> QED
      BY <3>1, <3>2 DEF MemoryInv, Entries
  <2>6. Stores'
    BY DEF MemoryInv, Stores
  <2> QED
    BY <2>1, <2>2, <2>3, <2>4, <2>5, <2>6 DEF MemoryInv
<1> QED
  BY <1>1, <1>2, <1>3, AllocPgdirStep, AllocPagesStep, AllocEnvsStep, PageInitStep, PageInitEndStep,
     TakeApartStep, CheckLowStep, CheckPageAllocStep, CheckPageStep, MapHereStep, MapWithTableStep,
     Lcr3Step, CheckInstalledStep DEF StartNext

LEMMA MemoryInvariance == LowPages => (StartSpec => []MemoryInv)
<1> SUFFICES ASSUME LowPages PROVE StartSpec => []MemoryInv
  OBVIOUS
<1>1. StartInit => MemoryInv
  BY InitMemory
<1>2. MemoryInv /\ [StartNext]_startVars => MemoryInv'
  BY NextMemory
<1> QED
  BY <1>1, <1>2, PTL DEF StartSpec

-----------------------------------------------------------------------------
(* What it says *)

LEMMA DescendingOnce ==
    ASSUME NEW list \in Seq(Nat), Descending(list)
    PROVE  IsInjective(list)
<1>1. DOMAIN list = 1..Len(list) /\ Len(list) \in Nat /\ \A j \in 1..Len(list) : list[j] \in Nat
  BY Members
<1>2. ASSUME NEW j \in 1..Len(list), NEW k \in 1..Len(list), list[j] = list[k] PROVE j = k
  <2>1. ~(j < k) /\ ~(k < j)
    BY <1>1, <1>2 DEF Descending
  <2> QED
    BY <2>1, <1>1
<1> QED
  BY <1>1, <1>2 DEF IsInjective

LEMMA InOrderOnce ==
    ASSUME NEW list \in Seq(Nat), InOrder(list)
    PROVE  IsInjective(list)
<1>1. DOMAIN list = 1..Len(list) /\ Len(list) \in Nat /\ \A j \in 1..Len(list) : list[j] \in Nat
  BY Members
<1>2. ASSUME NEW j \in 1..Len(list), NEW k \in 1..Len(list), list[j] = list[k] PROVE j = k
  <2>1. ~Earlier(list[j], list[k]) /\ ~Earlier(list[k], list[j])
    BY <1>1, <1>2 DEF Earlier
  <2>2. ~(j < k) /\ ~(k < j)
    BY <2>1 DEF InOrder
  <2> QED
    BY <2>2, <1>1
<1> QED
  BY <1>1, <1>2 DEF IsInjective

LEMMA FreeIsExact ==
    ASSUME MemoryInv
    PROVE  FreeExact
<1> SUFFICES ASSUME ListMade PROVE
        /\ IsInjective(first_list)
        /\ Range(first_list) =
              (0..npages-1) \ (IOPHYSMEM..EXTPHYSMEM-1 \cup EXTPHYSMEM..nextfree-1
                               \cup {0, MPENTRY} \cup PageTables)
        /\ \A p \in 0..npages-1 : ref[p] = 0 <=> p \in Range(first_list)
  BY DEF FreeExact
<1>0. ip \in {"low_first"} \cup Sorted /\ ip \in Listed
  BY DEF MemoryInv, StartTypes, ListMade, Boots, Listed
<1>1. npages \in Nat /\ first_list \in Seq(Nat)
  BY MemoryFacts DEF MemoryInv, StartTypes, StartTypeOK
<1>2. /\ IsInjective(first_list) /\ Range(first_list) = Available
      /\ \A p \in 0..npages-1 : ref[p] = 0 <=> p \in Range(first_list)
  <2>1. CASE ip = "low_first"
    <3>1. Available = {p \in 0..npages-1 : ~InUse(p)}
      BY <2>1, OnlyDirectory DEF Listed, Sorted, Maps
    <3>2. /\ Descending(first_list) /\ Range(first_list) = {p \in 0..npages-1 : ~InUse(p)}
          /\ \A p \in 0..npages-1 : ref[p] = 0 <=> ~InUse(p)
      BY <2>1 DEF MemoryInv, Lists
    <3> QED
      BY <3>1, <3>2, <1>1, DescendingOnce
  <2>2. CASE ip \in Sorted
    <3>1. /\ InOrder(first_list) /\ Range(first_list) = Available
          /\ \A p \in 0..npages-1 : ref[p] = 0 <=> p \in Available
      BY <2>2 DEF MemoryInv, Lists
    <3> QED
      BY <3>1, <1>1, InOrderOnce
  <2> QED
    BY <1>0, <2>1, <2>2
<1>3. IOPHYSMEM..nextfree-1 = IOPHYSMEM..EXTPHYSMEM-1 \cup EXTPHYSMEM..nextfree-1
  <2>1. nextfree \in Nat /\ EXTPHYSMEM < nextfree
    BY <1>0, ListedFacts, MemoryFacts, Constant
  <2> QED
    BY <2>1, Constant
<1> QED
  BY <1>2, <1>3 DEF Available

LEMMA ListIsOrdered ==
    ASSUME MemoryInv
    PROVE  ListOrder
<1> SUFFICES ASSUME ip = "done", NEW j \in 1..Len(first_list), NEW k \in 1..Len(first_list), j < k
             PROVE  IF Low(first_list[j]) = Low(first_list[k]) THEN first_list[j] > first_list[k]
                    ELSE Low(first_list[j])
  BY DEF ListOrder
<1>1. InOrder(first_list)
  BY DEF MemoryInv, Lists, Sorted, Maps
<1> QED
  BY <1>1 DEF InOrder, Earlier

LEMMA IsInstalled ==
    ASSUME MemoryInv, ip \in {"check_installed", "done"}, NEW m \in Calls, m # 3, NEW k \in Turns(m)
    PROVE  MapsTo(Regions[m].va + k, Regions[m].pa + k, Regions[m].perm)
<1>1. call = 5 + NCPU /\ m < 5 + NCPU
  BY Constant DEF MemoryInv, Entries, Calls
<1>2. IsMapped(m, k)
  BY <1>1 DEF IsMapped
<1> QED
  BY <1>2 DEF MemoryInv, Entries, Maps

LEMMA AllOfMemory ==
    ASSUME MemoryInv, ip \in {"check_installed", "done"}, NEW p \in 0..npages-1
    PROVE  MapsTo(KERNBASE + p, p, {"W"})
<1>1. 4 \in Calls /\ Regions[4] = Region(KERNBASE, (NPDENTRIES - KERNPDX) * PTPAGES, 0, {"W"})
  BY RegionsAre
<1>2. p \in Turns(4)
  <2>1. npages \in Nat /\ npages <= (NPDENTRIES - KERNPDX) * PTPAGES
        /\ (NPDENTRIES - KERNPDX) * PTPAGES \in Int
    BY MemoryFacts, Bases, Constant
  <2>2. Turns(4) = 0..(NPDENTRIES - KERNPDX) * PTPAGES - 1
    BY <1>1 DEF Turns, Region
  <2> QED
    BY <2>1, <2>2
<1>3. MapsTo(Regions[4].va + p, Regions[4].pa + p, Regions[4].perm)
  BY <1>1, <1>2, IsInstalled
<1>4. Regions[4].va = KERNBASE /\ Regions[4].pa + p = p /\ Regions[4].perm = {"W"}
  BY <1>1 DEF Region
<1> QED
  BY <1>3, <1>4

LEMMA IsTranslated ==
    ASSUME MemoryInv
    PROVE  Mapped
<1> SUFFICES ASSUME NEW p \in stored \cup EXTPHYSMEM..end-1 PROVE Translated(KERNBASE + p) = p
  BY DEF Mapped
<1>0. npages \in Nat /\ end \in Nat /\ end <= npages /\ end <= PTPAGES
  BY MemoryFacts, Constant
<1>1. CASE cr3 = "entry_pgdir"
  <2>1. p \in 0..PTPAGES-1
    BY <1>0, <1>1, Constant DEF MemoryInv, Stores
  <2>2. PDX(KERNBASE - 0 * PTPAGES + p) = KERNPDX - 0 /\ (KERNBASE - 0 * PTPAGES + p) % PTPAGES = p
    BY <2>1, Below
  <2>3. KERNBASE - 0 * PTPAGES + p = KERNBASE + p /\ KERNPDX - 0 = KERNPDX
    BY <2>1, Bases, Constant
  <2>4. PDX(KERNBASE + p) = KERNPDX /\ (KERNBASE + p) % PTPAGES = p
    BY <2>2, <2>3
  <2> QED
    BY <1>1, <2>4 DEF Translated
<1>2. CASE cr3 # "entry_pgdir"
  <2>1. ip \in {"check_installed", "done"}
    BY <1>2 DEF MemoryInv, StartTypes, StartTypeOK
  <2>2. p \in 0..npages-1
    BY <1>0, Constant DEF MemoryInv, Stores
  <2>3. MapsTo(KERNBASE + p, p, {"W"})
    BY <2>1, <2>2, AllOfMemory
  <2> QED
    BY <1>2, <2>3 DEF Translated, MapsTo
<1> QED
  BY <1>1, <1>2

LEMMA KernelIsAt ==
    ASSUME MemoryInv
    PROVE  KernelMap
<1> SUFFICES ASSUME ip = "done" PROVE
        /\ \A p \in 0..npages-1 : MapsTo(KERNBASE + p, p, {"W"})
        /\ \A c \in 0..NCPU-1 :
              LET bottom == KSTACKTOP - c * (KSTKSIZE + KSTKGAP) - KSTKSIZE
              IN  /\ \A k \in 0..KSTKSIZE-1 : MapsTo(bottom + k, Kstack(c) + k, {"W"})
                  /\ \A k \in 1..KSTKGAP : entry[bottom - k] = NoEntry
        /\ \A k \in 0..PagesSize(npages)-1 : MapsTo(UPAGES + k, pages + k, {"U"})
        /\ \A k \in 0..ENVPAGES-1 : MapsTo(UENVS + k, envs + k, {"U"})
        /\ \A va \in VAs : entry[va] # NoEntry => va >= UTOP /\ entry[va].perm # {"U", "W"}
  BY DEF KernelMap
<1>0. /\ ENVPAGES <= PTPAGES /\ PagesSize(npages) <= PTPAGES /\ PagesSize(npages) \in Nat
  BY MemoryFacts
<1>e. \A va \in VAs : entry[va] # NoEntry =>
          \E m \in Calls : \E k \in Turns(m) :
              va = Regions[m].va + k /\ entry[va].perm = Regions[m].perm
  BY DEF MemoryInv, Entries, Maps
<1>1. \A p \in 0..npages-1 : MapsTo(KERNBASE + p, p, {"W"})
  BY AllOfMemory
<1>2. ASSUME NEW c \in 0..NCPU-1, NEW k \in 0..KSTKSIZE-1
      PROVE  MapsTo(KSTACKTOP - c * (KSTKSIZE + KSTKGAP) - KSTKSIZE + k, Kstack(c) + k, {"W"})
  <2> DEFINE m == c + 5
  <2>1. m \in Calls \ 1..4 /\ m # 3 /\ m - 5 = c
    BY Constant DEF Calls
  <2> HIDE DEF m
  <2>2. Regions[m] = Region(StackTop(c) - KSTKSIZE, KSTKSIZE, Kstack(c), {"W"})
    BY <2>1, RegionsAre
  <2>3. /\ Regions[m].va = KSTACKTOP - c * (KSTKSIZE + KSTKGAP) - KSTKSIZE
        /\ Regions[m].pa = Kstack(c) /\ Regions[m].perm = {"W"} /\ k \in Turns(m)
    BY <2>2 DEF Region, StackTop, Turns
  <2>4. MapsTo(Regions[m].va + k, Regions[m].pa + k, Regions[m].perm)
    BY <2>1, <2>3, IsInstalled
  <2> QED
    BY <2>3, <2>4
<1>3. ASSUME NEW c \in 0..NCPU-1, NEW k \in 1..KSTKGAP
      PROVE  entry[KSTACKTOP - c * (KSTKSIZE + KSTKGAP) - KSTKSIZE - k] = NoEntry
  <2> DEFINE va == KSTACKTOP - c * (KSTKSIZE + KSTKGAP) - KSTKSIZE - k
  <2>1. va \in VAs /\ \A m \in Calls : \A i \in Turns(m) : va # Regions[m].va + i
    BY <1>0, GuardFree
  <2> HIDE DEF va
  <2>2. entry[va] = NoEntry
    BY <2>1, <1>e
  <2> QED
    BY <2>2 DEF va
<1>4. ASSUME NEW k \in 0..PagesSize(npages)-1 PROVE MapsTo(UPAGES + k, pages + k, {"U"})
  <2>1. 1 \in Calls /\ Regions[1] = Region(UPAGES, PTPAGES, pages, {"U"})
    BY RegionsAre
  <2>2. k \in Turns(1) /\ Regions[1].va = UPAGES /\ Regions[1].pa = pages /\ Regions[1].perm = {"U"}
    BY <2>1, <1>0, Constant DEF Region, Turns
  <2>3. MapsTo(Regions[1].va + k, Regions[1].pa + k, Regions[1].perm)
    BY <2>1, <2>2, IsInstalled
  <2> QED
    BY <2>2, <2>3
<1>5. ASSUME NEW k \in 0..ENVPAGES-1 PROVE MapsTo(UENVS + k, envs + k, {"U"})
  <2>1. 2 \in Calls /\ Regions[2] = Region(UENVS, ENVPAGES, envs, {"U"})
    BY RegionsAre
  <2>2. k \in Turns(2) /\ Regions[2].va = UENVS /\ Regions[2].pa = envs /\ Regions[2].perm = {"U"}
    BY <2>1 DEF Region, Turns
  <2>3. MapsTo(Regions[2].va + k, Regions[2].pa + k, Regions[2].perm)
    BY <2>1, <2>2, IsInstalled
  <2> QED
    BY <2>2, <2>3
<1>6. ASSUME NEW va \in VAs, entry[va] # NoEntry PROVE va >= UTOP /\ entry[va].perm # {"U", "W"}
  <2>1. PICK m \in Calls : \E k \in Turns(m) : va = Regions[m].va + k /\ entry[va].perm = Regions[m].perm
    BY <1>6, <1>e
  <2>2. PICK k \in Turns(m) : va = Regions[m].va + k /\ entry[va].perm = Regions[m].perm
    BY <2>1
  <2>3. va >= UTOP
    BY <2>2, <1>0, RegionAt
  <2>4. Regions[m].perm = {"U"} \/ Regions[m].perm = {"W"}
    <3>1. m = 1 \/ m = 2 \/ m = 4 \/ m \in StackCalls
      BY DEF StackCalls
    <3> QED
      BY <3>1, RegionsAre, StackRegion DEF Region
  <2> QED
    BY <2>2, <2>3, <2>4
<1> QED
  BY <1>1, <1>2, <1>3, <1>4, <1>5, <1>6

(* However much memory the machine has and wherever the kernel ends,       *)
(* mem_init() leaves on page_free_list exactly the pages that nothing      *)
(* uses, each once, with pp_ref 0, and the low ones first.                 *)
THEOREM FreeListInvariance == LowPages => (StartSpec => []StartIInv)
<1>1. MemoryInv => StartIInv
  <2> SUFFICES ASSUME MemoryInv PROVE StartIInv
    OBVIOUS
  <2>1. StartTypeOK
    BY DEF MemoryInv, StartTypes
  <2> QED
    BY <2>1, FreeIsExact, ListIsOrdered DEF StartIInv
<1> QED
  BY <1>1, MemoryInvariance, PTL

(* Nothing that mem_init() stores to is out of the map it runs on.         *)
THEOREM StoresAreMapped == LowPages => (StartSpec => []Mapped)
<1>1. MemoryInv => Mapped
  BY IsTranslated
<1> QED
  BY <1>1, MemoryInvariance, PTL

(* The kernel's page directory is the picture of inc/memlayout.h.          *)
THEOREM KernelIsMapped == LowPages => (StartSpec => []KernelMap)
<1>1. MemoryInv => KernelMap
  BY KernelIsAt
<1> QED
  BY <1>1, MemoryInvariance, PTL
====
