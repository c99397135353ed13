------------------------------ MODULE ProgramProofs ------------------------------
(***************************************************************************)
(* Theorems about what a program starts with and goes on with.             *)
(*                                                                         *)
(* Registers, for every number of processors, environments and values: a   *)
(* program finds its registers as it left them (module Computations),      *)
(* although env_pop_tf() reads the saved frame without the kernel lock and *)
(* other environments come and go in the same slots.                       *)
(*                                                                         *)
(* Segments, for every size of a page, a sector, a file and the memory:    *)
(* the three loaders put a program in memory as its headers say.           *)
(***************************************************************************)
EXTENDS Registers, Segments, FiniteSetTheorems, TLAPS

-----------------------------------------------------------------------------
(* The invariant *)

Statuses == {"free", "newborn", "runnable", "running", "waiting", "dying"}
Active   == {"running", "dying"}
RegSets  == [eax : Results, reg : Values, eip : {"none", "program", "call", "upcall"}, intr : BOOLEAN]
CpuStates == [env : 0..NENV, at : {"halt", "pop", "iret", "user"}, regs : RegSets]

Types ==
    /\ status \in [Envs -> Statuses] /\ parent \in [Envs -> 0..NENV] /\ recving \subseteq Envs
    /\ tf \in [Envs -> Frames \cup {Nobody}] /\ utf \in [Envs -> Frames \cup {Nobody}]
    /\ cpu \in [Cpus -> CpuStates]

(* An environment is on the processor that runs it, and on no other. *)
Owners ==
    /\ \A c \in Cpus : cpu[c].env = 0 <=> cpu[c].at = "halt"
    /\ \A c, d \in Cpus : cpu[c].env = cpu[d].env /\ cpu[c].env # 0 => c = d
    /\ \A e \in Envs : status[e] \in Active <=> \E c \in Cpus : cpu[c].env = e

(* Free slots are empty; one that can receive waits. *)
Slots ==
    /\ \A e \in Envs : tf[e] = Nobody <=> status[e] = "free"
    /\ \A e \in recving : status[e] = "waiting"

InUser(e) == \E c \in Cpus : cpu[c].env = e /\ cpu[c].at = "user"

(* The upcall finds on the exception stack what it interrupted. *)
Upcalls ==
    /\ \A c \in Cpus : cpu[c].at = "user" =>
           /\ cpu[c].regs \in Frames
           /\ cpu[c].regs.eip = "upcall" => utf[cpu[c].env] # Nobody
    /\ \A e \in Envs :
           /\ utf[e] # Nobody => utf[e].eip # "upcall"
           /\ ~InUser(e) => (tf[e].eip = "upcall" => utf[e] # Nobody)

RInv == Types /\ Owners /\ Slots /\ Upcalls

LEMMA NobodyFacts ==
    /\ Nobody \in RegSets /\ Nobody \notin Frames /\ Nobody.eip = "none"
    /\ First \in Frames /\ First.eip = "program" /\ Frames \subseteq RegSets
    /\ 0 \in Values /\ 0 \in Results /\ Error \in Results /\ CallNo \in Results
    /\ Envs \subseteq Results /\ NENV \in Nat /\ NENV >= 1 /\ 0 \notin Envs
<1> USE RegistersAssumption
<1>1. 0 \in Results /\ Error \in Results /\ CallNo \in Results /\ Envs \subseteq Results
  BY DEF Results, Error, CallNo, Envs
<1>2. Nobody \in RegSets /\ Nobody.eip = "none" /\ First \in Frames /\ First.eip = "program"
  BY <1>1 DEF Nobody, First, Frames, RegSets
<1>3. Nobody \notin Frames
  <2>1. \A f \in Frames : f.eip # "none"
    BY DEF Frames
  <2> QED
    BY <1>2, <2>1
<1>4. Frames \subseteq RegSets
  BY DEF Frames, RegSets
<1> QED
  BY <1>1, <1>2, <1>3, <1>4 DEF Envs

LEMMA InitRInv == Init => RInv
<1> SUFFICES ASSUME Init PROVE RInv
  OBVIOUS
<1> USE NobodyFacts
<1>1. /\ \A c \in Cpus : cpu[c] = [env |-> 0, at |-> "halt", regs |-> Nobody]
      /\ \A e \in Envs : tf[e] = (IF e = 1 THEN First ELSE Nobody) /\ utf[e] = Nobody
      /\ \A e \in Envs : status[e] = IF e = 1 THEN "runnable" ELSE "free"
  BY DEF Init
<1>2. Types
  <2>1. [env |-> 0, at |-> "halt", regs |-> Nobody] \in CpuStates
    BY DEF CpuStates
  <2> QED
    BY <2>1 DEF Init, Types, Statuses
<1>3. Owners
  BY <1>1 DEF Owners, Active
<1>4. Slots
  BY <1>1 DEF Slots, Init
<1>5. Upcalls
  <2>1. Nobody.eip # "upcall" /\ First.eip # "upcall"
    OBVIOUS
  <2> QED
    BY <1>1, <2>1 DEF Upcalls
<1> QED
  BY <1>2, <1>3, <1>4, <1>5 DEF RInv

-----------------------------------------------------------------------------
(* A processor leaves one environment and takes up another, or halts. *)

Left(c, st, r) ==
    /\ cpu' = [cpu EXCEPT ![c] = r]
    /\ r \in [env : 0..NENV, at : {"pop", "halt"}, regs : {Nobody}]
    /\ r.env = 0 <=> r.at = "halt"
    /\ r.env # 0 => \A d \in Cpus \ {c} : cpu[d].env # r.env
    /\ status' \in [Envs -> Statuses]
    /\ \A k \in Envs :
          /\ status'[k] \in Active <=> (k = r.env \/ \E d \in Cpus \ {c} : cpu[d].env = k)
          /\ \A x \in {"free", "newborn", "waiting", "dying"} : status'[k] = x <=> st[k] = x

(* What statuses the kernel may leave before it chooses: those of the      *)
(* environments on other processors stay active.                           *)
Leaves(c, st) ==
    /\ st \in [Envs -> Statuses]
    /\ \A k \in Envs : k # cpu[c].env => (st[k] \in Active <=> status[k] \in Active)
    /\ cpu[c].env # 0 => st[cpu[c].env] # "dying"

LEMMA RunLeaves ==
    ASSUME RInv, NEW c \in Cpus, NEW st, Leaves(c, st), NEW e \in Envs, Run(c, st, e),
           st[e] = "runnable" \/ (e = cpu[c].env /\ st[e] = "running")
    PROVE  Left(c, st, [env |-> e, at |-> "pop", regs |-> Nobody])
<1> USE NobodyFacts DEF RInv, Types, Owners, Leaves
<1> DEFINE old == cpu[c].env
           r == [env |-> e, at |-> "pop", regs |-> Nobody]
           st1 == IF old # 0 /\ st[old] = "running" THEN [st EXCEPT ![old] = "runnable"] ELSE st
<1>1. cpu' = [cpu EXCEPT ![c] = r] /\ status' = [st1 EXCEPT ![e] = "running"]
  BY DEF Run
<1>2. old \in 0..NENV /\ e \in 1..NENV /\ (old # 0 => old \in Envs) /\ e # 0
  BY DEF CpuStates, Envs
<1>3. \A d \in Cpus \ {c} : cpu[d].env # e
  BY <1>2 DEF Active
<1>4. st1 \in [Envs -> Statuses]
  BY <1>2 DEF Statuses
<1>5. status' \in [Envs -> Statuses]
  BY <1>1, <1>4 DEF Statuses
<1>6. ASSUME NEW k \in Envs
      PROVE  /\ status'[k] \in Active <=> (k = e \/ \E d \in Cpus \ {c} : cpu[d].env = k)
             /\ \A x \in {"free", "newborn", "waiting", "dying"} : status'[k] = x <=> st[k] = x
  <2>1. CASE k = e
    BY <1>1, <1>4, <2>1 DEF Active
  <2>2. CASE k # e /\ k = old
    <3>1. status'[k] = IF st[k] = "running" THEN "runnable" ELSE st[k]
      BY <1>1, <1>2, <1>4, <2>2
    <3>2. \A d \in Cpus \ {c} : cpu[d].env # k
      BY <1>2, <2>2
    <3> QED
      BY <1>2, <2>2, <3>1, <3>2 DEF Active
  <2>3. CASE k # e /\ k # old
    <3>1. status'[k] = st[k]
      BY <1>1, <1>2, <1>4, <2>3
    <3> QED
      BY <2>3, <3>1
  <2> QED
    BY <2>1, <2>2, <2>3
<1>7. r \in [env : 0..NENV, at : {"pop", "halt"}, regs : {Nobody}]
  BY <1>2
<1> QED
  BY <1>1, <1>2, <1>3, <1>5, <1>6, <1>7 DEF Left

LEMMA HaltLeaves ==
    ASSUME RInv, NEW c \in Cpus, NEW st, Leaves(c, st), Halt(c, st), ~Goes(c, st)
    PROVE  Left(c, st, [env |-> 0, at |-> "halt", regs |-> Nobody])
<1> USE NobodyFacts DEF RInv, Types, Owners, Leaves
<1> DEFINE old == cpu[c].env
           r == [env |-> 0, at |-> "halt", regs |-> Nobody]
<1>1. cpu' = [cpu EXCEPT ![c] = r] /\ status' = st
  BY DEF Halt
<1>2. old \in 0..NENV /\ (old # 0 => old \in Envs /\ st[old] \notin Active)
  BY DEF CpuStates, Envs, Goes, Active
<1>3. ASSUME NEW k \in Envs
      PROVE  st[k] \in Active <=> \E d \in Cpus \ {c} : cpu[d].env = k
  BY <1>2
<1>4. r \in [env : 0..NENV, at : {"pop", "halt"}, regs : {Nobody}]
  BY <1>2
<1> QED
  BY <1>1, <1>3, <1>4 DEF Left

(* sched_yield() and the end of trap() *)
LEMMA Switch ==
    ASSUME RInv, NEW c \in Cpus, NEW st, Leaves(c, st), SchedYield(c, st) \/ Resume(c, st)
    PROVE  \E r : Left(c, st, r)
<1>1. cpu[c].env = 0 \/ cpu[c].env \in Envs
  BY NobodyFacts DEF RInv, Types, CpuStates, Envs
<1>2. ASSUME SchedYield(c, st)
      PROVE  \E r : Left(c, st, r)
  <2>1. ASSUME NEW e \in Ready(st), Run(c, st, e)
        PROVE  \E r : Left(c, st, r)
    BY <2>1, RunLeaves DEF Ready
  <2>2. CASE Goes(c, st) /\ Run(c, st, cpu[c].env)
    BY <1>1, <2>2, RunLeaves DEF Goes
  <2>3. CASE ~Goes(c, st) /\ Halt(c, st)
    BY <2>3, HaltLeaves
  <2> QED
    BY <1>2, <2>1, <2>2, <2>3 DEF SchedYield
<1>3. CASE Goes(c, st) /\ Run(c, st, cpu[c].env)
  BY <1>1, <1>3, RunLeaves DEF Goes
<1> QED
  BY <1>2, <1>3 DEF Resume


-----------------------------------------------------------------------------
(* Where the registers of a program are *)

Half(e, c) == [tf[e] EXCEPT !.eax = cpu[c].regs.eax, !.reg = cpu[c].regs.reg]

RegsOnCpu ==
    \A e \in Envs :
        /\ (\A c \in Cpus : cpu[c].env = e => cpu[c].at = "pop") => Now(e) = tf[e]
        /\ \A c \in Cpus : cpu[c].env = e /\ cpu[c].at = "iret" => Now(e) = Half(e, c)
        /\ \A c \in Cpus : cpu[c].env = e /\ cpu[c].at = "user" => Now(e) = cpu[c].regs
        /\ ~InUser(e) => Now(e).eip = tf[e].eip /\ Now(e).intr = tf[e].intr

LEMMA Located == RInv => RegsOnCpu
<1> SUFFICES ASSUME RInv, NEW e \in Envs
             PROVE  /\ (\A c \in Cpus : cpu[c].env = e => cpu[c].at = "pop") => Now(e) = tf[e]
                    /\ \A c \in Cpus : cpu[c].env = e /\ cpu[c].at = "iret" => Now(e) = Half(e, c)
                    /\ \A c \in Cpus : cpu[c].env = e /\ cpu[c].at = "user" => Now(e) = cpu[c].regs
                    /\ ~InUser(e) => Now(e).eip = tf[e].eip /\ Now(e).intr = tf[e].intr
  BY DEF RegsOnCpu
<1> USE NobodyFacts DEF RInv, Types, Owners
<1>1. e # 0 /\ tf[e] \in RegSets
  OBVIOUS
<1>2. ASSUME NEW c \in Cpus, cpu[c].env = e
      PROVE  Here(e) = {c} /\ (CHOOSE d \in Here(e) : TRUE) = c
  <2>1. Here(e) = {c}
    BY <1>1, <1>2 DEF Here
  <2> QED
    BY <2>1
<1>3. \A c \in Cpus : cpu[c].env = e /\ cpu[c].at = "user" => Now(e) = cpu[c].regs
  BY <1>2 DEF Now
<1>4. \A c \in Cpus : cpu[c].env = e /\ cpu[c].at = "iret" => Now(e) = Half(e, c)
  BY <1>2 DEF Now, Half
<1>5. (\A c \in Cpus : cpu[c].env = e => cpu[c].at = "pop") => Now(e) = tf[e]
  BY DEF Now, Here
<1>6. ASSUME ~InUser(e)
      PROVE  Now(e).eip = tf[e].eip /\ Now(e).intr = tf[e].intr
  <2>1. \A c \in Cpus : cpu[c].env = e => cpu[c].at \in {"pop", "iret"}
    BY <1>1, <1>6 DEF InUser, CpuStates
  <2>2. ASSUME NEW c \in Cpus, cpu[c].env = e, cpu[c].at = "iret"
        PROVE  Now(e).eip = tf[e].eip /\ Now(e).intr = tf[e].intr
    BY <1>1, <1>4, <2>2 DEF Half, RegSets
  <2> QED
    BY <1>5, <2>1, <2>2
<1> QED
  BY <1>3, <1>4, <1>5, <1>6

LEMMA LocatedNext == RInv' => RegsOnCpu'
BY Located, PTL

(* A program that runs, outside of the upcall, has its registers on the    *)
(* processor; and only free slots have none.                               *)
SeesOwn ==
    /\ \A c \in Cpus : cpu[c].at = "user" /\ cpu[c].regs.eip # "upcall" =>
           Regs(cpu[c].env) = cpu[c].regs
    /\ \A e \in Envs : Regs(e) \in Frames \cup {Nobody} /\ Regs(e).eip # "upcall"
    /\ \A e \in Envs : Regs(e) = Nobody <=> status[e] = "free"

LEMMA Sees == RInv => SeesOwn
<1> SUFFICES ASSUME RInv PROVE SeesOwn
  OBVIOUS
<1> USE NobodyFacts DEF RInv, Types
<1>1. RegsOnCpu
  BY Located
<1>2. \A c \in Cpus : cpu[c].at = "user" => cpu[c].env \in Envs
  BY DEF Owners, CpuStates, Envs
<1>3. ASSUME NEW c \in Cpus, cpu[c].at = "user", cpu[c].regs.eip # "upcall"
      PROVE  Regs(cpu[c].env) = cpu[c].regs
  BY <1>1, <1>2, <1>3 DEF RegsOnCpu, Regs
<1>4. ASSUME NEW e \in Envs
      PROVE  /\ Now(e) \in Frames \cup {Nobody}
             /\ Now(e) = Nobody <=> status[e] = "free"
             /\ Now(e).eip = "upcall" => utf[e] \in Frames /\ utf[e].eip # "upcall"
  <2>1. ASSUME NEW c \in Cpus, cpu[c].env = e, cpu[c].at = "user"
        PROVE  /\ Now(e) \in Frames /\ status[e] # "free"
               /\ Now(e).eip = "upcall" => utf[e] # Nobody
    BY <1>1, <2>1 DEF RegsOnCpu, Upcalls, Owners, Active
  <2>2. ASSUME NEW c \in Cpus, cpu[c].env = e, cpu[c].at = "iret"
        PROVE  Now(e) \in Frames /\ status[e] # "free"
    <3>1. status[e] # "free" /\ tf[e] \in Frames
      BY <2>2 DEF Owners, Active, Slots
    <3>2. Now(e) = Half(e, c) /\ cpu[c].regs \in RegSets
      BY <1>1, <2>2 DEF RegsOnCpu, CpuStates
    <3> QED
      BY <3>1, <3>2 DEF Half, Frames, RegSets
  <2>3. ASSUME \A c \in Cpus : cpu[c].env = e => cpu[c].at = "pop"
        PROVE  /\ Now(e) \in Frames \cup {Nobody}
               /\ Now(e) = Nobody <=> status[e] = "free"
    BY <1>1, <2>3 DEF RegsOnCpu, Slots
  <2>4. \A c \in Cpus : cpu[c].env = e => cpu[c].at \in {"user", "iret", "pop"}
    BY DEF Owners, CpuStates, Envs
  <2>5. /\ Now(e) \in Frames \cup {Nobody}
        /\ Now(e) = Nobody <=> status[e] = "free"
    BY <2>1, <2>2, <2>3, <2>4
  <2>6. Now(e).eip = "upcall" => utf[e] # Nobody
    BY <1>1, <2>1 DEF RegsOnCpu, Upcalls, InUser
  <2>7. utf[e] # Nobody => utf[e] \in Frames /\ utf[e].eip # "upcall"
    BY DEF Upcalls
  <2> QED
    BY <2>5, <2>6, <2>7
<1>5. ASSUME NEW e \in Envs
      PROVE  /\ Regs(e) \in Frames \cup {Nobody} /\ Regs(e).eip # "upcall"
             /\ Regs(e) = Nobody <=> status[e] = "free"
  <2>1. CASE Now(e).eip # "upcall"
    BY <1>4, <2>1 DEF Regs
  <2>2. CASE Now(e).eip = "upcall"
    <3>1. Now(e) \in Frames /\ utf[e] \in Frames /\ utf[e].eip # "upcall"
      BY <1>4, <2>2
    <3>2. PICK f : f = [utf[e] EXCEPT !.intr = Now(e).intr]
      OBVIOUS
    <3>3. f \in Frames /\ f.eip # "upcall" /\ f # Nobody
      BY <3>1, <3>2 DEF Frames
    <3>4. Regs(e) = f
      BY <2>2, <3>2 DEF Regs
    <3> QED
      BY <1>4, <2>2, <3>1, <3>3, <3>4
  <2> QED
    BY <2>1, <2>2
<1> QED
  BY <1>3, <1>5 DEF SeesOwn

LEMMA SeesNext == RInv' => SeesOwn'
BY Sees, PTL

(* Who is on a processor and who executes there *)
InPlace ==
    /\ Runs \subseteq Placed
    /\ Placed \subseteq {k \in Envs : AllRegs[k] # Nobody} \ (Newborn \cup recving)
    /\ \A e \in Envs : e \in Placed <=> status[e] \in Active

LEMMA Places == RInv => InPlace
<1> SUFFICES ASSUME RInv PROVE InPlace
  OBVIOUS
<1> USE NobodyFacts DEF RInv, Types
<1>1. \A e \in Envs : e \in Placed <=> status[e] \in Active
  BY DEF Owners, Placed
<1>2. Runs \subseteq Placed
  BY DEF Runs, Placed, Program, User
<1>3. Placed \subseteq {k \in Envs : AllRegs[k] # Nobody} \ (Newborn \cup recving)
  <2>1. \A k \in Envs : AllRegs[k] = Regs(k)
    BY DEF AllRegs
  <2>2. Placed \subseteq Envs
    BY DEF Placed
  <2> QED
    BY <1>1, <2>1, <2>2, Sees DEF SeesOwn, Active, Newborn, Slots
<1> QED
  BY <1>1, <1>2, <1>3 DEF InPlace

LEMMA PlacesNext == RInv' => InPlace'
BY Places, PTL


-----------------------------------------------------------------------------
(* A visit to the kernel *)

Elsewhere(c, k) == \E d \in Cpus \ {c} : cpu[d].env = k

(* What a handler may do to the saved frames before a processor leaves it  *)
(* with statuses st: it stays out of the upcalls of environments on other  *)
(* processors.                                                             *)
Stores(c, st) ==
    /\ tf' \in [Envs -> Frames \cup {Nobody}] /\ utf' \in [Envs -> Frames \cup {Nobody}]
    /\ parent' \in [Envs -> 0..NENV] /\ recving' \subseteq Envs
    /\ \A k \in recving' : st[k] = "waiting"
    /\ \A k \in Envs :
          /\ tf'[k] = Nobody <=> st[k] = "free"
          /\ utf'[k] # Nobody => utf'[k].eip # "upcall"
          /\ Elsewhere(c, k) => utf'[k] = utf[k] /\ (tf'[k] = tf[k] \/ tf'[k].eip # "upcall")
          /\ ~Elsewhere(c, k) => (tf'[k].eip = "upcall" => utf'[k] # Nobody)

LEMMA VisitRInv ==
    ASSUME RInv, NEW c \in Cpus, NEW st, NEW r, Left(c, st, r), Stores(c, st)
    PROVE  RInv'
<1> USE NobodyFacts DEF RInv, Stores, Left
<1>1. /\ cpu'[c] = r /\ \A d \in Cpus \ {c} : cpu'[d] = cpu[d]
      /\ r.at \in {"pop", "halt"}
  BY DEF Types
<1>2. Types'
  <2>1. r \in CpuStates
    BY DEF CpuStates
  <2> QED
    BY <2>1 DEF Types
<1>3. Owners'
  <2>1. \A k \in Envs : status'[k] \in Active <=> \E d \in Cpus : cpu'[d].env = k
    BY <1>1
  <2>2. \A a, b \in Cpus : cpu'[a].env = cpu'[b].env /\ cpu'[a].env # 0 => a = b
    BY <1>1 DEF Owners
  <2>3. \A a \in Cpus : cpu'[a].env = 0 <=> cpu'[a].at = "halt"
    BY <1>1 DEF Owners
  <2> QED
    BY <2>1, <2>2, <2>3 DEF Owners
<1>4. Slots'
  BY DEF Slots
<1>5. \A d \in Cpus : cpu[d].env = 0 \/ cpu[d].env \in Envs
  BY DEF Types, CpuStates, Envs
<1>6. Upcalls'
  <2>1. ASSUME NEW d \in Cpus, cpu'[d].at = "user"
        PROVE  /\ cpu'[d].regs \in Frames
               /\ cpu'[d].regs.eip = "upcall" => utf'[cpu'[d].env] # Nobody
    <3>1. d # c /\ cpu'[d] = cpu[d]
      BY <1>1, <2>1
    <3>2. cpu[d].env \in Envs
      BY <1>5, <2>1, <3>1 DEF Owners
    <3> QED
      BY <2>1, <3>1, <3>2 DEF Upcalls, Elsewhere
  <2>2. ASSUME NEW k \in Envs, ~InUser(k)', tf'[k].eip = "upcall"
        PROVE  utf'[k] # Nobody
    <3>1. CASE ~Elsewhere(c, k)
      BY <2>2, <3>1
    <3>2. ASSUME NEW d \in Cpus \ {c}, cpu[d].env = k
          PROVE  utf'[k] # Nobody
      <4>1. cpu[d].at # "user"
        BY <1>1, <2>2, <3>2 DEF InUser
      <4>2. ~InUser(k)
        BY <3>2, <4>1 DEF InUser, Owners
      <4>3. tf'[k] = tf[k] /\ utf'[k] = utf[k]
        BY <2>2, <3>2 DEF Elsewhere
      <4> QED
        BY <2>2, <4>2, <4>3 DEF Upcalls
    <3> QED
      BY <3>1, <3>2 DEF Elsewhere
  <2>3. \A k \in Envs : utf'[k] # Nobody => utf'[k].eip # "upcall"
    OBVIOUS
  <2> QED
    BY <2>1, <2>2, <2>3 DEF Upcalls
<1> QED
  BY <1>2, <1>3, <1>4, <1>6

(* What the visit means for the registers. *)
LEMMA VisitRegs ==
    ASSUME RInv, RInv', NEW c \in Cpus, NEW st, NEW r, Left(c, st, r), Stores(c, st),
           NEW k \in Envs
    PROVE  /\ tf'[k] = tf[k] /\ utf'[k] = utf[k] /\ cpu[c].env # k => Regs(k)' = Regs(k)
           /\ ~Elsewhere(c, k) =>
                 Regs(k)' = IF tf'[k].eip = "upcall" THEN [utf'[k] EXCEPT !.intr = tf'[k].intr]
                            ELSE tf'[k]
<1>1. RegsOnCpu /\ RegsOnCpu'
  BY Located, LocatedNext
<1>2. /\ cpu'[c] = r /\ \A d \in Cpus \ {c} : cpu'[d] = cpu[d]
      /\ r.at \in {"pop", "halt"} /\ (r.env = 0 <=> r.at = "halt")
  BY DEF RInv, Types, Left
<1>3. k # 0
  BY NobodyFacts
<1>4. ASSUME ~Elsewhere(c, k)
      PROVE  Now(k)' = tf'[k]
  <2>1. \A d \in Cpus : cpu'[d].env = k => cpu'[d].at = "pop"
    BY <1>2, <1>3, <1>4 DEF Elsewhere
  <2> QED
    BY <1>1, <2>1 DEF RegsOnCpu
<1>5. ASSUME cpu[c].env # k, tf'[k] = tf[k]
      PROVE  Now(k)' = Now(k)
  <2>1. CASE ~Elsewhere(c, k)
    <3>1. \A d \in Cpus : cpu[d].env = k => cpu[d].at = "pop"
      BY <1>5, <2>1 DEF Elsewhere
    <3> QED
      BY <1>1, <1>4, <1>5, <2>1, <3>1 DEF RegsOnCpu
  <2>2. ASSUME NEW d \in Cpus \ {c}, cpu[d].env = k
        PROVE  Now(k)' = Now(k)
    <3>1. cpu'[d] = cpu[d] /\ cpu[d].at \in {"pop", "iret", "user"}
      BY <1>2, <1>3, <2>2 DEF RInv, Types, Owners, CpuStates
    <3>2. CASE cpu[d].at = "user"
      BY <1>1, <2>2, <3>1, <3>2 DEF RegsOnCpu
    <3>3. CASE cpu[d].at = "iret"
      <4>1. Now(k) = Half(k, d) /\ Now(k)' = Half(k, d)'
        BY <1>1, <2>2, <3>1, <3>3 DEF RegsOnCpu
      <4> QED
        BY <1>5, <3>1, <4>1 DEF Half
    <3>4. CASE cpu[d].at = "pop"
      <4>1. /\ \A b \in Cpus : cpu[b].env = k => cpu[b].at = "pop"
            /\ \A b \in Cpus : cpu'[b].env = k => cpu'[b].at = "pop"
        BY <1>2, <1>3, <2>2, <3>4 DEF RInv, Owners
      <4> QED
        BY <1>1, <1>5, <4>1 DEF RegsOnCpu
    <3> QED
      BY <3>1, <3>2, <3>3, <3>4
  <2> QED
    BY <2>1, <2>2 DEF Elsewhere
<1> QED
  BY <1>4, <1>5 DEF Regs

(* What another program may do with what it is given while it is on a      *)
(* processor: nothing, or go on with it, all of it or half.                *)
LEMMA VisitGiven ==
    ASSUME RInv, RInv', NEW c \in Cpus, NEW st, NEW r, Left(c, st, r), Stores(c, st),
           NEW k \in Envs, Elsewhere(c, k), NEW f \in Frames, tf'[k] = f, f.eip = "program"
    PROVE  \/ Regs(k)' = Regs(k)
           \/ Regs(k)' \in Frames /\ (Regs(k)').eip = "program"
<1>1. RegsOnCpu /\ RegsOnCpu'
  BY Located, LocatedNext
<1>2. \A d \in Cpus \ {c} : cpu'[d] = cpu[d]
  BY DEF RInv, Types, Left
<1>3. k # 0
  BY NobodyFacts
<1>4. PICK d \in Cpus \ {c} : cpu[d].env = k
  BY DEF Elsewhere
<1>5. /\ cpu'[d] = cpu[d] /\ cpu[d].at \in {"pop", "iret", "user"} /\ cpu[d].regs \in RegSets
      /\ utf'[k] = utf[k]
  BY <1>2, <1>3, <1>4 DEF RInv, Types, Owners, CpuStates, Stores
<1>6. CASE cpu[d].at = "user"
  <2>1. Now(k) = cpu[d].regs /\ Now(k)' = cpu[d].regs
    BY <1>1, <1>4, <1>5, <1>6 DEF RegsOnCpu
  <2> QED
    BY <1>5, <2>1 DEF Regs
<1>7. CASE cpu[d].at = "iret"
  <2>1. Now(k)' = [f EXCEPT !.eax = cpu[d].regs.eax, !.reg = cpu[d].regs.reg]
    <3>1. Now(k)' = Half(k, d)'
      BY <1>1, <1>4, <1>5, <1>7 DEF RegsOnCpu
    <3> QED
      BY <1>5, <3>1 DEF Half
  <2>2. PICK g : g = [f EXCEPT !.eax = cpu[d].regs.eax, !.reg = cpu[d].regs.reg]
    OBVIOUS
  <2>3. g \in Frames /\ g.eip = "program"
    BY <1>5, <2>2 DEF Frames, RegSets
  <2> QED
    BY <2>1, <2>2, <2>3 DEF Regs
<1>8. CASE cpu[d].at = "pop"
  <2>1. \A b \in Cpus : cpu'[b].env = k => cpu'[b].at = "pop"
    BY <1>3, <1>4, <1>5, <1>8 DEF RInv, Owners
  <2>2. Now(k)' = f
    BY <1>1, <2>1 DEF RegsOnCpu
  <2> QED
    BY <2>2 DEF Regs
<1> QED
  BY <1>5, <1>6, <1>7, <1>8

(* What it means for who executes. *)
Visited(e, st) ==
    /\ Programs!Stops(e)
    /\ Newborn' = {k \in Envs : st[k] = "newborn"} /\ Dying' = {k \in Envs : st[k] = "dying"}

LEMMA VisitStops ==
    ASSUME RInv, RInv', NEW c \in Cpus, NEW st, NEW r, Left(c, st, r), NEW e \in Envs,
           cpu[c].env = e \/ (cpu[c].env = 0 /\ e \notin Runs)
    PROVE  Visited(e, st)
<1>1. /\ cpu'[c] = r /\ \A d \in Cpus \ {c} : cpu'[d] = cpu[d]
      /\ r.at \in {"pop", "halt"}
  BY DEF RInv, Types, Left
<1>2. Runs' = Runs \ {e}
  <2>1. ASSUME NEW k \in Envs
        PROVE  (\E d \in Cpus : Program(d, k)') <=> (k # e /\ \E d \in Cpus : Program(d, k))
    <3>1. \A d \in Cpus \ {c} : Program(d, k)' <=> Program(d, k)
      BY <1>1 DEF Program, User
    <3>2. ~Program(c, k)'
      BY <1>1 DEF Program, User
    <3>3. ASSUME NEW d \in Cpus, Program(d, k), k # e
          PROVE  d # c
      BY <3>3, NobodyFacts DEF Program, User
    <3>4. ASSUME NEW d \in Cpus \ {c}, Program(d, e)
          PROVE  FALSE
      <4>1. cpu[c].env # e
        BY <3>4, NobodyFacts DEF RInv, Owners, Program, User
      <4> QED
        BY <3>4, <4>1 DEF Runs
    <3> QED
      BY <3>1, <3>2, <3>3, <3>4
  <2> QED
    BY <2>1 DEF Runs
<1>3. Programs!Stops(e)
  BY <1>2, PlacesNext DEF Programs!Stops, InPlace
<1>4. Newborn' = {k \in Envs : st[k] = "newborn"} /\ Dying' = {k \in Envs : st[k] = "dying"}
  BY DEF Newborn, Dying, Left
<1> QED
  BY <1>3, <1>4 DEF Visited


-----------------------------------------------------------------------------
(* What a step means for the programs *)

OnlyOf(S) == \A k \in Envs \ S : Regs(k)' = Regs(k)

Nothing == UNCHANGED <<AllRegs, Runs, Placed, parent, Newborn, recving, Dying>>
Meaning == Nothing \/ Programs!Next

LEMMA NoChange == OnlyOf({}) => AllRegs' = AllRegs
BY DEF OnlyOf, AllRegs

LEMMA OneChange ==
    ASSUME NEW e \in Envs, OnlyOf({e}), NEW f, Regs(e)' = f
    PROVE  AllRegs' = [AllRegs EXCEPT ![e] = f]
BY DEF OnlyOf, AllRegs

LEMMA TwoChange ==
    ASSUME NEW e \in Envs, NEW k \in Envs, OnlyOf({e, k}), NEW f, NEW g,
           k # e => Regs(e)' = f, Regs(k)' = g
    PROVE  AllRegs' = [AllRegs EXCEPT ![e] = f, ![k] = g]
<1>1. DOMAIN AllRegs = Envs /\ \A j \in Envs : AllRegs[j] = Regs(j) /\ AllRegs'[j] = Regs(j)'
  BY DEF AllRegs
<1>2. AllRegs' = [j \in Envs |-> AllRegs'[j]]
  BY DEF AllRegs
<1>3. PICK F : F = [AllRegs EXCEPT ![e] = f, ![k] = g]
  OBVIOUS
<1>4. F = [j \in Envs |-> F[j]]
  BY <1>1, <1>3
<1>5. \A j \in Envs : F[j] = AllRegs'[j]
  BY <1>1, <1>3 DEF OnlyOf
<1> QED
  BY <1>2, <1>3, <1>4, <1>5

(* The program that enters the kernel. *)
LEMMA Trapping ==
    ASSUME RInv, NEW c \in Cpus, NEW e \in Envs, Trap(c, e)
    PROVE  /\ cpu[c].at = "user" /\ cpu[c].env = e /\ status[e] = "running"
           /\ cpu[c].regs \in Frames /\ Regs(e) # Nobody
           /\ cpu[c].regs.eip = "upcall" => utf[e] # Nobody
           /\ \A k \in Envs : Elsewhere(c, k) <=> (status[k] \in Active /\ k # e)
           /\ Now(e) = cpu[c].regs /\ e \notin Dying
<1> USE NobodyFacts DEF RInv, Types, Owners, Trap, User, Zombie
<1>1. cpu[c].at = "user" /\ cpu[c].env = e /\ cpu[c].regs \in Frames /\ e # 0
  BY DEF Upcalls
<1>2. status[e] = "running" /\ Now(e) = cpu[c].regs
  BY <1>1, Located DEF Active, RegsOnCpu
<1>3. Regs(e) # Nobody
  BY <1>2, Sees DEF SeesOwn
<1>4. \A k \in Envs : Elsewhere(c, k) <=> (status[k] \in Active /\ k # e)
  BY <1>1 DEF Elsewhere
<1>5. cpu[c].regs.eip = "upcall" => utf[e] # Nobody
  BY <1>1 DEF Upcalls
<1>6. e \notin Dying
  BY <1>2 DEF Dying
<1> QED
  BY <1>1, <1>2, <1>3, <1>4, <1>5, <1>6

LEMMA Asking ==
    ASSUME RInv, NEW c \in Cpus, NEW e \in Envs, Asks(c, e)
    PROVE  /\ Trap(c, e) /\ User(c, e) /\ cpu[c].regs.eip = "call"
           /\ Regs(e) = cpu[c].regs /\ AllRegs[e] = cpu[c].regs
           /\ e \in Runs \ Dying
           /\ \A r : Programs!Answer(e, r) = Answer(c, r)
           /\ \A r \in Results : Answer(c, r) \in Frames /\ Answer(c, r).eip = "program"
<1>1. Trap(c, e) /\ User(c, e) /\ cpu[c].regs.eip = "call"
  BY DEF Asks, Trap
<1>2. Regs(e) = cpu[c].regs /\ cpu[c].regs \in Frames
  BY <1>1, Trapping, Sees DEF SeesOwn
<1>3. AllRegs[e] = cpu[c].regs
  BY <1>2 DEF AllRegs
<1>4. e \in Runs \ Dying
  BY <1>1, Trapping DEF Runs, Program
<1>5. \A r : Programs!Answer(e, r) = Answer(c, r)
  BY <1>3 DEF Programs!Answer, Answer
<1>6. \A r \in Results : Answer(c, r) \in Frames /\ Answer(c, r).eip = "program"
  BY <1>2 DEF Answer, Frames
<1> QED
  BY <1>1, <1>2, <1>3, <1>4, <1>5, <1>6

(* A handler that stores into the slots S, none of which is on another     *)
(* processor: what it leaves alone, and what it stores.                    *)
Kept(S, st) ==
    \A k \in Envs \ S :
        /\ tf'[k] = tf[k] /\ utf'[k] = utf[k]
        /\ st[k] = "free" <=> status[k] = "free"

Fits(S, st) ==
    /\ tf' \in [Envs -> Frames \cup {Nobody}] /\ utf' \in [Envs -> Frames \cup {Nobody}]
    /\ parent' \in [Envs -> 0..NENV] /\ recving' \subseteq Envs
    /\ \A k \in recving' : st[k] = "waiting"
    /\ \A k \in S :
          /\ tf'[k] = Nobody <=> st[k] = "free"
          /\ utf'[k] # Nobody => utf'[k].eip # "upcall"
          /\ tf'[k].eip = "upcall" => utf'[k] # Nobody

LEMMA StoresInto ==
    ASSUME RInv, NEW c \in Cpus, NEW st, NEW S \in SUBSET Envs,
           \A k \in S : ~Elsewhere(c, k), cpu[c].env \in S \cup {0},
           Kept(S, st), Fits(S, st)
    PROVE  Stores(c, st)
<1>1. ASSUME NEW k \in Envs \ S, ~Elsewhere(c, k)
      PROVE  tf[k].eip = "upcall" => utf[k] # Nobody
  <2>1. ~InUser(k)
    BY <1>1, NobodyFacts DEF InUser, Elsewhere
  <2> QED
    BY <2>1 DEF RInv, Upcalls
<1>2. \A k \in Envs \ S :
        /\ tf'[k] = Nobody <=> st[k] = "free"
        /\ utf'[k] # Nobody => utf'[k].eip # "upcall"
        /\ tf'[k] = tf[k] /\ utf'[k] = utf[k]
        /\ ~Elsewhere(c, k) => (tf'[k].eip = "upcall" => utf'[k] # Nobody)
  BY <1>1 DEF RInv, Slots, Upcalls, Kept
<1> QED
  BY <1>2 DEF Stores, Fits

(* A trap of e that stores into the slots S, and where the registers of    *)
(* those are then.                                                         *)
LEMMA TrapStep ==
    ASSUME RInv, NEW c \in Cpus, NEW e \in Envs, User(c, e), NEW st, Leaves(c, st),
           NEW S \in SUBSET Envs, e \in S, \A k \in S : ~Elsewhere(c, k),
           Kept(S, st), Fits(S, st), SchedYield(c, st) \/ Resume(c, st)
    PROVE  /\ RInv' /\ OnlyOf(S) /\ Visited(e, st)
           /\ \A k \in S : Regs(k)' = IF tf'[k].eip = "upcall"
                                      THEN [utf'[k] EXCEPT !.intr = tf'[k].intr] ELSE tf'[k]
<1>1. cpu[c].at = "user" /\ cpu[c].env = e
  BY DEF User
<1>2. Stores(c, st)
  BY <1>1, StoresInto
<1>3. PICK r : Left(c, st, r)
  BY Switch
<1>4. RInv'
  BY <1>2, <1>3, VisitRInv
<1>5. OnlyOf(S)
  BY <1>1, <1>2, <1>3, <1>4, VisitRegs DEF OnlyOf, Kept
<1>6. \A k \in S : Regs(k)' = IF tf'[k].eip = "upcall"
                              THEN [utf'[k] EXCEPT !.intr = tf'[k].intr] ELSE tf'[k]
  BY <1>2, <1>3, <1>4, VisitRegs
<1>7. Visited(e, st)
  BY <1>1, <1>3, <1>4, VisitStops
<1> QED
  BY <1>4, <1>5, <1>6, <1>7

(* A call that returns r to the one that made it and starts, stops or      *)
(* marks others.                                                           *)
Answered(e, r, st) ==
    /\ Programs!Asked(e) /\ Programs!Returns(e, r) /\ Visited(e, st)

LEMMA ReturnStep ==
    ASSUME RInv, NEW c \in Cpus, NEW e \in Envs, Asks(c, e), NEW r \in Results,
           tf' = Returned(e, c, r), utf' = utf,
           parent' \in [Envs -> 0..NENV], recving' \subseteq Envs,
           NEW st, Leaves(c, st), SchedYield(c, st) \/ Resume(c, st),
           \A k \in Envs : st[k] = "free" <=> status[k] = "free",
           \A k \in recving' : st[k] = "waiting"
    PROVE  RInv' /\ Answered(e, r, st)
<1> USE NobodyFacts
<1>1. /\ cpu[c].env = e /\ status[e] = "running" /\ ~Elsewhere(c, e)
      /\ User(c, e) /\ AllRegs[e].eip = "call" /\ e \in Runs \ Dying
      /\ Programs!Answer(e, r) = Answer(c, r)
  BY Trapping, Asking
<1>2. PICK f \in Frames : f = Answer(c, r) /\ f.eip = "program"
  BY Asking
<1>3. /\ tf'[e] = f /\ \A k \in Envs \ {e} : tf'[k] = tf[k]
      /\ tf' \in [Envs -> Frames \cup {Nobody}]
  BY <1>2 DEF Returned, Saved, RInv, Types
<1>4. Kept({e}, st)
  BY <1>3 DEF Kept
<1>5. Fits({e}, st)
  BY <1>1, <1>2, <1>3 DEF Fits, RInv, Types, Slots, Upcalls
<1>6. /\ RInv' /\ OnlyOf({e}) /\ Visited(e, st) /\ Regs(e)' = f
  <2>1. /\ RInv' /\ OnlyOf({e}) /\ Visited(e, st)
        /\ Regs(e)' = IF tf'[e].eip = "upcall"
                      THEN [utf'[e] EXCEPT !.intr = tf'[e].intr] ELSE tf'[e]
    BY <1>1, <1>4, <1>5, TrapStep
  <2> QED
    BY <1>2, <1>3, <2>1
<1>7. Programs!Returns(e, r)
  BY <1>1, <1>2, <1>6, OneChange DEF Programs!Returns
<1>8. Programs!Asked(e)
  BY <1>1, <1>6 DEF Programs!Asked, Visited
<1> QED
  BY <1>6, <1>7, <1>8 DEF Answered

(* Nobody was made or became a zombie, unless st says so.                  *)
Same(st) == (\A k \in Envs : /\ st[k] = "newborn" <=> status[k] = "newborn"
                             /\ st[k] = "dying" <=> status[k] = "dying")

LEMMA SameWho ==
    ASSUME NEW e \in Envs, NEW st, Visited(e, st), Same(st)
    PROVE  Newborn' = Newborn /\ Dying' = Dying
BY DEF Visited, Same, Newborn, Dying


-----------------------------------------------------------------------------
(* Steps that are not calls *)

LEMMA WakeUpStep ==
    ASSUME RInv, NEW c \in Cpus, WakeUp(c)
    PROVE  RInv' /\ Meaning
<1> USE NobodyFacts
<1>1. /\ cpu[c].at = "halt" /\ cpu[c].env = 0 /\ SchedYield(c, status)
      /\ UNCHANGED <<parent, recving, tf, utf>>
  BY DEF WakeUp, RInv, Owners
<1>2. PICK e \in Envs : status[e] = "runnable"
  BY DEF WakeUp, Ready
<1>3. e \notin Runs
  BY <1>2, Places DEF InPlace, Active
<1>4. Leaves(c, status)
  BY <1>1 DEF Leaves, RInv, Types
<1>5. Stores(c, status)
  <2>1. Kept({}, status) /\ Fits({}, status)
    BY <1>1 DEF Kept, Fits, RInv, Types, Slots
  <2> QED
    BY <1>1, <2>1, StoresInto
<1>6. PICK r : Left(c, status, r)
  BY <1>1, <1>4, Switch
<1>7. RInv'
  BY <1>5, <1>6, VisitRInv
<1>8. OnlyOf({})
  BY <1>1, <1>5, <1>6, <1>7, VisitRegs DEF OnlyOf
<1>9. Visited(e, status)
  BY <1>1, <1>3, <1>6, <1>7, VisitStops
<1>10. Newborn' = Newborn /\ Dying' = Dying
  BY <1>9, SameWho DEF Same
<1>11. Programs!Interrupt(e)
  BY <1>1, <1>8, <1>9, <1>10, NoChange DEF Programs!Interrupt, Programs!who, Visited
<1> QED
  BY <1>7, <1>11 DEF Meaning, Programs!Next

(* A step of one processor that only changes what it does itself. *)
OwnStep(c, r) ==
    /\ cpu' = [cpu EXCEPT ![c] = r] /\ r.env = cpu[c].env
    /\ UNCHANGED <<status, parent, recving, tf>>

LEMMA OwnCpu ==
    ASSUME RInv, RInv', NEW c \in Cpus, NEW r, OwnStep(c, r), NEW e \in Envs, e = cpu[c].env,
           \A k \in Envs \ {e} : utf'[k] = utf[k]
    PROVE  /\ OnlyOf({e})
           /\ Placed' = Placed /\ Newborn' = Newborn /\ Dying' = Dying /\ e \in Placed
           /\ Runs' = (Runs \ {e}) \cup (IF Program(c, e)' THEN {e} ELSE {})
           /\ e \in Runs <=> Program(c, e)
<1> USE DEF OwnStep
<1>1. /\ cpu'[c] = r /\ \A d \in Cpus \ {c} : cpu'[d] = cpu[d]
  BY DEF RInv, Types
<1>2. Placed' = Placed /\ Newborn' = Newborn /\ Dying' = Dying /\ e \in Placed
  <2>1. \A d \in Cpus : cpu'[d].env = cpu[d].env
    BY <1>1
  <2> QED
    BY <2>1 DEF Placed, Newborn, Dying
<1>3. \A d \in Cpus \ {c} : cpu[d].env # e
  BY NobodyFacts DEF RInv, Owners
<1>4. Runs' = (Runs \ {e}) \cup (IF Program(c, e)' THEN {e} ELSE {})
  <2>1. \A d \in Cpus \ {c}, k \in Envs : Program(d, k)' <=> Program(d, k)
    BY <1>1 DEF Program, User
  <2>2. \A d \in Cpus \ {c} : ~Program(d, e)
    BY <1>3 DEF Program, User
  <2>3. \A k \in Envs \ {e} : ~Program(c, k) /\ ~Program(c, k)'
    BY <1>1 DEF Program, User
  <2> QED
    BY <2>1, <2>2, <2>3 DEF Runs
<1>5. e \in Runs <=> Program(c, e)
  BY <1>3 DEF Runs, Program, User
<1>6. ASSUME NEW k \in Envs \ {e}
      PROVE  Regs(k)' = Regs(k)
  <2>1. RegsOnCpu /\ RegsOnCpu'
    BY Located, LocatedNext
  <2>2. \A d \in Cpus : cpu'[d].env = k <=> cpu[d].env = k
    BY <1>1
  <2>3. Now(k)' = Now(k)
    <3>1. CASE \A d \in Cpus : cpu[d].env = k => cpu[d].at = "pop"
      <4>1. \A d \in Cpus : cpu'[d].env = k => cpu'[d].at = "pop"
        BY <1>1, <1>6, <2>2, <3>1
      <4> QED
        BY <2>1, <3>1, <4>1 DEF RegsOnCpu
    <3>2. ASSUME NEW d \in Cpus, cpu[d].env = k, cpu[d].at # "pop"
          PROVE  Now(k)' = Now(k)
      <4>1. cpu'[d] = cpu[d] /\ cpu[d].at \in {"iret", "user"}
        BY <1>1, <1>6, <3>2, NobodyFacts DEF RInv, Types, Owners, CpuStates
      <4>2. CASE cpu[d].at = "user"
        BY <2>1, <3>2, <4>1, <4>2 DEF RegsOnCpu
      <4>3. CASE cpu[d].at = "iret"
        <5>1. Now(k) = Half(k, d) /\ Now(k)' = Half(k, d)'
          BY <2>1, <3>2, <4>1, <4>3 DEF RegsOnCpu
        <5> QED
          BY <4>1, <5>1 DEF Half
      <4> QED
        BY <4>1, <4>2, <4>3
    <3> QED
      BY <3>1, <3>2
  <2> QED
    BY <2>3 DEF Regs
<1> QED
  BY <1>2, <1>4, <1>5, <1>6 DEF OnlyOf

(* What a processor does and its registers, changed. *)
LEMMA Moved ==
    ASSUME NEW x \in CpuStates, NEW a \in {"halt", "pop", "iret", "user"}, NEW g \in RegSets
    PROVE  [x EXCEPT !.at = a, !.regs = g] = [env |-> x.env, at |-> a, regs |-> g]
<1> DEFINE y == [env |-> x.env, at |-> a, regs |-> g]
           z == [x EXCEPT !.at = a, !.regs = g]
<1>1. y \in CpuStates
  BY DEF CpuStates
<1>2. z \in CpuStates /\ z.env = x.env /\ z.at = a /\ z.regs = g
  BY DEF CpuStates
<1> HIDE DEF y, z
<1> QED
  BY <1>1, <1>2 DEF CpuStates, y

(* The environment that a processor has. *)
LEMMA Own ==
    ASSUME RInv, NEW c \in Cpus, cpu[c].at # "halt"
    PROVE  /\ cpu[c].env \in Envs /\ cpu[c] \in CpuStates /\ cpu[c].regs \in RegSets
           /\ status[cpu[c].env] \in Active /\ tf[cpu[c].env] \in Frames
           /\ cpu[c].at # "user" => ~InUser(cpu[c].env)
           /\ \A d \in Cpus \ {c} : cpu[d].env # cpu[c].env
<1> USE NobodyFacts DEF RInv, Types
<1>1. cpu[c].env \in Envs /\ cpu[c] \in CpuStates /\ cpu[c].regs \in RegSets
  BY DEF Owners, CpuStates, Envs
<1>2. status[cpu[c].env] \in Active
  BY <1>1 DEF Owners
<1>3. tf[cpu[c].env] # Nobody
  BY <1>1, <1>2 DEF Slots, Active
<1>4. /\ cpu[c].at # "user" => ~InUser(cpu[c].env)
      /\ \A d \in Cpus \ {c} : cpu[d].env # cpu[c].env
  BY <1>1 DEF InUser, Owners
<1> QED
  BY <1>1, <1>2, <1>3, <1>4

LEMMA PopalStep ==
    ASSUME RInv, NEW c \in Cpus, Popal(c)
    PROVE  RInv' /\ Meaning
<1> USE NobodyFacts
<1>1. PICK e \in Envs : e = cpu[c].env
  BY Own DEF Popal
<1> DEFINE g == [cpu[c].regs EXCEPT !.eax = tf[e].eax, !.reg = tf[e].reg]
           r == [env |-> e, at |-> "iret", regs |-> g]
<1>2. /\ cpu[c].at = "pop" /\ cpu[c] \in CpuStates /\ \A d \in Cpus \ {c} : cpu[d].env # e
      /\ tf[e] \in RegSets /\ cpu[c].regs \in RegSets
  BY <1>1, Own DEF Popal
<1>3. g \in RegSets /\ g.eax = tf[e].eax /\ g.reg = tf[e].reg
  BY <1>2 DEF RegSets
<1>4. cpu' = [cpu EXCEPT ![c] = r]
  <2>1. cpu' = [cpu EXCEPT ![c] = [cpu[c] EXCEPT !.at = "iret", !.regs = g]]
    BY <1>1 DEF Popal, RInv, Types, CpuStates
  <2> HIDE DEF g
  <2>2. [cpu[c] EXCEPT !.at = "iret", !.regs = g] = r
    BY <1>1, <1>2, <1>3, Moved
  <2> QED
    BY <2>1, <2>2
<1>5. UNCHANGED <<status, parent, recving, tf, utf>>
  BY DEF Popal
<1> HIDE DEF g
<1>6. r \in CpuStates /\ r.env = e /\ r.at = "iret" /\ r.regs = g
  BY <1>1, <1>3 DEF CpuStates, Envs
<1> HIDE DEF r
<1>7. cpu'[c] = r /\ \A d \in Cpus \ {c} : cpu'[d] = cpu[d]
  BY <1>4 DEF RInv, Types
<1>8. \A k \in Envs : InUser(k)' <=> InUser(k)
  BY <1>2, <1>6, <1>7 DEF InUser
<1>9. RInv'
  <2>1. Types' /\ Slots'
    BY <1>4, <1>5, <1>6 DEF RInv, Types, Slots
  <2>2. Owners'
    BY <1>1, <1>5, <1>6, <1>7 DEF RInv, Owners
  <2>3. Upcalls'
    BY <1>5, <1>6, <1>7, <1>8 DEF RInv, Upcalls
  <2> QED
    BY <2>1, <2>2, <2>3 DEF RInv
<1>10. Regs(e)' = Regs(e)
  <2>1. RegsOnCpu /\ RegsOnCpu'
    BY <1>9, Located, LocatedNext
  <2>2. Now(e) = tf[e]
    BY <1>1, <1>2, <2>1 DEF RegsOnCpu
  <2>3. Now(e)' = [tf[e] EXCEPT !.eax = tf[e].eax, !.reg = tf[e].reg]
    <3>1. Now(e)' = Half(e, c)'
      BY <1>6, <1>7, <2>1 DEF RegsOnCpu
    <3>2. Half(e, c)' = [tf[e] EXCEPT !.eax = tf[e].eax, !.reg = tf[e].reg]
      BY <1>3, <1>5, <1>6, <1>7 DEF Half
    <3> QED
      BY <3>1, <3>2
  <2>4. [tf[e] EXCEPT !.eax = tf[e].eax, !.reg = tf[e].reg] = tf[e]
    BY <1>2 DEF RegSets
  <2> QED
    BY <1>5, <2>2, <2>3, <2>4 DEF Regs
<1>11. OwnStep(c, r)
  BY <1>1, <1>4, <1>5, <1>6 DEF OwnStep
<1>12. /\ OnlyOf({e}) /\ Placed' = Placed /\ Newborn' = Newborn /\ Dying' = Dying
       /\ Runs' = (Runs \ {e}) \cup (IF Program(c, e)' THEN {e} ELSE {})
       /\ e \in Runs <=> Program(c, e)
  BY <1>1, <1>5, <1>9, <1>11, OwnCpu
<1>13. Runs' = Runs
  <2>1. ~Program(c, e) /\ ~Program(c, e)'
    BY <1>2, <1>6, <1>7 DEF Program, User
  <2> QED
    BY <1>12, <2>1
<1>14. AllRegs' = AllRegs
  BY <1>10, <1>12, NoChange DEF OnlyOf
<1>15. Nothing
  BY <1>5, <1>12, <1>13, <1>14 DEF Nothing
<1> QED
  BY <1>9, <1>15 DEF Meaning

(* A processor that goes on in user mode with the registers g. *)
ToUser(c, e, g, r) ==
    /\ e = cpu[c].env /\ r = [env |-> e, at |-> "user", regs |-> g]
    /\ cpu' = [cpu EXCEPT ![c] = r]
    /\ UNCHANGED <<status, parent, recving, tf>>
    /\ utf' \in [Envs -> Frames \cup {Nobody}]
    /\ \A k \in Envs \ {e} : utf'[k] = utf[k]
    /\ g.eip = "upcall" => utf'[e] # Nobody
    /\ utf'[e] # Nobody => utf'[e].eip # "upcall"

LEMMA UserStep ==
    ASSUME RInv, NEW c \in Cpus, NEW e \in Envs, NEW g \in Frames, NEW r, ToUser(c, e, g, r)
    PROVE  /\ RInv' /\ OnlyOf({e}) /\ Now(e)' = g
           /\ Placed' = Placed /\ Newborn' = Newborn /\ Dying' = Dying /\ e \in Placed
           /\ Runs' = (Runs \ {e}) \cup (IF g.eip # "upcall" THEN {e} ELSE {})
           /\ e \in Runs <=> Program(c, e)
<1> USE NobodyFacts DEF ToUser
<1>1. r \in CpuStates /\ r.env = e /\ r.at = "user" /\ r.regs = g
  BY DEF CpuStates, Envs
<1>2. cpu'[c] = r /\ \A d \in Cpus \ {c} : cpu'[d] = cpu[d]
  BY DEF RInv, Types
<1>3. \A k \in Envs \ {e} : InUser(k)' <=> InUser(k)
  BY <1>1, <1>2 DEF InUser
<1>4. InUser(e)' /\ status[e] \in Active /\ e # 0
  BY <1>1, <1>2 DEF InUser, RInv, Owners
<1>5. RInv'
  <2>1. Types'
    BY <1>1 DEF RInv, Types
  <2>2. Owners'
    BY <1>1, <1>2, <1>4 DEF RInv, Owners
  <2>3. Slots'
    BY <1>4 DEF RInv, Slots, Active
  <2>4. \A d \in Cpus \ {c} : cpu[d].at = "user" => cpu[d].env \in Envs \ {e}
    BY <1>4 DEF RInv, Owners, Types, CpuStates, Envs
  <2>5. \A d \in Cpus : cpu'[d].at = "user" =>
           /\ cpu'[d].regs \in Frames
           /\ cpu'[d].regs.eip = "upcall" => utf'[cpu'[d].env] # Nobody
    BY <1>1, <1>2, <2>4 DEF RInv, Upcalls
  <2>6. \A k \in Envs :
           /\ utf'[k] # Nobody => utf'[k].eip # "upcall"
           /\ ~InUser(k)' => (tf'[k].eip = "upcall" => utf'[k] # Nobody)
    BY <1>3, <1>4 DEF RInv, Upcalls
  <2>7. Upcalls'
    BY <2>5, <2>6 DEF Upcalls
  <2> QED
    BY <2>1, <2>2, <2>3, <2>7 DEF RInv
<1>6. /\ OnlyOf({e})
      /\ Placed' = Placed /\ Newborn' = Newborn /\ Dying' = Dying /\ e \in Placed
      /\ Runs' = (Runs \ {e}) \cup (IF Program(c, e)' THEN {e} ELSE {})
      /\ e \in Runs <=> Program(c, e)
  <2>1. OwnStep(c, r)
    BY <1>1 DEF OwnStep
  <2> QED
    BY <1>5, <2>1, OwnCpu
<1>7. Program(c, e)' <=> g.eip # "upcall"
  BY <1>1, <1>2 DEF Program, User
<1>8. Now(e)' = g
  <2>1. RegsOnCpu'
    BY <1>5, LocatedNext
  <2> QED
    BY <1>1, <1>2, <2>1 DEF RegsOnCpu
<1> QED
  BY <1>5, <1>6, <1>7, <1>8

LEMMA IretStep ==
    ASSUME RInv, NEW c \in Cpus, Iret(c)
    PROVE  RInv' /\ Meaning
<1> USE NobodyFacts
<1>1. PICK e \in Envs : e = cpu[c].env
  BY Own DEF Iret
<1>2. /\ cpu[c].at = "iret" /\ cpu[c] \in CpuStates /\ tf[e] \in Frames
      /\ cpu[c].regs \in RegSets /\ ~InUser(e)
  BY <1>1, Own DEF Iret
<1>3. PICK h : h = [cpu[c].regs EXCEPT !.eip = tf[e].eip, !.intr = tf[e].intr]
  OBVIOUS
<1>4. h \in Frames /\ h = Half(e, c) /\ h.eip = tf[e].eip /\ h.intr = tf[e].intr
  <2>1. h \in Frames /\ h.eip = tf[e].eip /\ h.intr = tf[e].intr
        /\ h.eax = cpu[c].regs.eax /\ h.reg = cpu[c].regs.reg
    BY <1>2, <1>3 DEF Frames, RegSets
  <2>2. PICK y : y = Half(e, c)
    OBVIOUS
  <2>3. y \in Frames /\ y.eip = tf[e].eip /\ y.intr = tf[e].intr
        /\ y.eax = cpu[c].regs.eax /\ y.reg = cpu[c].regs.reg
    BY <1>2, <2>2 DEF Frames, RegSets, Half
  <2>4. h = y
    BY <2>1, <2>3 DEF Frames
  <2> QED
    BY <2>1, <2>2, <2>4
<1>5. PICK r : r = [env |-> e, at |-> "user", regs |-> h]
  OBVIOUS
<1>6. cpu' = [cpu EXCEPT ![c] = r]
  <2>1. cpu' = [cpu EXCEPT ![c] = [cpu[c] EXCEPT !.at = "user", !.regs = h]]
    BY <1>1, <1>3 DEF Iret, RInv, Types, CpuStates
  <2>2. [cpu[c] EXCEPT !.at = "user", !.regs = h] = r
    BY <1>1, <1>2, <1>4, <1>5, Moved
  <2> QED
    BY <2>1, <2>2
<1>7. UNCHANGED <<status, parent, recving, tf>> /\ utf' = utf
  BY DEF Iret
<1>8. /\ RInv' /\ OnlyOf({e}) /\ Now(e)' = h
      /\ Placed' = Placed /\ Newborn' = Newborn /\ Dying' = Dying /\ e \in Placed
      /\ Runs' = (Runs \ {e}) \cup (IF h.eip # "upcall" THEN {e} ELSE {})
      /\ e \in Runs <=> Program(c, e)
  <2>1. utf' \in [Envs -> Frames \cup {Nobody}] /\ (utf'[e] # Nobody => utf'[e].eip # "upcall")
    BY <1>7 DEF RInv, Types, Upcalls
  <2>2. \A k \in Envs \ {e} : utf'[k] = utf[k]
    BY <1>7
  <2>3. h.eip = "upcall" => utf'[e] # Nobody
    BY <1>2, <1>4, <1>7 DEF RInv, Upcalls
  <2>4. ToUser(c, e, h, r)
    BY <1>1, <1>5, <1>6, <1>7, <2>1, <2>2, <2>3 DEF ToUser
  <2> QED
    BY <1>4, <2>4, UserStep
<1>9. Now(e) = h
  BY <1>1, <1>2, <1>4, Located DEF RegsOnCpu
<1>10. Regs(e)' = Regs(e)
  BY <1>7, <1>8, <1>9 DEF Regs
<1>11. AllRegs' = AllRegs
  BY <1>8, <1>10, NoChange DEF OnlyOf
<1>12. e \notin Runs
  BY <1>2, <1>8 DEF Program, User
<1>13. CASE h.eip = "upcall"
  <2>1. Nothing
    BY <1>7, <1>8, <1>11, <1>12, <1>13 DEF Nothing
  <2> QED
    BY <1>8, <2>1 DEF Meaning
<1>14. CASE h.eip # "upcall"
  <2>1. Programs!Enter(e)
    BY <1>7, <1>8, <1>11, <1>12, <1>14 DEF Programs!Enter, Programs!who
  <2> QED
    BY <1>8, <2>1 DEF Meaning, Programs!Next
<1> QED
  BY <1>13, <1>14

(* A processor that changes the registers that it runs with. *)
LEMMA NewRegs ==
    ASSUME RInv, NEW c \in Cpus, cpu[c].at = "user", NEW h \in RegSets
    PROVE  [cpu EXCEPT ![c].regs = h] =
               [cpu EXCEPT ![c] = [env |-> cpu[c].env, at |-> "user", regs |-> h]]
<1>1. cpu[c] \in CpuStates
  BY DEF RInv, Types
<1>2. [cpu[c] EXCEPT !.regs = h] = [cpu[c] EXCEPT !.at = "user", !.regs = h]
  BY <1>1 DEF CpuStates
<1>3. [cpu[c] EXCEPT !.at = "user", !.regs = h] = [env |-> cpu[c].env, at |-> "user", regs |-> h]
  BY <1>1, Moved
<1>4. [cpu EXCEPT ![c].regs = h] = [cpu EXCEPT ![c] = [cpu[c] EXCEPT !.regs = h]]
  BY DEF RInv, Types
<1> QED
  BY <1>2, <1>3, <1>4

(* An instruction that leaves the program the registers h. *)
Instruction(c, e, h) ==
    /\ Runs' = Runs /\ Placed' = Placed /\ Newborn' = Newborn /\ Dying' = Dying
    /\ h.eip = "upcall" => AllRegs' = AllRegs
    /\ h.eip # "upcall" => /\ e \in Runs /\ AllRegs[e] = cpu[c].regs
                           /\ AllRegs' = [AllRegs EXCEPT ![e] = h]

LEMMA InstructionStep ==
    ASSUME RInv, NEW c \in Cpus, cpu[c].at = "user", NEW e \in Envs, e = cpu[c].env,
           NEW h \in Frames, cpu' = [cpu EXCEPT ![c].regs = h],
           h.eip = "upcall" <=> cpu[c].regs.eip = "upcall", h.intr = cpu[c].regs.intr,
           status' = status, parent' = parent, recving' = recving, tf' = tf, utf' = utf
    PROVE  RInv' /\ Instruction(c, e, h)
<1> USE NobodyFacts
<1>1. PICK r : r = [env |-> e, at |-> "user", regs |-> h]
  OBVIOUS
<1>2. cpu' = [cpu EXCEPT ![c] = r]
  BY <1>1, NewRegs
<1>3. cpu[c].regs \in Frames /\ (cpu[c].regs.eip = "upcall" => utf[e] # Nobody)
  BY DEF RInv, Upcalls
<1>4. /\ RInv' /\ OnlyOf({e}) /\ Now(e)' = h
      /\ Placed' = Placed /\ Newborn' = Newborn /\ Dying' = Dying
      /\ Runs' = (Runs \ {e}) \cup (IF h.eip # "upcall" THEN {e} ELSE {})
      /\ e \in Runs <=> Program(c, e)
  <2>1. utf' \in [Envs -> Frames \cup {Nobody}] /\ (utf'[e] # Nobody => utf'[e].eip # "upcall")
    BY DEF RInv, Types, Upcalls
  <2>2. ToUser(c, e, h, r)
    BY <1>1, <1>2, <1>3, <2>1 DEF ToUser
  <2> QED
    BY <2>2, UserStep
<1>5. e \in Runs <=> h.eip # "upcall"
  BY <1>4 DEF Program, User
<1>6. Runs' = Runs
  BY <1>4, <1>5
<1>7. Now(e) = cpu[c].regs
  BY Located DEF RegsOnCpu
<1>8. CASE h.eip = "upcall"
  <2>1. Regs(e)' = Regs(e)
    BY <1>4, <1>7, <1>8 DEF Regs
  <2> QED
    BY <1>4, <1>6, <1>8, <2>1, NoChange DEF OnlyOf, Instruction
<1>9. CASE h.eip # "upcall"
  <2>1. Regs(e) = cpu[c].regs /\ Regs(e)' = h
    BY <1>4, <1>7, <1>9 DEF Regs
  <2>2. AllRegs[e] = cpu[c].regs /\ AllRegs' = [AllRegs EXCEPT ![e] = h]
    BY <1>4, <2>1, OneChange DEF AllRegs
  <2> QED
    BY <1>4, <1>5, <1>6, <1>9, <2>2 DEF Instruction
<1> QED
  BY <1>8, <1>9

LEMMA WorkStep ==
    ASSUME RInv, NEW c \in Cpus, Work(c)
    PROVE  RInv' /\ Meaning
<1> USE NobodyFacts
<1>1. PICK e \in Envs : e = cpu[c].env
  BY Own DEF Work
<1>2. PICK v \in Values : cpu' = [cpu EXCEPT ![c].regs.reg = v]
  BY DEF Work
<1>3. cpu[c].at = "user" /\ cpu[c].regs \in Frames /\ cpu[c].regs.eip # "call"
  BY DEF Work, RInv, Upcalls
<1>4. PICK h : h = [cpu[c].regs EXCEPT !.reg = v]
  OBVIOUS
<1>5. h \in Frames /\ h.eip = cpu[c].regs.eip /\ h.intr = cpu[c].regs.intr
  BY <1>3, <1>4 DEF Frames
<1>6. /\ cpu' = [cpu EXCEPT ![c].regs = h]
      /\ status' = status /\ parent' = parent /\ recving' = recving /\ tf' = tf /\ utf' = utf
  BY <1>2, <1>4 DEF Work, RInv, Types
<1>7. RInv' /\ Instruction(c, e, h)
  BY <1>1, <1>3, <1>5, <1>6, InstructionStep
<1>8. CASE h.eip = "upcall"
  BY <1>6, <1>7, <1>8 DEF Meaning, Nothing, Instruction
<1>9. CASE h.eip # "upcall"
  <2>1. cpu[c].regs.eip = "program"
    BY <1>3, <1>5, <1>9 DEF Frames
  <2>2. Programs!Work(e)
    BY <1>4, <1>6, <1>7, <1>9, <2>1
       DEF Programs!Work, Programs!Executes, Programs!who, Instruction
  <2> QED
    BY <1>7, <2>2 DEF Meaning, Programs!Next
<1> QED
  BY <1>7, <1>8, <1>9

LEMMA AskStep ==
    ASSUME RInv, NEW c \in Cpus, Ask(c)
    PROVE  RInv' /\ Meaning
<1> USE NobodyFacts
<1>1. PICK e \in Envs : e = cpu[c].env
  BY Own DEF Ask
<1>2. /\ cpu[c].at = "user" /\ cpu[c].regs \in Frames /\ cpu[c].regs.eip = "program"
      /\ cpu' = [cpu EXCEPT ![c].regs = [@ EXCEPT !.eax = CallNo, !.eip = "call"]]
  BY DEF Ask, RInv, Upcalls
<1>3. PICK h : h = [cpu[c].regs EXCEPT !.eax = CallNo, !.eip = "call"]
  OBVIOUS
<1>4. h \in Frames /\ h.eip = "call" /\ h.intr = cpu[c].regs.intr
  BY <1>2, <1>3 DEF Frames
<1>5. /\ cpu' = [cpu EXCEPT ![c].regs = h]
      /\ status' = status /\ parent' = parent /\ recving' = recving /\ tf' = tf /\ utf' = utf
  BY <1>2, <1>3 DEF Ask, RInv, Types
<1>6. RInv' /\ Instruction(c, e, h)
  BY <1>1, <1>2, <1>4, <1>5, InstructionStep
<1>7. Programs!Ask(e)
  BY <1>2, <1>3, <1>4, <1>5, <1>6
     DEF Programs!Ask, Programs!Executes, Programs!who, Instruction
<1> QED
  BY <1>6, <1>7 DEF Meaning, Programs!Next

LEMMA UpcallReturnStep ==
    ASSUME RInv, NEW c \in Cpus, UpcallReturn(c)
    PROVE  RInv' /\ Meaning
<1> USE NobodyFacts
<1>1. PICK e \in Envs : e = cpu[c].env
  BY Own DEF UpcallReturn
<1>2. /\ cpu[c].at = "user" /\ cpu[c].regs \in Frames /\ cpu[c].regs.eip = "upcall"
      /\ utf[e] \in Frames /\ utf[e].eip # "upcall"
  BY <1>1, Own DEF UpcallReturn, RInv, Types, Upcalls
<1>3. PICK h \in Frames : h = [utf[e] EXCEPT !.intr = cpu[c].regs.intr]
  BY <1>2 DEF Frames
<1>4. PICK r : r = [env |-> e, at |-> "user", regs |-> h]
  OBVIOUS
<1>5. cpu' = [cpu EXCEPT ![c] = r]
  <2>1. cpu' = [cpu EXCEPT ![c].regs = h]
    BY <1>1, <1>3 DEF UpcallReturn
  <2> QED
    BY <1>1, <1>2, <1>4, <2>1, NewRegs
<1>6. UNCHANGED <<status, parent, recving, tf>> /\ utf' = [utf EXCEPT ![e] = Nobody]
  BY <1>1 DEF UpcallReturn
<1>7. h.eip # "upcall"
  BY <1>2, <1>3 DEF Frames
<1>8. /\ RInv' /\ OnlyOf({e}) /\ Now(e)' = h
      /\ Placed' = Placed /\ Newborn' = Newborn /\ Dying' = Dying /\ e \in Placed
      /\ Runs' = (Runs \ {e}) \cup (IF h.eip # "upcall" THEN {e} ELSE {})
      /\ e \in Runs <=> Program(c, e)
  <2>1. /\ utf' \in [Envs -> Frames \cup {Nobody}]
        /\ utf'[e] # Nobody => utf'[e].eip # "upcall"
    BY <1>6 DEF RInv, Types
  <2>2. \A k \in Envs \ {e} : utf'[k] = utf[k]
    BY <1>6 DEF RInv, Types
  <2>3. ToUser(c, e, h, r)
    BY <1>1, <1>4, <1>5, <1>6, <1>7, <2>1, <2>2 DEF ToUser
  <2> QED
    BY <2>3, UserStep
<1>9. Regs(e)' = Regs(e)
  <2>1. Now(e) = cpu[c].regs
    BY <1>1, <1>2, Located DEF RegsOnCpu
  <2> QED
    BY <1>2, <1>3, <1>7, <1>8, <2>1 DEF Regs
<1>10. AllRegs' = AllRegs
  BY <1>8, <1>9, NoChange DEF OnlyOf
<1>11. e \notin Runs
  BY <1>2, <1>8 DEF Program, User
<1>12. Programs!Enter(e)
  BY <1>6, <1>7, <1>8, <1>10, <1>11 DEF Programs!Enter, Programs!who
<1> QED
  BY <1>8, <1>12 DEF Meaning, Programs!Next


-----------------------------------------------------------------------------
(* Traps *)

LEMMA TimerStep ==
    ASSUME RInv, NEW c \in Cpus, Timer(c)
    PROVE  RInv' /\ Meaning
<1> USE NobodyFacts
<1>1. PICK e \in Envs : Trap(c, e) /\ tf' = [tf EXCEPT ![e] = cpu[c].regs]
  BY DEF Timer, Saved
<1>2. /\ cpu[c].env = e /\ status[e] = "running" /\ cpu[c].regs \in Frames
      /\ cpu[c].regs.eip = "upcall" => utf[e] # Nobody
      /\ ~Elsewhere(c, e) /\ Now(e) = cpu[c].regs
  BY <1>1, Trapping
<1>3. SchedYield(c, status) /\ UNCHANGED <<parent, recving, utf>> /\ User(c, e)
  BY <1>1 DEF Timer, Trap
<1>4. Leaves(c, status)
  BY <1>2 DEF Leaves, RInv, Types
<1>5. tf'[e] = cpu[c].regs /\ \A k \in Envs \ {e} : tf'[k] = tf[k]
  BY <1>1 DEF RInv, Types
<1>6. Kept({e}, status)
  BY <1>3, <1>5 DEF Kept
<1>7. Fits({e}, status)
  BY <1>1, <1>2, <1>3, <1>5 DEF Fits, RInv, Types, Slots, Upcalls
<1>8. /\ RInv' /\ OnlyOf({e}) /\ Visited(e, status)
      /\ Regs(e)' = IF tf'[e].eip = "upcall"
                    THEN [utf'[e] EXCEPT !.intr = tf'[e].intr] ELSE tf'[e]
  BY <1>2, <1>3, <1>4, <1>6, <1>7, TrapStep
<1>9. Regs(e)' = Regs(e)
  BY <1>2, <1>3, <1>5, <1>8 DEF Regs
<1>10. AllRegs' = AllRegs
  BY <1>8, <1>9, NoChange DEF OnlyOf
<1>11. Programs!Interrupt(e)
  BY <1>3, <1>8, <1>10, SameWho DEF Programs!Interrupt, Programs!who, Same, Visited
<1> QED
  BY <1>8, <1>11 DEF Meaning, Programs!Next

LEMMA FaultStep ==
    ASSUME RInv, NEW c \in Cpus, Fault(c)
    PROVE  RInv' /\ Meaning
<1> USE NobodyFacts
<1>1. PICK e \in Envs :
        /\ Trap(c, e) /\ cpu[c].regs.eip # "upcall"
        /\ utf' = [utf EXCEPT ![e] = cpu[c].regs]
        /\ tf' = [tf EXCEPT ![e] = [cpu[c].regs EXCEPT !.eip = "upcall"]]
        /\ Run(c, status, e)
  BY DEF Fault
<1>2. /\ cpu[c].env = e /\ status[e] = "running" /\ cpu[c].regs \in Frames
      /\ ~Elsewhere(c, e) /\ Regs(e) = cpu[c].regs /\ User(c, e)
  BY <1>1, Trapping, Sees DEF Trap, SeesOwn
<1>3. Resume(c, status) /\ UNCHANGED <<parent, recving>>
  BY <1>1, <1>2 DEF Fault, Resume, Goes
<1>4. Leaves(c, status)
  BY <1>2 DEF Leaves, RInv, Types
<1>5. PICK f \in Frames : f = [cpu[c].regs EXCEPT !.eip = "upcall"]
  BY <1>2 DEF Frames
<1>6. f.eip = "upcall" /\ f.intr = cpu[c].regs.intr
  BY <1>2, <1>5 DEF Frames
<1>7. /\ tf'[e] = f /\ \A k \in Envs \ {e} : tf'[k] = tf[k] /\ utf'[k] = utf[k]
      /\ utf'[e] = cpu[c].regs /\ tf' = [tf EXCEPT ![e] = f]
  BY <1>1, <1>5 DEF RInv, Types
<1>8. Kept({e}, status)
  BY <1>7 DEF Kept
<1>9. Fits({e}, status)
  BY <1>1, <1>2, <1>3, <1>6, <1>7 DEF Fits, RInv, Types, Slots
<1>10. /\ RInv' /\ OnlyOf({e}) /\ Visited(e, status)
       /\ Regs(e)' = IF tf'[e].eip = "upcall"
                     THEN [utf'[e] EXCEPT !.intr = tf'[e].intr] ELSE tf'[e]
  BY <1>2, <1>3, <1>4, <1>8, <1>9, TrapStep
<1>11. Regs(e)' = Regs(e)
  <2>1. [cpu[c].regs EXCEPT !.intr = cpu[c].regs.intr] = cpu[c].regs
    BY <1>2 DEF Frames
  <2> QED
    BY <1>2, <1>6, <1>7, <1>10, <2>1
<1>12. AllRegs' = AllRegs
  BY <1>10, <1>11, NoChange DEF OnlyOf
<1>13. Programs!Interrupt(e)
  BY <1>3, <1>10, <1>12, SameWho DEF Programs!Interrupt, Programs!who, Same, Visited
<1> QED
  BY <1>10, <1>13 DEF Meaning, Programs!Next

(* An environment that is freed by its own trap. *)
LEMMA GoneStep ==
    ASSUME RInv, NEW c \in Cpus, NEW e \in Envs, User(c, e), EnvFree(e),
           tf' = [tf EXCEPT ![e] = Nobody], SchedYield(c, Freed(status, e)),
           e \in Dying \/ (e \in Runs /\ AllRegs[e].eip = "call")
    PROVE  RInv' /\ Meaning
<1> USE NobodyFacts
<1> DEFINE st == Freed(status, e)
<1>1. cpu[c].env = e /\ ~Elsewhere(c, e)
  BY DEF User, Elsewhere, RInv, Owners
<1>2. st[e] = "free" /\ st \in [Envs -> Statuses] /\ \A k \in Envs \ {e} : st[k] = status[k]
  BY DEF Freed, RInv, Types, Statuses
<1>3. SchedYield(c, st)
  OBVIOUS
<1> HIDE DEF st
<1>4. Leaves(c, st)
  BY <1>1, <1>2 DEF Leaves
<1>5. /\ tf'[e] = Nobody /\ \A k \in Envs \ {e} : tf'[k] = tf[k] /\ utf'[k] = utf[k]
      /\ utf'[e] = Nobody
  BY DEF RInv, Types, EnvFree
<1>6. Kept({e}, st)
  BY <1>2, <1>5 DEF Kept
<1>7. Fits({e}, st)
  BY <1>2, <1>5 DEF Fits, RInv, Types, Slots, EnvFree
<1>8. /\ RInv' /\ OnlyOf({e}) /\ Visited(e, st) /\ Regs(e)' = Nobody
  <2>1. /\ RInv' /\ OnlyOf({e}) /\ Visited(e, st)
        /\ Regs(e)' = IF tf'[e].eip = "upcall"
                      THEN [utf'[e] EXCEPT !.intr = tf'[e].intr] ELSE tf'[e]
    BY <1>1, <1>3, <1>4, <1>6, <1>7, TrapStep
  <2> QED
    BY <1>5, <2>1
<1>9. Newborn' = Newborn \ {e} /\ Dying' = Dying \ {e}
  BY <1>2, <1>8 DEF Visited, Newborn, Dying
<1>10. Programs!Gone(e)
  BY <1>9 DEF Programs!Gone, EnvFree
<1>11. AllRegs' = [AllRegs EXCEPT ![e] = Nobody]
  BY <1>8, OneChange
<1>12. Programs!End(e)
  BY <1>8, <1>10, <1>11 DEF Programs!End, Visited
<1> QED
  BY <1>8, <1>12 DEF Meaning, Programs!Next

LEMMA ReapStep ==
    ASSUME RInv, NEW c \in Cpus, Reap(c)
    PROVE  RInv' /\ Meaning
<1>1. PICK e \in Envs : e = cpu[c].env
  BY Own DEF Reap
<1>2. e \in Dying
  BY <1>1 DEF Reap, Zombie, Dying
<1> QED
  BY <1>1, <1>2, GoneStep DEF Reap, User

LEMMA ExitStep ==
    ASSUME RInv, NEW c \in Cpus, Exit(c)
    PROVE  RInv' /\ Meaning
<1>1. PICK e \in Envs : /\ Asks(c, e) /\ EnvFree(e) /\ tf' = [tf EXCEPT ![e] = Nobody]
                        /\ SchedYield(c, Freed(status, e))
  BY DEF Exit
<1>2. User(c, e) /\ e \in Runs /\ AllRegs[e].eip = "call"
  BY <1>1, Asking
<1> QED
  BY <1>1, <1>2, GoneStep

-----------------------------------------------------------------------------
(* System calls *)

LEMMA SysYieldStep ==
    ASSUME RInv, NEW c \in Cpus, SysYield(c)
    PROVE  RInv' /\ Meaning
<1>1. PICK e \in Envs : Asks(c, e) /\ tf' = Returned(e, c, cpu[c].regs.eax)
  BY DEF SysYield
<1>2. PICK r : r = cpu[c].regs.eax
  OBVIOUS
<1>3. cpu[c].env = e /\ status[e] = "running" /\ r \in Results /\ r = AllRegs[e].eax
  BY <1>1, <1>2, Trapping, Asking DEF Frames
<1>4. Leaves(c, status)
  BY <1>3 DEF Leaves, RInv, Types
<1>5. /\ SchedYield(c, status) /\ UNCHANGED <<parent, recving, utf>>
      /\ parent' \in [Envs -> 0..NENV] /\ recving' \subseteq Envs
      /\ \A k \in recving' : status[k] = "waiting"
  BY DEF SysYield, RInv, Types, Slots
<1>6. RInv' /\ Answered(e, r, status)
  BY <1>1, <1>2, <1>3, <1>4, <1>5, ReturnStep
<1>7. Programs!Yield(e)
  BY <1>3, <1>5, <1>6, SameWho DEF Programs!Yield, Programs!who, Answered, Same
<1> QED
  BY <1>6, <1>7 DEF Meaning, Programs!Next

LEMMA SysIpcRecvStep ==
    ASSUME RInv, NEW c \in Cpus, SysIpcRecv(c)
    PROVE  RInv' /\ Meaning
<1>1. PICK e \in Envs :
        /\ Asks(c, e) /\ tf' = Returned(e, c, 0) /\ recving' = recving \cup {e}
        /\ Resume(c, [status EXCEPT ![e] = "waiting"])
  BY DEF SysIpcRecv
<1>2. cpu[c].env = e /\ status[e] = "running" /\ 0 \in Results
  BY <1>1, Asking, Trapping, NobodyFacts
<1>3. PICK st : st = [status EXCEPT ![e] = "waiting"]
  OBVIOUS
<1>4. /\ st[e] = "waiting" /\ \A k \in Envs \ {e} : st[k] = status[k]
      /\ st \in [Envs -> Statuses]
  BY <1>3 DEF RInv, Types, Statuses
<1>5. Leaves(c, st)
  BY <1>2, <1>4 DEF Leaves
<1>6. /\ Resume(c, st) /\ utf' = utf /\ parent' = parent
      /\ parent' \in [Envs -> 0..NENV] /\ recving' \subseteq Envs
      /\ \A k \in recving' : st[k] = "waiting"
  BY <1>1, <1>3, <1>4 DEF SysIpcRecv, RInv, Types, Slots
<1>7. /\ \A k \in Envs : st[k] = "free" <=> status[k] = "free"
      /\ Same(st)
  BY <1>2, <1>4 DEF Same
<1>8. RInv' /\ Answered(e, 0, st)
  BY <1>1, <1>2, <1>5, <1>6, <1>7, ReturnStep
<1>9. Programs!Receive(e)
  BY <1>1, <1>6, <1>7, <1>8, SameWho DEF Programs!Receive, Answered
<1> QED
  BY <1>8, <1>9 DEF Meaning, Programs!Next

LEMMA SysIpcTrySendStep ==
    ASSUME RInv, NEW c \in Cpus, NEW k \in Envs, SysIpcTrySend(c, k)
    PROVE  RInv' /\ Meaning
<1>1. PICK e \in Envs :
        /\ Asks(c, e)
        /\ IF k \in recving
           THEN /\ tf' = Returned(e, c, 0) /\ recving' = recving \ {k}
                /\ Resume(c, [status EXCEPT ![k] = "runnable"])
           ELSE /\ tf' = Returned(e, c, Error) /\ UNCHANGED recving
                /\ Resume(c, status)
  BY DEF SysIpcTrySend
<1>2. /\ cpu[c].env = e /\ status[e] = "running" /\ 0 \in Results /\ Error \in Results
      /\ utf' = utf /\ parent' = parent /\ parent' \in [Envs -> 0..NENV]
  BY <1>1, Asking, Trapping, NobodyFacts DEF SysIpcTrySend, RInv, Types
<1>3. CASE k \in recving
  <2>1. PICK st : st = [status EXCEPT ![k] = "runnable"]
    OBVIOUS
  <2>2. /\ st[k] = "runnable" /\ \A j \in Envs \ {k} : st[j] = status[j]
        /\ st \in [Envs -> Statuses] /\ status[k] = "waiting"
    BY <1>3, <2>1 DEF RInv, Types, Slots, Statuses
  <2>3. Leaves(c, st)
    BY <1>1, <1>2, <2>2 DEF Leaves, Active
  <2>4. /\ Resume(c, st) /\ recving' \subseteq Envs /\ \A j \in recving' : st[j] = "waiting"
    BY <1>1, <1>3, <2>1, <2>2 DEF RInv, Types, Slots
  <2>5. /\ \A j \in Envs : st[j] = "free" <=> status[j] = "free"
        /\ Same(st)
    BY <2>2 DEF Same
  <2>6. RInv' /\ Answered(e, 0, st)
    BY <1>1, <1>2, <1>3, <2>3, <2>4, <2>5, ReturnStep
  <2>7. Programs!Send(e, k)
    BY <1>1, <1>2, <1>3, <2>5, <2>6, SameWho DEF Programs!Send, Answered
  <2> QED
    BY <2>6, <2>7 DEF Meaning, Programs!Next
<1>4. CASE k \notin recving
  <2>1. Leaves(c, status)
    BY <1>2 DEF Leaves, RInv, Types
  <2>2. /\ Resume(c, status) /\ recving' \subseteq Envs
        /\ \A j \in recving' : status[j] = "waiting"
    BY <1>1, <1>4 DEF RInv, Types, Slots
  <2>3. RInv' /\ Answered(e, Error, status)
    BY <1>1, <1>2, <1>4, <2>1, <2>2, ReturnStep
  <2>4. Programs!Send(e, k)
    BY <1>1, <1>2, <1>4, <2>3, SameWho DEF Programs!Send, Answered, Same
  <2> QED
    BY <2>3, <2>4 DEF Meaning, Programs!Next
<1> QED
  BY <1>3, <1>4

LEMMA ChildIs ==
    ASSUME RInv, NEW e \in Envs, NEW k \in Envs
    PROVE  Programs!Child(e, k) <=> Child(e, k)
BY Sees DEF Programs!Child, Programs!Alive, Child, SeesOwn, AllRegs

LEMMA SysRefusedStep ==
    ASSUME RInv, NEW c \in Cpus, NEW k \in Envs, SysRefused(c, k)
    PROVE  RInv' /\ Meaning
<1>1. PICK e \in Envs : Asks(c, e) /\ k # e /\ ~Child(e, k) /\ tf' = Returned(e, c, Error)
  BY DEF SysRefused
<1>2. cpu[c].env = e /\ status[e] = "running" /\ Error \in Results
  BY <1>1, Asking, Trapping, NobodyFacts
<1>3. Leaves(c, status)
  BY <1>2 DEF Leaves, RInv, Types
<1>4. /\ Resume(c, status) /\ UNCHANGED <<parent, recving, utf>>
      /\ parent' \in [Envs -> 0..NENV] /\ recving' \subseteq Envs
      /\ \A j \in recving' : status[j] = "waiting"
  BY DEF SysRefused, RInv, Types, Slots
<1>5. RInv' /\ Answered(e, Error, status)
  BY <1>1, <1>2, <1>3, <1>4, ReturnStep
<1>6. Programs!Refused(e, k)
  BY <1>1, <1>4, <1>5, ChildIs, SameWho DEF Programs!Refused, Programs!who, Answered, Same
<1> QED
  BY <1>5, <1>6 DEF Meaning, Programs!Next

LEMMA SysEnvSetStatusStep ==
    ASSUME RInv, NEW c \in Cpus, NEW k \in Envs, SysEnvSetStatus(c, k)
    PROVE  RInv' /\ Meaning
<1>1. PICK e \in Envs :
        Asks(c, e) /\ Child(e, k) /\ status[k] = "newborn" /\ tf' = Returned(e, c, 0)
  BY DEF SysEnvSetStatus
<1>2. cpu[c].env = e /\ status[e] = "running" /\ 0 \in Results
  BY <1>1, Asking, Trapping, NobodyFacts
<1>3. PICK st : st = [status EXCEPT ![k] = "runnable"]
  OBVIOUS
<1>4. /\ st[k] = "runnable" /\ \A j \in Envs \ {k} : st[j] = status[j]
      /\ st \in [Envs -> Statuses]
  BY <1>3 DEF RInv, Types, Statuses
<1>5. Leaves(c, st)
  BY <1>1, <1>2, <1>4 DEF Leaves, Active
<1>6. /\ Resume(c, st) /\ UNCHANGED <<parent, recving, utf>>
      /\ parent' \in [Envs -> 0..NENV] /\ recving' \subseteq Envs
      /\ \A j \in recving' : st[j] = "waiting"
  BY <1>1, <1>3, <1>4 DEF SysEnvSetStatus, RInv, Types, Slots
<1>7. \A j \in Envs : st[j] = "free" <=> status[j] = "free"
  BY <1>1, <1>4
<1>8. RInv' /\ Answered(e, 0, st)
  BY <1>1, <1>2, <1>5, <1>6, <1>7, ReturnStep
<1>9. Newborn' = Newborn \ {k} /\ Dying' = Dying /\ k \in Newborn
  BY <1>1, <1>4, <1>8 DEF Answered, Visited, Newborn, Dying
<1>10. Programs!Start(e, k)
  BY <1>1, <1>6, <1>8, <1>9, ChildIs DEF Programs!Start, Answered
<1> QED
  BY <1>8, <1>10 DEF Meaning, Programs!Next

(* A call of e that returns r and also stores the frame f into the slot k, *)
(* where nothing runs; the statuses are then st.                           *)
StoresOther(c, e, k, r, f, st) ==
    /\ Asks(c, e) /\ k # e /\ status[k] \notin Active
    /\ tf' = [Returned(e, c, r) EXCEPT ![k] = f]
    /\ st \in [Envs -> Statuses] /\ st[e] = "running"
    /\ \A j \in Envs \ {k} : st[j] = status[j]
    /\ st[k] \notin Active /\ (f = Nobody <=> st[k] = "free") /\ f.eip # "upcall"
    /\ utf' \in [Envs -> Frames \cup {Nobody}] /\ (utf'[k] = Nobody \/ utf'[k] = utf[k])
    /\ \A j \in Envs \ {k} : utf'[j] = utf[j]
    /\ parent' \in [Envs -> 0..NENV] /\ recving' \subseteq recving
    /\ k \in recving' => st[k] = "waiting"
    /\ Resume(c, st)

LEMMA StoresTwo ==
    ASSUME RInv, NEW c \in Cpus, NEW e \in Envs, NEW k \in Envs, NEW r \in Results,
           NEW f \in Frames \cup {Nobody}, NEW st, StoresOther(c, e, k, r, f, st)
    PROVE  /\ RInv' /\ Programs!Asked(e) /\ Visited(e, st)
           /\ AllRegs' = [AllRegs EXCEPT ![e] = Programs!Answer(e, r), ![k] = f]
<1> USE NobodyFacts
<1>1. /\ cpu[c].env = e /\ status[e] = "running" /\ User(c, e)
      /\ ~Elsewhere(c, e) /\ ~Elsewhere(c, k)
      /\ e \in Runs \ Dying /\ AllRegs[e].eip = "call" /\ Programs!Answer(e, r) = Answer(c, r)
  BY Asking, Trapping DEF StoresOther
<1>2. PICK g \in Frames : g = Answer(c, r) /\ g.eip = "program"
  BY Asking DEF StoresOther
<1>3. /\ tf'[e] = g /\ tf'[k] = f /\ \A j \in Envs \ {e, k} : tf'[j] = tf[j]
      /\ tf' \in [Envs -> Frames \cup {Nobody}]
  BY <1>2 DEF Returned, Saved, RInv, Types, StoresOther
<1>4. Leaves(c, st)
  BY <1>1 DEF Leaves, Active, StoresOther
<1>5. Kept({e, k}, st)
  BY <1>3 DEF Kept, StoresOther
<1>6. Fits({e, k}, st)
  BY <1>1, <1>2, <1>3 DEF Fits, RInv, Types, Slots, Upcalls, StoresOther
<1>7. /\ RInv' /\ OnlyOf({e, k}) /\ Visited(e, st)
      /\ \A j \in {e, k} : Regs(j)' = IF tf'[j].eip = "upcall"
                                      THEN [utf'[j] EXCEPT !.intr = tf'[j].intr] ELSE tf'[j]
  <2>1. PICK S \in SUBSET Envs : S = {e, k}
    OBVIOUS
  <2>2. e \in S /\ Kept(S, st) /\ Fits(S, st) /\ \A j \in S : ~Elsewhere(c, j)
    BY <1>1, <1>5, <1>6, <2>1
  <2>3. SchedYield(c, st) \/ Resume(c, st)
    BY DEF StoresOther
  <2>4. /\ RInv' /\ OnlyOf(S) /\ Visited(e, st)
        /\ \A j \in S : Regs(j)' = IF tf'[j].eip = "upcall"
                                   THEN [utf'[j] EXCEPT !.intr = tf'[j].intr] ELSE tf'[j]
    BY <1>1, <1>4, <2>2, <2>3, TrapStep
  <2> QED
    BY <2>1, <2>4
<1>8. Regs(e)' = g /\ Regs(k)' = f
  BY <1>2, <1>3, <1>7 DEF StoresOther
<1>9. AllRegs' = [AllRegs EXCEPT ![e] = g, ![k] = f]
  BY <1>7, <1>8, TwoChange
<1>10. Programs!Asked(e)
  BY <1>1, <1>7 DEF Programs!Asked, Visited
<1> QED
  BY <1>1, <1>2, <1>7, <1>9, <1>10

LEMMA SysExoforkStep ==
    ASSUME RInv, NEW c \in Cpus, SysExofork(c)
    PROVE  RInv' /\ Meaning
<1> USE NobodyFacts
<1>1. PICK e \in Envs :
        /\ Asks(c, e)
        /\ \/ \E k \in Envs :
               /\ status[k] = "free" /\ parent' = [parent EXCEPT ![k] = e]
               /\ tf' = [Returned(e, c, k) EXCEPT ![k] = Answer(c, 0)]
               /\ Resume(c, [status EXCEPT ![k] = "newborn"])
           \/ /\ \A k \in Envs : status[k] # "free"
              /\ tf' = Returned(e, c, Error) /\ UNCHANGED parent
              /\ Resume(c, status)
  BY DEF SysExofork, Answer
<1>2. /\ cpu[c].env = e /\ status[e] = "running" /\ Programs!Answer(e, 0) = Answer(c, 0)
  BY <1>1, Asking, Trapping
<1>3. recving' = recving /\ utf' = utf
  BY DEF SysExofork
<1>4. \A k \in Envs : Programs!Alive(k) <=> status[k] # "free"
  BY Sees DEF Programs!Alive, SeesOwn, AllRegs
<1>5. ASSUME NEW k \in Envs, status[k] = "free", parent' = [parent EXCEPT ![k] = e],
             tf' = [Returned(e, c, k) EXCEPT ![k] = Answer(c, 0)],
             Resume(c, [status EXCEPT ![k] = "newborn"])
      PROVE  RInv' /\ Meaning
  <2>1. PICK st : st = [status EXCEPT ![k] = "newborn"]
    OBVIOUS
  <2>2. PICK f \in Frames : f = Answer(c, 0) /\ f.eip = "program"
    BY <1>1, Asking
  <2>3. f # Nobody /\ k # e /\ k \in Results
    BY <1>2, <1>5
  <2>4. /\ st \in [Envs -> Statuses] /\ st[e] = "running" /\ st[k] = "newborn"
        /\ \A j \in Envs \ {k} : st[j] = status[j]
    BY <1>2, <1>5, <2>1 DEF RInv, Types, Statuses
  <2>5. StoresOther(c, e, k, k, f, st)
    <3>1. /\ utf' \in [Envs -> Frames \cup {Nobody}]
          /\ utf'[k] = utf[k] /\ \A j \in Envs \ {k} : utf'[j] = utf[j]
          /\ parent' \in [Envs -> 0..NENV] /\ recving' \subseteq recving
          /\ k \notin recving' /\ Resume(c, st)
      BY <1>3, <1>5, <2>1 DEF RInv, Types, Slots, Envs
    <3>2. /\ status[k] \notin Active /\ st[k] \notin Active
          /\ f = Nobody <=> st[k] = "free"
          /\ f.eip # "upcall"
      BY <1>5, <2>2, <2>3, <2>4 DEF Active
    <3>3. tf' = [Returned(e, c, k) EXCEPT ![k] = f]
      BY <1>5, <2>2
    <3> QED
      BY <1>1, <2>3, <2>4, <3>1, <3>2, <3>3 DEF StoresOther
  <2>6. /\ RInv' /\ Programs!Asked(e) /\ Visited(e, st)
        /\ AllRegs' = [AllRegs EXCEPT ![e] = Programs!Answer(e, k), ![k] = f]
    BY <2>3, <2>5, StoresTwo
  <2>7. Newborn' = Newborn \cup {k} /\ Dying' = Dying
    BY <1>5, <2>4, <2>6 DEF Visited, Newborn, Dying
  <2>8. Programs!Fork(e, k)
    BY <1>2, <1>3, <1>4, <1>5, <2>2, <2>6, <2>7 DEF Programs!Fork
  <2> QED
    BY <2>6, <2>8 DEF Meaning, Programs!Next
<1>6. ASSUME \A k \in Envs : status[k] # "free",
             tf' = Returned(e, c, Error), parent' = parent, Resume(c, status)
      PROVE  RInv' /\ Meaning
  <2>1. Leaves(c, status)
    BY <1>2 DEF Leaves, RInv, Types
  <2>2. /\ Error \in Results
        /\ parent' \in [Envs -> 0..NENV] /\ recving' \subseteq Envs
        /\ \A j \in recving' : status[j] = "waiting"
    BY <1>3, <1>6 DEF RInv, Types, Slots
  <2>3. RInv' /\ Answered(e, Error, status)
    BY <1>1, <1>3, <1>6, <2>1, <2>2, ReturnStep
  <2>4. Programs!ForkFails(e)
    BY <1>3, <1>4, <1>6, <2>3, SameWho DEF Programs!ForkFails, Programs!who, Answered, Same
  <2> QED
    BY <2>3, <2>4 DEF Meaning, Programs!Next
<1> QED
  BY <1>1, <1>5, <1>6

LEMMA SysEnvDestroyStep ==
    ASSUME RInv, NEW c \in Cpus, NEW k \in Envs, SysEnvDestroy(c, k)
    PROVE  RInv' /\ Meaning
<1> USE NobodyFacts
<1>1. PICK e \in Envs :
        /\ Asks(c, e) /\ Child(e, k) /\ e # k /\ status[k] # "dying"
        /\ tf' = [Returned(e, c, 0) EXCEPT ![k] = IF Destroyed(k) = "free" THEN Nobody ELSE @]
        /\ IF Destroyed(k) = "free"
           THEN EnvFree(k) ELSE UNCHANGED <<parent, recving, utf>>
        /\ Resume(c, [status EXCEPT ![k] = Destroyed(k)])
  BY DEF SysEnvDestroy
<1>2. /\ cpu[c].env = e /\ status[e] = "running" /\ cpu[c].regs \in Frames /\ 0 \in Results
      /\ status[k] # "free" /\ Programs!Child(e, k)
  BY <1>1, Asking, Trapping, ChildIs DEF Child
<1>3. PICK st : st = [status EXCEPT ![k] = Destroyed(k)]
  OBVIOUS
<1>4. /\ st \in [Envs -> Statuses] /\ st[e] = "running" /\ st[k] = Destroyed(k)
      /\ \A j \in Envs \ {k} : st[j] = status[j]
  BY <1>1, <1>2, <1>3 DEF RInv, Types, Statuses, Destroyed
<1>5. CASE status[k] = "running"
  <2>1. Destroyed(k) = "dying"
    BY <1>5 DEF Destroyed
  <2>2. tf' = Returned(e, c, 0)
    <3>1. Returned(e, c, 0) \in [Envs -> Frames \cup {Nobody}]
      BY <1>2 DEF Returned, Saved, Answer, RInv, Types, Frames
    <3> HIDE DEF Returned
    <3> QED
      BY <1>1, <2>1, <3>1
  <2>3. Leaves(c, st)
    BY <1>1, <1>2, <1>4, <1>5, <2>1 DEF Leaves, Active
  <2>4. /\ UNCHANGED <<parent, recving, utf>> /\ Resume(c, st)
        /\ parent' \in [Envs -> 0..NENV] /\ recving' \subseteq Envs
        /\ \A j \in recving' : st[j] = "waiting"
    BY <1>1, <1>3, <1>4, <1>5, <2>1 DEF RInv, Types, Slots
  <2>5. \A j \in Envs : st[j] = "free" <=> status[j] = "free"
    BY <1>4, <1>5, <2>1
  <2>6. RInv' /\ Answered(e, 0, st)
    BY <1>1, <1>2, <2>2, <2>3, <2>4, <2>5, ReturnStep
  <2>7. Newborn' = Newborn /\ Dying' = Dying \cup {k} /\ k \in Placed
    BY <1>4, <1>5, <2>1, <2>6, Places DEF Answered, Visited, Newborn, Dying, InPlace, Active
  <2>8. Programs!Kill(e, k)
    BY <1>1, <1>2, <2>4, <2>6, <2>7 DEF Programs!Kill, Answered
  <2> QED
    BY <2>6, <2>8 DEF Meaning, Programs!Next
<1>6. CASE status[k] # "running"
  <2>1. Destroyed(k) = "free" /\ st[k] = "free"
    BY <1>4, <1>6 DEF Destroyed
  <2>2. EnvFree(k)
    BY <1>1, <2>1
  <2>3. PICK f \in Frames \cup {Nobody} : f = Nobody
    OBVIOUS
  <2>4. StoresOther(c, e, k, 0, f, st)
    <3>1. /\ utf' \in [Envs -> Frames \cup {Nobody}]
          /\ utf'[k] = Nobody /\ \A j \in Envs \ {k} : utf'[j] = utf[j]
          /\ parent' \in [Envs -> 0..NENV] /\ recving' \subseteq recving
          /\ k \notin recving' /\ Resume(c, st)
      BY <1>1, <1>3, <2>2 DEF RInv, Types, EnvFree
    <3>2. /\ status[k] \notin Active /\ st[k] \notin Active
          /\ f = Nobody <=> st[k] = "free"
          /\ f.eip # "upcall" /\ k # e
      BY <1>1, <1>6, <2>1, <2>3 DEF Active
    <3>3. tf' = [Returned(e, c, 0) EXCEPT ![k] = f]
      BY <1>1, <2>1, <2>3
    <3> QED
      BY <1>1, <1>4, <3>1, <3>2, <3>3 DEF StoresOther
  <2>5. /\ RInv' /\ Programs!Asked(e) /\ Visited(e, st)
        /\ AllRegs' = [AllRegs EXCEPT ![e] = Programs!Answer(e, 0), ![k] = f]
    BY <1>2, <2>4, StoresTwo
  <2>6. Newborn' = Newborn \ {k} /\ Dying' = Dying \ {k} /\ k \notin Placed
    BY <1>1, <1>4, <1>6, <2>1, <2>5, Places DEF Visited, Newborn, Dying, InPlace, Active
  <2>7. Programs!Gone(k)
    BY <2>2, <2>6 DEF Programs!Gone, EnvFree
  <2>8. Programs!Kill(e, k)
    BY <1>1, <1>2, <2>3, <2>5, <2>6, <2>7 DEF Programs!Kill
  <2> QED
    BY <2>5, <2>8 DEF Meaning, Programs!Next
<1> QED
  BY <1>5, <1>6


(* A child on another processor may be past taking what it is given, or     *)
(* have taken half of it.                                                  *)
LEMMA SysEnvSetTrapframeStep ==
    ASSUME RInv, NEW c \in Cpus, NEW k \in Envs, SysEnvSetTrapframe(c, k)
    PROVE  RInv' /\ Meaning
<1> USE NobodyFacts
<1>1. PICK e \in Envs, i \in Interruptible :
        /\ Asks(c, e) /\ (k = e \/ Child(e, k))
        /\ tf' = [Returned(e, c, 0) EXCEPT ![k] = Given(c, i)]
  BY DEF SysEnvSetTrapframe
<1>2. /\ cpu[c].env = e /\ status[e] = "running" /\ ~Elsewhere(c, e) /\ User(c, e)
      /\ e \in Runs \ Dying /\ AllRegs[e] = cpu[c].regs /\ AllRegs[e].eip = "call"
      /\ Programs!Answer(e, 0) = Answer(c, 0) /\ cpu[c].regs \in Frames
      /\ status[k] # "free" /\ (k = e \/ Programs!Child(e, k))
  <2>1. /\ cpu[c].env = e /\ status[e] = "running" /\ ~Elsewhere(c, e) /\ cpu[c].regs \in Frames
    BY <1>1, Asking, Trapping
  <2>2. /\ User(c, e) /\ e \in Runs \ Dying /\ AllRegs[e] = cpu[c].regs /\ AllRegs[e].eip = "call"
        /\ Programs!Answer(e, 0) = Answer(c, 0)
    BY <1>1, Asking
  <2>3. status[k] # "free" /\ (k = e \/ Programs!Child(e, k))
    BY <1>1, <2>1, ChildIs DEF Child
  <2> QED
    BY <2>1, <2>2, <2>3
<1>3. PICK f \in Frames : f = Given(c, i)
  BY <1>2, RegistersAssumption DEF Given, Frames
<1>4. /\ f \in Programs!Program /\ f.eip = "program" /\ f.eax = 0 /\ f.reg = AllRegs[e].reg
      /\ f # Nobody
  BY <1>2, <1>3 DEF Given, Programs!Program, Frames
<1>5. /\ Resume(c, status) /\ utf' = utf /\ parent' = parent /\ recving' = recving
      /\ parent' \in [Envs -> 0..NENV] /\ recving' \subseteq Envs
      /\ utf' \in [Envs -> Frames \cup {Nobody}]
      /\ \A j \in recving' : status[j] = "waiting"
  BY DEF SysEnvSetTrapframe, RInv, Types, Slots
<1>6. PICK g \in Frames : g = Answer(c, 0) /\ g.eip = "program"
  BY <1>1, Asking
<1>7. /\ tf'[k] = f /\ (k # e => tf'[e] = g) /\ \A j \in Envs \ {e, k} : tf'[j] = tf[j]
      /\ tf' \in [Envs -> Frames \cup {Nobody}]
  BY <1>1, <1>3, <1>6 DEF Returned, Saved, RInv, Types
<1>8. Leaves(c, status) /\ Same(status)
  BY <1>2 DEF Leaves, Same, RInv, Types
<1>9. CASE k = e
  <2>1. Kept({e}, status)
    BY <1>5, <1>7, <1>9 DEF Kept
  <2>2. Fits({e}, status)
    BY <1>2, <1>4, <1>5, <1>7, <1>9 DEF Fits, RInv, Upcalls
  <2>3. /\ RInv' /\ OnlyOf({e}) /\ Visited(e, status)
        /\ Regs(e)' = IF tf'[e].eip = "upcall"
                      THEN [utf'[e] EXCEPT !.intr = tf'[e].intr] ELSE tf'[e]
    BY <1>2, <1>5, <1>8, <2>1, <2>2, TrapStep
  <2>4. Regs(e)' = f
    BY <1>4, <1>7, <1>9, <2>3
  <2>5. AllRegs' = [AllRegs EXCEPT ![e] = Programs!Answer(e, 0), ![k] = f]
    BY <1>9, <2>3, <2>4, TwoChange
  <2>6. Programs!Asked(e)
    BY <1>2, <2>3 DEF Programs!Asked, Visited
  <2>7. Newborn' = Newborn /\ Dying' = Dying
    BY <1>8, <2>3, SameWho
  <2>8. Programs!Load(e, k)
    BY <1>4, <1>5, <1>9, <2>5, <2>6, <2>7 DEF Programs!Load, Programs!who
  <2> QED
    BY <2>3, <2>8 DEF Meaning, Programs!Next
<1>10. CASE k # e /\ ~Elsewhere(c, k)
  <2>1. status[k] \notin Active
    BY <1>1, <1>10, Asking, Trapping
  <2>2. StoresOther(c, e, k, 0, f, status)
    BY <1>1, <1>2, <1>3, <1>4, <1>5, <1>10, <2>1 DEF StoresOther, RInv, Types
  <2>3. /\ RInv' /\ Programs!Asked(e) /\ Visited(e, status)
        /\ AllRegs' = [AllRegs EXCEPT ![e] = Programs!Answer(e, 0), ![k] = f]
    BY <2>2, StoresTwo
  <2>4. Newborn' = Newborn /\ Dying' = Dying
    BY <1>8, <2>3, SameWho
  <2>5. Programs!Load(e, k)
    BY <1>2, <1>4, <1>5, <1>10, <2>3, <2>4 DEF Programs!Load, Programs!who
  <2> QED
    BY <2>3, <2>5 DEF Meaning, Programs!Next
<1>11. CASE k # e /\ Elsewhere(c, k)
  <2>1. Stores(c, status)
    <3>1. \A j \in Envs : tf'[j] = Nobody <=> status[j] = "free"
      BY <1>2, <1>4, <1>6, <1>7 DEF RInv, Slots
    <3>2. ASSUME NEW j \in Envs
          PROVE  /\ Elsewhere(c, j) => tf'[j] = tf[j] \/ tf'[j].eip # "upcall"
                 /\ ~Elsewhere(c, j) => (tf'[j].eip = "upcall" => utf'[j] # Nobody)
      <4>1. CASE j \in {e, k}
        BY <1>4, <1>6, <1>7, <1>11, <4>1
      <4>2. CASE j \notin {e, k}
        <5>1. ~Elsewhere(c, j) => ~InUser(j)
          BY <1>2, <4>2 DEF InUser, Elsewhere
        <5> QED
          BY <1>5, <1>7, <4>2, <5>1 DEF RInv, Upcalls
      <4> QED
        BY <4>1, <4>2
    <3>3. \A j \in Envs : utf'[j] # Nobody => utf'[j].eip # "upcall"
      BY <1>5 DEF RInv, Upcalls
    <3> QED
      BY <1>5, <1>7, <3>1, <3>2, <3>3 DEF Stores
  <2>2. PICK r : Left(c, status, r)
    BY <1>5, <1>8, Switch
  <2>3. RInv'
    BY <2>1, <2>2, VisitRInv
  <2>4. Visited(e, status)
    BY <1>2, <2>2, <2>3, VisitStops
  <2>5. Regs(e)' = g
    BY <1>2, <1>6, <1>7, <1>11, <2>1, <2>2, <2>3, VisitRegs
  <2>6. \A j \in Envs \ {e, k} : Regs(j)' = Regs(j)
    BY <1>2, <1>5, <1>7, <2>1, <2>2, <2>3, VisitRegs
  <2>7. Regs(k)' = Regs(k) \/ (Regs(k)' \in Frames /\ (Regs(k)').eip = "program")
    BY <1>4, <1>7, <1>11, <2>1, <2>2, <2>3, VisitGiven
  <2>8. Programs!Asked(e) /\ Newborn' = Newborn /\ Dying' = Dying
    BY <1>2, <1>8, <2>4, SameWho DEF Programs!Asked, Visited
  <2>9. k \in Placed
    BY <1>11, NobodyFacts DEF Elsewhere, Placed
  <2>10. CASE Regs(k)' = Regs(k)
    <3>1. OnlyOf({e})
      BY <2>6, <2>10 DEF OnlyOf
    <3>2. Programs!Returns(e, 0)
      BY <1>2, <1>6, <2>5, <3>1, OneChange DEF Programs!Returns
    <3>3. Programs!LoadLost(e, k)
      BY <1>2, <1>5, <1>11, <2>8, <2>9, <3>2 DEF Programs!LoadLost, Programs!who
    <3> QED
      BY <2>3, <3>3 DEF Meaning, Programs!Next
  <2>11. CASE Regs(k)' \in Frames /\ (Regs(k)').eip = "program"
    <3>1. PICK h : h = Regs(k)'
      OBVIOUS
    <3>2. h \in Programs!Program
      BY <2>11, <3>1 DEF Programs!Program, Frames
    <3>3. OnlyOf({e, k})
      BY <2>6 DEF OnlyOf
    <3>4. AllRegs' = [AllRegs EXCEPT ![e] = Programs!Answer(e, 0), ![k] = h]
      BY <1>2, <1>6, <2>5, <3>1, <3>3, TwoChange
    <3>5. Programs!Load(e, k)
      BY <1>2, <1>5, <1>11, <2>8, <2>9, <3>2, <3>4 DEF Programs!Load, Programs!who
    <3> QED
      BY <2>3, <3>5 DEF Meaning, Programs!Next
  <2> QED
    BY <2>7, <2>10, <2>11
<1> QED
  BY <1>9, <1>10, <1>11

-----------------------------------------------------------------------------
(* The theorem *)

LEMMA Stutter ==
    ASSUME RInv, UNCHANGED vars
    PROVE  RInv' /\ Nothing
<1> USE DEF vars
<1>1. RInv'
  BY DEF RInv, Types, Owners, Slots, Upcalls, InUser
<1>2. \A e \in Envs : Now(e)' = Now(e)
  BY DEF Now, Here
<1>3. \A e \in Envs : Regs(e)' = Regs(e)
  BY <1>2 DEF Regs
<1>4. AllRegs' = AllRegs
  BY <1>3 DEF AllRegs
<1>5. Placed' = Placed /\ Newborn' = Newborn /\ Dying' = Dying
  BY DEF Placed, Newborn, Dying
<1>6. Runs' = Runs
  BY DEF Runs, Program, User
<1> QED
  BY <1>1, <1>4, <1>5, <1>6 DEF Nothing

LEMMA StepMeans == RInv /\ [Next]_vars => RInv' /\ Meaning
<1> SUFFICES ASSUME RInv, [Next]_vars PROVE RInv' /\ Meaning
  OBVIOUS
<1>1. CASE UNCHANGED vars
  BY <1>1, Stutter DEF Meaning
<1>2. ASSUME NEW c \in Cpus, WakeUp(c) \/ Popal(c) \/ Iret(c) \/ Work(c) \/ Ask(c) \/ UpcallReturn(c)
      PROVE  RInv' /\ Meaning
  BY <1>2, WakeUpStep, PopalStep, IretStep, WorkStep, AskStep, UpcallReturnStep
<1>3. ASSUME NEW c \in Cpus, Reap(c) \/ Timer(c) \/ Fault(c) \/ SysYield(c) \/ SysExofork(c)
                             \/ SysIpcRecv(c) \/ Exit(c)
      PROVE  RInv' /\ Meaning
  BY <1>3, ReapStep, TimerStep, FaultStep, SysYieldStep, SysExoforkStep, SysIpcRecvStep, ExitStep
<1>4. ASSUME NEW c \in Cpus, NEW k \in Envs,
             SysRefused(c, k) \/ SysEnvSetTrapframe(c, k) \/ SysEnvSetStatus(c, k)
             \/ SysIpcTrySend(c, k) \/ SysEnvDestroy(c, k)
      PROVE  RInv' /\ Meaning
  BY <1>4, SysRefusedStep, SysEnvSetTrapframeStep, SysEnvSetStatusStep, SysIpcTrySendStep,
     SysEnvDestroyStep
<1> QED
  BY <1>1, <1>2, <1>3, <1>4 DEF Next

LEMMA RInvHolds == Spec => []RInv
<1>1. RInv /\ [Next]_vars => RInv'
  BY StepMeans
<1> QED
  BY <1>1, InitRInv, PTL DEF Spec

LEMMA StartsSo == Init => Programs!Init
<1> SUFFICES ASSUME Init PROVE Programs!Init
  OBVIOUS
<1> USE NobodyFacts
<1>1. /\ \A e \in Envs : tf[e] = (IF e = 1 THEN First ELSE Nobody) /\ utf[e] = Nobody
      /\ \A e \in Envs : status[e] = IF e = 1 THEN "runnable" ELSE "free"
      /\ \A c \in Cpus : cpu[c].at = "halt" /\ cpu[c].env = 0
      /\ parent = [k \in Envs |-> 0] /\ recving = {}
  BY DEF Init
<1>2. \A e \in Envs : Regs(e) = IF e = 1 THEN First ELSE Nobody
  <2>1. \A e \in Envs : Now(e) = tf[e]
    BY <1>1, InitRInv, Located DEF RegsOnCpu
  <2> QED
    BY <1>1, <2>1 DEF Regs
<1>3. AllRegs = [k \in Envs |-> IF k = 1 THEN First ELSE Nobody]
  BY <1>2 DEF AllRegs
<1>4. 1 \in Envs /\ First \in Programs!Program
  BY DEF Envs, First, Programs!Program
<1>5. Runs = {} /\ Placed = {} /\ Newborn = {} /\ Dying = {}
  BY <1>1 DEF Runs, Program, User, Placed, Newborn, Dying
<1> HIDE DEF First, Nobody, Envs
<1> QED
  BY <1>1, <1>3, <1>4, <1>5 DEF Programs!Init

(* The registers of a program are its own (Computations): timer interrupts, *)
(* page faults, the reading of env_tf without the lock in env_pop_tf() and  *)
(* the reuse of slots by env_free() do not show; a call returns to the      *)
(* program that made it, with its result; and what a parent loads to a      *)
(* child that is on no processor arrives in full.                          *)
THEOREM Implementation == Spec => ImplementsComputations
<1>1. RInv /\ [Next]_vars => [Programs!Next]_(Programs!vars)
  <2> SUFFICES ASSUME RInv, [Next]_vars
               PROVE  Programs!Next \/ UNCHANGED Programs!vars
    OBVIOUS
  <2>1. Meaning
    BY StepMeans
  <2> QED
    BY <2>1 DEF Meaning, Nothing, Programs!vars
<1> QED
  BY <1>1, StartsSo, RInvHolds, PTL DEF Spec, ImplementsComputations, Programs!Spec

-----------------------------------------------------------------------------
(* Segments *)

(* Rounding *)

Multiple(x, n) == \E q \in Nat : x = n * q

LEMMA Quotient ==
    ASSUME NEW n \in Nat \ {0}, NEW a \in Nat
    PROVE  /\ a % n \in 0..(n-1)
           /\ a \div n \in Int
           /\ a = n * (a \div n) + (a % n)
OBVIOUS

LEMMA AtLeast ==
    ASSUME NEW n \in Nat \ {0}, NEW q \in Int
    PROVE  /\ q >= 1 => n * q >= n
           /\ q <= -1 => n * q <= -n
<1>1. ASSUME q >= 1 PROVE n * q >= n
  <2>1. n * (q - 1) >= 0 BY <1>1
  <2>2. n * q = n * (q - 1) + n OBVIOUS
  <2> QED BY <2>1, <2>2
<1>2. ASSUME q <= -1 PROVE n * q <= -n
  <2>1. n * (-1 - q) >= 0 BY <1>2
  <2>2. n * q = -n - n * (-1 - q) OBVIOUS
  <2> QED BY <2>1, <2>2
<1> QED BY <1>1, <1>2

LEMMA Down ==
    ASSUME NEW n \in Nat \ {0}, NEW a \in Nat
    PROVE  /\ RoundDown(a, n) \in Nat /\ Multiple(RoundDown(a, n), n)
           /\ RoundDown(a, n) <= a /\ a < RoundDown(a, n) + n
<1> DEFINE q == a \div n
           r == a % n
<1>1. r \in 0..n-1 /\ q \in Int /\ a = n * q + r
  BY Quotient
<1>2. RoundDown(a, n) = a - r
  BY DEF RoundDown
<1> HIDE DEF q, r
<1>3. q >= 0
  BY <1>1, AtLeast
<1>4. RoundDown(a, n) = n * q
  BY <1>1, <1>2
<1>5. n * q >= 0
  BY <1>1, <1>3
<1>6. Multiple(RoundDown(a, n), n)
  BY <1>1, <1>3, <1>4 DEF Multiple
<1> QED
  BY <1>1, <1>2, <1>4, <1>5, <1>6

LEMMA Between ==
    ASSUME NEW n \in Nat \ {0}, NEW x \in Int, NEW y \in Int,
           Multiple(x, n), Multiple(y, n), x < y
    PROVE  x + n <= y
<1>1. PICK p \in Nat : x = n * p
  BY DEF Multiple
<1>2. PICK q \in Nat : y = n * q
  BY DEF Multiple
<1>3. n * (q - p) = y - x
  BY <1>1, <1>2
<1>4. q - p >= 1
  <2>1. CASE q - p = 0 BY <2>1, <1>3
  <2>2. CASE q - p <= -1 BY <2>2, <1>3, AtLeast
  <2> QED BY <2>1, <2>2
<1> QED
  BY <1>3, <1>4, AtLeast

LEMMA Unique ==
    ASSUME NEW n \in Nat \ {0}, NEW x \in Nat, NEW a \in Nat,
           Multiple(x, n), x <= a, a < x + n
    PROVE  RoundDown(a, n) = x
<1> DEFINE d == RoundDown(a, n)
<1>1. d \in Nat /\ Multiple(d, n) /\ d <= a /\ a < d + n
  BY Down
<1> HIDE DEF d
<1>2. CASE d < x BY <1>1, <1>2, Between
<1>3. CASE x < d BY <1>1, <1>3, Between
<1> QED BY <1>1, <1>2, <1>3 DEF d

LEMMA Sums ==
    ASSUME NEW n \in Nat \ {0}, NEW x \in Nat, NEW y \in Nat, Multiple(x, n), Multiple(y, n)
    PROVE  /\ Multiple(x + y, n)
           /\ x <= y => Multiple(y - x, n)
           /\ Multiple(n, n) /\ Multiple(0, n)
<1>1. PICK p \in Nat : x = n * p
  BY DEF Multiple
<1>2. PICK q \in Nat : y = n * q
  BY DEF Multiple
<1>3. x + y = n * (p + q) /\ y - x = n * (q - p)
  BY <1>1, <1>2
<1>4. x <= y => q - p \in Nat
  BY <1>3, AtLeast
<1>5. Multiple(n, n) /\ Multiple(0, n)
  <2>1. n = n * 1 /\ 0 = n * 0
    OBVIOUS
  <2> QED
    BY <2>1 DEF Multiple
<1>6. p + q \in Nat
  OBVIOUS
<1>7. Multiple(x + y, n)
  BY <1>3, <1>6 DEF Multiple
<1> QED
  BY <1>3, <1>4, <1>5, <1>7 DEF Multiple

LEMMA Finer ==
    ASSUME NEW n \in Nat \ {0}, NEW m \in Nat \ {0}, NEW x \in Nat,
           Multiple(n, m), Multiple(x, n)
    PROVE  Multiple(x, m)
<1>1. PICK p \in Nat : n = m * p
  BY DEF Multiple
<1>2. PICK q \in Nat : x = n * q
  BY DEF Multiple
<1>3. x = m * (p * q) /\ p * q \in Nat
  BY <1>1, <1>2
<1> QED
  BY <1>3 DEF Multiple

LEMMA Divisor ==
    ASSUME NEW n \in Nat \ {0}, NEW a \in Nat, a % n = 0
    PROVE  Multiple(a, n)
<1>1. RoundDown(a, n) = a
  BY DEF RoundDown
<1> QED
  BY <1>1, Down

LEMMA Up ==
    ASSUME NEW n \in Nat \ {0}, NEW a \in Nat
    PROVE  /\ RoundUp(a, n) \in Nat /\ Multiple(RoundUp(a, n), n)
           /\ a <= RoundUp(a, n) /\ RoundUp(a, n) < a + n
<1>1. a + n - 1 \in Nat
  OBVIOUS
<1> QED
  BY <1>1, Down DEF RoundUp

(* Two numbers with the same rest for n have the same for its divisors. *)
LEMMA SameRest ==
    ASSUME NEW n \in Nat \ {0}, NEW m \in Nat \ {0}, Multiple(n, m),
           NEW a \in Nat, NEW b \in Nat, a % n = b % n
    PROVE  a - RoundDown(a, m) = b - RoundDown(b, m)
<1> DEFINE x == RoundDown(a, n)
           y == RoundDown(b, n)
           r == a % n
           z == RoundDown(r, m)
<1>1. r \in Nat /\ a = x + r /\ b = y + r
  BY Quotient DEF RoundDown
<1>2. x \in Nat /\ y \in Nat /\ Multiple(x, m) /\ Multiple(y, m)
  BY Down, Finer
<1>3. z \in Nat /\ Multiple(z, m) /\ z <= r /\ r < z + m
  BY <1>1, Down
<1> HIDE DEF x, y, r, z
<1>4. Multiple(x + z, m) /\ Multiple(y + z, m)
  BY <1>2, <1>3, Sums
<1>5. RoundDown(a, m) = x + z /\ RoundDown(b, m) = y + z
  <2>1. x + z \in Nat /\ x + z <= a /\ a < x + z + m
    BY <1>1, <1>2, <1>3
  <2>2. y + z \in Nat /\ y + z <= b /\ b < y + z + m
    BY <1>1, <1>2, <1>3
  <2> QED
    BY <1>4, <2>1, <2>2, Unique
<1> QED
  BY <1>1, <1>2, <1>3, <1>5

-----------------------------------------------------------------------------
(* Where the segments are *)

Base(s) == RoundDown(s.va, PGSIZE)
End(s)  == RoundUp(s.va + s.memsz, PGSIZE)
Of(s)   == s.va..s.va+s.memsz-1

LEMMA SizeFacts ==
    /\ PGSIZE \in Nat \ {0} /\ SECTSIZE \in Nat \ {0} /\ FileSize \in Nat \ {0} /\ Top \in Nat \ {0}
    /\ Multiple(PGSIZE, SECTSIZE) /\ Multiple(Top, PGSIZE)
<1>1. PGSIZE \in Nat \ {0} /\ SECTSIZE \in Nat \ {0} /\ FileSize \in Nat \ {0} /\ Top \in Nat \ {0}
  BY SizesAssumption
<1>2. Multiple(PGSIZE, SECTSIZE)
  BY <1>1, SizesAssumption, Divisor
<1>3. Multiple(Top, PGSIZE)
  BY <1>1, SizesAssumption, Divisor
<1> QED
  BY <1>1, <1>2, <1>3

LEMMA Span ==
    ASSUME NEW s \in Headers
    PROVE  /\ s.va \in Nat /\ s.memsz \in Nat \ {0} /\ s.filesz \in Nat /\ s.offset \in Nat
           /\ s.va + s.memsz <= Top /\ s.filesz <= s.memsz /\ s.offset + s.filesz <= FileSize
           /\ s.va % PGSIZE = s.offset % PGSIZE
           /\ Base(s) \in Nat /\ Multiple(Base(s), PGSIZE)
           /\ Base(s) <= s.va /\ s.va < Base(s) + PGSIZE
           /\ End(s) \in Nat /\ Multiple(End(s), PGSIZE)
           /\ s.va + s.memsz <= End(s) /\ End(s) < s.va + s.memsz + PGSIZE /\ End(s) <= Top
<1> USE SizeFacts
<1>1. /\ s.va \in Nat /\ s.memsz \in Nat \ {0} /\ s.filesz \in Nat /\ s.offset \in Nat
      /\ s.va + s.memsz <= Top /\ s.filesz <= s.memsz /\ s.offset + s.filesz <= FileSize
      /\ s.va % PGSIZE = s.offset % PGSIZE
  BY DEF Headers, Addresses, PgOff
<1>2. /\ Base(s) \in Nat /\ Multiple(Base(s), PGSIZE)
      /\ Base(s) <= s.va /\ s.va < Base(s) + PGSIZE
  BY <1>1, Down DEF Base
<1>3. /\ End(s) \in Nat /\ Multiple(End(s), PGSIZE)
      /\ s.va + s.memsz <= End(s) /\ End(s) < s.va + s.memsz + PGSIZE
  <2>1. s.va + s.memsz \in Nat
    BY <1>1
  <2> QED
    BY <2>1, Up DEF End
<1>4. End(s) <= Top
  <2>1. CASE Top < End(s)
    <3>1. Top + PGSIZE <= End(s)
      BY <1>3, <2>1, Between
    <3> QED
      BY <1>1, <1>3, <3>1
  <2> QED
    BY <1>3, <2>1
<1> QED
  BY <1>1, <1>2, <1>3, <1>4

LEMMA OnItsPages ==
    ASSUME NEW s \in Headers, NEW a \in Nat
    PROVE  RoundDown(a, PGSIZE) \in PagesOf(s) <=> Base(s) <= a /\ a < End(s)
<1> USE SizeFacts
<1> DEFINE d == RoundDown(a, PGSIZE)
<1>1. d \in Nat /\ Multiple(d, PGSIZE) /\ d <= a /\ a < d + PGSIZE
  BY Down
<1>s. /\ s.va \in Nat /\ s.memsz \in Nat \ {0}
      /\ Base(s) \in Nat /\ Multiple(Base(s), PGSIZE)
      /\ Base(s) <= s.va /\ s.va < Base(s) + PGSIZE
      /\ End(s) \in Nat /\ Multiple(End(s), PGSIZE)
      /\ s.va + s.memsz <= End(s) /\ End(s) < s.va + s.memsz + PGSIZE
  BY Span
<1>2. d \in PagesOf(s) <=> \E b \in s.va..s.va+s.memsz-1 : d = RoundDown(b, PGSIZE)
  BY DEF PagesOf
<1> HIDE DEF d
<1>3. ASSUME NEW b \in s.va..s.va+s.memsz-1, d = RoundDown(b, PGSIZE)
      PROVE  Base(s) <= a /\ a < End(s)
  <2>1. b \in Nat /\ d <= b /\ b < d + PGSIZE
    <3>1. b \in Nat
      BY <1>s
    <3> QED
      BY <1>3, <3>1, Down
  <2>2. Base(s) <= d
    <3>1. CASE d < Base(s)
      <4>1. d + PGSIZE <= Base(s)
        BY <1>1, <1>s, <3>1, Between
      <4> QED
        BY <1>1, <1>s, <2>1, <4>1
    <3> QED
      BY <1>1, <1>s, <3>1
  <2>3. d < End(s)
    BY <1>s, <1>1, <2>1
  <2>4. d + PGSIZE <= End(s)
    BY <1>1, <1>s, <2>3, Between
  <2> QED
    BY <1>1, <1>s, <2>2, <2>4
<1>4. ASSUME Base(s) <= a, a < End(s)
      PROVE  \E b \in s.va..s.va+s.memsz-1 : d = RoundDown(b, PGSIZE)
  <2>1. d + PGSIZE <= End(s)
    <3>1. d < End(s)
      BY <1>1, <1>s, <1>4
    <3> QED
      BY <1>1, <1>s, <3>1, Between
  <2>2. CASE s.va <= d
    <3>1. RoundDown(d, PGSIZE) = d
      BY <1>1, Unique
    <3>2. d \in s.va..s.va+s.memsz-1
      BY <1>1, <1>s, <2>1, <2>2
    <3> QED
      BY <3>1, <3>2
  <2>3. CASE d < s.va
    <3>1. s.va < d + PGSIZE
      <4>1. CASE d < Base(s)
        <5>1. d + PGSIZE <= Base(s)
          BY <1>1, <1>s, <4>1, Between
        <5> QED
          BY <1>1, <1>s, <1>4, <5>1
      <4> QED
        BY <1>1, <1>s, <4>1
    <3>2. RoundDown(s.va, PGSIZE) = d
      BY <1>1, <1>s, <2>3, <3>1, Unique
    <3>3. s.va \in s.va..s.va+s.memsz-1
      BY <1>s
    <3> QED
      BY <3>2, <3>3
  <2> QED
    BY <1>1, <1>s, <2>2, <2>3
<1> QED
  BY <1>2, <1>3, <1>4 DEF d

LEMMA Layout ==
    ASSUME NEW p \in Executables
    PROVE  /\ p = <<p[1], p[2]>> /\ Len(p) = 2 /\ p[1] \in Headers /\ p[2] \in Headers
           /\ p[1].filesz = p[1].memsz
           /\ End(p[1]) <= Base(p[2])
<1> USE SizeFacts
<1>1. /\ p = <<p[1], p[2]>> /\ p[1] \in Headers /\ p[2] \in Headers
      /\ p[1].filesz = p[1].memsz
      /\ p[1].va < p[2].va /\ PagesOf(p[1]) \cap PagesOf(p[2]) = {}
  BY DEF Executables
<1>2. Len(p) = 2
  BY <1>1
<1>3. /\ Base(p[1]) \in Nat /\ Multiple(Base(p[1]), PGSIZE) /\ End(p[1]) \in Nat
      /\ Base(p[2]) \in Nat /\ Multiple(Base(p[2]), PGSIZE) /\ End(p[2]) \in Nat
      /\ p[1].va \in Nat /\ p[2].va \in Nat
      /\ Base(p[1]) <= p[1].va /\ p[2].va < Base(p[2]) + PGSIZE /\ Base(p[2]) < End(p[2])
  <2> HIDE DEF Executables
  <2>1. /\ Base(p[1]) \in Nat /\ Multiple(Base(p[1]), PGSIZE) /\ End(p[1]) \in Nat
        /\ p[1].va \in Nat /\ Base(p[1]) <= p[1].va
    BY <1>1, Span
  <2>2. /\ Base(p[2]) \in Nat /\ Multiple(Base(p[2]), PGSIZE) /\ End(p[2]) \in Nat
        /\ p[2].va \in Nat /\ p[2].memsz \in Nat \ {0} /\ p[2].va < Base(p[2]) + PGSIZE
        /\ Base(p[2]) <= p[2].va /\ p[2].va + p[2].memsz <= End(p[2])
    BY <1>1, Span
  <2> HIDE DEF Base, End
  <2> QED
    BY <2>1, <2>2
<1>4. Base(p[1]) <= Base(p[2])
  <2>1. CASE Base(p[2]) < Base(p[1])
    <3>1. Base(p[2]) + PGSIZE <= Base(p[1])
      BY <1>3, <2>1, Between
    <3> QED
      BY <1>1, <1>3, <3>1
  <2> QED
    BY <1>3, <2>1
<1>5. ~ (Base(p[2]) < End(p[1]))
  <2> DEFINE d == RoundDown(Base(p[2]), PGSIZE)
  <2>1. d \in PagesOf(p[2])
    BY <1>1, <1>3, OnItsPages
  <2>2. Base(p[2]) < End(p[1]) => d \in PagesOf(p[1])
    BY <1>1, <1>3, <1>4, OnItsPages
  <2> QED
    BY <1>1, <2>1, <2>2
<1> QED
  BY <1>1, <1>2, <1>3, <1>5

LEMMA Pages ==
    ASSUME NEW s \in Headers
    PROVE  PageCount(s) \in Nat /\ Base(s) + PGSIZE * PageCount(s) = End(s)
<1> USE SizeFacts
<1>1. Base(s) \in Nat /\ End(s) \in Nat /\ Base(s) <= End(s)
      /\ Multiple(Base(s), PGSIZE) /\ Multiple(End(s), PGSIZE)
  <2>1. s.va \in Nat /\ s.memsz \in Nat /\ Base(s) <= s.va /\ s.va + s.memsz <= End(s)
    BY Span
  <2> QED
    BY <2>1, Span
<1> DEFINE x == End(s) - Base(s)
           q == x \div PGSIZE
<1>2. x \in Nat /\ Multiple(x, PGSIZE)
  <2>1. x \in Nat
    BY <1>1
  <2>2. Multiple(x, PGSIZE)
    <3> HIDE DEF Base, End
    <3> QED
      BY <1>1, Sums
  <2> QED
    BY <2>1, <2>2
<1>3. PageCount(s) = q
  BY DEF PageCount, Base, End
<1>4. RoundDown(x, PGSIZE) = x
  <2> HIDE DEF x
  <2>1. x <= x /\ x < x + PGSIZE
    BY <1>2
  <2> QED
    BY <1>2, <2>1, Unique
<1>5. x % PGSIZE \in 0..(PGSIZE-1) /\ q \in Int /\ x = PGSIZE * q + (x % PGSIZE)
  BY <1>2, Quotient
<1>6. x % PGSIZE = 0
  <2> HIDE DEF x, q
  <2>1. x - (x % PGSIZE) = x
    BY <1>4 DEF RoundDown
  <2> QED
    BY <1>2, <1>5, <2>1
<1>7. x = PGSIZE * q
  BY <1>5, <1>6
<1> HIDE DEF x, q
<1>8. q >= 0
  BY <1>2, <1>5, <1>7, AtLeast
<1> QED
  BY <1>1, <1>3, <1>5, <1>7, <1>8 DEF x

-----------------------------------------------------------------------------
(* The invariant *)

(* A loader goes on from Reached, which is the start of a page or sector. *)
Unit     == IF loader = "readseg" THEN SECTSIZE ELSE PGSIZE
Start(s) == RoundDown(s.va, Unit)
Reached  == Start(segs[ph]) + (IF loader = "load_icode" THEN PGSIZE * count ELSE count)

(* readseg() reads on in the file after the filesz bytes of a segment. *)
Loaded(s, a) == IF loader = "readseg" \/ a < s.va + s.filesz THEN s.offset + (a - s.va) + 1 ELSE 0
Holds(s)     == \A a \in Of(s) : mem[a] = Loaded(s, a)

Loading ==
    stage = "load" =>
        /\ Reached <= End(segs[ph]) /\ Multiple(Reached, Unit)
        /\ ph = 2 => Holds(segs[1])
        /\ \A a \in Addresses :
               Start(segs[ph]) <= a /\ a < Reached =>
                   IF loader = "load_icode" THEN mem[a] # None
                   ELSE a \in Of(segs[ph]) => mem[a] = Loaded(segs[ph], a)

Clearing == stage = "bss" => loader = "readseg" /\ ph = 2 /\ Holds(segs[1]) /\ Holds(segs[2])

ImageInv ==
    /\ loader \in {"load_icode", "map_segment", "readseg"}
    /\ ImageIInv /\ Loading /\ Clearing

Bytes == -2..Top+FileSize+SECTSIZE

LEMMA UnitFacts ==
    Unit \in Nat \ {0} /\ Multiple(PGSIZE, Unit) /\ Unit <= PGSIZE
<1>1. Multiple(PGSIZE, PGSIZE)
  BY SizeFacts, Sums
<1>2. SECTSIZE <= PGSIZE
  <2>1. Multiple(0, SECTSIZE)
    BY SizeFacts, Sums
  <2> QED
    BY <2>1, SizeFacts, Between
<1> QED
  BY <1>1, <1>2, SizeFacts DEF Unit

LEMMA Starts ==
    ASSUME NEW s \in Headers
    PROVE  /\ Start(s) \in Nat /\ Multiple(Start(s), Unit) /\ Multiple(End(s), Unit)
           /\ Base(s) <= Start(s) /\ Start(s) <= s.va /\ s.va < Start(s) + Unit
<1> USE SizeFacts, UnitFacts
<1>1. /\ s.va \in Nat /\ Base(s) \in Nat /\ Multiple(Base(s), PGSIZE) /\ Base(s) <= s.va
      /\ End(s) \in Nat /\ Multiple(End(s), PGSIZE)
  BY Span
<1>2. Multiple(Base(s), Unit) /\ Multiple(End(s), Unit)
  BY <1>1, Finer
<1>3. /\ Start(s) \in Nat /\ Multiple(Start(s), Unit)
      /\ Start(s) <= s.va /\ s.va < Start(s) + Unit
  BY <1>1, Down DEF Start
<1>4. Base(s) <= Start(s)
  <2>1. CASE Start(s) < Base(s)
    <3>1. Start(s) + Unit <= Base(s)
      BY <1>1, <1>2, <1>3, <2>1, Between
    <3> QED
      BY <1>1, <1>3, <3>1
  <2> QED
    BY <1>1, <1>3, <2>1
<1> QED
  BY <1>2, <1>3, <1>4

LEMMA Present ==
    ASSUME ImageInv
    PROVE  /\ segs \in Executables /\ ph \in 1..2 /\ count \in Nat /\ Len(segs) = 2
           /\ segs[1] \in Headers /\ segs[2] \in Headers /\ segs[ph] \in Headers
           /\ segs[1].filesz = segs[1].memsz /\ End(segs[1]) <= Base(segs[2])
           /\ mem \in [Addresses -> Bytes]
<1>1. segs \in Executables /\ ph \in 1..2 /\ count \in 0..Top /\ mem \in [Addresses -> Bytes]
  BY DEF ImageInv, ImageIInv, ImageTypeOK, Bytes
<1>2. /\ Len(segs) = 2 /\ segs[1] \in Headers /\ segs[2] \in Headers
      /\ segs[1].filesz = segs[1].memsz /\ End(segs[1]) <= Base(segs[2])
  BY <1>1, Layout
<1> QED
  BY <1>1, <1>2, SizeFacts

LEMMA AtFirst == ImageInit => ImageInv
<1> SUFFICES ASSUME ImageInit PROVE ImageInv
  OBVIOUS
<1> USE SizeFacts
<1>1. /\ loader \in {"load_icode", "map_segment", "readseg"}
      /\ segs \in Executables /\ ph = 1 /\ count = 0 /\ stage = "load"
      /\ mem = [a \in Addresses |-> IF loader = "readseg" THEN Old ELSE None]
  BY DEF ImageInit
<1>2. segs[1] \in Headers
  BY <1>1, Layout
<1>3. \A a \in Addresses : mem[a] \in {None, Old}
  BY <1>1
<1>4. ImageTypeOK
  BY <1>1, <1>3 DEF ImageTypeOK, None, Old
<1>5. OwnPages /\ ImageRight /\ Clearing
  BY <1>1, <1>3 DEF OwnPages, ImageRight, Clearing
<1>6. Loading
  <2>1. /\ Start(segs[1]) \in Nat /\ Multiple(Start(segs[1]), Unit) /\ Base(segs[1]) <= Start(segs[1])
        /\ Start(segs[1]) <= segs[1].va
    BY <1>2, Starts
  <2>2. segs[1].va \in Nat /\ segs[1].memsz \in Nat /\ End(segs[1]) \in Nat
        /\ segs[1].va + segs[1].memsz <= End(segs[1])
    BY <1>2, Span
  <2>3. Reached = Start(segs[1])
    <3>1. PGSIZE * 0 = 0
      OBVIOUS
    <3> QED
      BY <1>1, <2>1, <3>1 DEF Reached
  <2>4. Reached <= End(segs[1]) /\ Multiple(Reached, Unit)
    BY <2>1, <2>2, <2>3
  <2>5. \A a \in Addresses : ~ (Start(segs[1]) <= a /\ a < Reached)
    BY <2>1, <2>3 DEF Addresses
  <2> QED
    BY <1>1, <2>4, <2>5 DEF Loading
<1> QED
  BY <1>1, <1>4, <1>5, <1>6 DEF ImageInv, ImageIInv

(* A turn of a loader's loop. *)
LEMMA Turn ==
    ASSUME ImageInv, stage = "load", UNCHANGED <<loader, segs, ph, stage>>,
           Reached < End(segs[ph]),
           count' \in Nat, Reached' = Reached + Unit, count' <= Reached',
           mem' \in [Addresses -> Bytes],
           \A a \in Addresses : ~ (Reached <= a /\ a < Reached + Unit) => mem'[a] = mem[a],
           \A a \in Addresses : Reached <= a /\ a < Reached + Unit =>
               IF loader = "load_icode" THEN mem'[a] # None
               ELSE a \in Of(segs[ph]) => mem'[a] = Loaded(segs[ph], a)
    PROVE  ImageInv'
<1> USE SizeFacts, UnitFacts
<1> DEFINE s == segs[ph]
<1>1. /\ segs \in Executables /\ ph \in 1..2 /\ count \in Nat /\ Len(segs) = 2
      /\ segs[1] \in Headers /\ segs[2] \in Headers /\ s \in Headers
      /\ End(segs[1]) <= Base(segs[2])
      /\ mem \in [Addresses -> Bytes]
  BY Present
<1>2. /\ s.va \in Nat /\ s.memsz \in Nat \ {0} /\ Base(s) \in Nat /\ End(s) \in Nat /\ End(s) <= Top
  BY <1>1, Span
<1>3. /\ Start(s) \in Nat /\ Multiple(Start(s), Unit) /\ Multiple(End(s), Unit) /\ Base(s) <= Start(s)
  BY <1>1, Starts
<1>4. Reached \in Nat /\ Multiple(Reached, Unit) /\ Start(s) <= Reached
  <2>1. PGSIZE * count \in Nat
    BY <1>1
  <2> QED
    BY <1>1, <1>3, <2>1 DEF Reached, ImageInv, Loading
<1>5. Reached + Unit <= End(s) /\ Multiple(Reached + Unit, Unit)
  <2>1. Multiple(Unit, Unit)
    BY Sums
  <2> QED
    BY <1>2, <1>3, <1>4, <2>1, Between, Sums
<1>6. ImageTypeOK'
  <2>1. count' \in 0..Top
    BY <1>2, <1>4, <1>5
  <2> QED
    BY <2>1, <1>1 DEF ImageInv, ImageIInv, ImageTypeOK, Bytes
<1>7. OwnPages'
  <2> SUFFICES ASSUME NEW a \in Addresses, mem'[a] \notin {None, Old}
               PROVE  \E n \in 1..ph : RoundDown(a, PGSIZE) \in PagesOf(segs[n])
    BY DEF OwnPages
  <2>1. CASE Reached <= a /\ a < Reached + Unit
    <3>1. a \in Nat /\ Base(s) <= a /\ a < End(s)
      BY <1>2, <1>3, <1>4, <1>5, <2>1 DEF Addresses
    <3>2. RoundDown(a, PGSIZE) \in PagesOf(s)
      BY <1>1, <3>1, OnItsPages
    <3> QED
      BY <1>1, <3>2
  <2>2. CASE ~ (Reached <= a /\ a < Reached + Unit)
    <3>1. mem[a] \notin {None, Old}
      BY <2>2
    <3> QED
      BY <3>1 DEF ImageInv, ImageIInv, OwnPages
  <2> QED
    BY <2>1, <2>2
<1>8. ph = 2 => Holds(segs[1])'
  <2> SUFFICES ASSUME ph = 2, NEW a \in Of(segs[1])
               PROVE  mem'[a] = Loaded(segs[1], a)
    BY DEF Holds, Loaded
  <2>1. /\ segs[1].va \in Nat /\ segs[1].memsz \in Nat /\ End(segs[1]) \in Nat
        /\ segs[1].va + segs[1].memsz <= End(segs[1]) /\ End(segs[1]) <= Top
    BY <1>1, Span
  <2>2. a \in Addresses /\ a < End(segs[1])
    BY <2>1 DEF Of, Addresses
  <2>3. End(segs[1]) <= Reached
    BY <1>1, <1>2, <1>3, <1>4, <2>1
  <2>4. mem'[a] = mem[a]
    BY <1>4, <2>1, <2>2, <2>3 DEF Addresses
  <2> QED
    BY <2>4 DEF ImageInv, Loading, Holds
<1>9. ASSUME NEW a \in Addresses, Start(s) <= a, a < Reached + Unit
      PROVE  IF loader = "load_icode" THEN mem'[a] # None
             ELSE a \in Of(s) => mem'[a] = Loaded(s, a)
  <2>1. CASE Reached <= a
    BY <1>9, <2>1
  <2>2. CASE a < Reached
    <3>1. mem'[a] = mem[a]
      BY <1>4, <2>2 DEF Addresses
    <3>2. IF loader = "load_icode" THEN mem[a] # None
          ELSE a \in Of(s) => mem[a] = Loaded(s, a)
      BY <1>9, <2>2 DEF ImageInv, Loading
    <3> QED
      BY <3>1, <3>2
  <2> QED
    BY <1>4, <2>1, <2>2 DEF Addresses
<1>10. Loading'
  <2>1. (Reached <= End(segs[ph]) /\ Multiple(Reached, Unit))'
    <3>1. Unit' = Unit /\ End(segs[ph])' = End(s)
      BY DEF Unit, End
    <3> QED
      BY <1>5, <3>1 DEF Multiple
  <2>2. Start(segs[ph])' = Start(s)
    BY DEF Start, Unit
  <2>3. \A a \in Addresses : Loaded(segs[ph], a)' = Loaded(s, a)
    BY DEF Loaded
  <2>4. Of(segs[ph])' = Of(s)
    BY DEF Of
  <2>5. \A a \in Addresses :
            Start(s) <= a /\ a < Reached' =>
                IF loader' = "load_icode" THEN mem'[a] # None
                ELSE a \in Of(s) => mem'[a] = Loaded(s, a)
    BY <1>9
  <2> HIDE DEF s
  <2> QED
    BY <1>8, <2>1, <2>2, <2>3, <2>4, <2>5 DEF Loading
<1>11. ImageRight' /\ Clearing'
  BY DEF ImageRight, Clearing
<1> QED
  BY <1>6, <1>7, <1>10, <1>11 DEF ImageInv, ImageIInv

(* A loader that has loaded a segment takes the next one. *)
LEMMA Taken ==
    ASSUME ImageInv, stage = "load", UNCHANGED <<loader, segs>>,
           NEW last \in {"done", "bss"}, last = "bss" <=> loader = "readseg",
           NextSegment(last),
           mem' \in [Addresses -> Bytes],
           \A a \in Addresses : mem'[a] \notin {None, Old} =>
               mem[a] \notin {None, Old} \/ a \in Of(segs[ph]),
           \A a \in Of(segs[ph]) : mem'[a] = Loaded(segs[ph], a),
           \A a \in Addresses : a < Base(segs[ph]) => mem'[a] = mem[a]
    PROVE  ImageInv'
<1> USE SizeFacts, UnitFacts
<1> DEFINE s == segs[ph]
<1>1. /\ segs \in Executables /\ ph \in 1..2 /\ Len(segs) = 2
      /\ segs[1] \in Headers /\ segs[2] \in Headers /\ s \in Headers
      /\ segs[1].filesz = segs[1].memsz
      /\ End(segs[1]) <= Base(segs[2])
  BY Present
<1>2. count' = 0 /\ IF ph = 1 THEN ph' = 2 /\ stage' = stage ELSE stage' = last /\ ph' = ph
  BY <1>1 DEF NextSegment
<1>3. ImageTypeOK'
  BY <1>1, <1>2 DEF ImageInv, ImageIInv, ImageTypeOK, Bytes
<1>4. OwnPages'
  <2> SUFFICES ASSUME NEW a \in Addresses, mem'[a] \notin {None, Old}
               PROVE  \E n \in 1..ph' : RoundDown(a, PGSIZE) \in PagesOf(segs[n])
    BY DEF OwnPages
  <2>1. 1..ph \subseteq 1..ph'
    BY <1>1, <1>2
  <2>2. CASE mem[a] \notin {None, Old}
    BY <2>1, <2>2 DEF ImageInv, ImageIInv, OwnPages
  <2>3. CASE a \in Of(s)
    <3>1. RoundDown(a, PGSIZE) \in PagesOf(s)
      BY <2>3 DEF Of, PagesOf
    <3> QED
      BY <1>1, <2>1, <3>1
  <2> QED
    BY <2>2, <2>3
<1>5. \A n \in 1..ph : \A a \in Of(segs[n]) : mem'[a] = Loaded(segs[n], a)
  <2>1. \A a \in Of(s) : mem'[a] = Loaded(s, a)
    OBVIOUS
  <2>2. ASSUME ph = 2, NEW a \in Of(segs[1])
        PROVE  mem'[a] = Loaded(segs[1], a)
    <3>1. /\ segs[1].va \in Nat /\ segs[1].memsz \in Nat /\ End(segs[1]) \in Nat
          /\ segs[1].va + segs[1].memsz <= End(segs[1]) /\ End(segs[1]) <= Top
          /\ Base(segs[2]) \in Nat
      BY <1>1, Span
    <3>2. a \in Addresses /\ a < Base(segs[2])
      BY <1>1, <3>1 DEF Of, Addresses
    <3>3. mem[a] = Loaded(segs[1], a)
      BY <2>2 DEF ImageInv, Loading, Holds
    <3> QED
      BY <2>2, <3>2, <3>3
  <2>3. \A n \in 1..ph : n = ph \/ (n = 1 /\ ph = 2)
    BY <1>1
  <2> QED
    BY <2>1, <2>2, <2>3
<1>6. Loading'
  <2> SUFFICES ASSUME stage' = "load" PROVE Loading'
    BY DEF Loading
  <2>1. ph = 1 /\ ph' = 2 /\ count' = 0
    BY <1>1, <1>2
  <2>2. /\ Start(segs[2]) \in Nat /\ Multiple(Start(segs[2]), Unit)
        /\ Start(segs[2]) <= segs[2].va
    BY <1>1, Starts
  <2>3. segs[2].va \in Nat /\ segs[2].memsz \in Nat /\ End(segs[2]) \in Nat
        /\ segs[2].va + segs[2].memsz <= End(segs[2])
    BY <1>1, Span
  <2>4. Reached' = Start(segs[2])
    <3>1. PGSIZE * 0 = 0
      OBVIOUS
    <3>2. Start(segs[ph])' = Start(segs[2])
      BY <2>1 DEF Start, Unit
    <3> QED
      BY <2>1, <2>2, <3>1, <3>2 DEF Reached
  <2>5. (Reached <= End(segs[ph]) /\ Multiple(Reached, Unit))'
    <3>1. Unit' = Unit /\ End(segs[ph])' = End(segs[2])
      BY <2>1 DEF Unit, End
    <3>2. Start(segs[2]) <= End(segs[2])
      BY <2>2, <2>3
    <3> QED
      BY <2>2, <2>4, <3>1, <3>2 DEF Multiple
  <2>6. Start(segs[ph])' = Start(segs[2])
    BY <2>1 DEF Start, Unit
  <2>7. \A a \in Addresses : ~ (Start(segs[2]) <= a /\ a < Reached')
    BY <2>2, <2>4 DEF Addresses
  <2>8. Holds(segs[1])'
    BY <1>5, <2>1 DEF Holds, Of, Loaded
  <2> QED
    BY <2>5, <2>6, <2>7, <2>8 DEF Loading
<1>7. Clearing'
  <2> SUFFICES ASSUME stage' = "bss" PROVE Clearing'
    BY DEF Clearing
  <2>1. ph = 2 /\ ph' = 2 /\ loader = "readseg"
    BY <1>1, <1>2
  <2>2. Holds(segs[1])' /\ Holds(segs[2])'
    BY <1>5, <2>1 DEF Holds, Of, Loaded
  <2> QED
    BY <2>1, <2>2 DEF Clearing
<1>8. ImageRight'
  <2> SUFFICES ASSUME stage' = "done", NEW n \in 1..2, NEW k \in 0..Top-1, k < segs[n].memsz
               PROVE  mem'[segs[n].va + k] = IF k < segs[n].filesz THEN segs[n].offset + k + 1 ELSE 0
    BY <1>1 DEF ImageRight
  <2>1. ph = 2 /\ loader # "readseg"
    BY <1>1, <1>2
  <2>2. \A a \in Of(segs[n]) : mem'[a] = Loaded(segs[n], a)
    BY <1>5, <2>1
  <2>3. segs[n].va \in Nat /\ segs[n].memsz \in Nat /\ segs[n].filesz \in Nat
    BY <1>1, Span
  <2>4. segs[n].va + k \in Of(segs[n])
    BY <2>3 DEF Of
  <2>5. mem'[segs[n].va + k] = Loaded(segs[n], segs[n].va + k)
    BY <2>2, <2>4
  <2> DEFINE t == segs[n]
  <2>6. t.va \in Nat /\ t.offset \in Nat /\ t.filesz \in Nat
    BY <1>1, Span
  <2>7. Loaded(t, t.va + k) = IF k < t.filesz THEN t.offset + k + 1 ELSE 0
    <3> HIDE DEF t
    <3> QED
      BY <2>1, <2>6 DEF Loaded
  <2> QED
    BY <2>5, <2>7
<1> QED
  BY <1>3, <1>4, <1>6, <1>7, <1>8 DEF ImageInv, ImageIInv

(* What is known where a loader goes on. *)
LEMMA Place ==
    ASSUME ImageInv, stage = "load", NEW s, s = segs[ph]
    PROVE  /\ s \in Headers /\ Reached \in Nat /\ Multiple(Reached, Unit) /\ Reached <= End(s)
           /\ Start(s) \in Nat /\ Start(s) <= Reached /\ Base(s) <= Start(s) /\ Start(s) <= s.va
           /\ PGSIZE * count \in Nat
           /\ Reached < End(s) => Reached + Unit <= End(s)
<1> USE SizeFacts, UnitFacts
<1>1. s \in Headers /\ count \in Nat
  BY Present
<1>2. /\ Start(s) \in Nat /\ Multiple(Start(s), Unit) /\ Multiple(End(s), Unit)
      /\ Base(s) <= Start(s) /\ Start(s) <= s.va
  BY <1>1, Starts
<1>3. Reached <= End(s) /\ Multiple(Reached, Unit) /\ End(s) \in Nat
  BY <1>1, Span DEF ImageInv, Loading
<1>4. Reached \in Nat /\ Start(s) <= Reached /\ PGSIZE * count \in Nat
  <2>1. PGSIZE * count \in Nat
    BY <1>1
  <2> QED
    BY <1>1, <1>2, <2>1 DEF Reached
<1>5. Reached < End(s) => Reached + Unit <= End(s)
  BY <1>2, <1>3, <1>4, Between
<1> QED
  BY <1>1, <1>2, <1>3, <1>4, <1>5

LEMMA RegionAllocKeeps == ASSUME ImageInv, RegionAlloc PROVE ImageInv'
<1> USE SizeFacts, UnitFacts
<1> DEFINE s == segs[ph]
<1>1. /\ loader = "load_icode" /\ stage = "load" /\ count < PageCount(s)
      /\ mem' = Filled(mem, RoundDown(s.va, PGSIZE) + count * PGSIZE, Old, PGSIZE)
      /\ count' = count + 1 /\ UNCHANGED <<loader, segs, ph, stage>>
  BY DEF RegionAlloc, LoadedBy
<1>2. s \in Headers /\ count \in Nat /\ mem \in [Addresses -> Bytes]
  BY Present
<1>3. Reached \in Nat /\ Reached <= End(s) /\ Start(s) \in Nat /\ PGSIZE * count \in Nat
  BY <1>1, Place
<1>4. Unit = PGSIZE /\ Reached = Start(s) + PGSIZE * count /\ Start(s) = RoundDown(s.va, PGSIZE)
  BY <1>1 DEF Unit, Reached, Start
<1>5. Reached < End(s)
  <2>1. PageCount(s) \in Nat /\ Base(s) + PGSIZE * PageCount(s) = End(s)
    BY <1>2, Pages
  <2>2. Start(s) = Base(s)
    BY <1>4 DEF Base
  <2>3. PGSIZE * (PageCount(s) - count) >= PGSIZE
    BY <1>1, <1>2, <2>1, AtLeast
  <2>4. PGSIZE * (PageCount(s) - count) = PGSIZE * PageCount(s) - PGSIZE * count
    BY <1>2, <2>1
  <2>5. PGSIZE * PageCount(s) \in Nat
    BY <2>1
  <2> HIDE DEF s
  <2> QED
    BY <1>3, <1>4, <2>1, <2>2, <2>3, <2>4, <2>5
<1>6. count' \in Nat /\ Reached' = Reached + Unit /\ count' <= Reached'
  <2>1. Reached' = Start(s) + PGSIZE * count'
    BY <1>1, <1>4 DEF Reached, Unit, Start
  <2>2. PGSIZE * (count + 1) = PGSIZE * count + PGSIZE
    BY <1>2
  <2>3. count <= PGSIZE * count
    BY <1>2
  <2> HIDE DEF s
  <2> QED
    BY <1>1, <1>2, <1>3, <1>4, <2>1, <2>2, <2>3
<1>7. \A a \in Addresses :
          mem'[a] = IF Reached <= a /\ a < Reached + Unit THEN Old ELSE mem[a]
  <2>1. RoundDown(s.va, PGSIZE) + count * PGSIZE = Reached
    BY <1>2, <1>3, <1>4
  <2> QED
    BY <1>1, <1>3, <1>4, <2>1 DEF Filled, Addresses
<1>8. mem' \in [Addresses -> Bytes]
  <2>1. mem' = [a \in Addresses |-> mem'[a]]
    BY <1>1 DEF Filled
  <2>2. \A a \in Addresses : mem'[a] \in Bytes
    BY <1>2, <1>7 DEF Bytes, Old
  <2> QED
    BY <2>1, <2>2
<1> QED
  BY <1>1, <1>5, <1>6, <1>7, <1>8, Turn DEF None, Old

LEMMA CopyKeeps == ASSUME ImageInv, Copy PROVE ImageInv'
<1> USE SizeFacts, UnitFacts
<1> DEFINE s == segs[ph]
           m == Filled(FromFile(mem, s.va, s.offset, s.filesz), s.va + s.filesz, 0, s.memsz - s.filesz)
<1>1. /\ loader = "load_icode" /\ stage = "load" /\ count = PageCount(s)
      /\ mem' = [a \in Addresses |-> IF mem[a] = None THEN None ELSE m[a]]
      /\ NextSegment("done") /\ UNCHANGED <<loader, segs>>
  BY DEF Copy, LoadedBy
<1>2. s \in Headers /\ mem \in [Addresses -> Bytes]
  BY Present
<1>3. /\ s.va \in Nat /\ s.memsz \in Nat \ {0} /\ s.filesz \in Nat /\ s.offset \in Nat
      /\ s.va + s.memsz <= Top /\ s.filesz <= s.memsz /\ s.offset + s.filesz <= FileSize
      /\ s.va + s.memsz <= End(s) /\ Base(s) \in Nat /\ Base(s) <= s.va /\ End(s) \in Nat
  BY <1>2, Span
<1>4. \A a \in Addresses :
          m[a] = IF a \in Of(s) THEN Loaded(s, a) ELSE mem[a]
  <2> DEFINE g == FromFile(mem, s.va, s.offset, s.filesz)
  <2>1. \A a \in Addresses :
            g[a] = IF s.va <= a /\ a < s.va + s.filesz THEN s.offset + (a - s.va) + 1 ELSE mem[a]
    <3> HIDE DEF s
    <3> QED
      BY <1>3 DEF FromFile, Addresses
  <2>2. \A a \in Addresses :
            m[a] = IF s.va + s.filesz <= a /\ a < s.va + s.memsz THEN 0 ELSE g[a]
    <3> HIDE DEF s
    <3> QED
      BY <1>3 DEF Filled, Addresses
  <2> HIDE DEF s, m, g
  <2>3. \A a \in Addresses : a \in Of(s) <=> s.va <= a /\ a < s.va + s.memsz
    BY <1>3 DEF Of, Addresses
  <2>4. \A a \in Addresses : Loaded(s, a) = IF a < s.va + s.filesz THEN s.offset + (a - s.va) + 1 ELSE 0
    BY <1>1 DEF Loaded
  <2> QED
    BY <1>3, <2>1, <2>2, <2>3, <2>4 DEF Addresses
<1>5. Reached = End(s)
  <2>1. Base(s) + PGSIZE * PageCount(s) = End(s)
    BY <1>2, Pages
  <2> QED
    BY <1>1, <2>1 DEF Reached, Start, Unit, Base
<1>6. \A a \in Of(s) : a \in Addresses /\ mem[a] # None
  <2> SUFFICES ASSUME NEW a \in Of(s) PROVE a \in Addresses /\ mem[a] # None
    OBVIOUS
  <2>1. a \in Addresses /\ s.va <= a /\ a < End(s)
    BY <1>3 DEF Of, Addresses
  <2>2. Start(s) <= a
    <3>1. Start(s) \in Nat /\ Start(s) <= s.va
      BY <1>1, Place
    <3> QED
      BY <1>3, <2>1, <3>1 DEF Addresses
  <2> QED
    BY <1>1, <1>5, <2>1, <2>2 DEF ImageInv, Loading
<1>7. \A a \in Addresses : mem'[a] = IF a \in Of(s) THEN Loaded(s, a) ELSE mem[a]
  <2> HIDE DEF m
  <2> QED
    BY <1>1, <1>4, <1>6
<1>8. \A a \in Of(s) : Loaded(s, a) \in Bytes
  <2> HIDE DEF s
  <2> QED
    BY <1>1, <1>3 DEF Of, Loaded, Bytes
<1>9. mem' \in [Addresses -> Bytes]
  <2>1. mem' = [a \in Addresses |-> mem'[a]]
    BY <1>1
  <2>2. \A a \in Addresses : mem'[a] \in Bytes
    BY <1>2, <1>7, <1>8
  <2> QED
    BY <2>1, <2>2
<1>10. \A a \in Addresses : a < Base(s) => mem'[a] = mem[a]
  BY <1>3, <1>7 DEF Of, Addresses
<1> HIDE DEF m
<1> QED
  BY <1>1, <1>6, <1>7, <1>9, <1>10, Taken

(* map_segment() moves a segment to the start of its page, and with it     *)
(* what it reads.                                                          *)
LEMMA Alignment ==
    ASSUME NEW s \in Headers
    PROVE  /\ Aligned(s).va = Base(s)
           /\ Aligned(s).memsz = s.memsz + (s.va - Base(s))
           /\ Aligned(s).filesz = s.filesz + (s.va - Base(s))
           /\ Aligned(s).offset = s.offset - (s.va - Base(s))
           /\ Aligned(s).offset \in Nat
<1> USE SizeFacts
<1>1. s.va \in Nat /\ s.offset \in Nat /\ s.va % PGSIZE = s.offset % PGSIZE
  BY Span
<1>2. s.va % PGSIZE \in 0..(PGSIZE-1) /\ s.va % PGSIZE = s.va - Base(s)
  <2>1. s.va % PGSIZE \in 0..(PGSIZE-1)
    BY <1>1, Quotient
  <2> QED
    BY <1>1, <2>1 DEF Base, RoundDown
<1>3. s.offset % PGSIZE = s.offset - RoundDown(s.offset, PGSIZE) /\ RoundDown(s.offset, PGSIZE) \in Nat
  <2>1. s.offset % PGSIZE \in 0..(PGSIZE-1)
    BY <1>1, Quotient
  <2>2. RoundDown(s.offset, PGSIZE) \in Nat
    BY <1>1, Down
  <2> QED
    BY <1>1, <2>1, <2>2 DEF RoundDown
<1>4. Base(s) \in Nat /\ Base(s) <= s.va
  BY Span
<1>5. PgOff(s.va) = s.va - Base(s)
  BY <1>2 DEF PgOff
<1>6. /\ Aligned(s).va = s.va - (s.va - Base(s))
      /\ Aligned(s).memsz = s.memsz + (s.va - Base(s))
      /\ Aligned(s).filesz = s.filesz + (s.va - Base(s))
      /\ Aligned(s).offset = s.offset - (s.va - Base(s))
  BY <1>5 DEF Aligned
<1>7. s.offset - (s.va - Base(s)) = RoundDown(s.offset, PGSIZE)
  BY <1>1, <1>2, <1>3
<1> QED
  BY <1>1, <1>3, <1>4, <1>6, <1>7

LEMMA MapPageKeeps == ASSUME ImageInv, MapPage PROVE ImageInv'
<1> USE SizeFacts, UnitFacts
<1> DEFINE t == segs[ph]
           s == Aligned(t)
           off == t.va - Base(t)
           m == Filled(mem, s.va + count, 0, PGSIZE)
<1>1. /\ loader = "map_segment" /\ stage = "load" /\ count < s.memsz
      /\ mem' = IF count >= s.filesz THEN m ELSE FromFile(m, s.va + count, s.offset + count, Count(s))
      /\ count' = count + PGSIZE /\ UNCHANGED <<loader, segs, ph, stage>>
  BY DEF MapPage, LoadedBy
<1>2. t \in Headers /\ count \in Nat /\ mem \in [Addresses -> Bytes]
  BY Present
<1>3. /\ t.va \in Nat /\ t.memsz \in Nat \ {0} /\ t.filesz \in Nat /\ t.offset \in Nat
      /\ t.va + t.memsz <= Top /\ t.filesz <= t.memsz /\ t.offset + t.filesz <= FileSize
      /\ t.va + t.memsz <= End(t) /\ Base(t) \in Nat /\ Base(t) <= t.va /\ End(t) \in Nat
      /\ End(t) <= Top
  BY <1>2, Span
<1>4. /\ s.va = Base(t) /\ s.memsz = t.memsz + off /\ s.filesz = t.filesz + off
      /\ s.offset = t.offset - off /\ s.offset \in Nat
  BY <1>2, Alignment
<1>5. Unit = PGSIZE /\ Reached = Base(t) + count
  BY <1>1 DEF Unit, Reached, Start, Base
<1> HIDE DEF t, s
<1>6. off \in Nat /\ Reached \in Nat
  BY <1>2, <1>3, <1>5
<1>6a. s.filesz \in Nat /\ Base(t) + s.filesz = t.va + t.filesz /\ s.offset = t.offset + Base(t) - t.va
  BY <1>3, <1>4, <1>6
<1>7. Reached < End(t) /\ Reached + Unit <= End(t)
  <2>1. Reached < End(t)
    BY <1>1, <1>2, <1>3, <1>4, <1>5, <1>6
  <2>2. Reached < End(t) => Reached + Unit <= End(t)
    BY <1>1, Place DEF t
  <2> QED
    BY <2>1, <2>2
<1>8. count' \in Nat /\ Reached' = Reached + Unit /\ count' <= Reached'
  <2>1. Reached' = Base(t) + count'
    BY <1>1 DEF Unit, Reached, Start, Base, t
  <2> QED
    BY <1>1, <1>2, <1>3, <1>5, <2>1
<1> DEFINE Page == [a \in Addresses |->
               IF Reached <= a /\ a < Reached + PGSIZE
               THEN IF a < t.va + t.filesz THEN t.offset + (a - t.va) + 1 ELSE 0
               ELSE mem[a]]
<1>9. mem' = Page
  <2>1. m = [a \in Addresses |-> IF Reached <= a /\ a < Reached + PGSIZE THEN 0 ELSE mem[a]]
    <3>1. s.va + count = Reached
      BY <1>4, <1>5
    <3> QED
      BY <1>6, <3>1 DEF Filled, Addresses
  <2>2. CASE count >= s.filesz
    <3>1. mem' = m
      BY <1>1, <2>2
    <3>2. \A a \in Addresses : Reached <= a => ~ (a < t.va + t.filesz)
      <4>1. t.va + t.filesz <= Reached
        BY <1>2, <1>3, <1>5, <1>6, <1>6a, <2>2
      <4>2. t.va + t.filesz \in Nat
        BY <1>3
      <4> QED
        BY <1>6, <4>1, <4>2 DEF Addresses
    <3> QED
      BY <2>1, <3>1, <3>2
  <2>3. CASE count < s.filesz
    <3>1. mem' = FromFile(m, Reached, s.offset + count, Count(s))
      BY <1>1, <1>2, <1>3, <1>4, <1>5, <1>6, <2>3
    <3>2. /\ Count(s) \in Nat
          /\ \A a \in Addresses : Reached <= a =>
                 (a < Reached + Count(s) <=> a < Reached + PGSIZE /\ a < t.va + t.filesz)
      <4> DEFINE z == t.va + t.filesz
      <4>1. z \in Nat /\ s.filesz - count \in Nat /\ z - Reached = s.filesz - count
        BY <1>2, <1>3, <1>5, <1>6, <1>6a, <2>3
      <4>2. Count(s) = IF z - Reached < PGSIZE THEN z - Reached ELSE PGSIZE
        BY <4>1 DEF Count
      <4> HIDE DEF z
      <4>3. Count(s) \in Nat
        BY <1>6, <4>1, <4>2
      <4>4. \A a \in Addresses : Reached <= a =>
                (a < Reached + Count(s) <=> a < Reached + PGSIZE /\ a < z)
        BY <1>6, <4>1, <4>2 DEF Addresses
      <4> QED
        BY <4>3, <4>4 DEF z
    <3>3. \A a \in Addresses : s.offset + count + (a - Reached) + 1 = t.offset + (a - t.va) + 1
      <4> SUFFICES ASSUME NEW a \in Nat
                   PROVE  s.offset + count + (a - Reached) + 1 = t.offset + (a - t.va) + 1
        BY DEF Addresses
      <4> QED
        BY <1>2, <1>3, <1>5, <1>6, <1>6a
    <3> HIDE DEF m
    <3>4. mem' = [a \in Addresses |->
                     IF Reached <= a /\ a < Reached + Count(s)
                     THEN s.offset + count + (a - Reached) + 1 ELSE m[a]]
      BY <1>6, <3>1, <3>2 DEF FromFile, Addresses
    <3> QED
      BY <2>1, <3>2, <3>3, <3>4
  <2> QED
    BY <1>2, <1>3, <1>4, <1>6, <2>2, <2>3
<1>10. mem' \in [Addresses -> Bytes]
  <2>1. \A a \in Addresses : Reached <= a /\ a < t.va + t.filesz => t.offset + (a - t.va) + 1 \in Bytes
    <3> SUFFICES ASSUME NEW a \in Nat, Reached <= a, a < t.va + t.filesz
                 PROVE  t.offset + (a - t.va) + 1 \in Bytes
      BY DEF Addresses
    <3>1. t.offset + (a - t.va) + 1 <= FileSize
      BY <1>3
    <3>2. t.offset + (a - t.va) + 1 >= 1
      BY <1>2, <1>3, <1>4, <1>5, <1>6, <1>6a
    <3> QED
      BY <1>3, <3>1, <3>2 DEF Bytes
  <2>2. 0 \in Bytes
    BY DEF Bytes
  <2> QED
    BY <1>2, <1>9, <2>1, <2>2
<1>11. \A a \in Addresses : ~ (Reached <= a /\ a < Reached + Unit) => mem'[a] = mem[a]
  BY <1>5, <1>9
<1>12. \A a \in Addresses : Reached <= a /\ a < Reached + Unit => mem'[a] = Loaded(t, a)
  BY <1>1, <1>5, <1>9 DEF Loaded
<1> HIDE DEF m, Page
<1> QED
  BY <1>1, <1>7, <1>8, <1>10, <1>11, <1>12, Turn DEF t

LEMMA EndSegmentKeeps == ASSUME ImageInv, EndSegment PROVE ImageInv'
<1> USE SizeFacts, UnitFacts
<1> DEFINE s == segs[ph]
<1>1. /\ loader = "map_segment" /\ stage = "load" /\ count >= Aligned(s).memsz
      /\ NextSegment("done") /\ UNCHANGED <<loader, segs, mem>>
  BY DEF EndSegment, LoadedBy
<1>2. s \in Headers /\ count \in Nat /\ mem \in [Addresses -> Bytes]
  BY Present
<1>3. /\ s.va \in Nat /\ s.memsz \in Nat \ {0} /\ s.va + s.memsz <= Top
      /\ Base(s) \in Nat /\ Base(s) <= s.va
  BY <1>2, Span
<1>4. Start(s) = Base(s) /\ Reached = Base(s) + count
  BY <1>1 DEF Unit, Reached, Start, Base
<1>5. Reached >= s.va + s.memsz
  <2>1. Aligned(s).memsz = s.memsz + (s.va - Base(s))
    BY <1>2, Alignment
  <2> HIDE DEF s
  <2> QED
    BY <1>1, <1>2, <1>3, <1>4, <2>1
<1>6. \A a \in Of(s) : a \in Addresses /\ Start(s) <= a /\ a < Reached
  <2> SUFFICES ASSUME NEW a \in Of(s) PROVE a \in Addresses /\ Start(s) <= a /\ a < Reached
    OBVIOUS
  <2>1. a \in Nat /\ s.va <= a /\ a < s.va + s.memsz
    BY <1>3 DEF Of
  <2> HIDE DEF s
  <2>2. Reached \in Nat
    BY <1>2, <1>3, <1>4
  <2> QED
    BY <1>3, <1>4, <1>5, <2>1, <2>2 DEF Addresses
<1>7. \A a \in Of(s) : mem[a] = Loaded(s, a)
  BY <1>1, <1>6 DEF ImageInv, Loading
<1> QED
  BY <1>1, <1>2, <1>7, Taken

LEMMA NoMemoryKeeps == ASSUME ImageInv, NoMemory PROVE ImageInv'
<1>1. /\ stage' = "failed" /\ mem' = [a \in Addresses |-> None]
      /\ UNCHANGED <<loader, segs, ph, count>>
  BY DEF NoMemory
<1>2. ImageTypeOK'
  BY <1>1, SizeFacts DEF ImageInv, ImageIInv, ImageTypeOK, None
<1>3. OwnPages' /\ ImageRight' /\ Loading' /\ Clearing'
  BY <1>1 DEF OwnPages, ImageRight, Loading, Clearing
<1> QED
  BY <1>1, <1>2, <1>3 DEF ImageInv, ImageIInv

LEMMA ReadSectKeeps == ASSUME ImageInv, ReadSect PROVE ImageInv'
<1> USE SizeFacts, UnitFacts
<1> DEFINE s == segs[ph]
           pa == RoundDown(s.va, SECTSIZE) + count
           from == RoundDown(s.offset, SECTSIZE) + count
<1>1. /\ loader = "readseg" /\ stage = "load" /\ pa < s.va + s.memsz
      /\ mem' = FromFile(mem, pa, from, SECTSIZE)
      /\ count' = count + SECTSIZE /\ UNCHANGED <<loader, segs, ph, stage>>
  BY DEF ReadSect, LoadedBy
<1>2. s \in Headers /\ count \in Nat /\ mem \in [Addresses -> Bytes]
  BY Present
<1>3. /\ s.va \in Nat /\ s.memsz \in Nat \ {0} /\ s.filesz \in Nat /\ s.offset \in Nat
      /\ s.va + s.memsz <= Top
      /\ s.filesz <= s.memsz /\ s.offset + s.filesz <= FileSize
      /\ s.va + s.memsz <= End(s) /\ End(s) \in Nat /\ End(s) <= Top
  BY <1>2, Span
<1>4. s.va - RoundDown(s.va, SECTSIZE) = s.offset - RoundDown(s.offset, SECTSIZE)
  <2>1. s.va % PGSIZE = s.offset % PGSIZE
    BY <1>2, Span
  <2> QED
    BY <1>3, <2>1, SameRest
<1>5. RoundDown(s.va, SECTSIZE) \in Nat /\ RoundDown(s.offset, SECTSIZE) \in Nat
      /\ RoundDown(s.offset, SECTSIZE) <= s.offset /\ RoundDown(s.va, SECTSIZE) <= s.va
  BY <1>3, Down
<1>6. Unit = SECTSIZE /\ Reached = pa
  BY <1>1 DEF Unit, Reached, Start
<1> HIDE DEF s
<1>7. from \in Nat /\ pa \in Nat /\ from - pa = s.offset - s.va /\ from <= s.offset + count
  <2>1. count \in Nat /\ s.va \in Nat /\ s.offset \in Nat
    BY <1>2, <1>3
  <2> QED
    BY <1>4, <1>5, <2>1
<1>8. Reached < End(s) /\ Reached + Unit <= End(s)
  <2>1. Reached < End(s)
    BY <1>1, <1>3, <1>6, <1>7
  <2>2. Reached < End(s) => Reached + Unit <= End(s)
    BY <1>1, Place DEF s
  <2> QED
    BY <2>1, <2>2
<1>9. count' \in Nat /\ Reached' = Reached + Unit /\ count' <= Reached'
  <2>1. Reached' = RoundDown(s.va, SECTSIZE) + count'
    BY <1>1 DEF Unit, Reached, Start, s
  <2> QED
    BY <1>1, <1>2, <1>5, <1>6, <2>1
<1> HIDE DEF pa, from
<1>10. \A a \in Addresses :
           mem'[a] = IF Reached <= a /\ a < Reached + Unit THEN from + (a - Reached) + 1 ELSE mem[a]
  BY <1>1, <1>6, <1>7 DEF FromFile, Addresses
<1>11. ASSUME NEW a \in Addresses, Reached <= a, a < Reached + Unit
       PROVE  /\ from + (a - Reached) + 1 \in Bytes
              /\ from + (a - Reached) + 1 = Loaded(s, a)
  <2>1. a \in Nat /\ a < Top
    BY DEF Addresses
  <2>2. from + (a - Reached) + 1 = s.offset + (a - s.va) + 1
    <3>1. s.va \in Nat /\ s.offset \in Nat /\ Reached \in Nat /\ from \in Nat /\ from - Reached = s.offset - s.va
      BY <1>3, <1>6, <1>7
    <3> QED
      BY <2>1, <3>1
  <2>3. s.offset + (a - s.va) + 1 <= FileSize + Top + 1
    BY <1>3, <2>1
  <2>4. from + (a - Reached) + 1 >= 1
    BY <1>6, <1>7, <1>11, <2>1
  <2>5. s.offset + (a - s.va) + 1 \in Bytes
    BY <1>3, <1>6, <1>7, <2>1, <2>2, <2>3, <2>4 DEF Bytes
  <2> QED
    BY <1>1, <2>2, <2>5 DEF Loaded
<1>12. mem' \in [Addresses -> Bytes]
  <2>1. mem' = [a \in Addresses |-> mem'[a]]
    BY <1>1 DEF FromFile
  <2>2. \A a \in Addresses : mem'[a] \in Bytes
    BY <1>2, <1>10, <1>11
  <2> QED
    BY <2>1, <2>2
<1>13. \A a \in Addresses : ~ (Reached <= a /\ a < Reached + Unit) => mem'[a] = mem[a]
  BY <1>10
<1>14. \A a \in Addresses : Reached <= a /\ a < Reached + Unit => mem'[a] = Loaded(s, a)
  BY <1>10, <1>11
<1> QED
  BY <1>1, <1>8, <1>9, <1>12, <1>13, <1>14, Turn DEF s

LEMMA EndSectorsKeeps == ASSUME ImageInv, EndSectors PROVE ImageInv'
<1> USE SizeFacts, UnitFacts
<1> DEFINE s == segs[ph]
<1>1. /\ loader = "readseg" /\ stage = "load"
      /\ RoundDown(s.va, SECTSIZE) + count >= s.va + s.memsz
      /\ NextSegment("bss") /\ UNCHANGED <<loader, segs, mem>>
  BY DEF EndSectors, LoadedBy
<1>2. s \in Headers /\ mem \in [Addresses -> Bytes]
  BY Present
<1>3. /\ s.va \in Nat /\ s.memsz \in Nat \ {0} /\ s.va + s.memsz <= Top
  BY <1>2, Span
<1>4. Reached \in Nat /\ Start(s) \in Nat /\ Start(s) <= s.va
  BY <1>1, Place
<1>5. Reached >= s.va + s.memsz
  BY <1>1 DEF Unit, Reached, Start
<1>6. \A a \in Of(s) : a \in Addresses /\ Start(s) <= a /\ a < Reached
  <2> SUFFICES ASSUME NEW a \in Of(s) PROVE a \in Addresses /\ Start(s) <= a /\ a < Reached
    OBVIOUS
  <2>1. a \in Nat /\ s.va <= a /\ a < s.va + s.memsz
    BY <1>3 DEF Of
  <2> HIDE DEF s
  <2> QED
    BY <1>3, <1>4, <1>5, <2>1 DEF Addresses
<1>7. \A a \in Of(s) : mem[a] = Loaded(s, a)
  BY <1>1, <1>6 DEF ImageInv, Loading
<1> QED
  BY <1>1, <1>2, <1>7, Taken

LEMMA ClearBssKeeps == ASSUME ImageInv, ClearBss PROVE ImageInv'
<1> USE SizeFacts
<1> DEFINE s == segs[ph]
<1>1. /\ stage = "bss" /\ stage' = "done"
      /\ mem' = Filled(mem, s.va + s.filesz, 0, s.memsz - s.filesz)
      /\ UNCHANGED <<loader, segs, ph, count>>
  BY DEF ClearBss
<1>2. loader = "readseg" /\ ph = 2 /\ Holds(segs[1]) /\ Holds(segs[2])
  BY <1>1 DEF ImageInv, Clearing
<1>3. /\ segs \in Executables /\ Len(segs) = 2
      /\ segs[1] \in Headers /\ segs[2] \in Headers
      /\ segs[1].filesz = segs[1].memsz /\ End(segs[1]) <= Base(segs[2])
      /\ mem \in [Addresses -> Bytes]
  BY Present
<1> DEFINE p == segs[1]
           q == segs[2]
<1>4. /\ p.va \in Nat /\ p.memsz \in Nat \ {0} /\ p.filesz \in Nat /\ p.offset \in Nat
      /\ p.va + p.memsz <= End(p) /\ End(p) \in Nat /\ p.va + p.memsz <= Top
  BY <1>3, Span
<1>5. /\ q.va \in Nat /\ q.memsz \in Nat \ {0} /\ q.filesz \in Nat /\ q.offset \in Nat
      /\ q.filesz <= q.memsz /\ q.va + q.memsz <= Top
      /\ Base(q) \in Nat /\ Base(q) <= q.va
  BY <1>3, Span
<1>6. s = q
  BY <1>2
<1>7. mem' = [a \in Addresses |-> IF q.va + q.filesz <= a /\ a < q.va + q.memsz THEN 0 ELSE mem[a]]
  <2>1. q.va + q.filesz + (q.memsz - q.filesz) - 1 = q.va + q.memsz - 1
    BY <1>5
  <2> HIDE DEF q
  <2> QED
    BY <1>1, <1>5, <1>6, <2>1 DEF Filled, Addresses
<1>8. mem' \in [Addresses -> Bytes]
  BY <1>3, <1>7 DEF Bytes
<1>9. ImageTypeOK'
  BY <1>1, <1>8 DEF ImageInv, ImageIInv, ImageTypeOK, Bytes
<1>10. OwnPages'
  <2> SUFFICES ASSUME NEW a \in Addresses, mem'[a] \notin {None, Old}
               PROVE  \E n \in 1..ph : RoundDown(a, PGSIZE) \in PagesOf(segs[n])
    BY <1>1 DEF OwnPages
  <2>1. CASE a \in q.va..q.va+q.memsz-1
    <3>1. RoundDown(a, PGSIZE) \in PagesOf(q)
      BY <2>1 DEF PagesOf
    <3> QED
      BY <1>2, <3>1
  <2>2. CASE a \notin q.va..q.va+q.memsz-1
    <3>1. mem'[a] = mem[a]
      <4> HIDE DEF q
      <4> QED
        BY <1>5, <1>7, <2>2 DEF Addresses
    <3> QED
      BY <3>1 DEF ImageInv, ImageIInv, OwnPages
  <2> QED
    BY <2>1, <2>2
<1>11. ASSUME NEW k \in 0..Top-1, k < p.memsz
       PROVE  mem'[p.va + k] = IF k < p.filesz THEN p.offset + k + 1 ELSE 0
  <2>1. k < p.filesz
    BY <1>3, <1>11
  <2>2. p.va + k \in Of(p) /\ p.va + k \in Addresses /\ p.va + k < Base(q)
    <3>1. End(p) <= Base(q)
      BY <1>3
    <3> HIDE DEF p, q
    <3> QED
      BY <1>4, <1>5, <1>11, <3>1 DEF Of, Addresses
  <2>3. mem'[p.va + k] = mem[p.va + k]
    <3> HIDE DEF p, q
    <3> QED
      BY <1>4, <1>5, <1>7, <2>2 DEF Addresses
  <2>4. mem[p.va + k] = p.offset + ((p.va + k) - p.va) + 1
    BY <1>2, <2>2 DEF Holds, Loaded
  <2> HIDE DEF p, q
  <2> QED
    BY <1>4, <2>1, <2>3, <2>4
<1>12. ASSUME NEW k \in 0..Top-1, k < q.memsz
       PROVE  mem'[q.va + k] = IF k < q.filesz THEN q.offset + k + 1 ELSE 0
  <2>1. q.va + k \in Of(q) /\ q.va + k \in Addresses
    BY <1>5, <1>12 DEF Of, Addresses
  <2>2. mem[q.va + k] = q.offset + ((q.va + k) - q.va) + 1
    BY <1>2, <2>1 DEF Holds, Loaded
  <2> HIDE DEF q
  <2> QED
    BY <1>5, <1>7, <1>12, <2>1, <2>2
<1>13. ImageRight'
  <2>1. \A n \in 1..2 : n = 1 \/ n = 2
    OBVIOUS
  <2> QED
    BY <1>1, <1>3, <1>11, <1>12, <2>1 DEF ImageRight
<1>14. Loading' /\ Clearing'
  BY <1>1 DEF Loading, Clearing
<1> QED
  BY <1>1, <1>9, <1>10, <1>13, <1>14 DEF ImageInv, ImageIInv

(* Whatever the sizes of pages and sectors and wherever the segments of a  *)
(* program are, each of the three loaders leaves the bytes of the file and *)
(* zeros behind them, and nothing outside of the pages of the segments.    *)
THEOREM ImageInvariance == ImageSpec => []ImageIInv
<1>1. ImageInit => ImageInv
  BY AtFirst
<1>2. ImageInv /\ [ImageNext]_imageVars => ImageInv'
  <2> SUFFICES ASSUME ImageInv, [ImageNext]_imageVars PROVE ImageInv'
    OBVIOUS
  <2>1. CASE UNCHANGED imageVars
    BY <2>1 DEF imageVars, ImageInv, ImageIInv, ImageTypeOK, OwnPages, ImageRight, Loading, Clearing,
                Reached, Unit, Start, Holds, Loaded
  <2>2. CASE ImageNext
    BY <2>2, RegionAllocKeeps, CopyKeeps, MapPageKeeps, EndSegmentKeeps, NoMemoryKeeps,
       ReadSectKeeps, EndSectorsKeeps, ClearBssKeeps DEF ImageNext
  <2> QED
    BY <2>1, <2>2
<1>3. ImageInv => ImageIInv
  BY DEF ImageInv
<1> QED
  BY <1>1, <1>2, <1>3, PTL DEF ImageSpec
=============================================================================
