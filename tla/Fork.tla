---------------------------------- MODULE Fork ----------------------------------
(***************************************************************************)
(* fork(), spawn() and the page faults of user programs in TP 4            *)
(* (lib/fork.c, lib/spawn.c, lib/pgfault.c, lib/pfentry.S), as the system  *)
(* calls and the accesses to memory they are made of.                      *)
(*                                                                         *)
(* An environment runs on a processor of its own, as far as the others can *)
(* see: its steps interleave with those of all others.  While it makes a   *)
(* child it goes on writing on its stack, one of the pages it copies.      *)
(* Addresses are whole pages, in the order in which fork() visits them;    *)
(* the exception stack, the last one, is a variable of its own.  Memory    *)
(* may run out at every allocation.                                        *)
(***************************************************************************)
EXTENDS Naturals, Sequences

CONSTANTS Envs,      \* slots
          Root,      \* the environment that is there first
          Last,      \* the number of addresses
          Kind,      \* per address: "w", "ro" or "share" (PTE_SHARE)
          Stack,     \* the address of the stack
          Spares,    \* pages per address
          Values, Fresh, Nothing

ASSUME ForkAssumption ==
    /\ Root \in Envs /\ Spares \in Nat \ {0} /\ Fresh \in Values /\ Nothing \notin Values
    /\ Last \in Nat
    /\ Kind \in [1..Last -> {"w", "ro", "share"}] /\ Stack \in 1..Last /\ Kind[Stack] = "w"

Addrs == 1..Last

(* Which page an allocation takes makes no difference: the model takes one *)
(* that is set aside for the address.                                      *)
Pages  == Addrs \X (1..Spares)
NoPage == <<0, 0>>

VARIABLES
    status,   \* "free", "building", "left" (by a failed spawn()), "running"
    map,      \* per environment and address, page and permission
    content,  \* of each page
    handled,  \* per environment: the exception stack, the upcall, the handler
    write,    \* the address the instruction being executed writes at, or 0
    faults,   \* the addresses whose faults are being handled, innermost first
    step,     \* where pgfault() is
    tmp,      \* the page mapped at PFTEMP
    job,      \* the fork() or spawn() in progress, with the page at UTEMP
    stopped   \* a program has panicked: the monitor has the machine

faultVars == <<write, faults, step>>
vars == <<status, map, content, handled, faultVars, tmp, job, stopped>>

Unmapped  == [page |-> NoPage, perm |-> "none"]
Pte(p, k)  == [page |-> p, perm |-> k]
NoMap     == [v \in Addrs |-> Unmapped]
Job(kind, c, v, point) == [kind |-> kind, child |-> c, v |-> v, step |-> point,
                           seen |-> "none", page |-> NoPage]
NoJob     == Job("none", Nothing, 0, "none")
Unhandled == [stack |-> FALSE, upcall |-> FALSE, handler |-> FALSE]

Init ==
    /\ status = [e \in Envs |-> IF e = Root THEN "running" ELSE "free"]
    /\ map = [e \in Envs |-> [v \in Addrs |-> IF e = Root THEN Pte(<<v, 1>>, Kind[v]) ELSE Unmapped]]
    /\ content = [p \in Pages |-> Fresh]
    /\ handled = [e \in Envs |-> Unhandled]
    /\ write = [e \in Envs |-> 0]
    /\ faults = [e \in Envs |-> << >>]
    /\ step = [e \in Envs |-> "none"]
    /\ tmp = [e \in Envs |-> NoPage]
    /\ job = [e \in Envs |-> NoJob]
    /\ stopped = FALSE

-----------------------------------------------------------------------------
Mapped    == {map[e][v].page : e \in Envs, v \in Addrs}
             \cup {tmp[e] : e \in Envs} \cup {job[e].page : e \in Envs}
FreeCopies(v) == {i \in 1..Spares : <<v, i>> \notin Mapped}
NewPage(v)    == <<v, CHOOSE i \in FreeCopies(v) : TRUE>>

(* Contents do not outlive the mappings: sys_page_alloc() clears the page. *)
Recycled == content' = [p \in Pages |->
    IF \E e \in Envs : p \in {tmp'[e], job[e].page} \/ \E v \in Addrs : map'[e][v].page = p
    THEN content[p] ELSE Fresh]

Runs(e)     == status[e] = "running" /\ ~stopped
Executes(e) == Runs(e) /\ write[e] = 0       \* its own code, not a write
Idle(e)     == Executes(e) /\ job[e] = NoJob
Perm(e, v)  == map[e][v].perm

(* panic() of a program: int3, and the monitor keeps the kernel. *)
ForkPanic ==
    /\ stopped' = TRUE
    /\ UNCHANGED <<status, map, content, handled, faultVars, tmp, job>>

-----------------------------------------------------------------------------
(* Writes and page faults *)

(* The program begins a write: on its stack in the middle of fork() and    *)
(* spawn(), anywhere otherwise.                                            *)
BeginWrite(e, v) ==
    /\ Executes(e) /\ Perm(e, v) # "ro"
    /\ job[e] # NoJob => v = Stack
    /\ write' = [write EXCEPT ![e] = v]
    /\ UNCHANGED <<status, map, content, handled, faults, step, tmp, job, stopped>>

Trying(e) == Runs(e) /\ write[e] # 0 /\ faults[e] = << >>

Store(e, x) ==
    /\ Trying(e) /\ Perm(e, write[e]) \in {"w", "share"}
    /\ content' = [content EXCEPT ![map[e][write[e]].page] = x]
    /\ write' = [write EXCEPT ![e] = 0]
    /\ UNCHANGED <<status, map, handled, faults, step, tmp, job, stopped>>

(* What is left of an environment that has ended. *)
Gone(e) ==
    /\ status' = [status EXCEPT ![e] = "free"]
    /\ map' = [map EXCEPT ![e] = NoMap]
    /\ tmp' = [tmp EXCEPT ![e] = NoPage]
    /\ handled' = [handled EXCEPT ![e] = Unhandled]
    /\ Recycled

(* page_fault_handler() of the kernel: pgfault() runs on the exception     *)
(* stack, or the environment is destroyed.                                 *)
CanHandle(e) == handled[e].stack /\ handled[e].upcall

Fault(e, v) ==
    IF CanHandle(e)
    THEN /\ faults' = [faults EXCEPT ![e] = <<v>> \o @]
         /\ step' = [step EXCEPT ![e] = "copy"]
         /\ UNCHANGED <<status, map, content, handled, write, tmp, job, stopped>>
    ELSE /\ Gone(e)
         /\ faults' = [faults EXCEPT ![e] = << >>] /\ step' = [step EXCEPT ![e] = "none"]
         /\ write' = [write EXCEPT ![e] = 0] /\ job' = [job EXCEPT ![e] = NoJob]
         /\ UNCHANGED stopped

FaultOnWrite(e) ==
    /\ Trying(e) /\ Perm(e, write[e]) = "cow"
    /\ Fault(e, write[e])

Handles(e, point) == Runs(e) /\ faults[e] # << >> /\ step[e] = point
Faulted(e)        == Head(faults[e])
GoOn(e, point)    == step' = [step EXCEPT ![e] = point]

(* pgfault(): a page at PFTEMP and the copy; then the mapping of the copy, *)
(* and of nothing at PFTEMP, which nobody else sees.                       *)
HandleCopy(e) ==
    /\ Handles(e, "copy")
    /\ \/ /\ FreeCopies(Faulted(e)) # {} /\ tmp' = [tmp EXCEPT ![e] = NewPage(Faulted(e))]
          /\ content' = [content EXCEPT ![tmp'[e]] = content[map[e][Faulted(e)].page]]
          /\ GoOn(e, "map")
          /\ UNCHANGED <<status, map, handled, write, faults, job, stopped>>
       \/ ForkPanic

MapAgain(e) == "cow"                   \* Mutant: the copy is mapped like the page
MapCopy(e)  == "w"

HandleMap(e) ==
    /\ Handles(e, "map")
    /\ map' = [map EXCEPT ![e][Faulted(e)] = Pte(tmp[e], MapCopy(e))]
    /\ tmp' = [tmp EXCEPT ![e] = NoPage]
    /\ GoOn(e, "return")
    /\ UNCHANGED <<status, handled, write, faults, job, stopped>>
    /\ Recycled

(* _pgfault_upcall stores the return address on the stack of the code that *)
(* faulted.  When that is the stack of the program it may be copy on write *)
(* too, and the handler is entered again on top of itself.                 *)
ReturnFaults(e) ==
    /\ Handles(e, "return")
    /\ Len(faults[e]) = 1 /\ Perm(e, Stack) = "cow"
    /\ Fault(e, Stack)

Return(e) ==
    /\ Handles(e, "return")
    /\ Len(faults[e]) > 1 \/ Perm(e, Stack) # "cow"
    /\ faults' = [faults EXCEPT ![e] = Tail(@)]
    /\ GoOn(e, IF Len(faults[e]) = 1 THEN "none" ELSE "return")
    /\ UNCHANGED <<status, map, content, handled, write, tmp, job, stopped>>

-----------------------------------------------------------------------------
(* fork() *)

FreeEnvs == {e \in Envs : status[e] = "free"}

(* set_pgfault_handler() and sys_exofork() *)
BeginFork(e, c) ==
    /\ Idle(e) /\ c \in FreeEnvs
    /\ handled' = [handled EXCEPT ![e] =
          [stack |-> @.stack \/ ~@.handler, upcall |-> TRUE, handler |-> TRUE]]
    /\ status' = [status EXCEPT ![c] = "building"]
    /\ job' = [job EXCEPT ![e] = Job("fork", c, 1, "pte")]
    /\ UNCHANGED <<map, content, faultVars, tmp, stopped>>

Doing(e, kind, point) == Executes(e) /\ job[e].kind = kind /\ job[e].step = point
ToStep(e, point)      == job' = [job EXCEPT ![e].step = point]

ReadPte(e) ==
    /\ Doing(e, "fork", "pte")
    /\ job' = [job EXCEPT ![e].step = "child", ![e].seen = Perm(e, job[e].v)]
    /\ UNCHANGED <<status, map, content, handled, faultVars, tmp, stopped>>

NextAddr(e, last, more) ==
    IF job[e].v = Last THEN ToStep(e, last)
    ELSE job' = [job EXCEPT ![e].step = more, ![e].v = @ + 1]

(* duppage() decides by the entry it has read, sys_page_map() maps what    *)
(* is there now.                                                           *)
PrivateAsShared(perm) == IF perm = "share" THEN "cow" ELSE perm
                                       \* Mutant: PTE_SHARE is not looked at
ChildPerm(perm)       == IF perm = "w" THEN "cow" ELSE perm

(* Mutant: our mapping, if already copy on write, is left as it is. *)
MarksWritable(perm) == perm = "w"
Marks(perm)         == perm \in {"w", "cow"}

DupChild(e) ==
    /\ Doing(e, "fork", "child")
    /\ LET v == job[e].v IN
       map' = [map EXCEPT ![job[e].child][v] = Pte(map[e][v].page, ChildPerm(job[e].seen))]
    /\ IF Marks(job[e].seen) THEN ToStep(e, "own") ELSE NextAddr(e, "stack", "pte")
    /\ UNCHANGED <<status, content, handled, faultVars, tmp, stopped>>

DupOwn(e) ==
    /\ Doing(e, "fork", "own")
    /\ map' = [map EXCEPT ![e][job[e].v].perm = "cow"]
    /\ NextAddr(e, "stack", "pte")
    /\ UNCHANGED <<status, content, handled, faultVars, tmp, stopped>>

(* The handler is a variable of the program, so the child has it too. *)
ChildStack(e) == handled' = [handled EXCEPT ![job[e].child].stack = TRUE,
                                            ![job[e].child].handler = TRUE]

AllocChildStack(e) ==
    /\ Doing(e, "fork", "stack")
    /\ \/ /\ ChildStack(e) /\ ToStep(e, "upcall")
          /\ UNCHANGED <<status, map, content, faultVars, tmp, stopped>>
       \/ ForkPanic

SetChildUpcall(e) ==
    /\ Doing(e, "fork", "upcall")
    /\ handled' = [handled EXCEPT ![job[e].child].upcall = TRUE]
    /\ ToStep(e, "start")
    /\ UNCHANGED <<status, map, content, faultVars, tmp, stopped>>

(* sys_env_set_status(), of fork() and of spawn() *)
Start(e) ==
    /\ Executes(e) /\ job[e].step = "start"
    /\ status' = [status EXCEPT ![job[e].child] = "running"]
    /\ job' = [job EXCEPT ![e] = NoJob]
    /\ UNCHANGED <<map, content, handled, faultVars, tmp, stopped>>

-----------------------------------------------------------------------------
(* spawn() *)

BeginSpawn(e, c) ==
    /\ Idle(e) /\ c \in FreeEnvs
    /\ status' = [status EXCEPT ![c] = "building"]
    /\ job' = [job EXCEPT ![e] = Job("spawn", c, Stack, "page")]
    /\ UNCHANGED <<map, content, handled, faultVars, tmp, stopped>>

(* The pages of the program: the stack, then the segments. *)
Segments(c) == {v \in Addrs : Kind[v] # "share" /\ map[c][v] = Unmapped}

NextPage(e) ==
    LET rest == Segments(job[e].child) \ {job[e].v} IN
    job' = [job EXCEPT ![e].step = IF rest = {} THEN "share" ELSE "page",
                       ![e].page = NoPage,
                       ![e].v = IF rest = {} THEN 1 ELSE CHOOSE v \in rest : TRUE]

SpawnAlloc(e) ==
    /\ Doing(e, "spawn", "page") /\ FreeCopies(job[e].v) # {}
    /\ job' = [job EXCEPT ![e].step = "give", ![e].page = NewPage(job[e].v)]
    /\ UNCHANGED <<status, map, content, handled, faultVars, tmp, stopped>>

SpawnGive(e) ==
    /\ Doing(e, "spawn", "give")
    /\ map' = [map EXCEPT ![job[e].child][job[e].v] = Pte(job[e].page, Kind[job[e].v])]
    /\ NextPage(e)
    /\ UNCHANGED <<status, content, handled, faultVars, tmp, stopped>>

(* An error of the first page leaves the child as it is, any other error   *)
(* destroys it.                                                            *)
SpawnFails(e) ==
    /\ Doing(e, "spawn", "page") \/ Doing(e, "spawn", "give")
    /\ job' = [job EXCEPT ![e] = NoJob]
    /\ LET c == job[e].child IN
       \/ /\ job[e].v = Stack
          /\ status' = [status EXCEPT ![c] = "left"]
          /\ UNCHANGED <<map, content, handled, tmp>>
       \/ job[e].v # Stack /\ Gone(c)
    /\ UNCHANGED <<faultVars, stopped>>

(* copy_shared_pages() *)
SpawnShare(e) ==
    /\ Doing(e, "spawn", "share")
    /\ LET v == job[e].v IN
       map' = IF Perm(e, v) = "share" THEN [map EXCEPT ![job[e].child][v] = map[e][v]]
              ELSE map
    /\ NextAddr(e, "start", "share")
    /\ UNCHANGED <<status, content, handled, faultVars, tmp, stopped>>

-----------------------------------------------------------------------------
Exit(e) ==
    /\ Idle(e)
    /\ Gone(e)
    /\ UNCHANGED <<faultVars, job, stopped>>

Works(e) ==
    \/ (\E x \in Values : Store(e, x)) \/ FaultOnWrite(e)
    \/ HandleCopy(e) \/ HandleMap(e) \/ ReturnFaults(e) \/ Return(e)

Makes(e) ==
    \/ ReadPte(e) \/ DupChild(e) \/ DupOwn(e) \/ AllocChildStack(e) \/ SetChildUpcall(e)
    \/ Start(e)
    \/ SpawnAlloc(e) \/ SpawnGive(e) \/ SpawnFails(e) \/ SpawnShare(e)

Next == \E e \in Envs :
    \/ Works(e) \/ Makes(e) \/ Exit(e)
    \/ \E v \in Addrs : BeginWrite(e, v)
    \/ \E c \in Envs : BeginFork(e, c) \/ BeginSpawn(e, c)

Spec == Init /\ [][Next]_vars

(* Every environment that can run gets a processor again and again. *)
FairSpec == Spec /\ \A e \in Envs : WF_vars(Works(e))

-----------------------------------------------------------------------------
(* Properties *)

Perms == {"none", "w", "ro", "share", "cow"}

Jobs == [kind : {"none", "fork", "spawn"}, child : Envs \cup {Nothing}, v : 0..Last,
         step : {"none", "pte", "child", "own", "stack", "upcall", "start", "page", "give", "share"},
         seen : Perms, page : Pages \cup {NoPage}]

TypeOK ==
    /\ status \in [Envs -> {"free", "building", "left", "running"}]
    /\ map \in [Envs -> [Addrs -> [page : Pages \cup {NoPage}, perm : Perms]]]
    /\ content \in [Pages -> Values]
    /\ handled \in [Envs -> [stack : BOOLEAN, upcall : BOOLEAN, handler : BOOLEAN]]
    /\ write \in [Envs -> 0..Last]
    /\ faults \in [Envs -> Seq(Addrs)] /\ \A e \in Envs : Len(faults[e]) <= 2
    /\ step \in [Envs -> {"none", "copy", "map", "return"}]
    /\ tmp \in [Envs -> Pages \cup {NoPage}]
    /\ job \in [Envs -> Jobs]
    /\ stopped \in BOOLEAN

(* A write that is not to be seen by others goes to a page of one's own:   *)
(* only between the two calls of duppage() may somebody else have it too,  *)
(* a child that has not started.                                           *)
WritesArePrivate ==
    \A e, d \in Envs, u, v \in Addrs :
        Perm(e, v) = "w" /\ map[d][u].page = map[e][v].page /\ <<d, u>> # <<e, v>> =>
            job[e].kind = "fork" /\ job[e].step = "own" /\ d = job[e].child
            /\ u = v /\ v = job[e].v

(* Who has a page that is copy on write can handle the fault: it has the   *)
(* upcall and an exception stack that is not copy on write itself.         *)
CowIsHandled ==
    \A e \in Envs : status[e] = "running" /\ (\E v \in Addrs : Perm(e, v) = "cow") =>
        CanHandle(e)

(* A handler, once it is there, was registered with its stack. *)
Registered ==
    \A e \in Envs : status[e] = "running" /\ handled[e].handler => CanHandle(e)

IInv == TypeOK /\ WritesArePrivate /\ CowIsHandled /\ Registered

(* Every environment has a memory of its own, the one of its parent when   *)
(* it was made.  The copy of a page counts from the moment when a write of *)
(* the parent no longer reaches it.                                        *)
Settled(e, v) == \A d \in Envs, u \in Addrs :
    <<d, u>> # <<e, v>> /\ map[d][u].page = map[e][v].page => Perm(d, u) # "w"

Memory == [e \in Envs |-> [v \in Addrs |->
    IF map[e][v] # Unmapped /\ (status[e] = "running" \/ Settled(e, v))
    THEN content[map[e][v].page] ELSE Nothing]]

Alone == INSTANCE PrivateMemories WITH
    mem     <- Memory,
    None    <- Nothing,
    running <- {e \in Envs : status[e] = "running"},
    Shared  <- {v \in Addrs : Kind[v] = "share"}

ImplementsPrivateMemories == Alone!Spec

(* A write is done in the end, also when the page, and then the stack, is  *)
(* copy on write, unless memory runs out.                                  *)
WriteEnds == \A e \in Envs :
    write[e] # 0 ~> write[e] = 0 \/ stopped
=============================================================================
