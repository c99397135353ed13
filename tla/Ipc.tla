----------------------------------- MODULE Ipc -----------------------------------
(***************************************************************************)
(* Messages between environments of TP 4: sys_ipc_try_send() and           *)
(* sys_ipc_recv() of kern/syscall.c, and the loops of lib/ipc.c around     *)
(* them.                                                                   *)
(*                                                                         *)
(* The kernel keeps one message per receiver, in fields of struct Env that *)
(* the library reads one by one after it has been woken.  There is no      *)
(* queue: a sender tries until it finds the receiver blocked.  Slots of    *)
(* envs[] are used again, by environments with another identifier, and     *)
(* what the fields held before stays in them.  A system call is one step   *)
(* (module Kernel).                                                        *)
(***************************************************************************)
EXTENDS Naturals

CONSTANTS Slots,      \* of envs[]
          First,      \* those in use at the start
          Receivers,  \* those whose environments call ipc_recv()
          Reused,     \* those that are used again,
          GenBound,   \* up to this generation
          Values, Addrs,
          None        \* no page, no address, no message

ASSUME IpcAssumption ==
    /\ First \cup Receivers \cup Reused \subseteq Slots /\ None \notin Addrs \cup Values
    /\ GenBound \in Nat

Ids == {<<0, e>> : e \in Slots} \cup ((0..GenBound) \X Reused)

Messages == [from : Ids, page : BOOLEAN, val : Values]

ASSUME NoneAssumption ==
    None \notin Messages \cup (Ids \X Messages) \cup (Messages \X (Addrs \cup {None}))

VARIABLES
    gen,        \* the generation in env_id
    env_status, \* "free", "runnable" (it may run), "blocked"
    env_ipc_recving, env_ipc_dstva, env_ipc_from, env_ipc_perm, env_ipc_value,
    where,      \* the address at which the page of the message was mapped
    pc,         \* what the environment is about to do
    args,       \* of ipc_send(): [to, val, pg]
    pg,         \* of ipc_recv(): the address, or None
    regs,       \* what ipc_recv() has read so far
    got,        \* what ipc_recv() has just returned
    monitor     \* a processor is in the monitor for ever, with the kernel lock

kernVars == <<gen, env_status>>
ipcVars  == <<env_ipc_recving, env_ipc_dstva, env_ipc_from, env_ipc_perm,
              env_ipc_value, where>>
userVars == <<args, pg, regs, got>>
vars     == <<kernVars, ipcVars, pc, userVars, monitor>>

EnvId(e)   == <<gen[e], e>>
Exists(id) == gen[id[2]] = id[1] /\ env_status[id[2]] # "free"    \* envid2env()

(* env_ipc_dstva 0 is "no page was ever asked for" in a new struct Env. *)
Init ==
    /\ gen = [e \in Slots |-> 0]
    /\ env_status = [e \in Slots |-> IF e \in First THEN "runnable" ELSE "free"]
    /\ env_ipc_recving = [e \in Slots |-> FALSE]
    /\ env_ipc_dstva = [e \in Slots |-> None]
    /\ env_ipc_from = [e \in Slots |-> None] /\ env_ipc_perm = [e \in Slots |-> FALSE]
    /\ env_ipc_value = [e \in Slots |-> None] /\ where = [e \in Slots |-> None]
    /\ pc = [e \in Slots |-> "idle"] /\ args = [e \in Slots |-> None]
    /\ pg = [e \in Slots |-> None]
    /\ regs = [e \in Slots |-> None] /\ got = [e \in Slots |-> None]
    /\ monitor = FALSE

(* A system call needs the kernel lock, and it is never free again once     *)
(* somebody has panicked. *)
Kernel == ~monitor /\ UNCHANGED monitor

Goto(e, point) == pc' = [pc EXCEPT ![e] = point]
At(e, point)   == env_status[e] = "runnable" /\ pc[e] = point
Forget(e)      == got' = [got EXCEPT ![e] = None]

-----------------------------------------------------------------------------
(* The ends of an environment *)

(* env_free(); what the library had in its variables goes with it. *)
EnvFree(e) ==
    /\ env_status' = [env_status EXCEPT ![e] = "free"]
    /\ where' = [where EXCEPT ![e] = None]
    /\ Goto(e, "idle")
    /\ args' = [args EXCEPT ![e] = None] /\ pg' = [pg EXCEPT ![e] = None]
    /\ regs' = [regs EXCEPT ![e] = None] /\ got' = [got EXCEPT ![e] = None]
    /\ UNCHANGED <<gen, env_ipc_recving, env_ipc_dstva, env_ipc_from, env_ipc_perm,
                   env_ipc_value>>

(* It exits, faults or is killed, whatever it is doing. *)
Die(e) == Kernel /\ env_status[e] # "free" /\ EnvFree(e)

(* env_alloc(): of the fields above only env_ipc_recving is cleared, so    *)
(* env_ipc_dstva is what the environment before has asked for.             *)
AllocKeeps(e)  == env_ipc_recving                  \* Mutant: not even that
AllocClears(e) == [env_ipc_recving EXCEPT ![e] = FALSE]

EnvAlloc(e) ==
    /\ Kernel /\ env_status[e] = "free" /\ e \in Reused /\ gen[e] < GenBound
    /\ gen' = [gen EXCEPT ![e] = @ + 1]
    /\ env_status' = [env_status EXCEPT ![e] = "runnable"]
    /\ env_ipc_recving' = AllocClears(e)
    /\ UNCHANGED <<env_ipc_dstva, env_ipc_from, env_ipc_perm, env_ipc_value, where,
                   pc, userVars>>

-----------------------------------------------------------------------------
(* ipc_send() *)

(* Identifiers are kept by those who once knew them. *)
Known(e) == {id \in Ids : id[2] \in Receivers \ {e} /\ id[1] <= gen[id[2]]}

CallSend(e, id, v, withPage) ==
    /\ At(e, "idle")
    /\ args' = [args EXCEPT ![e] = [to |-> id, val |-> v, page |-> withPage]]
    /\ Goto(e, "send") /\ Forget(e)
    /\ UNCHANGED <<kernVars, ipcVars, pg, regs, monitor>>

(* The tests of sys_ipc_try_send().  While the receiver exists and is not  *)
(* blocked it returns -E_IPC_NOT_RECV, and the loop comes back here with   *)
(* nothing changed.                                                        *)
ReceivesSlot(e, r) == env_status[r] = "blocked"    \* Mutant: envid2env() checks no id
Receives(e, r)     == env_status[r] = "blocked" /\ Exists(args[e].to)

(* -E_BAD_ENV; or -E_NO_MEM, when the receiver has no page table for the   *)
(* address.  ipc_send() panics on any result but -E_IPC_NOT_RECV, and a    *)
(* program that panics stops at a breakpoint: trap_dispatch() enters the   *)
(* monitor with the kernel lock, and no command of the monitor leaves it.  *)
NoSuchEnvNever(e) == FALSE                         \* Mutant: taken for NOT_RECV
NoSuchEnv(e)      == ~Exists(args[e].to)

Panic(e) ==
    /\ At(e, "send") /\ ~monitor /\ monitor' = TRUE
    /\ \/ NoSuchEnv(e)
       \/ \E r \in Slots : /\ r = args[e].to[2] /\ Receives(e, r)
                          /\ args[e].page /\ env_ipc_dstva[r] # None
    /\ args' = [args EXCEPT ![e] = None] /\ Goto(e, "panicked")
    /\ UNCHANGED <<kernVars, ipcVars, pg, regs, got>>

(* A page is mapped wherever env_ipc_dstva points, and nowhere if nobody   *)
(* in this slot has ever asked for one; env_ipc_perm is what the sender    *)
(* gave, whether a page was mapped or not.                                 *)
Landing(e, r) == IF args[e].page THEN env_ipc_dstva[r] ELSE None

Deliver(e, r) ==
    /\ Kernel /\ At(e, "send") /\ args[e].to[2] = r /\ Receives(e, r)
    /\ where' = [where EXCEPT ![r] = Landing(e, r)]
    /\ env_ipc_recving' = [env_ipc_recving EXCEPT ![r] = FALSE]
    /\ env_ipc_from' = [env_ipc_from EXCEPT ![r] = EnvId(e)]
    /\ env_ipc_perm' = [env_ipc_perm EXCEPT ![r] = args[e].page]
    /\ env_ipc_value' = [env_ipc_value EXCEPT ![r] = args[e].val]
    /\ env_status' = [env_status EXCEPT ![r] = "runnable"]
    /\ args' = [args EXCEPT ![e] = None] /\ Goto(e, "idle")
    /\ UNCHANGED <<gen, env_ipc_dstva, pg, regs, got>>

-----------------------------------------------------------------------------
(* ipc_recv() *)

(* An address at or above UTOP, which is how ipc_recv() asks for no page,   *)
(* leaves env_ipc_dstva as an earlier call has set it.                     *)
Dstva(e, a) == IF a # None THEN a ELSE env_ipc_dstva[e]

SysIpcRecv(e, a) ==
    /\ Kernel /\ At(e, "idle") /\ Forget(e)
    /\ pg' = [pg EXCEPT ![e] = a]
    /\ env_status' = [env_status EXCEPT ![e] = "blocked"]
    /\ env_ipc_recving' = [env_ipc_recving EXCEPT ![e] = TRUE]
    /\ env_ipc_dstva' = [env_ipc_dstva EXCEPT ![e] = Dstva(e, a)]
    /\ where' = [where EXCEPT ![e] = None]
    /\ Goto(e, "from")
    /\ UNCHANGED <<gen, env_ipc_from, env_ipc_perm, env_ipc_value, args, regs>>

(* What it returns is read from struct Env in this order. *)
ReadFrom(e) ==
    /\ At(e, "from")
    /\ regs' = [regs EXCEPT ![e] = [from |-> env_ipc_from[e]]]
    /\ Goto(e, "perm")
    /\ UNCHANGED <<kernVars, ipcVars, args, pg, got, monitor>>

ReadPerm(e) ==
    /\ At(e, "perm")
    /\ regs' = [regs EXCEPT ![e] = [from |-> @.from, page |-> env_ipc_perm[e]]]
    /\ Goto(e, "value")
    /\ UNCHANGED <<kernVars, ipcVars, args, pg, got, monitor>>

ReadValue(e) ==
    /\ At(e, "value")
    /\ got' = [got EXCEPT ![e] =
                 [from |-> regs[e].from, page |-> regs[e].page, val |-> env_ipc_value[e]]]
    /\ regs' = [regs EXCEPT ![e] = None] /\ pg' = [pg EXCEPT ![e] = None]
    /\ Goto(e, "idle")
    /\ UNCHANGED <<kernVars, ipcVars, args, monitor>>

-----------------------------------------------------------------------------
Begin(e) ==
    \/ \E id \in Known(e), v \in Values, p \in BOOLEAN : CallSend(e, id, v, p)
    \/ e \in Receivers /\ \E a \in Addrs \cup {None} : SysIpcRecv(e, a)

(* What an environment does once it has called one of the two. *)
Continue(e) ==
    \/ Panic(e) \/ \E r \in Slots : Deliver(e, r)
    \/ ReadFrom(e) \/ ReadPerm(e) \/ ReadValue(e)

Next == \E e \in Slots : Begin(e) \/ Continue(e) \/ Die(e) \/ EnvAlloc(e)

Spec == Init /\ [][Next]_vars

(* Module Kernel: an environment that can run gets a processor again and   *)
(* again, until one is in the monitor; nobody must call anything.          *)
FairSpec == Spec /\ \A e \in Slots : WF_vars(~monitor /\ Continue(e))

-----------------------------------------------------------------------------
(* Properties *)

Sends == [to : Ids, val : Values, page : BOOLEAN]
Parts == [from : Ids] \cup [from : Ids, page : BOOLEAN]

TypeOK ==
    /\ gen \in [Slots -> 0..GenBound]
    /\ env_status \in [Slots -> {"free", "runnable", "blocked"}]
    /\ env_ipc_recving \in [Slots -> BOOLEAN]
    /\ env_ipc_dstva \in [Slots -> Addrs \cup {None}]
    /\ env_ipc_from \in [Slots -> Ids \cup {None}]
    /\ env_ipc_perm \in [Slots -> BOOLEAN]
    /\ env_ipc_value \in [Slots -> Values \cup {None}]
    /\ where \in [Slots -> Addrs \cup {None}] /\ pg \in [Slots -> Addrs \cup {None}]
    /\ pc \in [Slots -> {"idle", "send", "from", "perm", "value", "panicked"}]
    /\ args \in [Slots -> Sends \cup {None}] /\ regs \in [Slots -> Parts \cup {None}]
    /\ got \in [Slots -> Messages \cup {None}] /\ monitor \in BOOLEAN

Reading(e) == env_status[e] = "runnable" /\ pc[e] \in {"from", "perm", "value"}

(* Nothing reads env_ipc_recving: the kernel goes by the status.  The two  *)
(* say the same of every environment, also after one that was killed while *)
(* it waited, so a message only reaches one that is inside ipc_recv().     *)
BlockedIsReceiving ==
    \A e \in Slots : env_status[e] # "free" =>
        /\ (env_status[e] = "blocked") = env_ipc_recving[e]
        /\ env_ipc_recving[e] => pc[e] = "from" /\ where[e] = None /\ got[e] = None

(* What the library holds in the middle of a call. *)
CallsOK ==
    \A e \in Slots :
        /\ gen[e] # 0 => e \in Reused
        /\ env_status[e] = "free" => pc[e] = "idle" /\ got[e] = None
        /\ pc[e] = "send" => args[e] \in Sends
        /\ pc[e] = "perm" => regs[e] \in [from : Ids]
        /\ pc[e] = "value" => regs[e] \in [from : Ids, page : BOOLEAN]

(* What struct Env holds from the call to the last read; PageWhereAsked    *)
(* says what follows for the page.                                         *)
FieldsOK ==
    \A e \in Slots :
        /\ Reading(e) => env_ipc_from[e] \in Ids /\ env_ipc_value[e] \in Values
        /\ (env_status[e] = "blocked" \/ Reading(e)) /\ pg[e] # None =>
              env_ipc_dstva[e] = pg[e]
        /\ Reading(e) => where[e] = IF env_ipc_perm[e] THEN env_ipc_dstva[e] ELSE None

IInv == TypeOK /\ BlockedIsReceiving /\ CallsOK /\ FieldsOK

(* Where a page is, for every receive that has been served.  One that      *)
(* asked for a page is told of one exactly if it has one, and has it where *)
(* it asked, whatever was asked for in this slot before.  One that asked   *)
(* for none gets a page all the same if one is sent, at the address an     *)
(* earlier receive of the slot has left, if there is any, and is told of   *)
(* it in any case: only then is it told of a page it has not asked for.    *)
PageWhereAsked ==
    \A e \in Slots : Reading(e) =>
        /\ pg[e] # None => where[e] = IF env_ipc_perm[e] THEN pg[e] ELSE None
        /\ pg[e] = None => where[e] = IF env_ipc_perm[e] THEN env_ipc_dstva[e] ELSE None

(* What the comment of ipc_recv() says: the permission is nonzero exactly  *)
(* if a page was transferred to where this call asked for it.              *)
PermIsTransfer ==
    \A e \in Slots : Reading(e) =>
        (env_ipc_perm[e] <=> pg[e] # None /\ where[e] = pg[e])

(* A send ends exactly when one receive takes its message, and this        *)
(* receive returns the sender, the value and the permission of the same    *)
(* message, although it reads them one by one and slots are used again;    *)
(* its page is where the slot has asked for a page last.                   *)
MessageIn(e) ==
    [from |-> IF pc[e] = "from" THEN env_ipc_from[e] ELSE regs[e].from,
     page |-> IF pc[e] = "value" THEN regs[e].page ELSE env_ipc_perm[e],
     val  |-> env_ipc_value[e]]

Existing  == {id \in Ids : Exists(id)}
Waiting   == {id \in Existing : env_status[id[2]] = "blocked"}
Offer(e)  == <<args[e].to, [from |-> EnvId(e), page |-> args[e].page, val |-> args[e].val]>>
Box(e)    == <<MessageIn(e), where[e]>>
Result(e) == IF got[e] = None THEN None ELSE <<got[e], where[e]>>
Offers    == [id \in Ids |-> IF Exists(id) /\ pc[id[2]] = "send" THEN Offer(id[2]) ELSE None]
Boxes     == [id \in Ids |-> IF Exists(id) /\ Reading(id[2]) THEN Box(id[2]) ELSE None]
Results   == [id \in Ids |-> IF Exists(id) THEN Result(id[2]) ELSE None]

Meeting == INSTANCE Rendezvous WITH
    Names <- Ids, Homes <- Slots, Home <- [id \in Ids |-> id[2]],
    Places <- Addrs, Nowhere <- None, NoMessage <- None,
    alive <- Existing, asks <- Waiting, offer <- Offers, box <- Boxes, result <- Results,
    place <- env_ipc_dstva, stopped <- monitor

ImplementsRendezvous == Meeting!Spec

(* Nobody tries to reach an environment for ever that is gone, or that is  *)
(* waiting for a message, while the machine runs: the first is a panic,    *)
(* which stops it.                                                         *)
TriesInVain(e) ==
    At(e, "send") /\ (~Exists(args[e].to) \/ env_status[args[e].to[2]] = "blocked")

SendEnds == \A e \in Slots : []<>(monitor \/ ~TriesInVain(e))
=============================================================================
