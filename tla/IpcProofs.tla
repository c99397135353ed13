------------------------------- MODULE IpcProofs --------------------------------
(***************************************************************************)
(* The theorems about messages, for any number of environments, values,    *)
(* addresses and generations.                                              *)
(***************************************************************************)
EXTENDS Ipc, TLAPS

-----------------------------------------------------------------------------
(* Identifiers are pairs, and an environment has the one of its slot. *)
LEMMA OneName ==
    ASSUME IInv
    PROVE  /\ \A id \in Ids : /\ id = <<id[1], id[2]>> /\ id[1] \in 0..GenBound /\ id[2] \in Slots
                              /\ Exists(id) <=> id = EnvId(id[2]) /\ env_status[id[2]] # "free"
           /\ \A e \in Slots : EnvId(e) \in Ids /\ EnvId(e)[1] = gen[e] /\ EnvId(e)[2] = e
BY IpcAssumption DEF IInv, TypeOK, CallsOK, Ids, EnvId, Exists

LEMMA InitInv == Init => IInv
<1> SUFFICES ASSUME Init PROVE IInv
  OBVIOUS
<1>1. TypeOK
  <2>1. 0 \in 0..GenBound
    BY IpcAssumption
  <2>2. gen \in [Slots -> 0..GenBound] /\ monitor \in BOOLEAN
    BY <2>1 DEF Init
  <2>3. /\ env_status \in [Slots -> {"free", "runnable", "blocked"}]
        /\ pc \in [Slots -> {"idle", "send", "from", "perm", "value", "panicked"}]
    BY DEF Init
  <2>4. env_ipc_recving \in [Slots -> BOOLEAN] /\ env_ipc_perm \in [Slots -> BOOLEAN]
    BY Zenon DEF Init
  <2> QED
    BY <2>2, <2>3, <2>4 DEF Init, TypeOK
<1>2. BlockedIsReceiving /\ FieldsOK
  BY DEF Init, BlockedIsReceiving, FieldsOK, Reading
<1>3. CallsOK
  BY DEF Init, CallsOK
<1> QED
  BY <1>1, <1>2, <1>3 DEF IInv

(* ipc_send() is called; and it finds that the message cannot be sent. *)
LEMMA CallSendStep ==
    ASSUME IInv, NEW e \in Slots, NEW id \in Ids, NEW v \in Values, NEW p \in BOOLEAN,
           CallSend(e, id, v, p)
    PROVE  IInv'
<1> USE IpcAssumption DEF IInv, kernVars, ipcVars, Goto, At, Forget
<1>1. PICK m \in Sends : m = [to |-> id, val |-> v, page |-> p]
  BY DEF Sends
<1>2. /\ env_status[e] = "runnable" /\ pc[e] = "idle" /\ args' = [args EXCEPT ![e] = m]
      /\ pc' = [pc EXCEPT ![e] = "send"] /\ got' = [got EXCEPT ![e] = None]
      /\ UNCHANGED <<gen, env_status, env_ipc_recving, env_ipc_dstva, env_ipc_from,
                     env_ipc_perm, env_ipc_value, where, pg, regs, monitor>>
  BY <1>1 DEF CallSend
<1>3. TypeOK'
  BY <1>2 DEF TypeOK, Parts
<1>4. BlockedIsReceiving'
  BY <1>2 DEF TypeOK, BlockedIsReceiving
<1>5. CallsOK'
  BY <1>2 DEF TypeOK, CallsOK
<1>6. FieldsOK'
  BY <1>2 DEF TypeOK, FieldsOK, Reading
<1> QED
  BY <1>3, <1>4, <1>5, <1>6

LEMMA PanicStep ==
    ASSUME IInv, NEW e \in Slots, Panic(e)
    PROVE  IInv'
<1> USE IpcAssumption DEF IInv, kernVars, ipcVars, Goto, At
<1>1. /\ env_status[e] = "runnable" /\ pc[e] = "send" /\ args' = [args EXCEPT ![e] = None]
      /\ pc' = [pc EXCEPT ![e] = "panicked"] /\ monitor' = TRUE
      /\ UNCHANGED <<gen, env_status, env_ipc_recving, env_ipc_dstva, env_ipc_from,
                     env_ipc_perm, env_ipc_value, where, pg, regs, got>>
  BY DEF Panic
<1>2. TypeOK'
  BY <1>1 DEF TypeOK, Parts
<1>3. BlockedIsReceiving'
  BY <1>1 DEF TypeOK, BlockedIsReceiving
<1>4. CallsOK'
  BY <1>1 DEF TypeOK, CallsOK
<1>5. FieldsOK'
  BY <1>1 DEF TypeOK, FieldsOK, Reading
<1> QED
  BY <1>2, <1>3, <1>4, <1>5

(* sys_ipc_recv() keeps what is in env_ipc_dstva, or replaces it. *)
LEMMA RecvStep ==
    ASSUME IInv, NEW e \in Slots, NEW a \in Addrs \cup {None}, SysIpcRecv(e, a)
    PROVE  IInv'
<1> USE IpcAssumption DEF IInv, Goto, At, Forget, Kernel
<1>1. PICK d \in Addrs \cup {None} : d = Dstva(e, a)
  BY DEF Dstva, TypeOK
<1>2. /\ env_status[e] = "runnable" /\ pc[e] = "idle"
      /\ env_status' = [env_status EXCEPT ![e] = "blocked"]
      /\ env_ipc_recving' = [env_ipc_recving EXCEPT ![e] = TRUE]
      /\ pg' = [pg EXCEPT ![e] = a] /\ where' = [where EXCEPT ![e] = None]
      /\ pc' = [pc EXCEPT ![e] = "from"] /\ got' = [got EXCEPT ![e] = None]
      /\ env_ipc_dstva' = [env_ipc_dstva EXCEPT ![e] = d] /\ (a # None => d = a)
      /\ UNCHANGED <<gen, env_ipc_from, env_ipc_perm, env_ipc_value, args, regs, monitor>>
  BY <1>1 DEF SysIpcRecv, Dstva
<1>3. TypeOK'
  BY <1>2 DEF TypeOK
<1>4. BlockedIsReceiving'
  BY <1>2 DEF TypeOK, BlockedIsReceiving
<1>5. CallsOK'
  BY <1>2 DEF TypeOK, CallsOK
<1>6. FieldsOK'
  BY <1>2 DEF TypeOK, FieldsOK, Reading
<1> QED
  BY <1>3, <1>4, <1>5, <1>6

(* Every action keeps the invariant. *)
LEMMA NextInv == ASSUME IInv, [Next]_vars PROVE IInv'
<1> USE IpcAssumption
    DEF IInv, TypeOK, BlockedIsReceiving, CallsOK, FieldsOK, Reading, Sends, Parts, Messages,
        kernVars, ipcVars, userVars, Goto, At, Forget, Kernel, Landing
<1>1. CASE UNCHANGED vars
  BY <1>1 DEF vars
<1>2. ASSUME NEW e \in Slots, NEW id \in Known(e), NEW v \in Values, NEW p \in BOOLEAN,
             CallSend(e, id, v, p)
      PROVE  IInv'
  <2>1. id \in Ids
    BY DEF Known
  <2> QED
    BY <1>2, <2>1, CallSendStep
<1>3. ASSUME NEW e \in Slots, NEW a \in Addrs \cup {None}, SysIpcRecv(e, a) PROVE IInv'
  BY <1>3, RecvStep
<1>4. ASSUME NEW e \in Slots, Panic(e) PROVE IInv'
  BY <1>4, PanicStep
<1>5. ASSUME NEW e \in Slots, NEW r \in Slots, Deliver(e, r) PROVE IInv'
  <2>1. EnvId(e) \in Ids
    BY OneName
  <2>2. args[e] \in Sends /\ env_status[r] = "blocked" /\ r # e
    BY <1>5 DEF Deliver, Receives
  <2>3. TypeOK'
    BY <1>5, <2>1, <2>2 DEF Deliver
  <2>4. BlockedIsReceiving'
    <3>1. BlockedIsReceiving
      OBVIOUS
    <3>2. /\ \A k \in Slots \ {r} : /\ env_ipc_recving'[k] = env_ipc_recving[k]
                                    /\ where'[k] = where[k] /\ env_status'[k] = env_status[k]
                                    /\ got'[k] = got[k]
          /\ \A k \in Slots \ {e} : pc'[k] = pc[k]
          /\ env_ipc_recving'[r] = FALSE /\ env_status'[r] = "runnable"
          /\ env_status[e] = "runnable"
      BY <1>5 DEF Deliver
    <3>3. ASSUME NEW k \in Slots, env_status'[k] # "free"
          PROVE  /\ (env_status'[k] = "blocked") = env_ipc_recving'[k]
                 /\ env_ipc_recving'[k] => pc'[k] = "from" /\ where'[k] = None /\ got'[k] = None
      <4>1. CASE k = r
        BY <3>2, <4>1
      <4>2. CASE k # r
        <5>1. env_ipc_recving'[k] => k # e
          BY <3>1, <3>2, <4>2 DEF BlockedIsReceiving
        <5> QED
          BY <3>1, <3>2, <3>3, <4>2, <5>1 DEF BlockedIsReceiving
      <4> QED
        BY <4>1, <4>2
    <3> QED
      BY <3>3 DEF BlockedIsReceiving
  <2>5. CallsOK'
    BY <1>5, <2>2 DEF Deliver
  <2>6. FieldsOK'
    BY <1>5, <2>1, <2>2 DEF Deliver
  <2> QED
    BY <2>3, <2>4, <2>5, <2>6
<1>6. ASSUME NEW e \in Slots, ReadFrom(e) PROVE IInv'
  BY <1>6 DEF ReadFrom
<1>7. ASSUME NEW e \in Slots, ReadPerm(e) PROVE IInv'
  BY <1>7 DEF ReadPerm
<1>8. ASSUME NEW e \in Slots, ReadValue(e) PROVE IInv'
  <2>1. regs[e] \in [from : Ids, page : BOOLEAN] /\ env_ipc_value[e] \in Values
    BY <1>8 DEF ReadValue
  <2>2. [from |-> regs[e].from, page |-> regs[e].page, val |-> env_ipc_value[e]] \in Messages
    BY <2>1
  <2>3. TypeOK'
    BY <1>8, <2>2 DEF ReadValue
  <2> QED
    BY <1>8, <2>3 DEF ReadValue
<1>9. ASSUME NEW e \in Slots, Die(e) PROVE IInv'
  BY <1>9 DEF Die, EnvFree
<1>10. ASSUME NEW e \in Slots, EnvAlloc(e) PROVE IInv'
  <2>1. gen[e] + 1 \in 0..GenBound /\ e \in Reused
    BY <1>10 DEF EnvAlloc
  <2>2. TypeOK'
    BY <1>10, <2>1 DEF EnvAlloc, AllocClears
  <2>3. pc[e] = "idle" /\ UNCHANGED <<pc, args, pg, regs, got>>
    BY <1>10 DEF EnvAlloc
  <2>4. BlockedIsReceiving'
    BY <1>10, <2>3 DEF EnvAlloc, AllocClears
  <2>5. CallsOK'
    BY <1>10, <2>1, <2>3 DEF EnvAlloc
  <2>6. FieldsOK'
    BY <1>10, <2>3 DEF EnvAlloc
  <2> QED
    BY <2>2, <2>4, <2>5, <2>6
<1> QED
  BY <1>1, <1>2, <1>3, <1>4, <1>5, <1>6, <1>7, <1>8, <1>9, <1>10 DEF Next, Begin, Continue

(* The fields of struct Env that carry a message say the same as the       *)
(* status, and what the library has read of it is of one message.          *)
THEOREM Invariance == Spec => []IInv
BY InitInv, NextInv, PTL DEF Spec

(* A page is where the receive that was served asked for it; a receive     *)
(* that asked for none has it where the slot asked for one before.         *)
THEOREM PagesWhereAsked == Spec => []PageWhereAsked
<1>1. IInv => PageWhereAsked
  BY DEF IInv, FieldsOK, PageWhereAsked
<1> QED
  BY <1>1, Invariance, PTL

-----------------------------------------------------------------------------
(* Refinement.  A step changes what Rendezvous sees of one name, or two.   *)

LEMMA InitMeets == Init => Meeting!Init
<1> SUFFICES ASSUME Init PROVE Meeting!Init
  OBVIOUS
<1>1. /\ \A e \in Slots : env_status[e] # "blocked" /\ pc[e] = "idle" /\ got[e] = None
      /\ \A id \in Ids : id[2] \in Slots
  BY IpcAssumption DEF Init, Ids
<1>2. Waiting = {}
  BY <1>1 DEF Waiting, Existing
<1>3. /\ Offers = [id \in Ids |-> None] /\ Boxes = [id \in Ids |-> None]
      /\ Results = [id \in Ids |-> None]
  BY <1>1 DEF Offers, Boxes, Results, Reading, Result
<1>4. env_ipc_dstva = [e \in Slots |-> None] /\ monitor = FALSE
  BY DEF Init
<1> QED
  BY <1>2, <1>3, <1>4 DEF Meeting!Init, Existing

(* What Rendezvous sees of a name, and that nothing else is seen. *)
Same(id) ==
    /\ id \in Existing' <=> id \in Existing
    /\ id \in Waiting' <=> id \in Waiting
    /\ Offers'[id] = Offers[id] /\ Boxes'[id] = Boxes[id] /\ Results'[id] = Results[id]

Kept(d) ==
    /\ gen'[d] = gen[d] /\ env_status'[d] = env_status[d]
    /\ pc'[d] = pc[d] /\ args'[d] = args[d] /\ got'[d] = got[d] /\ regs'[d] = regs[d]
    /\ env_ipc_from'[d] = env_ipc_from[d] /\ env_ipc_perm'[d] = env_ipc_perm[d]
    /\ env_ipc_value'[d] = env_ipc_value[d] /\ where'[d] = where[d]

LEMMA Outside ==
    ASSUME IInv, NEW id \in Ids, Kept(id[2])
    PROVE  Same(id)
BY DEF Kept, Same, Existing, Waiting, Offers, Boxes, Results, Exists, Offer, EnvId, Reading,
       MessageIn, Box, Result

(* A name that is not the one of its slot is seen as gone. *)
LEMMA OldNames ==
    ASSUME IInv, NEW id \in Ids, id # EnvId(id[2]), gen'[id[2]] = gen[id[2]]
    PROVE  Same(id)
<1>1. ~Exists(id) /\ ~Exists(id)'
  BY OneName DEF EnvId, Exists
<1> QED
  BY <1>1 DEF Same, Existing, Waiting, Offers, Boxes, Results

(* What Rendezvous sees of the environment in slot e, and of its name. *)
Seen(e) ==
    LET n == EnvId(e) IN
    /\ n \in Ids
    /\ n \in Existing <=> env_status[e] # "free"
    /\ n \in Waiting <=> env_status[e] = "blocked"
    /\ Offers[n] = IF env_status[e] # "free" /\ pc[e] = "send" THEN Offer(e) ELSE None
    /\ Boxes[n] = IF Reading(e) THEN Box(e) ELSE None
    /\ Results[n] = IF env_status[e] # "free" THEN Result(e) ELSE None

LEMMA SeenNow ==
    ASSUME IInv, NEW e \in Slots
    PROVE  Seen(e)
<1>1. EnvId(e) \in Ids /\ EnvId(e)[1] = gen[e] /\ EnvId(e)[2] = e
  BY OneName
<1> HIDE DEF IInv
<1> QED
  BY <1>1 DEF Seen, Existing, Waiting, Offers, Boxes, Results, Exists, Reading

LEMMA SeenNext ==
    ASSUME IInv', NEW e \in Slots
    PROVE  Seen(e)'
<1>1. EnvId(e)' \in Ids /\ EnvId(e)'[1] = gen'[e] /\ EnvId(e)'[2] = e
  BY IpcAssumption DEF IInv, TypeOK, CallsOK, Ids, EnvId
<1> QED
  BY <1>1 DEF Seen, Existing, Waiting, Offers, Boxes, Results, Exists, Reading

(* One name changes. *)
LEMMA OneChanges ==
    ASSUME NEW n \in Ids, \A id \in Ids \ {n} : Same(id)
    PROVE  /\ Existing' = IF n \in Existing' THEN Existing \cup {n} ELSE Existing \ {n}
           /\ Waiting' = IF n \in Waiting' THEN Waiting \cup {n} ELSE Waiting \ {n}
           /\ Offers' = [Offers EXCEPT ![n] = Offers'[n]]
           /\ Boxes' = [Boxes EXCEPT ![n] = Boxes'[n]]
           /\ Results' = [Results EXCEPT ![n] = Results'[n]]
<1>1. Existing \subseteq Ids /\ Existing' \subseteq Ids /\ Waiting \subseteq Ids /\ Waiting' \subseteq Ids
  BY DEF Existing, Waiting
<1>2. \A id \in Ids \ {n} : (id \in Existing' <=> id \in Existing) /\ (id \in Waiting' <=> id \in Waiting)
  BY DEF Same
<1>3. \A id \in Ids \ {n} : Offers'[id] = Offers[id] /\ Boxes'[id] = Boxes[id] /\ Results'[id] = Results[id]
  BY DEF Same
<1>4. /\ Offers = [id \in Ids |-> Offers[id]] /\ Offers' = [id \in Ids |-> Offers'[id]]
      /\ Boxes = [id \in Ids |-> Boxes[id]] /\ Boxes' = [id \in Ids |-> Boxes'[id]]
      /\ Results = [id \in Ids |-> Results[id]] /\ Results' = [id \in Ids |-> Results'[id]]
  BY DEF Offers, Boxes, Results
<1> QED
  BY <1>1, <1>2, <1>3, <1>4

LEMMA OneActs ==
    ASSUME IInv, NEW e \in Slots, gen' = gen, \A d \in Slots \ {e} : Kept(d)
    PROVE  \A id \in Ids \ {EnvId(e)} : Same(id)
<1> SUFFICES ASSUME NEW id \in Ids, id # EnvId(e) PROVE Same(id)
  OBVIOUS
<1>1. id[2] \in Slots
  BY OneName
<1>2. CASE id[2] = e
  BY <1>2, OldNames
<1>3. CASE id[2] # e
  BY <1>1, <1>3, Outside
<1> QED
  BY <1>2, <1>3

(* What is needed of an action of one environment. *)
LEMMA OneStep ==
    ASSUME IInv, IInv', NEW e \in Slots, gen' = gen, \A d \in Slots \ {e} : Kept(d)
    PROVE  LET n == EnvId(e) IN
           /\ Seen(e) /\ Seen(e)' /\ EnvId(e)' = n
           /\ Existing' = IF env_status'[e] # "free" THEN Existing \cup {n} ELSE Existing \ {n}
           /\ Waiting' = IF env_status'[e] = "blocked" THEN Waiting \cup {n} ELSE Waiting \ {n}
           /\ Offers' = [Offers EXCEPT ![n] = Offers'[n]]
           /\ Boxes' = [Boxes EXCEPT ![n] = Boxes'[n]]
           /\ Results' = [Results EXCEPT ![n] = Results'[n]]
<1>1. Seen(e) /\ Seen(e)'
  BY SeenNow, SeenNext
<1>2. EnvId(e)' = EnvId(e)
  BY DEF EnvId
<1>3. \A id \in Ids \ {EnvId(e)} : Same(id)
  BY OneActs
<1>4. EnvId(e) \in Ids
  BY <1>1 DEF Seen
<1>5. /\ EnvId(e) \in Existing' <=> env_status'[e] # "free"
      /\ EnvId(e) \in Waiting' <=> env_status'[e] = "blocked"
  BY <1>1, <1>2 DEF Seen
<1> HIDE DEF IInv
<1> QED
  BY <1>1, <1>2, <1>3, <1>4, <1>5, OneChanges

(* An offer is not the absence of one. *)
LEMMA OfferIsSome ==
    ASSUME IInv, NEW e \in Slots, pc[e] = "send"
    PROVE  Offer(e) # None
<1>1. args[e] \in Sends /\ EnvId(e) \in Ids
  BY OneName DEF IInv, CallsOK
<1>2. Offer(e) \in Ids \X Messages
  BY <1>1 DEF Offer, Sends, Messages
<1> QED
  BY <1>2, NoneAssumption

-----------------------------------------------------------------------------
(* One lemma for each action. *)

LEMMA CallSendMeets ==
    ASSUME IInv, IInv', NEW e \in Slots, NEW to \in Known(e), NEW v \in Values, NEW p \in BOOLEAN,
           CallSend(e, to, v, p)
    PROVE  Meeting!Next
<1> DEFINE n == EnvId(e)
           m == [from |-> n, page |-> p, val |-> v]
<1>1. /\ gen' = gen /\ \A d \in Slots \ {e} : Kept(d)
      /\ env_status[e] = "runnable" /\ pc[e] = "idle"
      /\ env_status'[e] = "runnable" /\ pc'[e] = "send" /\ got'[e] = None
      /\ args'[e] = [to |-> to, val |-> v, page |-> p]
      /\ env_ipc_dstva' = env_ipc_dstva /\ monitor' = monitor
  BY DEF IInv, TypeOK, CallsOK, CallSend, At, Goto, Forget, Kept, kernVars, ipcVars
<1>2. to \in Ids /\ n \in Ids
  BY OneName DEF Known
<1>3. m \in Messages
  BY <1>2 DEF Messages
<1>4. /\ n \in Existing \ Waiting /\ Offers[n] = None /\ Boxes[n] = None
      /\ Existing' = Existing /\ Waiting' = Waiting
      /\ Offers' = [Offers EXCEPT ![n] = <<to, m>>]
      /\ Boxes' = Boxes
      /\ Results' = [Results EXCEPT ![n] = None]
  <2>1. /\ Seen(e) /\ Seen(e)' /\ EnvId(e)' = n
        /\ Existing' = Existing \cup {n} /\ Waiting' = Waiting \ {n}
        /\ Offers' = [Offers EXCEPT ![n] = Offers'[n]]
        /\ Boxes' = [Boxes EXCEPT ![n] = Boxes'[n]]
        /\ Results' = [Results EXCEPT ![n] = Results'[n]]
    BY <1>1, OneStep
  <2>2. /\ n \in Existing \ Waiting /\ Offers[n] = None /\ Boxes[n] = None
        /\ Offers'[n] = Offer(e)' /\ Boxes'[n] = None /\ Results'[n] = None
    BY <1>1, <2>1 DEF Seen, Reading, Result
  <2>3. Offer(e)' = <<to, m>>
    BY <1>1, <2>1 DEF Offer
  <2>4. Boxes = [id \in Ids |-> Boxes[id]]
    BY DEF Boxes
  <2> QED
    BY <1>2, <2>1, <2>2, <2>3, <2>4
<1>5. Meeting!Send(n, to, m)
  BY <1>1, <1>4 DEF Meeting!Send, Meeting!Idle
<1> QED
  BY <1>2, <1>3, <1>5 DEF Meeting!Next

LEMMA RecvMeets ==
    ASSUME IInv, IInv', NEW e \in Slots, NEW a \in Addrs \cup {None}, SysIpcRecv(e, a)
    PROVE  Meeting!Next
<1> DEFINE n == EnvId(e)
<1>1. /\ gen' = gen /\ \A d \in Slots \ {e} : Kept(d)
      /\ env_status[e] = "runnable" /\ pc[e] = "idle"
      /\ env_status'[e] = "blocked" /\ pc'[e] = "from" /\ got'[e] = None
      /\ monitor = FALSE /\ monitor' = FALSE
  BY DEF IInv, TypeOK, CallsOK, SysIpcRecv, At, Goto, Forget, Kept, Kernel
<1>2. /\ Seen(e) /\ Seen(e)' /\ EnvId(e)' = n
      /\ Existing' = Existing \cup {n} /\ Waiting' = Waiting \cup {n}
      /\ Offers' = [Offers EXCEPT ![n] = Offers'[n]]
      /\ Boxes' = [Boxes EXCEPT ![n] = Boxes'[n]]
      /\ Results' = [Results EXCEPT ![n] = Results'[n]]
  BY <1>1, OneStep
<1>3. /\ n \in Ids /\ n \in Existing \ Waiting /\ Offers[n] = None /\ Boxes[n] = None
      /\ Offers'[n] = None /\ Boxes'[n] = None /\ Results'[n] = None
  BY <1>1, <1>2 DEF Seen, Reading, Result
<1>4. Boxes = [id \in Ids |-> Boxes[id]] /\ Offers = [id \in Ids |-> Offers[id]]
  BY DEF Boxes, Offers
<1>5. Existing' = Existing /\ Offers' = Offers /\ Boxes' = Boxes
  BY <1>2, <1>3, <1>4
<1>6. env_ipc_dstva' = IF a = None THEN env_ipc_dstva
                       ELSE [env_ipc_dstva EXCEPT ![[id \in Ids |-> id[2]][n]] = a]
  BY <1>3, OneName DEF SysIpcRecv, Dstva, IInv, TypeOK
<1>7. Meeting!Receive(n, a)
  BY <1>1, <1>2, <1>3, <1>5, <1>6 DEF Meeting!Receive, Meeting!Idle
<1> QED
  BY <1>3, <1>7 DEF Meeting!Next

LEMMA PanicMeets ==
    ASSUME IInv, IInv', NEW e \in Slots, Panic(e)
    PROVE  Meeting!Next
<1> DEFINE n == EnvId(e)
<1>1. /\ gen' = gen /\ \A d \in Slots \ {e} : Kept(d)
      /\ env_status[e] = "runnable" /\ pc[e] = "send"
      /\ env_status'[e] = "runnable" /\ pc'[e] = "panicked" /\ got'[e] = got[e]
      /\ args[e].to \in Ids /\ where'[e] = where[e]
      /\ env_ipc_dstva' = env_ipc_dstva /\ monitor = FALSE /\ monitor' = TRUE
  BY DEF IInv, TypeOK, CallsOK, Sends, Panic, At, Goto, Kept, kernVars, ipcVars
<1>2. /\ Seen(e) /\ Seen(e)' /\ EnvId(e)' = n
      /\ Existing' = Existing \cup {n} /\ Waiting' = Waiting \ {n}
      /\ Offers' = [Offers EXCEPT ![n] = Offers'[n]]
      /\ Boxes' = [Boxes EXCEPT ![n] = Boxes'[n]]
      /\ Results' = [Results EXCEPT ![n] = Results'[n]]
  BY <1>1, OneStep
<1>3. /\ n \in Ids /\ n \in Existing \ Waiting /\ Offers[n] = Offer(e)
      /\ Offers'[n] = None /\ Boxes'[n] = Boxes[n] /\ Results'[n] = Results[n]
  BY <1>1, <1>2 DEF Seen, Reading, Result
<1>4. Boxes = [id \in Ids |-> Boxes[id]] /\ Results = [id \in Ids |-> Results[id]]
  BY DEF Boxes, Results
<1>5. Existing' = Existing /\ Waiting' = Waiting /\ Boxes' = Boxes /\ Results' = Results
  BY <1>2, <1>3, <1>4
<1>6. /\ Offers[n][1] = args[e].to /\ Offers[n][2].page = args[e].page /\ Offers[n] # None
  BY <1>1, <1>3, OfferIsSome DEF Offer
<1>7. \/ args[e].to \notin Existing
      \/ args[e].to \in Waiting /\ args[e].page /\ env_ipc_dstva[args[e].to[2]] # None
  BY <1>1 DEF Panic, NoSuchEnv, Receives, Existing, Waiting
<1>8. [id \in Ids |-> id[2]][args[e].to] = args[e].to[2]
  BY <1>1
<1>9. Meeting!GiveUp(n)
  BY <1>1, <1>2, <1>3, <1>5, <1>6, <1>7, <1>8 DEF Meeting!GiveUp
<1> QED
  BY <1>3, <1>9 DEF Meeting!Next

LEMMA DeliverMeets ==
    ASSUME IInv, IInv', NEW e \in Slots, NEW r \in Slots, Deliver(e, r)
    PROVE  Meeting!Next
<1> DEFINE n == EnvId(e)
           to == EnvId(r)
           m == [from |-> n, page |-> args[e].page, val |-> args[e].val]
           at == IF args[e].page THEN env_ipc_dstva[r] ELSE None
<1>1. /\ gen' = gen /\ \A d \in Slots \ {e, r} : Kept(d) /\ e # r
      /\ env_status[e] = "runnable" /\ pc[e] = "send" /\ args[e] \in Sends
      /\ env_status'[e] = "runnable" /\ pc'[e] = "idle" /\ got'[e] = got[e]
      /\ env_status[r] = "blocked" /\ pc[r] = "from"
      /\ env_status'[r] = "runnable" /\ pc'[r] = "from" /\ got'[r] = got[r] /\ got[r] = None
      /\ where'[e] = where[e]
      /\ env_ipc_dstva' = env_ipc_dstva /\ monitor = FALSE /\ monitor' = FALSE
  BY DEF IInv, TypeOK, BlockedIsReceiving, CallsOK, Deliver, Receives, At, Goto, Kept, Kernel
<1>2. args[e].to = to
  BY <1>1, OneName DEF Deliver, Receives, Sends
<1>3. /\ env_ipc_from'[r] = n /\ env_ipc_perm'[r] = args[e].page
      /\ env_ipc_value'[r] = args[e].val /\ where'[r] = at
  BY DEF Deliver, Landing, IInv, TypeOK
<1>4. Seen(e) /\ Seen(e)' /\ EnvId(e)' = n /\ Seen(r) /\ Seen(r)' /\ EnvId(r)' = to
  BY <1>1, SeenNow, SeenNext DEF EnvId
<1>5. /\ n \in Ids /\ to \in Ids /\ n # to /\ n \in Existing \ Waiting /\ to \in Waiting
      /\ n \in Existing' \ Waiting' /\ to \in Existing' \ Waiting'
      /\ Offers[n] = Offer(e) /\ Offers'[n] = None /\ Offers[to] = None /\ Offers'[to] = None
      /\ Boxes[n] = None /\ Boxes'[n] = None /\ Boxes'[to] = Box(r)'
      /\ Results'[n] = Results[n] /\ Results'[to] = Results[to]
  BY <1>1, <1>4, OneName DEF Seen, Reading, Result
<1>6. Offer(e) = <<to, m>> /\ Offer(e) # None /\ Box(r)' = <<m, at>>
  BY <1>1, <1>2, <1>3, OfferIsSome DEF Offer, MessageIn, Box
<1>7. ASSUME NEW id \in Ids \ {n, to} PROVE Same(id)
  <2>1. id[2] \in Slots
    BY OneName
  <2>2. CASE id = EnvId(id[2])
    BY <1>1, <2>1, <2>2, Outside
  <2>3. CASE id # EnvId(id[2])
    BY <1>1, <2>3, OldNames
  <2> QED
    BY <2>2, <2>3
<1>8. /\ Existing' = Existing /\ Waiting' = Waiting \ {to} /\ to \in Existing
      /\ Offers' = [Offers EXCEPT ![n] = None]
      /\ Boxes' = [Boxes EXCEPT ![to] = <<m, at>>]
      /\ Results' = Results
  <2>1. /\ Existing \subseteq Ids /\ Existing' \subseteq Ids
        /\ Waiting \subseteq Existing /\ Waiting' \subseteq Existing'
    BY DEF Existing, Waiting
  <2>2. /\ Offers = [id \in Ids |-> Offers[id]] /\ Offers' = [id \in Ids |-> Offers'[id]]
        /\ Boxes = [id \in Ids |-> Boxes[id]] /\ Boxes' = [id \in Ids |-> Boxes'[id]]
        /\ Results = [id \in Ids |-> Results[id]] /\ Results' = [id \in Ids |-> Results'[id]]
    BY DEF Offers, Boxes, Results
  <2>3. \A id \in Ids \ {n, to} :
           /\ (id \in Existing' <=> id \in Existing) /\ (id \in Waiting' <=> id \in Waiting)
           /\ Offers'[id] = Offers[id] /\ Boxes'[id] = Boxes[id] /\ Results'[id] = Results[id]
    BY <1>7 DEF Same
  <2>4. Existing' = Existing /\ Waiting' = Waiting \ {to} /\ to \in Existing
    BY <1>5, <2>1, <2>3
  <2>5. Offers' = [Offers EXCEPT ![n] = None] /\ Results' = Results
    BY <1>5, <2>2, <2>3
  <2>6. Boxes' = [Boxes EXCEPT ![to] = <<m, at>>]
    BY <1>5, <1>6, <2>2, <2>3
  <2> QED
    BY <2>4, <2>5, <2>6
<1>9. /\ Offers[n][1] = to /\ Offers[n][2] = m /\ m.page = args[e].page
      /\ [id \in Ids |-> id[2]][to] = r
  BY <1>5, <1>6, OneName
<1> HIDE DEF m, at
<1>10. at = IF m.page THEN env_ipc_dstva[[id \in Ids |-> id[2]][to]] ELSE None
  BY <1>9 DEF at
<1>11. Meeting!Pass(n, to)
  BY <1>1, <1>5, <1>6, <1>8, <1>9, <1>10 DEF Meeting!Pass
<1> QED
  BY <1>5, <1>11 DEF Meeting!Next

(* The reads before the last show nothing. *)
LEMMA ReadsAreSilent ==
    ASSUME IInv, IInv', NEW e \in Slots, ReadFrom(e) \/ ReadPerm(e)
    PROVE  UNCHANGED <<Existing, Offers, Waiting, Boxes, Results, env_ipc_dstva, monitor>>
<1> DEFINE n == EnvId(e)
<1>1. /\ gen' = gen /\ \A d \in Slots \ {e} : Kept(d)
      /\ env_status[e] = "runnable" /\ env_status'[e] = "runnable" /\ got'[e] = got[e]
      /\ pc[e] \in {"from", "perm"} /\ pc'[e] \in {"perm", "value"}
      /\ where'[e] = where[e] /\ env_ipc_dstva' = env_ipc_dstva /\ monitor' = monitor
  BY DEF IInv, TypeOK, CallsOK, ReadFrom, ReadPerm, At, Goto, Kept, kernVars, ipcVars
<1>2. MessageIn(e)' = MessageIn(e)
  BY DEF IInv, TypeOK, CallsOK, MessageIn, ReadFrom, ReadPerm, At, Goto, ipcVars
<1>3. /\ Seen(e) /\ Seen(e)' /\ EnvId(e)' = n
      /\ Existing' = Existing \cup {n} /\ Waiting' = Waiting \ {n}
      /\ Offers' = [Offers EXCEPT ![n] = Offers'[n]]
      /\ Boxes' = [Boxes EXCEPT ![n] = Boxes'[n]]
      /\ Results' = [Results EXCEPT ![n] = Results'[n]]
  BY <1>1, OneStep
<1>4. /\ n \in Ids /\ n \in Existing \ Waiting
      /\ Offers'[n] = Offers[n] /\ Boxes'[n] = Boxes[n] /\ Results'[n] = Results[n]
  BY <1>1, <1>2, <1>3 DEF Seen, Reading, Box, Result
<1>5. /\ Offers = [id \in Ids |-> Offers[id]] /\ Boxes = [id \in Ids |-> Boxes[id]]
      /\ Results = [id \in Ids |-> Results[id]]
  BY DEF Offers, Boxes, Results
<1> QED
  BY <1>1, <1>3, <1>4, <1>5

LEMMA ReturnMeets ==
    ASSUME IInv, IInv', NEW e \in Slots, ReadValue(e)
    PROVE  Meeting!Next
<1> DEFINE n == EnvId(e)
<1>1. /\ gen' = gen /\ \A d \in Slots \ {e} : Kept(d)
      /\ env_status[e] = "runnable" /\ env_status'[e] = "runnable"
      /\ pc[e] = "value" /\ pc'[e] = "idle"
      /\ where'[e] = where[e] /\ env_ipc_dstva' = env_ipc_dstva /\ monitor' = monitor
  BY DEF IInv, TypeOK, CallsOK, ReadValue, At, Goto, Kept, kernVars, ipcVars
<1>2. /\ got'[e] = MessageIn(e) /\ MessageIn(e) \in Messages
      /\ where[e] \in Addrs \cup {None}
  BY DEF IInv, TypeOK, CallsOK, FieldsOK, Reading, MessageIn, Messages, ReadValue, At
<1>3. /\ Seen(e) /\ Seen(e)' /\ EnvId(e)' = n
      /\ Existing' = Existing \cup {n} /\ Waiting' = Waiting \ {n}
      /\ Offers' = [Offers EXCEPT ![n] = Offers'[n]]
      /\ Boxes' = [Boxes EXCEPT ![n] = Boxes'[n]]
      /\ Results' = [Results EXCEPT ![n] = Results'[n]]
  BY <1>1, OneStep
<1>4. /\ n \in Ids /\ n \in Existing \ Waiting /\ Offers[n] = None /\ Offers'[n] = None
      /\ Boxes[n] = Box(e) /\ Boxes'[n] = None /\ Results'[n] = Box(e)
  BY <1>1, <1>2, <1>3, NoneAssumption DEF Seen, Reading, Result, Box
<1>5. Offers = [id \in Ids |-> Offers[id]]
  BY DEF Offers
<1>6. Existing' = Existing /\ Waiting' = Waiting /\ Offers' = Offers
  BY <1>3, <1>4, <1>5
<1>7. Box(e) # None
  BY <1>2, NoneAssumption DEF Box
<1>8. Meeting!Return(n)
  BY <1>1, <1>3, <1>4, <1>6, <1>7 DEF Meeting!Return
<1> QED
  BY <1>4, <1>8 DEF Meeting!Next

LEMMA DieMeets ==
    ASSUME IInv, IInv', NEW e \in Slots, Die(e)
    PROVE  Meeting!Next
<1> DEFINE n == EnvId(e)
<1>1. /\ gen' = gen /\ \A d \in Slots \ {e} : Kept(d)
      /\ env_status'[e] = "free"
      /\ env_ipc_dstva' = env_ipc_dstva /\ monitor = FALSE /\ monitor' = FALSE
  BY DEF IInv, TypeOK, CallsOK, Die, EnvFree, Goto, Kept, Kernel
<1>2. /\ Seen(e) /\ Seen(e)' /\ EnvId(e)' = n
      /\ Existing' = Existing \ {n} /\ Waiting' = Waiting \ {n}
      /\ Offers' = [Offers EXCEPT ![n] = Offers'[n]]
      /\ Boxes' = [Boxes EXCEPT ![n] = Boxes'[n]]
      /\ Results' = [Results EXCEPT ![n] = Results'[n]]
  BY <1>1, OneStep
<1>3. n \in Ids /\ Offers'[n] = None /\ Boxes'[n] = None /\ Results'[n] = None
  BY <1>1, <1>2 DEF Seen, Reading
<1>4. Meeting!Vanish(n)
  BY <1>1, <1>2, <1>3 DEF Meeting!Vanish
<1> QED
  BY <1>3, <1>4 DEF Meeting!Next

(* The new environment has a name that nobody had. *)
LEMMA AllocMeets ==
    ASSUME IInv, IInv', NEW e \in Slots, EnvAlloc(e)
    PROVE  Meeting!Next
<1> DEFINE n == <<gen[e] + 1, e>>
<1>1. /\ \A d \in Slots \ {e} : Kept(d)
      /\ gen[e] \in Nat /\ gen'[e] = gen[e] + 1
      /\ env_status[e] = "free" /\ env_status'[e] = "runnable"
      /\ pc'[e] = "idle" /\ got'[e] = None
      /\ env_ipc_dstva' = env_ipc_dstva /\ monitor = FALSE /\ monitor' = FALSE
  BY IpcAssumption DEF IInv, TypeOK, CallsOK, EnvAlloc, Kept, Kernel, userVars
<1>2. Seen(e)' /\ EnvId(e)' = n
  BY <1>1, SeenNext DEF EnvId
<1>3. ASSUME NEW id \in Ids \ {n} PROVE Same(id)
  <2>1. id = <<id[1], id[2]>> /\ id[2] \in Slots
    BY OneName
  <2>2. CASE id[2] = e
    <3>1. ~Exists(id) /\ ~Exists(id)'
      BY <1>1, <2>1, <2>2 DEF Exists
    <3> QED
      BY <3>1 DEF Same, Existing, Waiting, Offers, Boxes, Results
  <2>3. CASE id[2] # e
    BY <1>1, <2>1, <2>3, Outside
  <2> QED
    BY <2>2, <2>3
<1>4. ~Exists(n)
  BY <1>1 DEF Exists
<1>5. /\ n \in Ids /\ n \notin Existing /\ n \notin Waiting
      /\ Offers[n] = None /\ Boxes[n] = None /\ Results[n] = None
      /\ n \in Existing' \ Waiting'
      /\ Offers'[n] = None /\ Boxes'[n] = None /\ Results'[n] = None
  <2>1. n \in Ids
    BY <1>2 DEF Seen
  <2> QED
    BY <1>1, <1>2, <1>4, <2>1 DEF Seen, Existing, Waiting, Offers, Boxes, Results, Reading, Result
<1>6. /\ Existing' = Existing \cup {n} /\ Waiting' = Waiting \ {n}
      /\ Offers' = [Offers EXCEPT ![n] = None]
      /\ Boxes' = [Boxes EXCEPT ![n] = None]
      /\ Results' = [Results EXCEPT ![n] = None]
  <2> HIDE DEF n
  <2> QED
    BY <1>3, <1>5, OneChanges
<1>7. /\ Offers = [id \in Ids |-> Offers[id]] /\ Boxes = [id \in Ids |-> Boxes[id]]
      /\ Results = [id \in Ids |-> Results[id]]
  BY DEF Offers, Boxes, Results
<1>8. Waiting' = Waiting /\ Offers' = Offers /\ Boxes' = Boxes /\ Results' = Results
  BY <1>5, <1>6, <1>7
<1>9. Meeting!Appear(n)
  BY <1>1, <1>5, <1>6, <1>8 DEF Meeting!Appear
<1> QED
  BY <1>5, <1>9 DEF Meeting!Next

(* Every send meets exactly one receive of the environment it names, and   *)
(* that receive returns its message, although kernel and library handle    *)
(* the message field by field and slots are used again; a page is where    *)
(* the slot has asked for one last, if it ever has.                        *)
THEOREM Implementation == Spec => ImplementsRendezvous
<1> USE DEF Meeting!rvars
<1>1. IInv /\ IInv' /\ [Next]_vars => [Meeting!Next]_(Meeting!rvars)
  <2> SUFFICES ASSUME IInv, IInv', [Next]_vars PROVE [Meeting!Next]_(Meeting!rvars)
    OBVIOUS
  <2>1. CASE UNCHANGED vars
    <3>1. UNCHANGED <<Existing, Offers, Waiting, Boxes, Results, env_ipc_dstva, monitor>>
      BY <2>1 DEF vars, kernVars, ipcVars, userVars, Existing, Waiting, Offers, Boxes, Results,
                  Exists, Offer, EnvId, Reading, MessageIn, Box, Result
    <3> QED
      BY <3>1
  <2>2. ASSUME NEW e \in Slots, Begin(e) PROVE Meeting!Next
    BY <2>2, CallSendMeets, RecvMeets DEF Begin
  <2>3. ASSUME NEW e \in Slots, Continue(e) PROVE [Meeting!Next]_(Meeting!rvars)
    BY <2>3, PanicMeets, DeliverMeets, ReadsAreSilent, ReturnMeets DEF Continue
  <2> QED
    BY <2>1, <2>2, <2>3, DieMeets, AllocMeets DEF Next
<1> QED
  BY <1>1, InitMeets, Invariance, PTL DEF Spec, ImplementsRendezvous, Meeting!Spec
=============================================================================
