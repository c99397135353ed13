------------------------------ MODULE AddressSpaces ------------------------------
(***************************************************************************)
(* What kern/pmap.c and the page system calls of TP 4 promise: every       *)
(* environment has a partial map from user addresses to pages.  A page     *)
(* given out as new is nobody's, sharing only copies a mapping that is     *)
(* there, and the right to write comes from an allocation or from a        *)
(* mapping that has it.  No counts, no free list, no page tables.          *)
(***************************************************************************)
CONSTANTS Envs, BootEnv, Pages, VAs, BootVa, NoPage

VARIABLES space,      \* the page at each address of each environment
          writable,   \* the pairs <<environment, address>> that may be written
          alive       \* the environments that exist

avars == <<space, writable, alive>>

Init ==
    /\ \E p \in Pages :
          space = [x \in Envs \X VAs |-> IF x = <<BootEnv, BootVa>> THEN p ELSE NoPage]
    /\ writable = {<<BootEnv, BootVa>>}
    /\ alive = {BootEnv}

SetWritable(x, w) == writable' = IF w THEN writable \cup {x} ELSE writable \ {x}

(* sys_page_alloc() *)
Allocate(x, p, w) ==
    /\ x[1] \in alive
    /\ \A y \in Envs \X VAs : space[y] # p
    /\ space' = [space EXCEPT ![x] = p]
    /\ SetWritable(x, w) /\ UNCHANGED alive

(* sys_page_map() and sys_ipc_try_send() *)
Map(x, y, w) ==
    /\ x[1] \in alive /\ y[1] \in alive
    /\ space[x] # NoPage /\ (w => x \in writable)
    /\ space' = [space EXCEPT ![y] = space[x]]
    /\ SetWritable(y, w) /\ UNCHANGED alive

(* sys_page_unmap() *)
Unmap(x) ==
    /\ space' = [space EXCEPT ![x] = NoPage]
    /\ SetWritable(x, FALSE) /\ UNCHANGED alive

(* env_alloc() *)
Create(e) ==
    /\ e \notin alive
    /\ alive' = alive \cup {e} /\ UNCHANGED <<space, writable>>

(* env_free() *)
Destroy(e) ==
    /\ space' = [x \in Envs \X VAs |-> IF x[1] = e THEN NoPage ELSE space[x]]
    /\ writable' = {x \in writable : x[1] # e}
    /\ alive' = alive \ {e}

Next ==
    \/ \E x \in Envs \X VAs : \E w \in BOOLEAN :
          \/ \E p \in Pages : Allocate(x, p, w)
          \/ \E y \in Envs \X VAs : Map(x, y, w)
    \/ \E x \in Envs \X VAs : Unmap(x)
    \/ \E e \in Envs : Create(e) \/ Destroy(e)

Spec == Init /\ [][Next]_avars
=============================================================================
