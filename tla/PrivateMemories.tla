----------------------------- MODULE PrivateMemories -----------------------------
(***************************************************************************)
(* What fork() and spawn() of TP 4 promise of memory: every environment    *)
(* has a memory of its own, a copy of its parent's or of the program's     *)
(* file, but for the addresses marked PTE_SHARE, where all have the same.  *)
(* A child has what it was given when it starts, address by address.       *)
(***************************************************************************)
CONSTANTS Envs, Addrs, Shared, Values, Fresh, None

VARIABLES mem,      \* what each environment has at each address
          running   \* the environments that have been started and not ended

Init ==
    /\ \E e \in Envs :
          /\ running = {e}
          /\ mem = [d \in Envs |-> [v \in Addrs |-> IF d = e THEN Fresh ELSE None]]

(* An environment writes: nobody else sees it, or everybody who shares it. *)
Write(e, v, x) ==
    /\ UNCHANGED running
    /\ mem' = [d \in Envs |->
                 IF d = e \/ (v \in Shared /\ mem[d][v] # None)
                 THEN [mem[d] EXCEPT ![v] = x] ELSE mem[d]]

(* A child that has not started is given a copy, or a page of a program. *)
Give(c, v, x) ==
    /\ UNCHANGED running
    /\ mem[c][v] = None
    /\ mem' = [mem EXCEPT ![c][v] = x]

Start(c) ==
    /\ running' = running \cup {c}
    /\ \A v \in Addrs : mem[c][v] # None
    /\ UNCHANGED mem

End(e) ==
    /\ running' = running \ {e}
    /\ mem' = [mem EXCEPT ![e] = [v \in Addrs |-> None]]

Next ==
    \/ UNCHANGED <<mem, running>>
    \/ \E e \in Envs : End(e)
    \/ \E c \in Envs \ running :
          \/ Start(c)
          \/ \E v \in Addrs, p \in running : Give(c, v, mem[p][v])
          \/ \E v \in Addrs \ Shared : Give(c, v, Fresh)
    \/ \E e \in running, v \in Addrs, x \in Values : Write(e, v, x)

Spec == Init /\ [][Next]_<<mem, running>>
=============================================================================
