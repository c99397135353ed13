------------------------------ MODULE Computations ------------------------------
(***************************************************************************)
(* What a program may rely on: its registers are its own.  They change     *)
(* while it executes, by its own instructions; when a system call that it  *)
(* made returns, with the result of that call in eax; and when the one     *)
(* that made it, or itself, loads others.  A child starts with those of    *)
(* its parent and eax 0.  That a program is interrupted, moved to another  *)
(* processor or has a page fault does not show.                            *)
(***************************************************************************)
CONSTANTS Envs, Values, Results, Nobody, Error, CallNo

VARIABLES regs,      \* the registers of each program; Nobody in a free slot
          runs,      \* those that execute their instructions
          placed,    \* those that are on a processor
          parent, newborn, recving, dying

who  == <<parent, newborn, recving, dying>>
vars == <<regs, runs, placed, parent, newborn, recving, dying>>

Program == [eax : Results, reg : Values, eip : {"program"}, intr : BOOLEAN]

Init ==
    /\ \E e \in Envs, f \in Program : regs = [k \in Envs |-> IF k = e THEN f ELSE Nobody]
    /\ runs = {} /\ placed = {} /\ parent = [k \in Envs |-> 0]
    /\ newborn = {} /\ recving = {} /\ dying = {}

Alive(e)   == regs[e] # Nobody
Child(e, k) == parent[k] = e /\ Alive(k)

-----------------------------------------------------------------------------
(* Its own instructions, until it comes to a system call. *)

Executes(e) == e \in runs /\ regs[e].eip = "program" /\ UNCHANGED <<runs, placed, who>>

Work(e) == Executes(e) /\ \E v \in Values : regs' = [regs EXCEPT ![e] = [regs[e] EXCEPT !.reg = v]]

Ask(e) ==
    /\ Executes(e)
    /\ regs' = [regs EXCEPT ![e] = [regs[e] EXCEPT !.eax = CallNo, !.eip = "call"]]

(* It goes on where it stopped. *)
Enter(e) == e \in placed \ runs /\ runs' = runs \cup {e} /\ UNCHANGED <<regs, placed, who>>

(* A processor is in the kernel: its program stops, and others that do not *)
(* wait take its place.                                                    *)
Stops(e) ==
    /\ runs' = runs \ {e} /\ runs' \subseteq placed'
    /\ placed' \subseteq {k \in Envs : regs'[k] # Nobody} \ (newborn' \cup recving')

Interrupt(e) == Stops(e) /\ UNCHANGED <<regs, who>>

-----------------------------------------------------------------------------
(* System calls *)

Asked(e)     == e \in runs \ dying /\ regs[e].eip = "call" /\ Stops(e)
Answer(e, r) == [regs[e] EXCEPT !.eax = r, !.eip = "program"]
Returns(e, r) == regs' = [regs EXCEPT ![e] = Answer(e, r)]

Yield(e) == Asked(e) /\ Returns(e, regs[e].eax) /\ UNCHANGED who

Fork(e, k) ==
    /\ Asked(e) /\ ~Alive(k)
    /\ regs' = [regs EXCEPT ![e] = Answer(e, k), ![k] = Answer(e, 0)]
    /\ parent' = [parent EXCEPT ![k] = e] /\ newborn' = newborn \cup {k}
    /\ UNCHANGED <<recving, dying>>

ForkFails(e) ==
    Asked(e) /\ (\A k \in Envs : Alive(k)) /\ Returns(e, Error) /\ UNCHANGED who

Refused(e, k) ==
    /\ Asked(e) /\ k # e /\ ~Child(e, k) /\ Returns(e, Error) /\ UNCHANGED who

(* A program that waits, or itself, goes on with what is loaded.  One on   *)
(* another processor may be past taking it, or have taken half.            *)
Load(e, k) ==
    /\ Asked(e) /\ (k = e \/ Child(e, k)) /\ UNCHANGED who
    /\ \E f \in Program :
        /\ regs' = [regs EXCEPT ![e] = Answer(e, 0), ![k] = f]
        /\ (k = e \/ k \notin placed) => f.eax = 0 /\ f.reg = regs[e].reg

LoadLost(e, k) ==
    Asked(e) /\ Child(e, k) /\ k \in placed /\ Returns(e, 0) /\ UNCHANGED who

Start(e, k) ==
    /\ Asked(e) /\ Child(e, k) /\ k \in newborn
    /\ Returns(e, 0) /\ newborn' = newborn \ {k} /\ UNCHANGED <<parent, recving, dying>>

Receive(e) ==
    /\ Asked(e) /\ Returns(e, 0)
    /\ recving' = recving \cup {e} /\ UNCHANGED <<parent, newborn, dying>>

Send(e, k) ==
    /\ Asked(e) /\ Returns(e, IF k \in recving THEN 0 ELSE Error)
    /\ recving' = recving \ {k} /\ UNCHANGED <<parent, newborn, dying>>

Gone(e) ==
    /\ parent' = [k \in Envs |-> IF k = e \/ parent[k] = e THEN 0 ELSE parent[k]]
    /\ newborn' = newborn \ {e} /\ recving' = recving \ {e} /\ dying' = dying \ {e}

Kill(e, k) ==
    /\ Asked(e) /\ Child(e, k) /\ k # e
    /\ \/ /\ k \in placed /\ Returns(e, 0)
          /\ dying' = dying \cup {k} /\ UNCHANGED <<parent, newborn, recving>>
       \/ /\ k \notin placed /\ Gone(k)
          /\ regs' = [regs EXCEPT ![e] = Answer(e, 0), ![k] = Nobody]

(* By its own call, or killed. *)
End(e) ==
    /\ e \in dying \/ (e \in runs /\ regs[e].eip = "call")
    /\ regs' = [regs EXCEPT ![e] = Nobody] /\ Stops(e) /\ Gone(e)

Next == \E e \in Envs :
    \/ Work(e) \/ Ask(e) \/ Enter(e) \/ Interrupt(e)
    \/ Yield(e) \/ ForkFails(e) \/ Receive(e) \/ End(e)
    \/ \E k \in Envs : Fork(e, k) \/ Refused(e, k) \/ Load(e, k) \/ LoadLost(e, k)
                       \/ Start(e, k) \/ Send(e, k) \/ Kill(e, k)

Spec == Init /\ [][Next]_vars
=============================================================================
