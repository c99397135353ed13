-------------------------------- MODULE OpenFiles --------------------------------
(***************************************************************************)
(* What the file server of TP 4 (fs/serv.c) and the calls of lib/file.c    *)
(* and lib/fd.c promise of open files: open() makes a new one, at offset   *)
(* 0, dup() and fork() share it with its offset, each read() or write()    *)
(* goes on where the last one has ended, and it stays open until nobody    *)
(* holds it.                                                               *)
(***************************************************************************)
EXTENDS Naturals

CONSTANTS Clients, Files, OpenIds, Offsets, Closed

VARIABLES file,     \* the file of each open file, or Closed
          offset,   \* where it stands
          holds     \* the descriptors each client has of it

ovars == <<file, offset, holds>>

Held(id) == \E c \in Clients : holds[c][id] > 0

Init ==
    /\ file = [id \in OpenIds |-> Closed] /\ offset = [id \in OpenIds |-> 0]
    /\ holds = [c \in Clients |-> [id \in OpenIds |-> 0]]

(* The identifier is not in use. *)
Open(c, id, f) ==
    /\ ~Held(id)
    /\ file' = [file EXCEPT ![id] = f]
    /\ offset' = [offset EXCEPT ![id] = 0]
    /\ holds' = [holds EXCEPT ![c][id] = 1]

(* read(), write() of n bytes, for some client that holds it. *)
Move(id, n) ==
    /\ Held(id)
    /\ offset' = [offset EXCEPT ![id] = @ + n]
    /\ UNCHANGED <<file, holds>>

Seek(id) ==
    /\ Held(id)
    /\ offset' = [offset EXCEPT ![id] = 0]
    /\ UNCHANGED <<file, holds>>

Dup(c, id) ==
    /\ holds[c][id] > 0
    /\ holds' = [holds EXCEPT ![c][id] = @ + 1]
    /\ UNCHANGED <<file, offset>>

Fork(c, k) ==
    /\ holds' = [holds EXCEPT ![k] = holds[c]]
    /\ UNCHANGED <<file, offset>>

(* Somebody gives up descriptors; what nobody holds any more is forgotten. *)
Drop ==
    /\ \E c \in Clients :
          \/ holds' = [holds EXCEPT ![c] = [id \in OpenIds |-> 0]]
          \/ \E id \in OpenIds : /\ holds[c][id] > 0
                                 /\ holds' = [holds EXCEPT ![c][id] = @ - 1]
    /\ LET kept(id) == \E c \in Clients : holds'[c][id] > 0 IN
          /\ file' = [id \in OpenIds |-> IF kept(id) THEN file[id] ELSE Closed]
          /\ offset' = [id \in OpenIds |-> IF kept(id) THEN offset[id] ELSE 0]

(* A step that changes nothing is allowed anyhow; it is named here because *)
(* most steps of an implementation are such, and this is quick to see.     *)
Next ==
    \/ UNCHANGED ovars
    \/ Drop
    \/ \E c, k \in Clients : Fork(c, k)
    \/ \E id \in OpenIds :
          \/ \E n \in Offsets : Move(id, n)
          \/ Seek(id)
          \/ \E c \in Clients : Dup(c, id)
          \/ \E c \in Clients, f \in Files : Open(c, id, f)

Spec == Init /\ [][Next]_ovars
=============================================================================
