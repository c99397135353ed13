------------------------------ MODULE ConsoleInput ------------------------------
(***************************************************************************)
(* What the console promises to those who read it: a queue of characters,  *)
(* each of which goes to one reader, in the order in which they came in.   *)
(* It holds CONSBUFSIZE - 1 of them; one more, and all that wait are lost. *)
(***************************************************************************)
EXTENDS Naturals, Sequences

CONSTANTS Readers, Chars, CONSBUFSIZE, Nothing

VARIABLES queue,   \* the characters that wait
          has      \* the character each reader has been given and not used

vars == <<queue, has>>

Init == queue = << >> /\ has = [r \in Readers |-> Nothing]

Put(c) ==
    /\ queue' = IF Len(queue) = CONSBUFSIZE - 1 THEN << >> ELSE Append(queue, c)
    /\ UNCHANGED has

Get(r) ==
    /\ queue # << >> /\ has[r] = Nothing
    /\ queue' = Tail(queue) /\ has' = [has EXCEPT ![r] = Head(queue)]

(* It uses the character, or is destroyed with it. *)
Use(r) ==
    /\ has[r] # Nothing /\ has' = [has EXCEPT ![r] = Nothing]
    /\ UNCHANGED queue

Next ==
    \/ \E c \in Chars : Put(c)
    \/ \E r \in Readers : Get(r) \/ Use(r)

Spec == Init /\ [][Next]_vars
=============================================================================
