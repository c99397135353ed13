------------------------------- MODULE ByteStream -------------------------------
(***************************************************************************)
(* What lib/pipe.c of TP 4 promises of the bytes of a pipe with one reader *)
(* and one writer: they come out in the order they went in, each once, and *)
(* never more than Capacity of them are under way.                         *)
(***************************************************************************)
EXTENDS Naturals, Sequences

CONSTANTS Bytes, Capacity

VARIABLES written,   \* every byte the writer has put in, in order
          taken      \* every byte the reader has got, in order

svars == <<written, taken>>

Init == written = << >> /\ taken = << >>

(* One turn of the loop of devpipe_write(). *)
Put(b) ==
    /\ Len(written) - Len(taken) < Capacity
    /\ written' = Append(written, b)
    /\ UNCHANGED taken

(* One turn of the loop of devpipe_read(). *)
Get ==
    /\ Len(taken) < Len(written)
    /\ taken' = Append(taken, written[Len(taken) + 1])
    /\ UNCHANGED written

Next == Get \/ \E b \in Bytes : Put(b)

Spec == Init /\ [][Next]_svars
=============================================================================
