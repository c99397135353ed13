------------------------------ MODULE MCFileServer ------------------------------
(* Two clients, one the child of the other, that open two files.           *)
EXTENDS FileServer

CONSTANTS a, b,   \* clients
          f, g    \* files

MCFileOf == [c \in {a, b} |-> IF c = a THEN f ELSE g]
=============================================================================
