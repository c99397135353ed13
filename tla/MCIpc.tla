---------------------------------- MODULE MCIpc ----------------------------------
(* Two environments write to a third, whose slot is used again.            *)
EXTENDS Ipc

CONSTANTS a, b, c,   \* slots
          p, q       \* addresses
=============================================================================
