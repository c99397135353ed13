--------------------------------- MODULE MCFork ---------------------------------
(* Two slots and a program with data, a shared page and a stack.     *)
EXTENDS Fork

CONSTANTS a, b    \* slots

MCKind == <<"w", "share", "w">>
=============================================================================
