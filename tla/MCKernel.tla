-------------------------------- MODULE MCKernel --------------------------------
(* The kernel on small tables of environments.  Environments are numbers   *)
(* (the scan order matters) and the boot processor is not like the others, *)
(* so no symmetry is used.                                                 *)
EXTENDS Kernel, TLC

CONSTANTS p0, p1    \* the processors
=============================================================================
