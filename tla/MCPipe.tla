--------------------------------- MODULE MCPipe ---------------------------------
(* A pipe between the environment that made it and one that inherits it.   *)
EXTENDS Pipe

CONSTANTS a, b    \* the environments
=============================================================================
