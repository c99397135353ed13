--------------------------------- MODULE MCPMap ---------------------------------
(* Two environments with two addresses each; the processors are alike.     *)
EXTENDS PMap, TLC

CONSTANTS p0, p1,         \* processors
          e0, e1,         \* environments
          v0, v1,         \* addresses
          d0, d1          \* page directory entries

TwoTables == v0 :> d0 @@ v1 :> d1

(* No action and no property singles out a processor, an environment or an *)
(* address with its table; only the start does.                            *)
Swapped == v0 :> v1 @@ v1 :> v0 @@ d0 :> d1 @@ d1 :> d0
Alike   == Permutations(CPUS) \cup Permutations(Envs) \cup {Swapped}
=============================================================================
