--------------------------- MODULE MCOrderRouting ---------------------------
(* Instances of OrderRouting for TLC. *)
EXTENDS OrderRouting, TLC

Symmetric == Permutations(Routers) \cup Permutations(Jobs) \cup Permutations(Instances)
All == Operations
=============================================================================
