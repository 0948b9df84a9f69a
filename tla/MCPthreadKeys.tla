--------------------------- MODULE MCPthreadKeys ----------------------------
(* Instances of PthreadKeys; the constants are given in the configurations. *)
EXTENDS PthreadKeys, TLC
Symmetry == Permutations(Workers)
=============================================================================
