--------------------------- MODULE MCLibPthread -----------------------------
(* Instances of LibPthread: symmetry of the threads.                         *)
EXTENDS LibPthread, TLC

Symmetry == Permutations(Workers)
=============================================================================
