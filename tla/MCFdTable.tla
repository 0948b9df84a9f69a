------------------------------ MODULE MCFdTable -----------------------------
(* Instances of FdTable; the constants are given in the configuration.      *)
EXTENDS FdTable, TLC
Symmetry == Permutations(Threads) \union Permutations(Objects)
=============================================================================
