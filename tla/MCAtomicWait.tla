---------------------------- MODULE MCAtomicWait ----------------------------
(* Instances of AtomicWait.                                                *)
EXTENDS AtomicWait, TLC

Symmetry == Permutations(Threads)
=============================================================================
