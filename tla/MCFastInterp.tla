---------------------------- MODULE MCFastInterp ----------------------------
(* Instances of FastInterp; the constants are given in the configuration.  *)
EXTENDS FastInterp
Symmetry == Permutations(Values)
=============================================================================
