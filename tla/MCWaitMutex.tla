---------------------------- MODULE MCWaitMutex -----------------------------
(* Instances of WaitMutex; the constants are given in the configuration.   *)
EXTENDS WaitMutex
=============================================================================
