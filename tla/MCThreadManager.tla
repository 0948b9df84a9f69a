--------------------------- MODULE MCThreadManager --------------------------
(* Instances of ThreadManager: what each thread's wasm code may do.        *)
EXTENDS ThreadManager, TLC

\* Every operation but those that raise or clear an exception; the main
\* function does not return, so the cluster outlives detached threads.
MayThreads == [t \in Threads |-> IF t = Main
                                 THEN {"create", "join", "detach", "cancel"}
                                 ELSE {"create", "join", "detach", "cancel", "return"}]

\* The main function returns while its threads create others, in the exec_envs
\* of those that have ended, and trap.
MayProcess == [t \in Threads |-> IF t = Main THEN {"create", "join", "clear", "return"}
                                             ELSE {"create", "trap", "return"}]

\* Main creates, cancels and raises ("wasi proc exit"); its threads cancel each
\* other or run for ever.
MayEnd == [t \in Threads |-> IF t = Main THEN {"create", "join", "cancel", "trap"}
                                         ELSE {"cancel", "return"}]

MayTrap == [t \in Threads |-> {"create", "trap"}]

MayDetach == [t \in Threads |-> {"create", "detach", "return"}]

\* Main cancels its threads, which may have returned.
MayCancel == [t \in Threads |-> IF t = Main THEN {"create", "cancel"} ELSE {"return"}]

MayClear == [t \in Threads |-> {"create", "cancel", "clear"}]

Symmetry == Permutations(Workers) \union Permutations(Envs \ {MainEnv})
=============================================================================
