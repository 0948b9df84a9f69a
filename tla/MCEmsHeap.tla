------------------------------ MODULE MCEmsHeap ------------------------------
(* Instances of EmsHeap.                                                     *)
EXTENDS EmsHeap

\* gc_migrate leaves the heads of the lists where they are: a heap that grows
\* with a chunk in one of them is reported as corrupted by the next operation
\* that looks at it.
ListsEmpty(h) == \A i \in DOMAIN h.normal : h.normal[i] = Null
Anytime(h) == TRUE
=============================================================================
