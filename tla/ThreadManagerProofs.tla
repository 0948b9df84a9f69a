------------------------ MODULE ThreadManagerProofs ------------------------
(***************************************************************************)
(* What is proved of ThreadManager for any number of threads and           *)
(* exec_envs, and whatever the wasm code does.                             *)
(***************************************************************************)
EXTENDS ThreadManager, WellFoundedInduction, TLAPS

USE DEF At, Goto, NoLocks, ClusterFree, UnlockList, LockList

USE DEF threadVars, opVars, stackVars, envVars, clusterVars, walkVars

-----------------------------------------------------------------------------
(* Type correctness                                                        *)

\* A join or cancel past its search has an operand: it was in the list.
OperandPCs  == {"join_count", "cancel_flag"}
OperandType == \A t \in Threads : pc[t] \in OperandPCs => arg[t] \in Envs

\* The steps of a thread that return to wasm or leave it go to a known place.
LEMMA ReturnType ==
    ASSUME NEW t \in Threads, pc \in [Threads -> PCs], Return(t) \/ LeaveWasm(t)
    PROVE  /\ pc' \in [Threads -> PCs]
           /\ pc'[t] \notin OperandPCs
           /\ \A u \in Threads : u # t => pc'[u] = pc[u]
BY DEF Return, LeaveWasm, PCs, OperandPCs

TypeInv == TypeOK /\ OperandType

LEMMA TypeInit == Init => TypeInv
<1> SUFFICES ASSUME Init PROVE TypeInv
  OBVIOUS
<1> USE DEF Init
<1>1. pc \in [Threads -> PCs] /\ OperandType
  BY DEF PCs, OperandType, OperandPCs
<1>2. /\ env \in [Threads -> Envs \union {None}]
      /\ handle \in [Envs -> Threads \union {None}]
      /\ res \in [Threads -> {"none", "joinable", "joining", "released", "invalid"}]
  BY MainAssumption
<1>3. seg \in [Threads -> Segments \union {0}] /\ aux \in [Threads -> Segments \union {0}]
  OBVIOUS
<1> QED
  BY <1>1, <1>2, <1>3, MainAssumption DEF TypeInv, TypeOK

LEMMA TypeApp ==
    ASSUME TypeInv, NEW t \in Threads, App(t)
    PROVE  TypeInv'
<1> USE DEF TypeInv, TypeOK, OperandType, OperandPCs
<1>1. CASE AppCreate(t)
  BY <1>1 DEF AppCreate, Begin, PCs
<1>2. CASE AppJoin(t)
  BY <1>2 DEF AppJoin, AppTarget, Begin, Children, Workers, PCs
<1>3. CASE AppDetach(t)
  BY <1>3 DEF AppDetach, AppTarget, Begin, Known, Workers, PCs
<1>4. CASE AppCancel(t)
  BY <1>4 DEF AppCancel, AppTarget, Begin, Known, Workers, PCs
<1>5. CASE AppTrap(t)
  BY <1>5 DEF AppTrap, AppSetException, Begin, PCs
<1>6. CASE AppClear(t)
  BY <1>6 DEF AppClear, AppSetException, Begin, PCs
<1>7. CASE AppReturn(t)
  BY <1>7, ReturnType DEF AppReturn
<1> QED
  BY <1>1, <1>2, <1>3, <1>4, <1>5, <1>6, <1>7 DEF App

LEMMA TypeCreate ==
    ASSUME TypeInv, NEW t \in Threads,
           AllocateAux(t) \/ LockSelf(t) \/ CreateFails(t) \/ CreateThread(t)
             \/ StartRoutine(t) \/ CreateReturns(t) \/ UndoAux(t)
    PROVE  TypeInv'
<1> USE DEF TypeInv, TypeOK, OperandType, OperandPCs
<1>1. CASE AllocateAux(t)
  <2>1. pc' \in [Threads -> PCs] /\ OperandType'
    BY <1>1, ReturnType DEF AllocateAux, PCs
  <2>2. stack_segment_occupied' \subseteq Segments /\ aux' \in [Threads -> Segments \union {0}]
    BY <1>1 DEF AllocateAux, FreeSegments
  <2> QED
    BY <1>1, <2>1, <2>2 DEF AllocateAux
<1>2. CASE LockSelf(t)
  BY <1>2 DEF LockSelf, PCs
<1>3. CASE CreateFails(t)
  BY <1>3 DEF CreateFails, PCs
<1>4. CASE CreateThread(t)
  BY <1>4 DEF CreateThread, KeepCluster, PCs
<1>5. CASE StartRoutine(t)
  BY <1>5 DEF StartRoutine, PCs
<1>6. CASE CreateReturns(t)
  BY <1>6, ReturnType DEF CreateReturns
<1>7. CASE UndoAux(t)
  BY <1>7, ReturnType DEF UndoAux, FreeAux
<1> QED
  BY <1>1, <1>2, <1>3, <1>4, <1>5, <1>6, <1>7

LEMMA TypeAcquire ==
    ASSUME TypeInv, NEW t \in Threads, NEW from, NEW to \in PCs \ OperandPCs, AcquireList(t, from, to)
    PROVE  TypeInv'
BY DEF TypeInv, TypeOK, OperandType, AcquireList

LEMMA TypeJoin ==
    ASSUME TypeInv, NEW t \in Threads,
           JoinLock(t) \/ JoinFind(t) \/ JoinCount(t) \/ JoinNative(t) \/ Joined(t)
    PROVE  TypeInv'
<1> USE DEF TypeInv, TypeOK, OperandType, OperandPCs
<1>1. CASE JoinLock(t)
  BY <1>1, TypeAcquire DEF JoinLock, PCs
<1>2. CASE JoinFind(t)
  BY <1>2, ReturnType DEF JoinFind, PCs
<1>3. CASE JoinCount(t)
  BY <1>3 DEF JoinCount, PCs
<1>4. CASE JoinNative(t)
  BY <1>4, ReturnType DEF JoinNative, PCs
<1>5. CASE Joined(t)
  BY <1>5, ReturnType DEF Joined
<1> QED
  BY <1>1, <1>2, <1>3, <1>4, <1>5

LEMMA TypeSignal ==
    ASSUME TypeInv, NEW t \in Threads,
           DetachLock(t) \/ DetachFind(t) \/ CancelLock(t) \/ CancelFreed(t)
             \/ CancelFind(t) \/ CancelFlag(t) \/ SearchLock(t) \/ SearchFind(t) \/ SpreadBegin(t)
             \/ SpreadVisit(t) \/ SpreadEnd(t)
    PROVE  TypeInv'
<1> USE DEF TypeInv, TypeOK, OperandType, OperandPCs
<1>1. CASE DetachLock(t)
  BY <1>1, TypeAcquire DEF DetachLock, PCs
<1>2. CASE DetachFind(t)
  BY <1>2, ReturnType DEF DetachFind, NativeDetach
<1>3. CASE CancelLock(t)
  BY <1>3, TypeAcquire DEF CancelLock, PCs
<1>4. CASE CancelFind(t) \/ CancelFreed(t)
  BY <1>4, ReturnType DEF CancelFind, CancelFreed, PCs
<1>5. CASE CancelFlag(t)
  BY <1>5, ReturnType DEF CancelFlag
<1>6. CASE SearchLock(t)
  BY <1>6, TypeAcquire DEF SearchLock, PCs
<1>7. CASE SearchFind(t)
  BY <1>7 DEF SearchFind, PCs
<1>8. CASE SpreadBegin(t)
  BY <1>8 DEF SpreadBegin, SpreadTargets, PCs
<1>9. CASE SpreadVisit(t)
  BY <1>9 DEF SpreadVisit
<1>10. CASE SpreadEnd(t)
  BY <1>10, ReturnType DEF SpreadEnd
<1> QED
  BY <1>1, <1>2, <1>3, <1>4, <1>5, <1>6, <1>7, <1>8, <1>9, <1>10

LEMMA TypeEnd ==
    ASSUME TypeInv, NEW t \in Threads,
           BranchCheck(t) \/ CallCheck(t) \/ ExitAux(t) \/ ExitLock(t)
             \/ ExitCluster(t) \/ ExitNative(t) \/ WaitAll(t) \/ Destroy(t)
    PROVE  TypeInv'
<1> USE DEF TypeInv, TypeOK, OperandType, OperandPCs
<1>1. CASE BranchCheck(t)
  BY <1>1, ReturnType DEF BranchCheck
<1>2. CASE CallCheck(t)
  BY <1>2, ReturnType DEF CallCheck, PCs
<1>3. CASE ExitAux(t)
  BY <1>3 DEF ExitAux, FreeAux, PCs
<1>4. CASE ExitLock(t)
  BY <1>4, TypeAcquire DEF ExitLock, PCs
<1>5. CASE ExitCluster(t)
  BY <1>5 DEF ExitCluster, NativeDetach, PCs
<1>6. CASE ExitNative(t)
  BY <1>6 DEF ExitNative, PCs
<1>7. CASE WaitAll(t)
  <2>1. pc' \in [Threads -> PCs] /\ pc'[t] \notin OperandPCs
    BY <1>7 DEF WaitAll, PCs
  <2>2. arg' \in [Threads -> Envs \union {None}] /\ \A u \in Threads : u # t => arg'[u] = arg[u]
    BY <1>7 DEF WaitAll
  <2>3. processing' \in BOOLEAN /\ proc_nodes' \subseteq Envs \union {None}
    <3>1. proc_nodes \union {arg[t]} \subseteq Envs \union {None}
      OBVIOUS
    <3>2. proc_nodes' \in {{}, proc_nodes \union {arg[t]}} /\ processing' \in BOOLEAN
      BY <1>7 DEF WaitAll
    <3> QED
      BY <3>1, <3>2
  <2> QED
    BY <1>7, <2>1, <2>2, <2>3 DEF WaitAll
<1>8. CASE Destroy(t)
  BY <1>8 DEF Destroy, PCs
<1> QED
  BY <1>1, <1>2, <1>3, <1>4, <1>5, <1>6, <1>7, <1>8

LEMMA TypeStep == TypeInv /\ [Next]_vars => TypeInv'
<1> SUFFICES ASSUME TypeInv, [Next]_vars PROVE TypeInv'
  OBVIOUS
<1>1. CASE UNCHANGED vars
  BY <1>1 DEF vars, TypeInv, TypeOK, OperandType
<1>2. ASSUME NEW t \in Threads, App(t) PROVE TypeInv'
  BY <1>2, TypeApp
<1>3. ASSUME NEW t \in Threads, Runtime(t) PROVE TypeInv'
  BY <1>3, TypeCreate, TypeJoin, TypeSignal, TypeEnd DEF Runtime
<1> QED
  BY <1>1, <1>2, <1>3 DEF Next, AllEnded

\* The state of the cluster and of its threads stays well typed.
THEOREM TypeCorrect == Spec => []TypeOK
<1>1. TypeInv => TypeOK
  BY DEF TypeInv
<1> QED
  BY <1>1, TypeInit, TypeStep, PTL DEF Spec

-----------------------------------------------------------------------------
(* The locking protocol                                                    *)

Body == LocksMatch /\ EnvsMatch /\ CreatorWaits /\ OperandsListed

Creation == {"starting", "handle_wait", "handle_set"}
Ended    == {"idle", "exit_native", "done", "finished"}

\* A step in which one running thread moves, outside of a creation, and no
\* exec_env comes or goes keeps the protocol if the locks follow the thread
\* and what it has looked up is in the list.
LEMMA QuietStep ==
    ASSUME TypeInv, Body, NEW t \in Threads, NEW q \in PCs \ (Creation \union Ended),
           pc[t] \notin Creation \union Ended, pc' = [pc EXCEPT ![t] = q],
           UNCHANGED <<env, parent, alloc, handle, exec_env_list>>,
           \A u \in Threads : u # t => arg'[u] = arg[u],
           \A u \in Threads :
               /\ cluster_list_lock' = u <=>
                    IF u = t THEN q \in ListHolders ELSE cluster_list_lock = u
               /\ cluster_lock' = u <=>
                    IF u = t THEN q \in ClusterHolders ELSE cluster_lock = u,
           q \in OperandPCs => arg'[t] \in exec_env_list,
           q = "spread" => todo' \subseteq exec_env_list,
           todo' # todo => q = "spread"
    PROVE  Body'
<1> USE DEF TypeInv, TypeOK, Body, Creation, Ended
<1>1. pc'[t] = q /\ \A u \in Threads : u # t => pc'[u] = pc[u]
  OBVIOUS
<1>2. LocksMatch'
  BY <1>1 DEF LocksMatch
<1>3. EnvsMatch'
  BY <1>1 DEF EnvsMatch, Running
<1>4. CreatorWaits'
  BY <1>1 DEF CreatorWaits
<1>5. OperandsListed'
  <2>1. ASSUME NEW u \in Threads, pc'[u] = "spread" PROVE todo' \subseteq exec_env_list
    <3>1. CASE u = t
      BY <1>1, <2>1, <3>1
    <3>2. CASE u # t
      <4>1. pc[u] = "spread" /\ cluster_lock = u
        BY <1>1, <2>1, <3>2 DEF LocksMatch, ClusterHolders
      <4>2. q # "spread"
        BY <4>1, <3>2, <1>1, <1>2, <2>1 DEF LocksMatch, ClusterHolders
      <4> QED
        BY <4>1, <4>2 DEF OperandsListed
    <3> QED
      BY <3>1, <3>2
  <2>2. ASSUME NEW u \in Threads, pc'[u] \in OperandPCs PROVE arg'[u] \in exec_env_list
    BY <1>1, <2>2 DEF OperandsListed, OperandPCs
  <2> QED
    BY <2>1, <2>2 DEF OperandsListed, OperandPCs
<1> QED
  BY <1>2, <1>3, <1>4, <1>5

\* Return and LeaveWasm lead out of every critical section.
Outside == {"check", "wait_all", "exit_aux"}

LEMMA ReturnGoto ==
    ASSUME NEW t \in Threads, Return(t) \/ LeaveWasm(t)
    PROVE  \E q \in Outside : pc' = [pc EXCEPT ![t] = q]
BY DEF Return, LeaveWasm, Outside

\* The hypotheses of QuietStep about locks and operands, for a step that takes
\* no lock and keeps none.
LEMMA OutsideStep ==
    ASSUME TypeInv, Body, NEW t \in Threads,
           NEW q \in PCs \ (Creation \union Ended \union ListHolders \union ClusterHolders),
           pc[t] \notin Creation \union Ended, pc' = [pc EXCEPT ![t] = q],
           UNCHANGED <<env, parent, alloc, handle, exec_env_list, todo>>,
           \A u \in Threads : u # t => arg'[u] = arg[u],
           \/ pc[t] \in ListHolders /\ cluster_list_lock' = None
           \/ pc[t] \notin ListHolders /\ UNCHANGED cluster_list_lock,
           \/ pc[t] \in ClusterHolders /\ cluster_lock' = None
           \/ pc[t] \notin ClusterHolders /\ UNCHANGED cluster_lock
    PROVE  Body'
<1>1. \A u \in Threads :
        /\ cluster_list_lock' = u <=> IF u = t THEN FALSE ELSE cluster_list_lock = u
        /\ cluster_lock' = u <=> IF u = t THEN FALSE ELSE cluster_lock = u
  BY NoneAssumption DEF Body, LocksMatch
<1>2. q \notin OperandPCs /\ q # "spread"
  BY DEF OperandPCs, ListHolders, ClusterHolders
<1> QED
  BY <1>1, <1>2, QuietStep

\* Where the steps outside of critical sections lead.
OutsidePCs == {"app", "check", "aux_lock", "self_lock", "create_lock", "aux_undo",
               "join_list", "join_native", "joining", "detach_list", "cancel_list",
               "search_list", "spread_lock", "exit_aux", "exit_list", "wait_all", "destroy"}

LEMMA OutsideType ==
    /\ OutsidePCs \subseteq
         PCs \ (Creation \union Ended \union ListHolders \union ClusterHolders)
    /\ Outside \subseteq OutsidePCs
BY DEF OutsidePCs, Outside, PCs, Creation, Ended, ListHolders, ClusterHolders

LEMMA LockingApp ==
    ASSUME TypeInv, Body, NEW t \in Threads, App(t)
    PROVE  Body'
<1>1. /\ At(t, "app")
      /\ \E q \in OutsidePCs : pc' = [pc EXCEPT ![t] = q]
      /\ UNCHANGED <<env, parent, alloc, handle, exec_env_list, todo>>
      /\ UNCHANGED <<cluster_list_lock, cluster_lock>>
      /\ \A u \in Threads : u # t => arg'[u] = arg[u]
  <2> USE DEF TypeInv, TypeOK, OutsidePCs
  <2>1. CASE AppCreate(t)
    BY <2>1 DEF AppCreate, Begin
  <2>2. CASE AppJoin(t) \/ AppDetach(t) \/ AppCancel(t)
    BY <2>2 DEF AppJoin, AppDetach, AppCancel, AppTarget, Begin
  <2>3. CASE AppTrap(t) \/ AppClear(t)
    BY <2>3 DEF AppTrap, AppClear, AppSetException, Begin
  <2>4. CASE AppReturn(t)
    BY <2>4, ReturnGoto, OutsideType DEF AppReturn
  <2> QED
    BY <2>1, <2>2, <2>3, <2>4 DEF App
<1> QED
  BY <1>1, OutsideStep, OutsideType DEF Creation, Ended, ListHolders, ClusterHolders

\* The steps of the runtime that hold no lock before or after, or release one.
LEMMA LockingOutside ==
    ASSUME TypeInv, Body, NEW t \in Threads,
           \/ BranchCheck(t) \/ CallCheck(t) \/ AllocateAux(t) \/ LockSelf(t)
           \/ CreateFails(t) \/ UndoAux(t) \/ JoinNative(t) \/ Joined(t)
           \/ SpreadEnd(t) \/ ExitAux(t) \/ WaitAll(t)
           \/ JoinCount(t) \/ DetachFind(t) \/ CancelFlag(t) \/ SearchFind(t)
           \/ CancelFreed(t)
    PROVE  Body'
<1>1. /\ pc[t] \notin Creation \union Ended
      /\ \E q \in OutsidePCs : pc' = [pc EXCEPT ![t] = q]
      /\ UNCHANGED <<env, parent, alloc, handle, exec_env_list, todo>>
      /\ \A u \in Threads : u # t => arg'[u] = arg[u]
      /\ \/ pc[t] \in ListHolders /\ cluster_list_lock' = None
         \/ pc[t] \notin ListHolders /\ UNCHANGED cluster_list_lock
      /\ \/ pc[t] \in ClusterHolders /\ cluster_lock' = None
         \/ pc[t] \notin ClusterHolders /\ UNCHANGED cluster_lock
  <2> USE DEF TypeInv, TypeOK, Creation, Ended, ListHolders, ClusterHolders
  <2>1. CASE BranchCheck(t)
    BY <2>1, ReturnGoto, OutsideType DEF BranchCheck
  <2>2. CASE CallCheck(t)
    BY <2>2, ReturnGoto, OutsideType DEF CallCheck, OutsidePCs
  <2>3. CASE AllocateAux(t)
    BY <2>3, ReturnGoto, OutsideType DEF AllocateAux, OutsidePCs
  <2>4. CASE LockSelf(t)
    BY <2>4 DEF LockSelf, OutsidePCs
  <2>5. CASE CreateFails(t)
    BY <2>5 DEF CreateFails, OutsidePCs
  <2>6. CASE UndoAux(t)
    BY <2>6, ReturnGoto, OutsideType DEF UndoAux, FreeAux
  <2>7. CASE JoinNative(t)
    BY <2>7, ReturnGoto, OutsideType DEF JoinNative, OutsidePCs
  <2>8. CASE Joined(t)
    BY <2>8, ReturnGoto, OutsideType DEF Joined
  <2>9. CASE SpreadEnd(t)
    BY <2>9, ReturnGoto, OutsideType DEF SpreadEnd
  <2>10. CASE ExitAux(t)
    BY <2>10 DEF ExitAux, FreeAux, OutsidePCs
  <2>11. CASE WaitAll(t)
    <3>1. \E q \in OutsidePCs : pc' = [pc EXCEPT ![t] = q]
      BY <2>11 DEF WaitAll, OutsidePCs
    <3>2. \A u \in Threads : u # t => arg'[u] = arg[u]
      BY <2>11 DEF WaitAll
    <3> QED
      BY <2>11, <3>1, <3>2 DEF WaitAll
  <2>12. CASE JoinCount(t)
    BY <2>12 DEF JoinCount, OutsidePCs
  <2>13. CASE DetachFind(t)
    BY <2>13, ReturnGoto, OutsideType DEF DetachFind
  <2>14. CASE CancelFlag(t)
    BY <2>14, ReturnGoto, OutsideType DEF CancelFlag
  <2>15. CASE SearchFind(t)
    BY <2>15 DEF SearchFind, OutsidePCs
  <2>16. CASE CancelFreed(t)
    BY <2>16, ReturnGoto, OutsideType DEF CancelFreed
  <2> QED
    BY <2>1, <2>2, <2>3, <2>4, <2>5, <2>6, <2>7, <2>8, <2>9, <2>10, <2>11, <2>12,
       <2>13, <2>14, <2>15, <2>16
<1> QED
  BY <1>1, OutsideStep, OutsideType

\* A thread takes the list lock.
LEMMA LockingAcquire ==
    ASSUME TypeInv, Body, NEW t \in Threads,
           NEW from \in PCs \ (Creation \union Ended \union ListHolders \union ClusterHolders),
           NEW to \in ListHolders \ OperandPCs,
           AcquireList(t, from, to)
    PROVE  Body'
<1>1. /\ to \in PCs \ (Creation \union Ended)
      /\ to \notin ClusterHolders /\ to # "spread" /\ to \notin OperandPCs
  BY DEF ListHolders, ClusterHolders, Creation, Ended, PCs
<1>2. /\ pc[t] = from /\ pc' = [pc EXCEPT ![t] = to]
      /\ UNCHANGED <<env, parent, alloc, handle, exec_env_list, todo, arg>>
      /\ cluster_list_lock = None /\ cluster_list_lock' = t /\ UNCHANGED cluster_lock
  BY DEF AcquireList
<1>3. \A u \in Threads :
        /\ cluster_list_lock' = u <=> IF u = t THEN TRUE ELSE cluster_list_lock = u
        /\ cluster_lock' = u <=> IF u = t THEN FALSE ELSE cluster_lock = u
  BY <1>2, NoneAssumption DEF Body, LocksMatch
<1> QED
  BY <1>1, <1>2, <1>3, QuietStep

\* A search of the list finds the operand and keeps the list locked, or does
\* not find it and releases the lock.
LEMMA LockingFind ==
    ASSUME TypeInv, Body, NEW t \in Threads, JoinFind(t) \/ CancelFind(t)
    PROVE  Body'
<1> USE DEF TypeInv, TypeOK
<1>1. /\ pc[t] \in {"join_find", "cancel_find"}
      /\ UNCHANGED <<env, parent, alloc, handle, exec_env_list, todo, arg, cluster_lock>>
  BY DEF JoinFind, CancelFind
<1>2. pc[t] \in ListHolders /\ pc[t] \notin ClusterHolders \union Creation \union Ended
  BY <1>1 DEF ListHolders, ClusterHolders, Creation, Ended
<1>3. CASE \E q \in OperandPCs : /\ pc' = [pc EXCEPT ![t] = q]
                                 /\ arg[t] \in exec_env_list
                                 /\ UNCHANGED cluster_list_lock
  <2>1. PICK q \in OperandPCs : /\ pc' = [pc EXCEPT ![t] = q]
                                /\ arg[t] \in exec_env_list
                                /\ UNCHANGED cluster_list_lock
    BY <1>3
  <2>2. q \in PCs \ (Creation \union Ended) /\ q \in ListHolders /\ q \notin ClusterHolders
    BY DEF OperandPCs, PCs, Creation, Ended, ListHolders, ClusterHolders
  <2>3. \A u \in Threads :
          /\ cluster_list_lock' = u <=> IF u = t THEN TRUE ELSE cluster_list_lock = u
          /\ cluster_lock' = u <=> IF u = t THEN FALSE ELSE cluster_lock = u
    BY <1>1, <1>2, <2>1 DEF Body, LocksMatch
  <2>4. q # "spread" /\ todo' = todo
    BY <1>1 DEF OperandPCs
  <2> QED
    BY <1>1, <1>2, <2>1, <2>2, <2>3, <2>4, QuietStep
<1>4. CASE Return(t) /\ cluster_list_lock' = None
  BY <1>1, <1>2, <1>4, ReturnGoto, OutsideType, OutsideStep
<1> QED
  BY <1>3, <1>4 DEF JoinFind, CancelFind, OperandPCs

LEMMA LockingSpread ==
    ASSUME TypeInv, Body, NEW t \in Threads, SpreadBegin(t) \/ SpreadVisit(t)
    PROVE  Body'
<1> USE DEF TypeInv, TypeOK
<1>1. CASE SpreadBegin(t)
  <2>1. /\ pc[t] = "spread_lock" /\ pc' = [pc EXCEPT ![t] = "spread"]
        /\ UNCHANGED <<env, parent, alloc, handle, exec_env_list, arg, cluster_list_lock>>
        /\ cluster_lock = None /\ cluster_lock' = t /\ todo' = exec_env_list
    BY <1>1 DEF SpreadBegin, SpreadTargets
  <2>2. "spread" \in PCs \ (Creation \union Ended) /\ pc[t] \notin Creation \union Ended
    BY <2>1 DEF PCs, Creation, Ended
  <2>3. \A u \in Threads :
          /\ cluster_list_lock' = u <=>
               IF u = t THEN "spread" \in ListHolders ELSE cluster_list_lock = u
          /\ cluster_lock' = u <=>
               IF u = t THEN "spread" \in ClusterHolders ELSE cluster_lock = u
    BY <2>1, NoneAssumption DEF Body, LocksMatch, ListHolders, ClusterHolders
  <2> QED
    BY <2>1, <2>2, <2>3, QuietStep DEF OperandPCs
<1>2. CASE SpreadVisit(t)
  BY <1>2 DEF SpreadVisit, Body, LocksMatch, EnvsMatch, Running, CreatorWaits, OperandsListed
<1> QED
  BY <1>1, <1>2

\* The creator keeps cluster->lock, so no other creation is under way.
LEMMA LockingCreate ==
    ASSUME TypeInv, Body, NEW t \in Threads, CreateThread(t)
    PROVE  Body'
<1> USE DEF TypeInv, TypeOK, Body
<1>1. PICK u \in Threads, e \in Envs \ alloc :
        /\ pc[t] = "create_lock" /\ pc[u] = "idle" /\ u # t
        /\ pc' = [pc EXCEPT ![t] = "handle_wait", ![u] = "starting"]
        /\ env' = [env EXCEPT ![u] = e] /\ parent' = [parent EXCEPT ![u] = t]
        /\ arg' = [arg EXCEPT ![t] = e] /\ alloc' = alloc \union {e}
        /\ handle' = [handle EXCEPT ![e] = None]
        /\ exec_env_list' = exec_env_list \union {e}
        /\ cluster_lock = None /\ cluster_lock' = t
        /\ UNCHANGED <<todo, cluster_list_lock>>
  BY DEF CreateThread, KeepCluster
<1>2. /\ pc'[t] = "handle_wait" /\ pc'[u] = "starting"
      /\ \A v \in Threads : v \notin {t, u} => pc'[v] = pc[v]
  BY <1>1
<1>3. \A v \in Threads : pc[v] \notin ClusterHolders /\ pc[v] # "starting"
  BY <1>1, NoneAssumption DEF LocksMatch, CreatorWaits, ClusterHolders
<1>4. LocksMatch'
  BY <1>1, <1>2, <1>3, NoneAssumption DEF LocksMatch, ListHolders, ClusterHolders
<1>5. EnvsMatch'
  <2>1. /\ \A v \in Threads : Running(v)' <=> Running(v) \/ v = u
        /\ ~ Running(u) /\ env'[u] = e
        /\ \A v \in Threads : v # u => env'[v] = env[v]
    BY <1>1, <1>2 DEF Running
  <2>2. \A v \in Threads : Running(v) => env[v] # e
    BY <1>1 DEF EnvsMatch
  <2>3. \A v \in Threads : Running(v)' => env'[v] \in alloc'
    BY <1>1, <2>1 DEF EnvsMatch
  <2>4. \A v, w \in Threads : Running(v)' /\ Running(w)' /\ env'[v] = env'[w] => v = w
    BY <2>1, <2>2 DEF EnvsMatch
  <2>5. \A x \in exec_env_list' : \E v \in Threads : Running(v)' /\ env'[v] = x
    BY <1>1, <2>1 DEF EnvsMatch
  <2>6. \A v \in Threads : Running(v)' /\ pc'[v] # "starting" => handle'[env'[v]] = v
    BY <1>1, <1>2, <2>1, <2>2 DEF EnvsMatch, Running
  <2> QED
    BY <1>1, <2>3, <2>4, <2>5, <2>6 DEF EnvsMatch
<1>6. CreatorWaits'
  BY <1>1, <1>2, <1>3 DEF CreatorWaits, ClusterHolders
<1>7. OperandsListed'
  BY <1>1, <1>2, <1>3 DEF OperandsListed, ClusterHolders
<1> QED
  BY <1>4, <1>5, <1>6, <1>7

\* The new thread sets the handle its creator waits for.
LEMMA LockingStart ==
    ASSUME TypeInv, Body, NEW u \in Threads, StartRoutine(u)
    PROVE  Body'
<1> USE DEF TypeInv, TypeOK, Body
<1>1. /\ pc[u] = "starting" /\ handle' = [handle EXCEPT ![env[u]] = u]
      /\ UNCHANGED <<env, parent, arg, alloc, exec_env_list, todo,
                     cluster_list_lock, cluster_lock>>
  BY DEF StartRoutine
<1>2. /\ parent[u] \in Threads /\ pc[parent[u]] = "handle_wait" /\ parent[u] # u
      /\ arg[parent[u]] = env[u]
  BY <1>1 DEF CreatorWaits
<1>3. /\ pc'[u] = "app" /\ pc'[parent[u]] = "handle_set"
      /\ \A v \in Threads : v \notin {u, parent[u]} => pc'[v] = pc[v]
  BY <1>2 DEF StartRoutine
<1>4. env[u] \in Envs
  BY <1>1 DEF EnvsMatch, Running
<1>5. LocksMatch'
  BY <1>1, <1>2, <1>3 DEF LocksMatch, ListHolders, ClusterHolders
<1>6. \A v \in Threads : pc[v] = "starting" => v = u
  <2> SUFFICES ASSUME NEW v \in Threads, pc[v] = "starting" PROVE v = u
    OBVIOUS
  <2>1. parent[v] \in Threads /\ pc[parent[v]] = "handle_wait" /\ arg[parent[v]] = env[v]
    BY DEF CreatorWaits
  <2>2. cluster_lock = parent[v] /\ cluster_lock = parent[u]
    BY <1>2, <2>1 DEF LocksMatch, ClusterHolders
  <2>3. env[v] = env[u]
    BY <1>2, <2>1, <2>2
  <2>4. Running(u) /\ Running(v)
    BY <1>1 DEF Running
  <2> QED
    BY <2>3, <2>4 DEF EnvsMatch
<1>7. EnvsMatch'
  <2>1. \A v \in Threads : Running(v)' <=> Running(v)
    BY <1>1, <1>2, <1>3 DEF Running
  <2>2. \A v \in Threads : Running(v)' /\ pc'[v] # "starting" => handle'[env'[v]] = v
    <3> SUFFICES ASSUME NEW v \in Threads, Running(v) PROVE handle'[env[v]] = v
      BY <1>1, <2>1
    <3>1. CASE v = u
      BY <1>1, <1>4, <3>1
    <3>2. CASE v # u
      BY <1>1, <1>4, <1>6, <3>2 DEF EnvsMatch, Running
    <3> QED
      BY <3>1, <3>2
  <2> QED
    BY <1>1, <2>1, <2>2 DEF EnvsMatch
<1>8. CreatorWaits'
  BY <1>1, <1>2, <1>3, <1>4, <1>6 DEF CreatorWaits
<1>9. OperandsListed'
  BY <1>1, <1>2, <1>3 DEF OperandsListed
<1> QED
  BY <1>5, <1>7, <1>8, <1>9

LEMMA LockingCreated ==
    ASSUME TypeInv, Body, NEW t \in Threads, CreateReturns(t)
    PROVE  Body'
<1> USE DEF TypeInv, TypeOK, Body
<1>1. /\ pc[t] = "handle_set" /\ cluster_lock' = None
      /\ UNCHANGED <<env, parent, arg, alloc, handle, exec_env_list, todo, cluster_list_lock>>
  BY DEF CreateReturns
<1>2. PICK q \in Outside : pc' = [pc EXCEPT ![t] = q]
  BY ReturnGoto DEF CreateReturns
<1>3. pc'[t] = q /\ \A v \in Threads : v # t => pc'[v] = pc[v]
  BY <1>2
<1>4. LocksMatch'
  BY <1>1, <1>3, NoneAssumption DEF LocksMatch, Outside, ListHolders, ClusterHolders
<1>5. EnvsMatch'
  BY <1>1, <1>3 DEF EnvsMatch, Outside, Running
<1>6. CreatorWaits'
  BY <1>1, <1>3 DEF CreatorWaits, Outside
<1>7. OperandsListed'
  BY <1>1, <1>3 DEF OperandsListed, Outside
<1> QED
  BY <1>4, <1>5, <1>6, <1>7

\* A thread removes its exec_env with both locks held: nobody is half way
\* through an operation on it.
LEMMA LockingExit ==
    ASSUME TypeInv, Body, NEW t \in Threads, ExitCluster(t)
    PROVE  Body'
<1> USE DEF TypeInv, TypeOK, Body
<1>1. /\ pc[t] = "exit_cluster" /\ pc' = [pc EXCEPT ![t] = "exit_native"]
      /\ exec_env_list' = exec_env_list \ {env[t]} /\ alloc' = alloc \ {env[t]}
      /\ cluster_lock = None /\ cluster_list_lock' = None
      /\ UNCHANGED <<env, parent, arg, handle, todo, cluster_lock>>
  BY DEF ExitCluster
<1>2. cluster_list_lock = t
  BY <1>1 DEF LocksMatch, ListHolders
<1>3. \A u \in Threads : /\ u # t => pc[u] \notin ListHolders
                         /\ pc[u] \notin ClusterHolders /\ pc[u] # "starting"
  BY <1>1, <1>2, NoneAssumption DEF LocksMatch, CreatorWaits, ClusterHolders
<1>4. pc'[t] = "exit_native" /\ \A u \in Threads : u # t => pc'[u] = pc[u]
  BY <1>1
<1>5. LocksMatch'
  BY <1>1, <1>3, <1>4, NoneAssumption DEF LocksMatch, ListHolders, ClusterHolders
<1>6. EnvsMatch'
  <2>1. \A u \in Threads : Running(u)' <=> Running(u) /\ u # t
    BY <1>1, <1>4 DEF Running
  <2>2. \A u \in Threads : Running(u) /\ u # t => env[u] # env[t]
    BY <1>1 DEF EnvsMatch, Running
  <2> QED
    BY <1>1, <1>4, <2>1, <2>2 DEF EnvsMatch
<1>7. CreatorWaits' /\ OperandsListed'
  BY <1>1, <1>3, <1>4 DEF CreatorWaits, OperandsListed, ListHolders, ClusterHolders
<1> QED
  BY <1>5, <1>6, <1>7

LEMMA LockingNative ==
    ASSUME TypeInv, Body, NEW t \in Threads, ExitNative(t)
    PROVE  Body'
<1> USE DEF TypeInv, TypeOK, Body
<1>1. /\ pc[t] = "exit_native" /\ pc'[t] = "done" /\ \A u \in Threads : u # t => pc'[u] = pc[u]
      /\ UNCHANGED <<env, parent, arg, alloc, handle, exec_env_list, todo,
                     cluster_list_lock, cluster_lock>>
  BY DEF ExitNative
<1>2. LocksMatch' /\ OperandsListed'
  BY <1>1 DEF LocksMatch, ListHolders, ClusterHolders, OperandsListed
<1>3. EnvsMatch' /\ CreatorWaits'
  BY <1>1 DEF EnvsMatch, CreatorWaits, Running
<1> QED
  BY <1>2, <1>3

LEMMA LockingStep ==
    ASSUME TypeInv, Body, NEW t \in Threads, App(t) \/ Runtime(t), ~ Destroy(t)
    PROVE  Body'
<1> USE DEF Creation, Ended, ListHolders, ClusterHolders, OperandPCs, PCs
<1>1. CASE App(t)
  BY <1>1, LockingApp
<1>2. CASE JoinLock(t) \/ DetachLock(t) \/ CancelLock(t) \/ SearchLock(t) \/ ExitLock(t)
  BY <1>2, LockingAcquire DEF JoinLock, DetachLock, CancelLock, SearchLock, ExitLock
<1>3. CASE \/ JoinFind(t) \/ CancelFind(t) \/ SpreadBegin(t) \/ SpreadVisit(t)
  BY <1>3, LockingFind, LockingSpread
<1>4. CASE \/ CreateThread(t) \/ StartRoutine(t) \/ CreateReturns(t)
           \/ ExitCluster(t) \/ ExitNative(t)
  BY <1>4, LockingCreate, LockingStart, LockingCreated, LockingExit, LockingNative
<1> QED
  BY <1>1, <1>2, <1>3, <1>4, LockingOutside DEF Runtime

\* A step of t moves t, the thread it creates or the creator that waits for it,
\* and no thread moves once the main thread has destroyed the cluster.
LEMMA FinishedStep ==
    ASSUME TypeInv, NEW t \in Threads, App(t) \/ Runtime(t), At(Main, "finished")
    PROVE  pc'[Main] = "finished"
<1> USE MainAssumption DEF TypeInv, TypeOK
<1>1. pc[t] # "finished"
  <2>1. CASE App(t)
    BY <2>1 DEF App, AppCreate, AppJoin, AppDetach, AppCancel, AppTrap, AppClear,
                AppReturn, AppTarget, AppSetException, Begin
  <2>2. CASE \/ BranchCheck(t) \/ CallCheck(t) \/ AllocateAux(t) \/ LockSelf(t)
             \/ CreateFails(t) \/ CreateThread(t) \/ StartRoutine(t)
             \/ CreateReturns(t) \/ UndoAux(t)
    BY <2>2 DEF BranchCheck, CallCheck, AllocateAux, LockSelf, CreateFails,
                CreateThread, StartRoutine, CreateReturns, UndoAux
  <2>3. CASE \/ JoinLock(t) \/ JoinFind(t) \/ JoinCount(t) \/ JoinNative(t) \/ Joined(t)
             \/ DetachLock(t) \/ DetachFind(t) \/ CancelLock(t) \/ CancelFreed(t) \/ CancelFind(t)
             \/ CancelFlag(t) \/ SearchLock(t) \/ SearchFind(t)
    BY <2>3 DEF JoinLock, JoinFind, JoinCount, JoinNative, Joined, DetachLock, DetachFind,
                CancelLock, CancelFreed, CancelFind, CancelFlag, SearchLock, SearchFind, AcquireList
  <2>4. CASE \/ SpreadBegin(t) \/ SpreadVisit(t) \/ SpreadEnd(t)
             \/ ExitAux(t) \/ ExitLock(t) \/ ExitCluster(t) \/ ExitNative(t)
             \/ WaitAll(t) \/ Destroy(t)
    BY <2>4 DEF SpreadBegin, SpreadVisit, SpreadEnd, ExitAux, ExitLock, ExitCluster,
                ExitNative, WaitAll, Destroy, AcquireList
  <2> QED
    BY <2>1, <2>2, <2>3, <2>4 DEF Runtime
<1>2. t # Main
  BY <1>1
<1>3. CASE CreateThread(t) \/ StartRoutine(t)
  BY <1>2, <1>3 DEF CreateThread, StartRoutine
<1>4. CASE SpreadVisit(t)
  BY <1>4 DEF SpreadVisit
<1>5. CASE \E q : pc' = [pc EXCEPT ![t] = q]
  BY <1>2, <1>5
<1>6. \/ CreateThread(t) \/ StartRoutine(t) \/ SpreadVisit(t)
      \/ \E q : pc' = [pc EXCEPT ![t] = q]
  <2>1. CASE Return(t) \/ LeaveWasm(t)
    BY <2>1, ReturnGoto
  <2>2. CASE App(t)
    BY <2>1, <2>2 DEF App, AppCreate, AppJoin, AppDetach, AppCancel, AppTrap, AppClear,
                AppReturn, AppTarget, AppSetException, Begin
  <2>3. CASE \/ BranchCheck(t) \/ CallCheck(t) \/ AllocateAux(t) \/ LockSelf(t)
             \/ CreateFails(t) \/ CreateReturns(t) \/ UndoAux(t)
    BY <2>1, <2>3 DEF BranchCheck, CallCheck, AllocateAux, LockSelf, CreateFails,
                      CreateReturns, UndoAux
  <2>4. CASE \/ JoinLock(t) \/ JoinFind(t) \/ JoinCount(t) \/ JoinNative(t) \/ Joined(t)
             \/ DetachLock(t) \/ DetachFind(t) \/ CancelLock(t) \/ CancelFreed(t) \/ CancelFind(t)
             \/ CancelFlag(t) \/ SearchLock(t) \/ SearchFind(t)
    BY <2>1, <2>4 DEF JoinLock, JoinFind, JoinCount, JoinNative, Joined, DetachLock,
                DetachFind, CancelLock, CancelFreed, CancelFind, CancelFlag, SearchLock, SearchFind,
                AcquireList
  <2>5. CASE \/ SpreadBegin(t) \/ SpreadEnd(t) \/ ExitAux(t) \/ ExitLock(t)
             \/ ExitCluster(t) \/ ExitNative(t) \/ WaitAll(t) \/ Destroy(t)
    BY <2>1, <2>5 DEF SpreadBegin, SpreadEnd, ExitAux, ExitLock, ExitCluster,
                      ExitNative, WaitAll, Destroy, AcquireList
  <2> QED
    BY <2>2, <2>3, <2>4, <2>5 DEF Runtime
<1> QED
  BY <1>3, <1>4, <1>5, <1>6

LEMMA LockingInit == Init => LockingInv
<1> SUFFICES ASSUME Init PROVE Body
  BY DEF LockingInv, Body
<1> USE MainAssumption, NoneAssumption DEF Init
<1>1. LocksMatch
  BY DEF LocksMatch, ListHolders, ClusterHolders
<1>2. EnvsMatch
  BY DEF EnvsMatch, Running
<1>3. CreatorWaits /\ OperandsListed
  BY DEF CreatorWaits, OperandsListed
<1> QED
  BY <1>1, <1>2, <1>3 DEF Body

LEMMA LockingNext == TypeInv /\ LockingInv /\ [Next]_vars => LockingInv'
<1> SUFFICES ASSUME TypeInv, LockingInv, [Next]_vars, ~ At(Main, "finished")' PROVE Body'
  BY DEF LockingInv, Body
<1>1. CASE UNCHANGED vars
  BY <1>1 DEF vars, LockingInv, Body, LocksMatch, EnvsMatch, CreatorWaits, OperandsListed,
              Running
<1>2. ASSUME NEW t \in Threads, App(t) \/ Runtime(t) PROVE Body'
  <2>1. ~ At(Main, "finished")
    BY <1>2, FinishedStep
  <2>2. Body
    BY <2>1 DEF LockingInv, Body
  <2>3. ~ Destroy(t)
    BY MainAssumption DEF Destroy, TypeInv, TypeOK
  <2> QED
    BY <1>2, <2>2, <2>3, LockingStep
<1> QED
  BY <1>1, <1>2 DEF Next, AllEnded

\* As long as the main thread has not destroyed the cluster, a lock is held
\* exactly where the code holds it and what was looked up under it stays valid.
THEOREM LockingCorrect == Spec => []LockingInv
BY TypeInit, TypeStep, LockingInit, LockingNext, PTL DEF Spec

\* What a thread has found in a cluster, or holds a lock of, no other thread
\* frees while it is used.
THEOREM FoundIsAliveCorrect == Spec => []FoundIsAlive
<1>1. LockingInv => FoundIsAlive
  BY DEF LockingInv, LocksMatch, EnvsMatch, CreatorWaits, OperandsListed, FoundIsAlive
<1> QED
  BY <1>1, LockingCorrect, PTL

\* Whoever holds cluster->lock finds the handle of every listed thread set.
THEOREM ListedHandleIsSetCorrect == Spec => []ListedHandleIsSet
<1>1. TypeInv /\ LockingInv => ListedHandleIsSet
  <2> SUFFICES ASSUME TypeInv, Body, ClusterFree, NEW e \in exec_env_list
               PROVE  handle[e] # None /\ env[handle[e]] = e /\ Running(handle[e])
    BY DEF ListedHandleIsSet, LockingInv, Body
  <2>1. PICK t \in Threads : Running(t) /\ env[t] = e
    BY DEF Body, EnvsMatch
  <2>2. ~ At(t, "starting")
    BY NoneAssumption DEF Body, CreatorWaits, LocksMatch, ClusterHolders
  <2> QED
    BY <2>1, <2>2, NoneAssumption DEF Body, EnvsMatch
<1>2. Spec => []TypeInv
  BY TypeInit, TypeStep, PTL DEF Spec
<1> QED
  BY <1>1, <1>2, LockingCorrect, PTL

-----------------------------------------------------------------------------
(* The segments of the aux stack                                           *)

\* Where a creator has a segment that it has not given to a thread.
PendingPCs == {"self_lock", "create_lock", "aux_undo"}

SegmentsHeld ==
    \A t \in Threads : /\ pc[t] = "idle" => seg[t] = 0
                       /\ pc[t] \notin PendingPCs => aux[t] = 0

SegmentInv == SegmentsAccounted /\ SegmentsHeld

\* The steps of a thread that does not own what it moves.
LEMMA SegmentQuiet ==
    ASSUME TypeInv, SegmentInv, UNCHANGED stackVars,
           \A u \in Threads : /\ pc'[u] = "idle" => pc[u] = "idle"
                              /\ pc[u] \in PendingPCs => pc'[u] \in PendingPCs
    PROVE  SegmentInv'
<1>1. seg' = seg /\ aux' = aux /\ stack_segment_occupied' = stack_segment_occupied
  OBVIOUS
<1>2. SegmentsAccounted'
  BY <1>1 DEF SegmentInv, SegmentsAccounted
<1>3. SegmentsHeld'
  BY <1>1 DEF SegmentInv, SegmentsHeld, PendingPCs
<1> QED
  BY <1>2, <1>3 DEF SegmentInv

LEMMA SegmentApp == ASSUME TypeInv, SegmentInv, NEW t \in Threads, App(t) PROVE SegmentInv'
<1>1. UNCHANGED stackVars
  BY DEF App, AppCreate, AppJoin, AppDetach, AppCancel, AppTarget, AppTrap, AppClear,
     AppSetException, AppReturn, Begin
<1>2. pc[t] = "app" /\ \E q \in PCs \ {"idle"} : pc' = [pc EXCEPT ![t] = q]
  BY DEF App, AppCreate, AppJoin, AppDetach, AppCancel, AppTarget, AppTrap, AppClear,
     AppSetException, AppReturn, Begin, LeaveWasm, PCs
<1> QED
  BY <1>1, <1>2, SegmentQuiet DEF TypeInv, TypeOK, PendingPCs

LEMMA SegmentRuntime ==
    ASSUME TypeInv, SegmentInv, NEW t \in Threads, Runtime(t),
           ~ (AllocateAux(t) \/ CreateThread(t) \/ UndoAux(t) \/ ExitAux(t))
    PROVE  SegmentInv'
<1> USE DEF TypeInv, TypeOK
<1>1. CASE LockSelf(t) \/ CreateFails(t)
  <2>1. pc[t] \in PendingPCs /\ \E q \in PendingPCs : pc' = [pc EXCEPT ![t] = q]
    BY <1>1 DEF LockSelf, CreateFails, PendingPCs
  <2>2. UNCHANGED stackVars
    BY <1>1 DEF LockSelf, CreateFails
  <2> QED
    BY <2>1, <2>2, SegmentQuiet DEF PendingPCs
<1>2. CASE StartRoutine(t)
  <2>1. UNCHANGED stackVars /\ pc[t] = "starting"
    BY <1>2 DEF StartRoutine
  <2>2. \A u \in Threads : /\ pc'[u] \in {pc[u], "app", "handle_set"}
                           /\ pc'[u] # pc[u] => pc[u] \in {"starting", "handle_wait"}
    BY <1>2 DEF StartRoutine
  <2> QED
    BY <2>1, <2>2, SegmentQuiet DEF PendingPCs
<1>3. CASE CreateReturns(t) \/ BranchCheck(t) \/ CallCheck(t)
  <2>1. UNCHANGED stackVars /\ pc[t] \notin PendingPCs
    BY <1>3 DEF CreateReturns, BranchCheck, CallCheck, PendingPCs
  <2>2. \E q \in PCs \ {"idle"} : pc' = [pc EXCEPT ![t] = q]
    BY <1>3 DEF CreateReturns, BranchCheck, CallCheck, Return, LeaveWasm, PCs
  <2> QED
    BY <2>1, <2>2, SegmentQuiet
<1>4. CASE JoinLock(t) \/ JoinFind(t) \/ JoinCount(t) \/ JoinNative(t) \/ Joined(t)
  <2>1. UNCHANGED stackVars /\ pc[t] \notin PendingPCs
    BY <1>4 DEF JoinLock, JoinFind, JoinCount, JoinNative, Joined, AcquireList, PendingPCs
  <2>2. \E q \in PCs \ {"idle"} : pc' = [pc EXCEPT ![t] = q]
    BY <1>4 DEF JoinLock, JoinFind, JoinCount, JoinNative, Joined, AcquireList, Return, PCs
  <2> QED
    BY <2>1, <2>2, SegmentQuiet
<1>5. CASE DetachLock(t) \/ DetachFind(t) \/ CancelLock(t) \/ CancelFreed(t) \/ CancelFind(t) \/ CancelFlag(t)
  <2>1. UNCHANGED stackVars /\ pc[t] \notin PendingPCs
    BY <1>5 DEF DetachLock, DetachFind, CancelLock, CancelFreed, CancelFind, CancelFlag, AcquireList,
       PendingPCs
  <2>2. \E q \in PCs \ {"idle"} : pc' = [pc EXCEPT ![t] = q]
    BY <1>5 DEF DetachLock, DetachFind, CancelLock, CancelFreed, CancelFind, CancelFlag, AcquireList,
       Return, PCs
  <2> QED
    BY <2>1, <2>2, SegmentQuiet
<1>6. CASE SearchLock(t) \/ SearchFind(t) \/ SpreadBegin(t) \/ SpreadVisit(t) \/ SpreadEnd(t)
  <2>1. UNCHANGED stackVars /\ pc[t] \notin PendingPCs
    BY <1>6 DEF SearchLock, SearchFind, SpreadBegin, SpreadVisit, SpreadEnd, AcquireList,
       PendingPCs
  <2>2. pc' = pc \/ \E q \in PCs \ {"idle"} : pc' = [pc EXCEPT ![t] = q]
    BY <1>6 DEF SearchLock, SearchFind, SpreadBegin, SpreadVisit, SpreadEnd, AcquireList,
       Return, LeaveWasm, PCs
  <2> QED
    BY <2>1, <2>2, SegmentQuiet
<1>7. CASE ExitLock(t) \/ ExitCluster(t) \/ ExitNative(t) \/ WaitAll(t) \/ Destroy(t)
  <2>1. UNCHANGED stackVars /\ pc[t] \notin PendingPCs
    BY <1>7 DEF ExitLock, ExitCluster, ExitNative, WaitAll, Destroy, AcquireList, PendingPCs
  <2>2. \E q \in PCs \ {"idle"} : pc' = [pc EXCEPT ![t] = q]
    BY <1>7 DEF ExitLock, ExitCluster, ExitNative, WaitAll, Destroy, AcquireList, PCs
  <2> QED
    BY <2>1, <2>2, SegmentQuiet
<1> QED
  BY <1>1, <1>2, <1>3, <1>4, <1>5, <1>6, <1>7 DEF Runtime

LEMMA SegmentMoves ==
    ASSUME TypeInv, SegmentInv, NEW t \in Threads,
           AllocateAux(t) \/ CreateThread(t) \/ UndoAux(t) \/ ExitAux(t)
    PROVE  SegmentInv'
<1> USE DEF TypeInv, TypeOK, SegmentInv, SegmentsAccounted, SegmentsHeld, PendingPCs
<1>1. ASSUME AllocateAux(t), FreeSegments = {} PROVE SegmentInv'
  <2>1. UNCHANGED stackVars /\ pc[t] = "aux_lock"
        /\ pc' = [pc EXCEPT ![t] = IF t = Main /\ processing THEN "wait_all" ELSE "check"]
    BY <1>1 DEF AllocateAux, Return
  <2> QED
    BY <2>1, SegmentQuiet
<1>2. ASSUME AllocateAux(t), FreeSegments # {} PROVE SegmentInv'
  <2>1. PICK i \in FreeSegments :
            /\ aux' = [aux EXCEPT ![t] = i] /\ seg' = seg
            /\ stack_segment_occupied' = stack_segment_occupied \union {i}
            /\ pc[t] = "aux_lock" /\ pc' = [pc EXCEPT ![t] = "self_lock"]
    BY <1>2 DEF AllocateAux
  <2>2. i \in Segments /\ i \notin stack_segment_occupied /\ i # 0
    BY DEF FreeSegments, Segments
  <2>3. \A u \in Threads : seg[u] # i /\ aux[u] # i
    BY <2>2
  <2>4. aux'[t] = i /\ \A u \in Threads : u # t => aux'[u] = aux[u] /\ pc'[u] = pc[u]
    BY <2>1
  <2>5. SegmentsAccounted'
    <3>1. ASSUME NEW j \in Segments \ {i}
          PROVE  {u \in Threads : aux'[u] = j} = {u \in Threads : aux[u] = j}
      <4>1. aux[t] = 0 /\ 0 \notin Segments
        BY <2>1 DEF Segments
      <4> QED
        BY <2>4, <4>1
    <3>2. {u \in Threads : aux'[u] = i} = {t}
      BY <2>3, <2>4
    <3> QED
      BY <2>1, <2>2, <2>3, <3>1, <3>2
  <2> QED
    BY <2>1, <2>4, <2>5
<1>3. CASE CreateThread(t)
  <2>1. PICK u \in Threads :
            /\ pc[u] = "idle" /\ pc[t] = "create_lock"
            /\ pc' = [pc EXCEPT ![t] = "handle_wait", ![u] = "starting"]
            /\ seg' = [seg EXCEPT ![u] = aux[t]] /\ aux' = [aux EXCEPT ![t] = 0]
            /\ UNCHANGED stack_segment_occupied
    BY <1>3 DEF CreateThread
  <2>2. 0 \notin Segments /\ seg[u] = 0 /\ t # u
    BY <2>1 DEF Segments
  <2> QED
    BY <2>1, <2>2
<1>4. CASE UndoAux(t)
  <2>1. /\ pc[t] = "aux_undo" /\ aux' = [aux EXCEPT ![t] = 0] /\ seg' = seg
        /\ stack_segment_occupied' = stack_segment_occupied \ {aux[t]}
        /\ pc' = [pc EXCEPT ![t] = IF t = Main /\ processing THEN "wait_all" ELSE "check"]
    BY <1>4 DEF UndoAux, FreeAux, Return
  <2>2. 0 \notin Segments
    BY DEF Segments
  <2> QED
    BY <2>1, <2>2
<1>5. CASE ExitAux(t)
  <2>1. /\ pc[t] = "exit_aux" /\ seg' = [seg EXCEPT ![t] = 0] /\ aux' = aux
        /\ stack_segment_occupied' = stack_segment_occupied \ {seg[t]}
        /\ pc' = [pc EXCEPT ![t] = "exit_list"]
    BY <1>5 DEF ExitAux, FreeAux
  <2>2. 0 \notin Segments
    BY DEF Segments
  <2> QED
    BY <2>1, <2>2
<1> QED
  BY <1>1, <1>2, <1>3, <1>4, <1>5

\* No two stacks of the aux stack overlap and no segment is lost, on the paths
\* of a creation that fails as well.
THEOREM SegmentsAccountedCorrect == Spec => []SegmentsAccounted
<1>1. Init => SegmentInv
  BY DEF Init, SegmentInv, SegmentsAccounted, SegmentsHeld, Segments
<1>2. TypeInv /\ SegmentInv /\ [Next]_vars => SegmentInv'
  <2>1. CASE UNCHANGED vars
    BY <2>1 DEF vars, SegmentInv, SegmentsAccounted, SegmentsHeld
  <2> QED
    BY <2>1, SegmentApp, SegmentRuntime, SegmentMoves DEF Next, AllEnded
<1>3. SegmentInv => SegmentsAccounted
  BY DEF SegmentInv
<1> QED
  BY <1>1, <1>2, <1>3, TypeInit, TypeStep, PTL DEF Spec

-----------------------------------------------------------------------------
(* The exception reaches every thread                                      *)

ClusterMatch == \A t \in Threads : pc[t] \in ClusterHolders <=> cluster_lock = t

\* What a walk over the list has done so far.
WalkedTo ==
    \A t \in Threads : pc[t] = "spread" =>
        /\ has_exception = raising[t]
        /\ raising[t] => exec_env_list \ todo \subseteq terminate

SpreadInv == ClusterMatch /\ WalkedTo /\ ExceptionReachesAll

\* The steps outside cluster->lock, which may also terminate a thread or take
\* one out of the list.
LEMMA SpreadQuiet ==
    ASSUME SpreadInv, UNCHANGED <<has_exception, todo, cluster_lock>>,
           exec_env_list' \ terminate' \subseteq exec_env_list \ terminate,
           \A u \in Threads : /\ pc'[u] \in ClusterHolders <=> pc[u] \in ClusterHolders
                              /\ pc'[u] = "spread" <=> pc[u] = "spread"
                              /\ pc[u] = "spread" => raising'[u] = raising[u]
    PROVE  SpreadInv'
<1>1. ClusterMatch'
  BY DEF SpreadInv, ClusterMatch, ClusterHolders
<1>2. WalkedTo'
  BY DEF SpreadInv, WalkedTo
<1>3. ExceptionReachesAll'
  BY DEF SpreadInv, ExceptionReachesAll, Spreading
<1> QED
  BY <1>1, <1>2, <1>3 DEF SpreadInv

\* Where a thread is that does not hold cluster->lock.
FreePCs == PCs \ ClusterHolders

LEMMA FreeStep ==
    ASSUME TypeInv, SpreadInv, NEW t \in Threads, UNCHANGED <<has_exception, todo, cluster_lock>>,
           exec_env_list' \ terminate' \subseteq exec_env_list \ terminate,
           pc[t] \in FreePCs, \E q \in FreePCs : pc' = [pc EXCEPT ![t] = q],
           \A u \in Threads : u # t => raising'[u] = raising[u]
    PROVE  SpreadInv'
<1>1. \A u \in Threads : u # t => pc'[u] = pc[u]
  BY DEF TypeInv, TypeOK
<1>2. pc'[t] \in FreePCs
  BY DEF TypeInv, TypeOK
<1> QED
  BY <1>1, <1>2, SpreadQuiet DEF FreePCs, ClusterHolders

LEMMA SpreadApp == ASSUME TypeInv, SpreadInv, NEW t \in Threads, App(t) PROVE SpreadInv'
<1> USE DEF App, AppCreate, AppJoin, AppDetach, AppCancel, AppTarget, AppTrap, AppClear,
            AppSetException, AppReturn, Begin
<1>1. UNCHANGED <<has_exception, todo, cluster_lock, exec_env_list, terminate>>
  OBVIOUS
<1>2. pc[t] \in FreePCs /\ \E q \in FreePCs : pc' = [pc EXCEPT ![t] = q]
  BY DEF LeaveWasm, PCs, FreePCs, ClusterHolders
<1>3. \A u \in Threads : u # t => raising'[u] = raising[u]
  BY DEF TypeInv, TypeOK
<1> QED
  BY <1>1, <1>2, <1>3, FreeStep

LEMMA SpreadRuntime ==
    ASSUME TypeInv, SpreadInv, NEW t \in Threads, Runtime(t),
           ~ (CreateThread(t) \/ CreateReturns(t) \/ StartRoutine(t)
                \/ SpreadBegin(t) \/ SpreadVisit(t) \/ SpreadEnd(t))
    PROVE  SpreadInv'
<1> USE DEF Return, LeaveWasm, AcquireList, PCs, FreePCs, ClusterHolders
<1> DEFINE Frame == /\ UNCHANGED <<has_exception, todo, cluster_lock, raising>>
                    /\ exec_env_list' \ terminate' \subseteq exec_env_list \ terminate
                    /\ pc[t] \in FreePCs /\ \E q \in FreePCs : pc' = [pc EXCEPT ![t] = q]
<1>1. CASE BranchCheck(t) \/ CallCheck(t) \/ AllocateAux(t) \/ LockSelf(t) \/ CreateFails(t)
             \/ UndoAux(t)
  <2>1. Frame
    BY <1>1 DEF BranchCheck, CallCheck, AllocateAux, LockSelf, CreateFails, UndoAux, FreeAux
  <2> QED
    BY <2>1, FreeStep
<1>2. CASE JoinLock(t) \/ JoinFind(t) \/ JoinCount(t) \/ JoinNative(t) \/ Joined(t)
  <2>1. Frame
    BY <1>2 DEF JoinLock, JoinFind, JoinCount, JoinNative, Joined
  <2> QED
    BY <2>1, FreeStep
<1>3. CASE DetachLock(t) \/ DetachFind(t) \/ CancelLock(t) \/ CancelFreed(t) \/ CancelFind(t) \/ CancelFlag(t)
             \/ SearchLock(t) \/ SearchFind(t)
  <2>1. Frame
    BY <1>3 DEF DetachLock, DetachFind, CancelLock, CancelFreed, CancelFind, CancelFlag, SearchLock, SearchFind
  <2> QED
    BY <2>1, FreeStep
<1>4. CASE ExitAux(t) \/ ExitLock(t) \/ ExitCluster(t) \/ ExitNative(t) \/ WaitAll(t) \/ Destroy(t)
  <2>1. Frame
    BY <1>4 DEF ExitAux, FreeAux, ExitLock, ExitCluster, ExitNative, WaitAll, Destroy
  <2> QED
    BY <2>1, FreeStep
<1> QED
  BY <1>1, <1>2, <1>3, <1>4 DEF Runtime

LEMMA SpreadLocked ==
    ASSUME TypeInv, SpreadInv, NEW t \in Threads,
           \/ CreateThread(t) \/ CreateReturns(t) \/ StartRoutine(t)
           \/ SpreadBegin(t) \/ SpreadVisit(t) \/ SpreadEnd(t)
    PROVE  SpreadInv'
<1> USE NoneAssumption DEF TypeInv, TypeOK, SpreadInv
<1>1. CASE StartRoutine(t)
  <2>1. /\ UNCHANGED <<has_exception, todo, cluster_lock, exec_env_list, terminate, raising>>
        /\ pc[t] = "starting"
        /\ pc' = [pc EXCEPT ![t] = "app",
                            ![parent[t]] = IF @ = "handle_wait" THEN "handle_set" ELSE @]
    BY <1>1 DEF StartRoutine
  <2>2. \A u \in Threads : \/ pc'[u] = pc[u]
                           \/ pc[u] = "starting" /\ pc'[u] = "app"
                           \/ pc[u] = "handle_wait" /\ pc'[u] = "handle_set"
    BY <2>1
  <2> QED
    BY <2>1, <2>2, SpreadQuiet DEF ClusterHolders
<1>2. CASE CreateThread(t)
  <2>1. /\ \A u \in Threads : pc[u] \notin ClusterHolders
        /\ ~ has_exception /\ has_exception' = has_exception
        /\ cluster_lock' = t
    BY <1>2 DEF CreateThread, SpawnAllowed, KeepCluster, ClusterMatch
  <2>2. PICK u \in Threads : pc[u] = "idle" /\ pc[t] = "create_lock"
            /\ pc' = [pc EXCEPT ![t] = "handle_wait", ![u] = "starting"]
    BY <1>2 DEF CreateThread
  <2>3. pc'[t] = "handle_wait"
        /\ \A v \in Threads : v # t => pc'[v] \in {pc[v], "starting"}
    BY <2>2
  <2> QED
    BY <2>1, <2>3 DEF ClusterMatch, WalkedTo, ExceptionReachesAll, ClusterHolders, Spreading
<1>3. CASE CreateReturns(t)
  <2>1. /\ pc[t] = "handle_set" /\ cluster_lock' = None
        /\ UNCHANGED <<has_exception, exec_env_list, terminate>>
        /\ pc' = [pc EXCEPT ![t] = IF t = Main /\ processing THEN "wait_all" ELSE "check"]
    BY <1>3 DEF CreateReturns, Return
  <2>2. cluster_lock = t /\ \A u \in Threads : u # t => pc[u] \notin ClusterHolders
    BY <2>1 DEF ClusterMatch, ClusterHolders
  <2> QED
    BY <2>1, <2>2 DEF ClusterMatch, WalkedTo, ExceptionReachesAll, ClusterHolders, Spreading
<1>4. CASE SpreadBegin(t)
  <2>1. /\ pc[t] = "spread_lock" /\ cluster_lock' = t /\ has_exception' = raising[t]
        /\ todo' = exec_env_list /\ UNCHANGED <<raising, exec_env_list, terminate>>
        /\ pc' = [pc EXCEPT ![t] = "spread"]
        /\ \A u \in Threads : pc[u] \notin ClusterHolders
    BY <1>4 DEF SpreadBegin, SpreadTargets, ClusterMatch
  <2> QED
    BY <2>1 DEF ClusterMatch, WalkedTo, ExceptionReachesAll, ClusterHolders, Spreading
<1>5. CASE SpreadVisit(t)
  <2>1. PICK e \in todo :
            /\ terminate' = IF raising[t] THEN terminate \union {e} ELSE terminate \ {e}
            /\ todo' = todo \ {e}
    BY <1>5 DEF SpreadVisit
  <2>2. /\ pc[t] = "spread"
        /\ UNCHANGED <<pc, raising, has_exception, exec_env_list, cluster_lock>>
    BY <1>5 DEF SpreadVisit
  <2>3. \A u \in Threads : u # t => pc[u] # "spread"
    BY <2>2 DEF ClusterMatch, ClusterHolders
  <2>4. ClusterMatch' /\ ExceptionReachesAll'
    BY <2>2 DEF ClusterMatch, ExceptionReachesAll, Spreading
  <2>5. WalkedTo'
    BY <2>1, <2>2, <2>3 DEF WalkedTo
  <2> QED
    BY <2>4, <2>5
<1>6. CASE SpreadEnd(t)
  <2>1. /\ pc[t] = "spread" /\ todo = {} /\ cluster_lock' = None
        /\ UNCHANGED <<has_exception, exec_env_list, terminate>>
        /\ \E q \in {"wait_all", "exit_aux", "check"} : pc' = [pc EXCEPT ![t] = q]
    BY <1>6 DEF SpreadEnd, Return, LeaveWasm
  <2>2. \A u \in Threads : u # t => pc[u] \notin ClusterHolders
    BY <2>1 DEF ClusterMatch, ClusterHolders
  <2>3. has_exception => exec_env_list \subseteq terminate
    BY <2>1 DEF WalkedTo
  <2>4. pc'[t] \notin ClusterHolders /\ \A u \in Threads : u # t => pc'[u] = pc[u]
    BY <2>1 DEF ClusterHolders
  <2>5. ClusterMatch' /\ WalkedTo'
    BY <2>1, <2>2, <2>4 DEF ClusterMatch, WalkedTo, ClusterHolders
  <2>6. ExceptionReachesAll'
    BY <2>1, <2>3 DEF ExceptionReachesAll
  <2> QED
    BY <2>5, <2>6
<1> QED
  BY <1>1, <1>2, <1>3, <1>4, <1>5, <1>6

\* Once an exception has been spread every thread of the list is told to
\* terminate: none is created behind the back of the walk.
THEOREM ExceptionReachesAllCorrect == Spec => []ExceptionReachesAll
<1>1. Init => SpreadInv
  BY NoneAssumption DEF Init, SpreadInv, ClusterMatch, WalkedTo, ExceptionReachesAll, ClusterHolders
<1>2. TypeInv /\ SpreadInv /\ [Next]_vars => SpreadInv'
  <2>1. CASE UNCHANGED vars
    BY <2>1 DEF vars, SpreadInv, ClusterMatch, WalkedTo, ExceptionReachesAll, Spreading
  <2> QED
    BY <2>1, SpreadApp, SpreadRuntime, SpreadLocked DEF Next, AllEnded
<1>3. SpreadInv => ExceptionReachesAll
  BY DEF SpreadInv
<1> QED
  BY <1>1, <1>2, <1>3, TypeInit, TypeStep, PTL DEF Spec

-----------------------------------------------------------------------------
(* The native resources of a thread                                        *)

\* A join or detach has counted itself for the thread, or it has left the list.
Leaving(t) == pc[t] \in {"exit_native", "done"}
Claimed(t) == Leaving(t) \/ (Running(t) /\ env[t] \in waited \union detached)

Unclaimed == \A t \in Threads : Running(t) /\ ~ Claimed(t) => res[t] = "joinable"

\* Who is joinable though claimed has a joiner that has not come to
\* os_thread_join yet.
JoinerComes ==
    \A t \in Threads : Claimed(t) /\ res[t] = "joinable" =>
        \E u \in Threads : At(u, "join_native") /\ peer[u] = t

\* Whoever has counted itself for a thread has claimed it.
JoiningPCs   == {"join_native", "joining"}
PeersClaimed ==
    \A t \in Threads : pc[t] \in JoiningPCs => peer[t] \in Threads /\ Claimed(peer[t])

\* Whoever counts itself for an exec_env finds the handle set.
JoinsStarted ==
    \A t, u \in Threads : At(u, "join_count") /\ env[t] = arg[u] => ~ At(t, "starting")

NativeBody ==
    /\ \A t \in Threads : res[t] # "invalid"
    /\ waited \union detached \subseteq alloc
    /\ Unclaimed /\ JoinerComes /\ PeersClaimed /\ JoinsStarted

NativeInv == ~ At(Main, "finished") => NativeBody

\* The exec_env in the list whose thread has started belongs to its handle.
LEMMA ListedHandle ==
    ASSUME TypeInv, Body, NEW e \in exec_env_list,
           \A t \in Threads : env[t] = e => ~ At(t, "starting")
    PROVE  handle[e] \in Threads /\ env[handle[e]] = e /\ Running(handle[e])
BY DEF Body, EnvsMatch

LEMMA NobodyStarts ==
    ASSUME Body, ClusterFree PROVE \A t \in Threads : ~ At(t, "starting")
BY NoneAssumption DEF Body, CreatorWaits, LocksMatch, ClusterHolders

\* The steps that neither begin nor end a thread or a join, nor detach.
LEMMA NativeQuiet ==
    ASSUME TypeInv, NativeBody, UNCHANGED <<env, peer, res, alloc, waited, detached>>,
           \A t \in Threads :
               /\ Running(t)' <=> Running(t)
               /\ Leaving(t)' <=> Leaving(t)
               /\ At(t, "join_native") => At(t, "join_native")'
               /\ pc'[t] \in JoiningPCs => pc[t] \in JoiningPCs
               /\ At(t, "starting")' => At(t, "starting")
               /\ At(t, "join_count")' => At(t, "join_count") /\ arg'[t] = arg[t]
    PROVE  NativeBody'
<1>1. \A t \in Threads : Claimed(t)' <=> Claimed(t)
  BY DEF Claimed
<1> HIDE DEF At
<1> QED
  BY <1>1 DEF NativeBody, Unclaimed, JoinerComes, PeersClaimed, JoinsStarted

\* A running thread moves to another place, without a join.
LEMMA NativeMoves ==
    ASSUME TypeInv, NativeBody, NEW t \in Threads,
           UNCHANGED <<env, peer, res, alloc, waited, detached>>,
           \A u \in Threads : u # t => arg'[u] = arg[u],
           pc[t] \notin Ended \union {"join_native"},
           NEW q \in PCs \ (Ended \union JoiningPCs \union {"starting", "join_count"}),
           pc' = [pc EXCEPT ![t] = q]
    PROVE  NativeBody'
<1>1. \A u \in Threads : u # t => pc'[u] = pc[u]
  BY DEF TypeInv, TypeOK
<1>2. pc'[t] = q
  BY DEF TypeInv, TypeOK
<1> QED
  BY <1>1, <1>2, NativeQuiet DEF Ended, JoiningPCs, Running, Leaving

LEMMA NativeApp == ASSUME TypeInv, NativeBody, NEW t \in Threads, App(t) PROVE NativeBody'
<1> USE DEF App, AppCreate, AppJoin, AppDetach, AppCancel, AppTarget, AppTrap, AppClear,
            AppSetException, AppReturn, Begin
<1>1. UNCHANGED <<env, peer, res, alloc, waited, detached>>
  OBVIOUS
<1>2. \A u \in Threads : u # t => arg'[u] = arg[u]
  BY DEF TypeInv, TypeOK
<1>3. pc[t] = "app" /\ \E q \in PCs \ (Ended \union JoiningPCs \union {"starting", "join_count"}) :
                          pc' = [pc EXCEPT ![t] = q]
  BY DEF LeaveWasm, PCs, Ended, JoiningPCs
<1> HIDE DEF App
<1> QED
  BY <1>1, <1>2, <1>3, NativeMoves DEF Ended

LEMMA NativeRuntime ==
    ASSUME TypeInv, NativeBody, NEW t \in Threads, Runtime(t),
           ~ (\/ CreateThread(t) \/ StartRoutine(t) \/ JoinFind(t) \/ JoinCount(t)
              \/ JoinNative(t) \/ Joined(t) \/ DetachFind(t) \/ ExitCluster(t)
              \/ ExitNative(t) \/ Destroy(t))
    PROVE  NativeBody'
<1> DEFINE Moves(q) == /\ UNCHANGED <<env, peer, res, alloc, waited, detached>>
                       /\ \A u \in Threads : u # t => arg'[u] = arg[u]
                       /\ pc[t] \notin Ended \union {"join_native"}
                       /\ pc' = [pc EXCEPT ![t] = q]
           Places == PCs \ (Ended \union JoiningPCs \union {"starting", "join_count"})
<1> USE DEF Return, LeaveWasm, AcquireList, PCs, Ended, JoiningPCs
<1>1. CASE \/ BranchCheck(t) \/ CallCheck(t) \/ AllocateAux(t) \/ LockSelf(t)
           \/ CreateFails(t) \/ CreateReturns(t) \/ UndoAux(t)
  <2>1. \E q \in Places : Moves(q)
    BY <1>1 DEF BranchCheck, CallCheck, AllocateAux, LockSelf, CreateFails, CreateReturns,
       UndoAux, FreeAux
  <2> QED
    BY <2>1, NativeMoves
<1>2. CASE \/ JoinLock(t) \/ DetachLock(t) \/ CancelLock(t) \/ CancelFreed(t) \/ CancelFind(t)
           \/ CancelFlag(t) \/ SearchLock(t) \/ SearchFind(t)
  <2>1. \E q \in Places : Moves(q)
    BY <1>2 DEF JoinLock, DetachLock, CancelLock, CancelFreed, CancelFind, CancelFlag, SearchLock, SearchFind
  <2> QED
    BY <2>1, NativeMoves
<1>3. CASE SpreadBegin(t) \/ SpreadEnd(t) \/ ExitAux(t) \/ ExitLock(t)
  <2>1. \E q \in Places : Moves(q)
    BY <1>3 DEF SpreadBegin, SpreadEnd, ExitAux, FreeAux, ExitLock
  <2> QED
    BY <2>1, NativeMoves
<1>4. CASE WaitAll(t)
  <2>1. \A u \in Threads : u # t => arg'[u] = arg[u]
    BY <1>4 DEF WaitAll, TypeInv, TypeOK
  <2>2. \E q \in Places : Moves(q)
    BY <1>4, <2>1 DEF WaitAll
  <2> QED
    BY <2>2, NativeMoves
<1>5. CASE SpreadVisit(t)
  <2>1. UNCHANGED <<pc, env, peer, res, alloc, waited, detached, arg>>
    BY <1>5 DEF SpreadVisit
  <2> QED
    BY <2>1, NativeQuiet DEF Running, Leaving, JoiningPCs
<1> QED
  BY <1>1, <1>2, <1>3, <1>4, <1>5 DEF Runtime

\* A new thread takes an exec_env nobody has counted itself for.
LEMMA NativeCreate ==
    ASSUME TypeInv, Body, NativeBody, NEW t \in Threads, CreateThread(t)
    PROVE  NativeBody'
<1> USE DEF TypeInv, TypeOK
<1>1. PICK u \in Threads, e \in Envs \ alloc :
        /\ pc[t] = "create_lock" /\ pc[u] = "idle" /\ u # t
        /\ pc' = [pc EXCEPT ![t] = "handle_wait", ![u] = "starting"]
        /\ env' = [env EXCEPT ![u] = e] /\ res' = [res EXCEPT ![u] = "joinable"]
        /\ arg' = [arg EXCEPT ![t] = e] /\ alloc' = alloc \union {e}
        /\ UNCHANGED <<peer, waited, detached>>
  BY DEF CreateThread
<1>2. /\ pc'[u] = "starting" /\ env'[u] = e /\ res'[u] = "joinable" /\ pc'[t] = "handle_wait"
      /\ \A v \in Threads \ {u} : env'[v] = env[v] /\ res'[v] = res[v]
      /\ \A v \in Threads \ {t, u} : pc'[v] = pc[v] /\ arg'[v] = arg[v]
  BY <1>1
<1>3. ~ Claimed(u)' /\ \A v \in Threads \ {u} : Claimed(v)' <=> Claimed(v)
  BY <1>1, <1>2 DEF NativeBody, Claimed, Leaving, Running
<1>4. Unclaimed'
  BY <1>1, <1>2, <1>3 DEF NativeBody, Unclaimed, Running
<1>5. JoinerComes' /\ PeersClaimed'
  BY <1>1, <1>2, <1>3 DEF NativeBody, JoinerComes, PeersClaimed, JoiningPCs, Claimed, Leaving, Running
<1>6. JoinsStarted'
  <2> SUFFICES ASSUME NEW v \in Threads, NEW w \in Threads,
                      pc'[w] = "join_count", env'[v] = arg'[w], pc'[v] = "starting"
               PROVE  FALSE
    BY DEF JoinsStarted
  <2>1. w \notin {t, u} /\ pc[w] = "join_count" /\ arg'[w] = arg[w]
    BY <1>2
  <2>2. arg[w] \in alloc
    BY <2>1 DEF Body, OperandsListed, EnvsMatch
  <2>3. v # u
    BY <1>1, <1>2, <2>1, <2>2
  <2> QED
    BY <1>1, <1>2, <2>1, <2>3 DEF NativeBody, JoinsStarted
<1> QED
  BY <1>1, <1>2, <1>4, <1>5, <1>6 DEF NativeBody

LEMMA NativeStart ==
    ASSUME TypeInv, NativeBody, NEW t \in Threads, StartRoutine(t) \/ ExitNative(t)
    PROVE  NativeBody'
<1>1. UNCHANGED <<env, peer, res, alloc, waited, detached, arg>>
  BY DEF StartRoutine, ExitNative
<1>2. \A u \in Threads : \/ pc'[u] = pc[u]
                         \/ pc[u] = "starting" /\ pc'[u] = "app"
                         \/ pc[u] = "handle_wait" /\ pc'[u] = "handle_set"
                         \/ pc[u] = "exit_native" /\ pc'[u] = "done"
  BY DEF StartRoutine, ExitNative, TypeInv, TypeOK
<1> QED
  BY <1>1, <1>2, NativeQuiet DEF Running, Leaving, JoiningPCs

\* A join that counts itself comes to os_thread_join with the thread as peer.
LEMMA NativeJoin ==
    ASSUME TypeInv, Body, NativeBody, NEW t \in Threads, JoinFind(t) \/ JoinCount(t)
    PROVE  NativeBody'
<1> USE DEF TypeInv, TypeOK
<1>1. CASE JoinFind(t)
  <2>1. /\ pc[t] = "join_find" /\ ClusterFree
        /\ UNCHANGED <<env, peer, res, alloc, waited, detached, arg>>
        /\ \E q \in {"join_count", "check", "wait_all"} : pc' = [pc EXCEPT ![t] = q]
    BY <1>1 DEF JoinFind, Return
  <2>2. \A u \in Threads : u # t => pc'[u] = pc[u]
    BY <2>1
  <2>3. \A u \in Threads : /\ Running(u)' <=> Running(u)
                           /\ Claimed(u)' <=> Claimed(u)
                           /\ At(u, "join_native")' <=> At(u, "join_native")
                           /\ pc'[u] # "starting"
    BY <2>1, <2>2, NobodyStarts DEF Running, Leaving, Claimed
  <2> QED
    BY <2>1, <2>2, <2>3 DEF NativeBody, Unclaimed, JoinerComes, PeersClaimed, JoiningPCs,
       JoinsStarted
<1>2. CASE JoinCount(t)
  <2> DEFINE e == arg[t]
  <2>1. /\ pc[t] = "join_count" /\ waited' = waited \union {e}
        /\ peer' = [peer EXCEPT ![t] = handle[e]]
        /\ UNCHANGED <<env, res, alloc, detached, arg>>
        /\ pc' = [pc EXCEPT ![t] = "join_native"]
    BY <1>2 DEF JoinCount
  <2>2. e \in exec_env_list /\ \A u \in Threads : env[u] = e => pc[u] # "starting"
    BY <2>1 DEF Body, OperandsListed, NativeBody, JoinsStarted
  <2>3. handle[e] \in Threads /\ env[handle[e]] = e /\ Running(handle[e])
    BY <2>2, ListedHandle
  <2>4. /\ pc'[t] = "join_native" /\ peer'[t] = handle[e]
        /\ \A u \in Threads : u # t => pc'[u] = pc[u] /\ peer'[u] = peer[u]
    BY <2>1, <2>3
  <2>5. \A u \in Threads : /\ Running(u)' <=> Running(u)
                           /\ Claimed(u)' => Claimed(u) \/ u = handle[e]
                           /\ Claimed(u) => Claimed(u)'
    BY <2>1, <2>3, <2>4 DEF Running, Leaving, Claimed, Body, EnvsMatch
  <2>6. e \in alloc
    BY <2>2 DEF Body, EnvsMatch
  <2>7. Unclaimed'
    BY <2>1, <2>5 DEF NativeBody, Unclaimed
  <2>8. JoinerComes'
    BY <2>1, <2>3, <2>4, <2>5 DEF NativeBody, JoinerComes
  <2>9. PeersClaimed'
    BY <2>1, <2>3, <2>4, <2>5 DEF NativeBody, PeersClaimed, JoiningPCs, Claimed
  <2>10. JoinsStarted'
    BY <2>1, <2>4 DEF NativeBody, JoinsStarted
  <2> QED
    BY <2>1, <2>6, <2>7, <2>8, <2>9, <2>10 DEF NativeBody
<1> QED
  BY <1>1, <1>2

LEMMA NativeJoined ==
    ASSUME TypeInv, NativeBody, NEW t \in Threads, JoinNative(t) \/ Joined(t)
    PROVE  NativeBody'
<1> USE DEF TypeInv, TypeOK
<1> DEFINE p == peer[t]
<1>1. /\ UNCHANGED <<env, peer, alloc, waited, detached, arg>>
      /\ pc[t] \in {"join_native", "joining"}
      /\ \E q \in {"joining", "check", "wait_all"} : pc' = [pc EXCEPT ![t] = q]
  BY DEF JoinNative, Joined, Return
<1>2. /\ \A u \in Threads : u # t => pc'[u] = pc[u]
      /\ pc'[t] \notin {"join_native", "join_count", "starting"}
  BY <1>1
<1>3. \A u \in Threads : /\ Running(u)' <=> Running(u)
                         /\ Claimed(u)' <=> Claimed(u)
  BY <1>1, <1>2 DEF Running, Leaving, Claimed
<1>4. p \in Threads /\ Claimed(p)
  BY <1>1 DEF NativeBody, PeersClaimed, JoiningPCs
<1>5. /\ \A u \in Threads : u # p => res'[u] = res[u]
      /\ res'[p] \notin {"joinable", "invalid"}
  BY <1>4 DEF JoinNative, Joined, NativeBody
<1>6. Unclaimed'
  BY <1>3, <1>4, <1>5 DEF NativeBody, Unclaimed
<1>7. JoinerComes'
  BY <1>1, <1>2, <1>3, <1>5 DEF NativeBody, JoinerComes
<1>8. PeersClaimed' /\ JoinsStarted'
  BY <1>1, <1>2, <1>3 DEF NativeBody, PeersClaimed, JoiningPCs, JoinsStarted
<1> QED
  BY <1>1, <1>5, <1>6, <1>7, <1>8 DEF NativeBody

\* A detach is of a thread that nobody has counted itself for, and with the list
\* locked nobody can.
LEMMA NativeDetached ==
    ASSUME TypeInv, Body, NativeBody, NEW t \in Threads, DetachFind(t)
    PROVE  NativeBody'
<1> USE DEF TypeInv, TypeOK
<1> DEFINE e == arg[t]
<1>1. /\ pc[t] = "detach_find" /\ ClusterFree
      /\ UNCHANGED <<env, peer, alloc, handle, waited, arg>>
      /\ \E q \in {"check", "wait_all"} : pc' = [pc EXCEPT ![t] = q]
  BY DEF DetachFind, Return
<1>2. \A u \in Threads : u # t => pc'[u] = pc[u]
  BY <1>1
<1>3. \A u \in Threads : /\ Running(u)' <=> Running(u)
                         /\ Leaving(u)' <=> Leaving(u)
                         /\ At(u, "join_native")' <=> At(u, "join_native")
                         /\ At(u, "starting")' <=> At(u, "starting")
                         /\ At(u, "join_count")' <=> At(u, "join_count")
                         /\ pc'[u] \in JoiningPCs <=> pc[u] \in JoiningPCs
  BY <1>1, <1>2 DEF Running, Leaving, JoiningPCs
<1>4. CASE UNCHANGED <<res, detached>>
  <2>1. \A u \in Threads : Claimed(u)' <=> Claimed(u)
    BY <1>1, <1>3, <1>4 DEF Claimed
  <2> QED
    BY <1>1, <1>3, <1>4, <2>1 DEF NativeBody, Unclaimed, JoinerComes, PeersClaimed, JoinsStarted
<1>5. CASE e \in exec_env_list /\ Detachable(e) /\ ~ UNCHANGED <<res, detached>>
  <2>1. NativeDetach(handle[e]) /\ detached' = detached \union {e}
    BY <1>5 DEF DetachFind
  <2>2. handle[e] \in Threads /\ env[handle[e]] = e /\ Running(handle[e])
    BY <1>1, <1>5, ListedHandle, NobodyStarts
  <2>3. res[handle[e]] = "joinable"
    BY <1>5, <2>2 DEF NativeBody, Unclaimed, Claimed, Leaving, Running, Detachable
  <2>4. /\ res'[handle[e]] = "released"
        /\ \A u \in Threads : u # handle[e] => res'[u] = res[u]
    BY <2>1, <2>2, <2>3 DEF NativeDetach
  <2>5. \A u \in Threads : /\ u # handle[e] => (Claimed(u)' <=> Claimed(u))
                           /\ Claimed(u) => Claimed(u)'
    BY <1>1, <1>3, <2>1, <2>2 DEF Claimed, Body, EnvsMatch
  <2>6. Claimed(handle[e])'
    BY <1>1, <1>3, <2>1, <2>2 DEF Claimed
  <2>7. e \in alloc
    BY <1>5 DEF Body, EnvsMatch
  <2>8. Unclaimed' /\ JoinerComes'
    BY <1>1, <1>3, <2>4, <2>5, <2>6 DEF NativeBody, Unclaimed, JoinerComes
  <2>9. PeersClaimed' /\ JoinsStarted'
    BY <1>1, <1>3, <2>5 DEF NativeBody, PeersClaimed, JoinsStarted
  <2> QED
    BY <1>1, <2>1, <2>4, <2>7, <2>8, <2>9 DEF NativeBody
<1> QED
  BY <1>4, <1>5 DEF DetachFind

\* A thread that nobody has claimed detaches itself.
LEMMA NativeExit ==
    ASSUME TypeInv, Body, NativeBody, NEW t \in Threads, ExitCluster(t)
    PROVE  NativeBody'
<1> USE DEF TypeInv, TypeOK
<1> DEFINE e == env[t]
<1>1. /\ pc[t] = "exit_cluster" /\ pc' = [pc EXCEPT ![t] = "exit_native"]
      /\ alloc' = alloc \ {e} /\ waited' = waited \ {e} /\ detached' = detached \ {e}
      /\ UNCHANGED <<env, peer, arg>>
  BY DEF ExitCluster
<1>2. pc'[t] = "exit_native" /\ \A u \in Threads : u # t => pc'[u] = pc[u]
  BY <1>1
<1>3. /\ Running(t) /\ ~ Running(t)' /\ Claimed(t)'
      /\ \A u \in Threads : u # t => (Running(u)' <=> Running(u))
  BY <1>1, <1>2 DEF Running, Claimed, Leaving
<1>4. \A u \in Threads : u # t => (Claimed(u)' <=> Claimed(u))
  BY <1>1, <1>2, <1>3 DEF Claimed, Leaving, Body, EnvsMatch
<1>5. /\ \A u \in Threads : u # t => res'[u] = res[u]
      /\ res'[t] # "invalid"
      /\ res'[t] = "joinable" => Claimed(t) /\ res[t] = "joinable"
  <2>1. CASE Detachable(e)
    <3>1. res[t] = "joinable"
      BY <1>1, <1>3, <2>1 DEF Detachable, NativeBody, Unclaimed, Claimed, Leaving
    <3> QED
      BY <2>1, <3>1 DEF ExitCluster, NativeDetach
  <2>2. CASE ~ Detachable(e)
    BY <1>3, <2>2 DEF ExitCluster, Detachable, NativeBody, Claimed
  <2> QED
    BY <2>1, <2>2
<1>6. Unclaimed' /\ JoinerComes'
  BY <1>1, <1>2, <1>3, <1>4, <1>5 DEF NativeBody, Unclaimed, JoinerComes
<1>7. PeersClaimed' /\ JoinsStarted'
  BY <1>1, <1>2, <1>3, <1>4 DEF NativeBody, PeersClaimed, JoiningPCs, JoinsStarted
<1> QED
  BY <1>1, <1>5, <1>6, <1>7 DEF NativeBody

LEMMA NativeInit == Init => NativeInv
<1> SUFFICES ASSUME Init PROVE NativeBody
  BY DEF NativeInv
<1> USE MainAssumption DEF Init
<1>1. \A t \in Threads : ~ Claimed(t)
  BY DEF Claimed, Leaving
<1>2. \A t \in Threads : Running(t) => res[t] = "joinable"
  BY DEF Running
<1> QED
  BY <1>1, <1>2 DEF NativeBody, Unclaimed, JoinerComes, PeersClaimed, JoiningPCs, JoinsStarted

LEMMA NativeNext == TypeInv /\ LockingInv /\ NativeInv /\ [Next]_vars => NativeInv'
<1> SUFFICES ASSUME TypeInv, LockingInv, NativeInv, [Next]_vars, ~ At(Main, "finished")'
             PROVE  NativeBody'
  BY DEF NativeInv
<1>1. CASE UNCHANGED vars
  BY <1>1 DEF vars, NativeInv, NativeBody, Unclaimed, JoinerComes, PeersClaimed, JoinsStarted,
              Claimed, Leaving, Running
<1>2. ASSUME NEW t \in Threads, App(t) \/ Runtime(t) PROVE NativeBody'
  <2>1. ~ At(Main, "finished")
    BY <1>2, FinishedStep
  <2>2. Body /\ NativeBody
    BY <2>1 DEF LockingInv, Body, NativeInv
  <2>3. ~ Destroy(t)
    BY MainAssumption DEF Destroy, TypeInv, TypeOK
  <2> QED
    BY <1>2, <2>2, <2>3, NativeApp, NativeRuntime, NativeCreate, NativeStart, NativeJoin,
       NativeJoined, NativeDetached, NativeExit
<1> QED
  BY <1>1, <1>2 DEF Next, AllEnded

\* Until the main thread has destroyed the cluster, no thread's native resources
\* are released twice, by any of join, detach and the thread's own exit, and a
\* thread that has ended unreleased has a joiner on its way.
THEOREM NativeReleasedOnceCorrect == Spec => [](~ At(Main, "finished") => NativeReleasedOnce)
<1>1. NativeInv => (~ At(Main, "finished") => NativeReleasedOnce)
  BY DEF NativeInv, NativeBody, JoinerComes, Claimed, Leaving, NativeReleasedOnce, Workers
<1> QED
  BY <1>1, TypeInit, TypeStep, LockingInit, LockingNext, NativeInit, NativeNext, PTL DEF Spec

-----------------------------------------------------------------------------
(* The main thread is the last one, if no thread is detached.  Its walk over  *)
(* the list skips an exec_env whose thread another thread joins; but who      *)
(* joins is younger than nobody it joins, so the oldest of the threads that   *)
(* are left would have nobody but the main thread to join it.                *)

Detaching == {"detach_list", "detach_find"}
JoinOps   == {"join_list", "join_find", "join_count"}
WalkPCs   == {"wait_all"} \union JoinOps \union JoiningPCs
NotMain   == {"idle", "starting", "exit_aux", "exit_list", "exit_cluster", "exit_native", "done"}

NoneDetached == detached = {} /\ \A t \in Threads : pc[t] \notin Detaching

\* Who runs is listed; the main thread runs, and no other has its exec_env.
AllListed ==
    /\ \A t \in Threads : Running(t) => env[t] \in exec_env_list
    /\ pc[Main] \notin NotMain \union {"destroy", "finished"}
    /\ \A t \in Workers : env[t] # env[Main]

\* While the main thread walks over the list no thread is created, and those it
\* has been at are joined, by it or by another thread.
Visited(e) == e \in proc_nodes \/ (At(Main, "wait_all") /\ e = arg[Main])

WalkMatches ==
    processing =>
        /\ pc[Main] \in WalkPCs
        /\ \A t \in Threads : ~ At(t, "starting")
        /\ \A e \in exec_env_list : Visited(e) => res[handle[e]] # "joinable"
        /\ pc[Main] \in JoiningPCs /\ arg[Main] \in exec_env_list
              => handle[arg[Main]] = peer[Main]

JoinersWait ==
    \A v \in Workers : Running(v) /\ res[v] # "joinable" =>
        \E u \in Threads : At(u, "joining") /\ peer[u] = v

\* Threads that do not exist yet.
Unborn == \A c \in Threads : At(c, "idle") => parent[c] = None /\ \A d \in Threads : parent[d] # c

\* Threads have ages: n of them have been created.  A thread joins by the
\* exec_envs of threads it has created, and who has one of these now is
\* younger than it, whoever created it.
AgedBy(n, age) ==
    /\ \A t \in Threads : age[t] <= n
    /\ \A u, v \in Workers : Running(v) /\ env[v] \in Children(u) => age[u] < age[v]
    /\ \A u \in Workers : pc[u] \in JoinOps => arg[u] \in Children(u)
    /\ \A u \in Workers : pc[u] \in JoiningPCs /\ peer[u] \in Workers /\ Running(peer[u])
                             => age[u] < age[peer[u]]

Aged == \E n \in Nat : \E age \in [Threads -> Nat] : AgedBy(n, age)

LastBody == NoneDetached /\ AllListed /\ WalkMatches /\ JoinersWait /\ Unborn /\ Aged

LEMMA Smallest ==
    ASSUME NEW T \in SUBSET Nat, T # {}
    PROVE  \E m \in T : \A k \in T : m <= k
<1> DEFINE R == OpToRel(<, Nat)
<1>1. IsWellFoundedOn(R, Nat)
  BY NatLessThanWellFounded
<1>2. PICK m \in T : \A k \in T : ~ (<<k, m>> \in R)
  <2> HIDE DEF R
  <2> QED
    BY <1>1, WFMin
<1>3. \A k \in T : ~ (k < m)
  BY <1>2 DEF OpToRel
<1> QED
  BY <1>3

LEMMA Oldest ==
    ASSUME NEW S \in SUBSET Threads, S # {}, NEW age \in [Threads -> Nat]
    PROVE  \E v \in S : \A u \in S : age[v] <= age[u]
<1> DEFINE T == {age[u] : u \in S}
<1>1. T \in SUBSET Nat /\ T # {}
  OBVIOUS
<1>2. PICK m \in T : \A k \in T : m <= k
  <2> HIDE DEF T
  <2> QED
    BY <1>1, Smallest
<1> QED
  BY <1>2

\* The walk ends when only the main thread is left.
LEMMA WalkEndsLast ==
    ASSUME TypeInv, Body, LastBody, At(Main, "wait_all"), ClusterFree,
           LET seen == IF processing THEN proc_nodes \union {arg[Main]} ELSE {}
           IN  exec_env_list \subseteq seen \union {env[Main]}
    PROVE  \A t \in Workers : ~ Running(t) /\ env[t] \notin exec_env_list
<1> USE MainAssumption
<1>1. \A t \in Threads : ~ At(t, "starting")
  BY NobodyStarts
<1> DEFINE S == {t \in Workers : Running(t)}
<1>2. ASSUME S # {} PROVE FALSE
  <2>1. PICK n \in Nat, age \in [Threads -> Nat] : AgedBy(n, age)
    BY DEF LastBody, Aged
  <2>2. S \in SUBSET Threads
    BY DEF Workers
  <2>3. PICK v \in S : \A u \in S : age[v] <= age[u]
    <3> HIDE DEF S
    <3> QED
      BY <1>2, <2>2, Oldest
  <2>4. v \in Workers /\ v \in Threads /\ Running(v)
    BY <2>2
  <2>5. /\ env[v] \in exec_env_list /\ env[v] # env[Main] /\ handle[env[v]] = v
    BY <1>1, <2>4 DEF LastBody, AllListed, Body, EnvsMatch
  <2>6. processing /\ Visited(env[v])
    BY <2>5 DEF Visited
  <2>7. res[v] # "joinable"
    BY <2>5, <2>6 DEF LastBody, WalkMatches
  <2>8. PICK u \in Threads : At(u, "joining") /\ peer[u] = v
    BY <2>4, <2>7 DEF LastBody, JoinersWait
  <2>9. u \in S
    BY <2>8 DEF Running, Workers
  <2>10. age[u] < age[v]
    BY <2>1, <2>4, <2>8, <2>9 DEF AgedBy, JoiningPCs
  <2> QED
    BY <2>2, <2>3, <2>9, <2>10
<1>3. ASSUME NEW t \in Workers, env[t] \in exec_env_list PROVE FALSE
  <2>1. PICK u \in Threads : Running(u) /\ env[u] = env[t]
    BY <1>3 DEF Body, EnvsMatch
  <2> QED
    BY <1>2, <1>3, <2>1 DEF LastBody, AllListed, Workers
<1> QED
  BY <1>2, <1>3

\* A running thread moves to another place without a thread, an exec_env or a
\* join that begins or ends.
LEMMA LastQuiet ==
    ASSUME TypeInv, LastBody, NEW t \in Threads,
           UNCHANGED <<env, parent, peer, res, handle, detached, exec_env_list, processing, proc_nodes>>,
           \A u \in Threads : u # t => arg'[u] = arg[u],
           pc[t] \notin Ended \union {"joining"},
           NEW q \in PCs \ (Ended \union JoiningPCs \union Detaching \union {"starting", "destroy"}),
           pc' = [pc EXCEPT ![t] = q],
           t = Main => q \notin NotMain,
           t = Main /\ processing =>
              \/ q \in JoinOps
              \/ q = "wait_all" /\ arg'[Main] \notin exec_env_list,
           t # Main /\ q \in JoinOps => arg'[t] \in Children(t)
    PROVE  LastBody'
<1> USE MainAssumption
<1>1. pc'[t] = q /\ \A u \in Threads : u # t => pc'[u] = pc[u]
  BY DEF TypeInv, TypeOK
<1>2. \A u \in Threads : Running(u)' <=> Running(u)
  BY <1>1 DEF Running, Ended
<1>3. NoneDetached'
  BY <1>1 DEF LastBody, NoneDetached, Detaching
<1>4. AllListed'
  BY <1>1, <1>2 DEF LastBody, AllListed, Ended, NotMain
<1>5. WalkMatches'
  BY <1>1 DEF LastBody, WalkMatches, WalkPCs, JoiningPCs, Visited, JoinOps
<1>6. JoinersWait'
  <2> SUFFICES ASSUME NEW v \in Workers, Running(v), res[v] # "joinable"
               PROVE  \E u \in Threads : pc'[u] = "joining" /\ peer[u] = v
    BY <1>2 DEF JoinersWait, Workers
  <2>1. PICK u \in Threads : pc[u] = "joining" /\ peer[u] = v
    BY DEF LastBody, JoinersWait
  <2> QED
    BY <1>1, <2>1
<1>7. Unborn'
  BY <1>1 DEF LastBody, Unborn, Ended
<1>8. Aged'
  <2>1. PICK n \in Nat, age \in [Threads -> Nat] : AgedBy(n, age)
    BY DEF LastBody, Aged
  <2>2. \A u : Children(u)' = Children(u)
    BY DEF Children
  <2>3. AgedBy(n, age)'
    <3>1. \A u \in Workers : pc'[u] \in JoinOps => arg'[u] \in Children(u)
      BY <1>1, <2>1 DEF AgedBy, Workers
    <3>2. \A u \in Workers : pc'[u] \in JoiningPCs => pc[u] \in JoiningPCs
      BY <1>1 DEF Workers
    <3> QED
      BY <1>2, <2>1, <2>2, <3>1, <3>2 DEF AgedBy, Workers
  <2> QED
    BY <2>1, <2>3 DEF Aged
<1> QED
  BY <1>3, <1>4, <1>5, <1>6, <1>7, <1>8 DEF LastBody

LEMMA LastApp ==
    ASSUME \A t \in Threads : "detach" \notin May[t],
           TypeInv, LastBody, NEW t \in Threads, App(t)
    PROVE  LastBody'
<1> DEFINE Places == PCs \ (Ended \union JoiningPCs \union Detaching \union {"starting", "destroy"})
<1>1. UNCHANGED <<env, parent, peer, res, handle, detached, exec_env_list, processing, proc_nodes>>
  BY DEF App, AppCreate, AppJoin, AppDetach, AppCancel, AppTarget, AppTrap, AppClear,
     AppSetException, AppReturn
<1>2. \A u \in Threads : u # t => arg'[u] = arg[u]
  BY DEF App, AppCreate, AppJoin, AppDetach, AppCancel, AppTarget, AppTrap, AppClear,
     AppSetException, AppReturn, TypeInv, TypeOK
<1>3. pc[t] = "app" /\ \E q \in Places : /\ pc' = [pc EXCEPT ![t] = q]
                                         /\ t = Main => q \notin NotMain
                                         /\ q \in JoinOps => arg'[t] \in Children(t)
  <2>1. CASE AppCreate(t) \/ AppCancel(t) \/ AppTrap(t) \/ AppClear(t) \/ AppReturn(t)
    BY <2>1 DEF AppCreate, AppCancel, AppTarget, AppTrap, AppClear, AppSetException, AppReturn,
       Begin, LeaveWasm, PCs, Ended, JoiningPCs, JoinOps, Detaching, NotMain
  <2>2. CASE AppJoin(t)
    <3>1. pc[t] = "app" /\ pc' = [pc EXCEPT ![t] = "join_list"] /\ arg'[t] \in Children(t)
      BY <2>2 DEF AppJoin, AppTarget, Begin, TypeInv, TypeOK
    <3> QED
      BY <3>1 DEF PCs, Ended, JoiningPCs, JoinOps, Detaching, NotMain
  <2>3. ~ AppDetach(t)
    BY DEF AppDetach, AppTarget, Begin
  <2> QED
    BY <2>1, <2>2, <2>3 DEF App
<1>4. ~ (t = Main /\ processing)
  BY <1>3 DEF LastBody, WalkMatches, WalkPCs, JoinOps, JoiningPCs
<1> HIDE DEF Places
<1>5. PICK q \in Places : /\ pc' = [pc EXCEPT ![t] = q]
                          /\ t = Main => q \notin NotMain
                          /\ q \in JoinOps => arg'[t] \in Children(t)
  BY <1>3
<1> QED
  BY <1>1, <1>2, <1>3, <1>4, <1>5, LastQuiet DEF Places, Ended

LEMMA LastRuntime ==
    ASSUME TypeInv, LastBody, NEW t \in Threads, Runtime(t),
           ~ (\/ CreateThread(t) \/ StartRoutine(t) \/ JoinCount(t) \/ JoinNative(t) \/ Joined(t)
              \/ ExitCluster(t) \/ ExitNative(t) \/ WaitAll(t) \/ Destroy(t))
    PROVE  LastBody'
<1> DEFINE Moves(q) ==
              /\ UNCHANGED <<env, parent, peer, res, handle, detached, exec_env_list,
                             processing, proc_nodes>>
              /\ UNCHANGED arg
              /\ pc[t] \notin Ended \union {"joining"}
              /\ pc' = [pc EXCEPT ![t] = q]
              /\ t = Main => q \notin NotMain
           Places == PCs \ (Ended \union JoiningPCs \union Detaching \union JoinOps
                              \union {"starting", "destroy"})
<1>1. ASSUME NEW q \in Places, Moves(q), ~ (t = Main /\ processing) PROVE LastBody'
  BY <1>1, LastQuiet
<1>2. pc[t] \notin WalkPCs => ~ (t = Main /\ processing)
  BY DEF LastBody, WalkMatches
<1>3. t = Main => pc[t] \notin NotMain
  BY DEF LastBody, AllListed
<1> USE DEF Return, LeaveWasm, AcquireList, PCs, Ended, JoiningPCs, JoinOps, Detaching, NotMain
<1>4. CASE \/ BranchCheck(t) \/ CallCheck(t) \/ AllocateAux(t) \/ LockSelf(t)
           \/ CreateFails(t) \/ CreateReturns(t) \/ UndoAux(t)
  <2>1. pc[t] \notin WalkPCs
    BY <1>4 DEF BranchCheck, CallCheck, AllocateAux, LockSelf, CreateFails, CreateReturns,
       UndoAux, WalkPCs
  <2>2. \E q \in Places : Moves(q)
    BY <1>2, <1>4, <2>1 DEF BranchCheck, CallCheck, AllocateAux, LockSelf, CreateFails, CreateReturns,
       UndoAux, FreeAux
  <2> QED
    BY <1>1, <1>2, <2>1, <2>2
<1>5. CASE CancelLock(t) \/ CancelFreed(t) \/ CancelFind(t) \/ CancelFlag(t) \/ SearchLock(t) \/ SearchFind(t)
  <2>1. pc[t] \notin WalkPCs
    BY <1>5 DEF CancelLock, CancelFreed, CancelFind, CancelFlag, SearchLock, SearchFind, WalkPCs
  <2>2. \E q \in Places : Moves(q)
    BY <1>2, <1>5, <2>1 DEF CancelLock, CancelFreed, CancelFind, CancelFlag, SearchLock, SearchFind
  <2> QED
    BY <1>1, <1>2, <2>1, <2>2
<1>6. CASE SpreadBegin(t) \/ SpreadEnd(t) \/ ExitAux(t) \/ ExitLock(t)
  <2>1. pc[t] \notin WalkPCs
    BY <1>6 DEF SpreadBegin, SpreadEnd, ExitAux, ExitLock, WalkPCs
  <2>2. \E q \in Places : Moves(q)
    BY <1>2, <1>3, <1>6, <2>1 DEF SpreadBegin, SpreadEnd, ExitAux, FreeAux, ExitLock
  <2> QED
    BY <1>1, <1>2, <2>1, <2>2
<1>7. CASE SpreadVisit(t)
  <2>1. UNCHANGED <<pc, env, parent, peer, res, handle, detached, exec_env_list, processing,
                    proc_nodes, arg>>
    BY <1>7 DEF SpreadVisit
  <2> QED
    BY <2>1 DEF LastBody, NoneDetached, AllListed, WalkMatches, Visited, JoinersWait, Unborn, Aged, AgedBy,
       Children, Running
<1>8. CASE JoinLock(t) \/ JoinFind(t)
  <2>1. /\ UNCHANGED <<env, parent, peer, res, handle, detached, exec_env_list, processing,
                       proc_nodes, arg>>
        /\ pc[t] \in {"join_list", "join_find"}
    BY <1>8 DEF JoinLock, JoinFind
  <2>2. t # Main => arg[t] \in Children(t)
    BY <2>1 DEF LastBody, Aged, AgedBy, Workers
  <2>3. \/ \E q \in {"join_find", "join_count"} : pc' = [pc EXCEPT ![t] = q]
        \/ ~ (t = Main /\ processing) /\ pc' = [pc EXCEPT ![t] = "check"]
        \/ /\ t = Main /\ processing /\ pc' = [pc EXCEPT ![t] = "wait_all"]
           /\ arg[t] \notin exec_env_list
    BY <1>8 DEF JoinLock, JoinFind, LastBody, NoneDetached
  <2>4. ASSUME NEW q \in {"join_find", "join_count", "check", "wait_all"},
               pc' = [pc EXCEPT ![t] = q],
               t = Main /\ processing => \/ q \in JoinOps
                                         \/ q = "wait_all" /\ arg[Main] \notin exec_env_list
        PROVE  LastBody'
    BY <2>1, <2>2, <2>4, LastQuiet
  <2> QED
    BY <2>3, <2>4
<1>9. ~ (DetachLock(t) \/ DetachFind(t))
  BY DEF DetachLock, DetachFind, LastBody, NoneDetached
<1> QED
  BY <1>4, <1>5, <1>6, <1>7, <1>8, <1>9 DEF Runtime

\* The new thread is the youngest, whichever exec_env it gets.
LEMMA LastCreate ==
    ASSUME TypeInv, Body, NativeBody, LastBody, NEW t \in Threads, CreateThread(t)
    PROVE  LastBody'
<1> USE MainAssumption, NoneAssumption
<1>1. PICK c \in Threads, e \in Envs \ alloc :
         /\ pc[c] = "idle"
         /\ pc' = [pc EXCEPT ![t] = "handle_wait", ![c] = "starting"]
         /\ env' = [env EXCEPT ![c] = e]
         /\ parent' = [parent EXCEPT ![c] = t]
         /\ res' = [res EXCEPT ![c] = "joinable"]
         /\ arg' = [arg EXCEPT ![t] = e]
         /\ exec_env_list' = exec_env_list \union {e}
  BY DEF CreateThread
<1>2. /\ pc[t] = "create_lock" /\ ~ processing /\ c # t
      /\ UNCHANGED <<peer, detached, processing>>
  BY <1>1 DEF CreateThread, SpawnAllowed
<1>3. c # Main /\ env[Main] # e
  <2>1. Running(Main)
    BY DEF LastBody, AllListed, NotMain, Running
  <2> QED
    BY <1>1, <2>1 DEF LastBody, AllListed, NotMain, Body, EnvsMatch
<1>4. /\ pc'[t] = "handle_wait" /\ pc'[c] = "starting"
      /\ \A u \in Threads \ {t, c} : pc'[u] = pc[u]
      /\ env'[c] = e /\ \A u \in Threads \ {c} : env'[u] = env[u]
      /\ parent'[c] = t /\ \A u \in Threads \ {c} : parent'[u] = parent[u]
      /\ res'[c] = "joinable" /\ \A u \in Threads \ {c} : res'[u] = res[u]
      /\ \A u \in Threads \ {t} : arg'[u] = arg[u]
  BY <1>1, <1>2 DEF TypeInv, TypeOK
<1>5. \A u \in Threads \ {c} : Running(u)' <=> Running(u)
  BY <1>2, <1>4 DEF Running
<1>6. NoneDetached'
  BY <1>2, <1>4 DEF LastBody, NoneDetached, Detaching
<1>7. AllListed'
  <2>1. \A u \in Threads : Running(u)' => env'[u] \in exec_env_list'
    BY <1>1, <1>4, <1>5 DEF LastBody, AllListed
  <2>2. pc'[Main] \notin NotMain \union {"destroy", "finished"}
    BY <1>3, <1>4 DEF LastBody, AllListed, NotMain
  <2>3. \A u \in Workers : env'[u] # env'[Main]
    BY <1>3, <1>4 DEF LastBody, AllListed, Workers
  <2> QED
    BY <2>1, <2>2, <2>3 DEF AllListed
<1>8. WalkMatches'
  BY <1>2 DEF WalkMatches
<1>9. JoinersWait'
  <2> SUFFICES ASSUME NEW v \in Workers, Running(v)', res'[v] # "joinable"
               PROVE  \E u \in Threads : pc'[u] = "joining" /\ peer[u] = v
    BY <1>2 DEF JoinersWait
  <2>1. v # c /\ Running(v) /\ res[v] # "joinable"
    BY <1>4, <1>5 DEF Workers
  <2>2. PICK u \in Threads : pc[u] = "joining" /\ peer[u] = v
    BY <2>1 DEF LastBody, JoinersWait
  <2> QED
    BY <1>1, <1>2, <1>4, <2>2
<1>10. Unborn'
  BY <1>1, <1>4 DEF LastBody, Unborn
<1>11. Aged'
  <2>1. PICK n \in Nat, age \in [Threads -> Nat] : AgedBy(n, age)
    BY DEF LastBody, Aged
  <2> DEFINE m == n + 1
             old == [age EXCEPT ![c] = m]
  <2>2. /\ m \in Nat /\ old \in [Threads -> Nat] /\ old[c] = m
        /\ \A u \in Threads \ {c} : old[u] = age[u] /\ age[u] < m
    BY <2>1 DEF AgedBy
  <2> HIDE DEF m, old
  <2>3. parent[c] = None /\ \A d \in Threads : parent[d] # c
    BY <1>1 DEF LastBody, Unborn
  <2>4. Children(c)' = {}
    BY <1>2, <1>4, <2>3 DEF Children, Workers
  <2>5. \A u \in Threads : \A x \in Children(u)' : x = e \/ x \in Children(u)
    BY <1>4 DEF Children, Workers
  <2>6. \A u \in Threads : Children(u) \subseteq Children(u)'
    BY <1>4, <2>3 DEF Children, Workers
  <2>7. ASSUME NEW u \in Workers, NEW v \in Workers, Running(v)', env'[v] \in Children(u)'
        PROVE  old[u] < old[v]
    <3>1. u # c
      BY <2>4, <2>7
    <3>2. CASE v = c
      BY <2>2, <3>1, <3>2 DEF Workers
    <3>3. CASE v # c
      <4>1. Running(v) /\ env'[v] = env[v] /\ env[v] \in alloc
        BY <1>4, <1>5, <2>7, <3>3 DEF Workers, Body, EnvsMatch
      <4>2. env[v] \in Children(u)
        BY <1>1, <2>5, <2>7, <4>1 DEF Workers
      <4>3. age[u] < age[v]
        BY <2>1, <4>1, <4>2 DEF AgedBy
      <4> QED
        BY <2>2, <3>1, <3>3, <4>3 DEF Workers
    <3> QED
      BY <3>2, <3>3
  <2>8. ASSUME NEW u \in Workers, pc'[u] \in JoinOps PROVE arg'[u] \in Children(u)'
    <3>1. u # t /\ u # c /\ u \in Threads
      BY <1>4, <2>8 DEF JoinOps, Workers
    <3> QED
      BY <1>4, <2>1, <2>6, <2>8, <3>1 DEF AgedBy
  <2>9. ASSUME NEW u \in Workers, pc'[u] \in JoiningPCs, peer[u] \in Workers, Running(peer[u])'
        PROVE  old[u] < old[peer[u]]
    <3>1. u # t /\ u # c /\ u \in Threads
      BY <1>4, <2>9 DEF JoiningPCs, Workers
    <3>2. pc[u] \in JoiningPCs
      BY <1>4, <2>9, <3>1
    <3>3. peer[u] # c
      BY <1>1, <3>1, <3>2 DEF NativeBody, PeersClaimed, Claimed, Leaving, Running
    <3>4. peer[u] \in Threads \ {c}
      BY <2>9, <3>3 DEF Workers
    <3>5. Running(peer[u])
      BY <1>2, <1>4, <2>9, <3>4 DEF Running
    <3>6. age[u] < age[peer[u]]
      BY <2>1, <2>9, <3>2, <3>5 DEF AgedBy
    <3>7. old[u] = age[u] /\ old[peer[u]] = age[peer[u]]
      BY <2>2, <3>1, <3>4
    <3> QED
      BY <3>6, <3>7
  <2>10. \A u \in Threads : old[u] <= m
    BY <2>1, <2>2
  <2>11. AgedBy(m, old)'
    BY <1>2, <2>7, <2>8, <2>9, <2>10 DEF AgedBy
  <2> QED
    BY <2>2, <2>11 DEF Aged
<1> QED
  BY <1>6, <1>7, <1>8, <1>9, <1>10, <1>11 DEF LastBody

LEMMA LastStart ==
    ASSUME TypeInv, Body, LastBody, NEW t \in Threads, StartRoutine(t)
    PROVE  LastBody'
<1> USE MainAssumption
<1>1. /\ pc[t] = "starting" /\ parent[t] \in Threads /\ pc[parent[t]] = "handle_wait"
      /\ UNCHANGED <<env, parent, peer, res, arg, detached, exec_env_list, processing, proc_nodes>>
  BY DEF StartRoutine, Body, CreatorWaits
<1>2. pc' = [pc EXCEPT ![t] = "app", ![parent[t]] = "handle_set"]
  BY <1>1 DEF StartRoutine
<1>3. /\ pc'[t] = "app" /\ pc'[parent[t]] = "handle_set" /\ t # parent[t]
      /\ \A u \in Threads \ {t, parent[t]} : pc'[u] = pc[u]
  BY <1>1, <1>2 DEF TypeInv, TypeOK
<1>4. \A u \in Threads : Running(u)' <=> Running(u)
  BY <1>1, <1>3 DEF Running
<1>5. \A u \in Threads : /\ (pc'[u] \in JoinOps \union JoiningPCs \union Detaching \union {"idle"}
                                => pc'[u] = pc[u])
                         /\ (pc[u] = "joining" => pc'[u] = "joining")
  BY <1>1, <1>3 DEF JoinOps, JoiningPCs, Detaching
<1>6. NoneDetached'
  BY <1>1, <1>5 DEF LastBody, NoneDetached
<1>7. AllListed'
  BY <1>1, <1>3, <1>4 DEF LastBody, AllListed, NotMain, Workers
<1>8. WalkMatches'
  BY <1>1 DEF LastBody, WalkMatches
<1>9. JoinersWait'
  <2> SUFFICES ASSUME NEW v \in Workers, Running(v), res[v] # "joinable"
               PROVE  \E u \in Threads : pc'[u] = "joining" /\ peer[u] = v
    BY <1>1, <1>4 DEF JoinersWait, Workers
  <2> QED
    BY <1>5 DEF LastBody, JoinersWait
<1>10. Unborn'
  BY <1>1, <1>5 DEF LastBody, Unborn
<1>11. Aged'
  BY <1>1, <1>4, <1>5 DEF LastBody, Aged, AgedBy, Children, Workers
<1> QED
  BY <1>6, <1>7, <1>8, <1>9, <1>10, <1>11 DEF LastBody

\* A join has found the thread it is for.
LEMMA LastCount ==
    ASSUME TypeInv, Body, NativeBody, LastBody, NEW t \in Threads, JoinCount(t)
    PROVE  LastBody'
<1> USE MainAssumption
<1> DEFINE v == handle[arg[t]]
<1>1. /\ pc[t] = "join_count" /\ pc' = [pc EXCEPT ![t] = "join_native"]
      /\ peer' = [peer EXCEPT ![t] = v]
      /\ UNCHANGED <<env, parent, res, arg, handle, detached, exec_env_list, processing, proc_nodes>>
  BY DEF JoinCount
<1>2. /\ pc'[t] = "join_native" /\ \A u \in Threads \ {t} : pc'[u] = pc[u]
      /\ peer'[t] = v /\ \A u \in Threads \ {t} : peer'[u] = peer[u]
  BY <1>1 DEF TypeInv, TypeOK
<1>3. \A u \in Threads : Running(u)' <=> Running(u)
  BY <1>1, <1>2 DEF Running
<1>4. NoneDetached'
  BY <1>1, <1>2 DEF LastBody, NoneDetached, Detaching
<1>5. AllListed'
  BY <1>1, <1>2, <1>3 DEF LastBody, AllListed, NotMain, Workers
<1>6. WalkMatches'
  BY <1>1, <1>2 DEF LastBody, WalkMatches, WalkPCs, JoiningPCs, JoinOps, Visited
<1>7. JoinersWait'
  <2> SUFFICES ASSUME NEW w \in Workers, Running(w), res[w] # "joinable"
               PROVE  \E u \in Threads : pc'[u] = "joining" /\ peer'[u] = w
    BY <1>1, <1>3 DEF JoinersWait, Workers
  <2> QED
    BY <1>1, <1>2 DEF LastBody, JoinersWait
<1>8. Unborn'
  BY <1>1, <1>2 DEF LastBody, Unborn
<1>9. Aged'
  <2>1. PICK n \in Nat, age \in [Threads -> Nat] : AgedBy(n, age)
    BY DEF LastBody, Aged
  <2>2. arg[t] \in exec_env_list /\ \A u \in Threads : env[u] = arg[t] => ~ At(u, "starting")
    BY <1>1 DEF Body, OperandsListed, NativeBody, JoinsStarted
  <2>3. env[v] = arg[t]
    BY <2>2, ListedHandle
  <2>4. t \in Workers => arg[t] \in Children(t)
    BY <1>1, <2>1 DEF AgedBy, JoinOps
  <2>5. t \in Workers /\ v \in Workers /\ Running(v) => age[t] < age[v]
    BY <2>1, <2>3, <2>4 DEF AgedBy
  <2> HIDE DEF v
  <2>6. \A u : Children(u)' = Children(u)
    BY <1>1 DEF Children
  <2>7. AgedBy(n, age)'
    <3>1. \A u, w \in Workers : Running(w)' /\ env'[w] \in Children(u)' => age[u] < age[w]
      BY <1>1, <1>3, <2>1, <2>6 DEF AgedBy, Workers
    <3>2. \A u \in Workers : pc'[u] \in JoinOps => arg'[u] \in Children(u)'
      BY <1>1, <1>2, <2>1, <2>6 DEF AgedBy, Workers, JoinOps
    <3>3. ASSUME NEW u \in Workers, pc'[u] \in JoiningPCs, peer'[u] \in Workers, Running(peer[u])'
          PROVE  age[u] < age[peer'[u]]
      <4>1. u \in Threads /\ peer'[u] \in Threads
        BY <3>3 DEF Workers
      <4>2. Running(peer'[u])
        BY <1>1, <1>2, <3>3, <4>1 DEF Running
      <4>3. CASE u = t
        BY <1>2, <2>5, <3>3, <4>2, <4>3
      <4>4. CASE u # t
        BY <1>2, <2>1, <3>3, <4>1, <4>2, <4>4 DEF AgedBy
      <4> QED
        BY <4>3, <4>4
    <3>4. \A u \in Threads : age[u] <= n
      BY <2>1 DEF AgedBy
    <3> QED
      BY <3>1, <3>2, <3>3, <3>4 DEF AgedBy
  <2> QED
    BY <2>1, <2>7 DEF Aged
<1> QED
  BY <1>4, <1>5, <1>6, <1>7, <1>8, <1>9 DEF LastBody

\* Threads end, and leave what they are at, without a change of ages.
LEMMA AgedKept ==
    ASSUME Aged, UNCHANGED <<env, parent, peer>>,
           \A u \in Workers : /\ pc'[u] \in Ended \/ pc[u] \notin Ended
                              /\ pc'[u] \in JoinOps => pc[u] \in JoinOps /\ arg'[u] = arg[u]
                              /\ pc'[u] \in JoiningPCs => pc[u] \in JoiningPCs
    PROVE  Aged'
<1>1. PICK n \in Nat, age \in [Threads -> Nat] : AgedBy(n, age)
  BY DEF Aged
<1>2. \A u : Children(u)' = Children(u)
  BY DEF Children
<1>3. \A u, v \in Workers : Running(v)' /\ env'[v] \in Children(u)' => age[u] < age[v]
  BY <1>1, <1>2 DEF AgedBy, Running, Ended
<1>4. \A u \in Workers : pc'[u] \in JoinOps => arg'[u] \in Children(u)'
  BY <1>1, <1>2 DEF AgedBy
<1>5. ASSUME NEW u \in Workers, pc'[u] \in JoiningPCs, peer[u] \in Workers, Running(peer[u])'
      PROVE  age[u] < age[peer[u]]
  <2>1. Running(peer[u])
    BY <1>5 DEF Running, Ended
  <2> QED
    BY <1>1, <1>5, <2>1 DEF AgedBy
<1>6. \A u \in Threads : age[u] <= n
  BY <1>1 DEF AgedBy
<1>7. AgedBy(n, age)'
  BY <1>3, <1>4, <1>5, <1>6 DEF AgedBy
<1> QED
  BY <1>1, <1>7 DEF Aged

\* os_thread_join: the first to come waits for the thread; whoever comes later
\* is sent back, with the thread being joined or about to end.
LEMMA LastNative ==
    ASSUME TypeInv, Body, NativeBody, LastBody, NEW t \in Threads, JoinNative(t)
    PROVE  LastBody'
<1> USE MainAssumption
<1> DEFINE p == peer[t]
<1>1. /\ pc[t] = "join_native"
      /\ UNCHANGED <<env, parent, peer, arg, handle, detached, exec_env_list, processing, proc_nodes>>
      /\ \/ /\ res[p] = "joinable" /\ res' = [res EXCEPT ![p] = "joining"]
            /\ pc' = [pc EXCEPT ![t] = "joining"]
         \/ /\ res[p] # "joinable" /\ res' = res
            /\ pc' = [pc EXCEPT ![t] = IF t = Main /\ processing THEN "wait_all" ELSE "check"]
  BY DEF JoinNative, Return
<1>2. /\ pc'[t] \in {"joining", "check", "wait_all"}
      /\ t = Main /\ processing => pc'[t] # "check"
      /\ \A u \in Threads \ {t} : pc'[u] = pc[u]
  BY <1>1 DEF TypeInv, TypeOK
<1>3. p \in Threads
  BY <1>1 DEF NativeBody, PeersClaimed, JoiningPCs
<1>4. /\ \A u \in Threads : res'[u] = "joinable" => res[u] = "joinable"
      /\ \A u \in Threads \ {p} : res'[u] = res[u]
      /\ pc'[t] = "joining" \/ (res[p] # "joinable" /\ res' = res)
      /\ res'[p] # "joinable"
  BY <1>1, <1>3 DEF TypeInv, TypeOK
<1>5. \A u \in Threads : Running(u)' <=> Running(u)
  BY <1>1, <1>2 DEF Running
<1>6. NoneDetached'
  BY <1>1, <1>2 DEF LastBody, NoneDetached, Detaching
<1>7. AllListed'
  BY <1>1, <1>2, <1>5 DEF LastBody, AllListed, NotMain
<1>8. WalkMatches'
  <2> SUFFICES ASSUME processing PROVE WalkMatches'
    BY <1>1 DEF WalkMatches
  <2>1. /\ pc'[Main] \in WalkPCs /\ \A u \in Threads : pc'[u] # "starting"
        /\ \A u \in Threads : pc[u] # "starting"
    BY <1>1, <1>2 DEF LastBody, WalkMatches, WalkPCs, JoiningPCs
  <2>2. pc'[Main] \in JoiningPCs => pc[Main] \in JoiningPCs
    BY <1>1, <1>2 DEF JoiningPCs
  <2>3. ASSUME NEW e \in exec_env_list, Visited(e)' PROVE res'[handle[e]] # "joinable"
    <3>1. CASE Visited(e)
      <4>1. res[handle[e]] # "joinable"
        BY <3>1 DEF LastBody, WalkMatches
      <4> QED
        BY <1>4, <2>1, <4>1, ListedHandle
    <3>2. CASE ~ Visited(e)
      <4>1. t = Main /\ pc'[Main] = "wait_all" /\ e = arg[Main]
        BY <1>1, <1>2, <2>3, <3>2 DEF Visited
      <4>2. handle[e] = p
        BY <1>1, <4>1 DEF LastBody, WalkMatches, JoiningPCs
      <4> QED
        BY <1>4, <4>2
    <3> QED
      BY <3>1, <3>2
  <2> QED
    BY <1>1, <2>1, <2>2, <2>3 DEF WalkMatches, LastBody
<1>9. JoinersWait'
  <2> SUFFICES ASSUME NEW v \in Workers, Running(v), res'[v] # "joinable"
               PROVE  \E u \in Threads : pc'[u] = "joining" /\ peer[u] = v
    BY <1>1, <1>5 DEF JoinersWait, Workers
  <2>1. CASE v = p /\ pc'[t] = "joining"
    BY <2>1
  <2>2. CASE ~ (v = p /\ pc'[t] = "joining")
    <3>1. res[v] # "joinable"
      BY <1>4, <2>2 DEF Workers
    <3>2. PICK u \in Threads : pc[u] = "joining" /\ peer[u] = v
      BY <3>1 DEF LastBody, JoinersWait
    <3> QED
      BY <1>1, <1>2, <3>2
  <2> QED
    BY <2>1, <2>2
<1>10. Unborn'
  BY <1>1, <1>2 DEF LastBody, Unborn
<1>11. Aged'
  BY <1>1, <1>2, AgedKept DEF LastBody, JoinOps, JoiningPCs, Ended, Workers
<1> QED
  BY <1>6, <1>7, <1>8, <1>9, <1>10, <1>11 DEF LastBody

\* A join that returns is of a thread that has left the list.
LEMMA LastJoined ==
    ASSUME TypeInv, Body, NativeBody, LastBody, NEW t \in Threads, Joined(t)
    PROVE  LastBody'
<1> USE MainAssumption
<1> DEFINE p == peer[t]
<1>1. /\ pc[t] = "joining" /\ pc[p] = "done"
      /\ UNCHANGED <<env, parent, peer, arg, handle, detached, exec_env_list, processing, proc_nodes>>
      /\ res' = [res EXCEPT ![p] = "released"]
      /\ pc' = [pc EXCEPT ![t] = IF t = Main /\ processing THEN "wait_all" ELSE "check"]
  BY DEF Joined, Return
<1>2. /\ pc'[t] \in {"check", "wait_all"}
      /\ t = Main /\ processing => pc'[t] # "check"
      /\ \A u \in Threads \ {t} : pc'[u] = pc[u]
  BY <1>1 DEF TypeInv, TypeOK
<1>3. p \in Threads /\ ~ Running(p)
  BY <1>1 DEF NativeBody, PeersClaimed, JoiningPCs, Running
<1>4. /\ \A u \in Threads : res'[u] = "joinable" => res[u] = "joinable"
      /\ \A u \in Threads \ {p} : res'[u] = res[u]
  BY <1>1, <1>3 DEF TypeInv, TypeOK
<1>5. \A u \in Threads : Running(u)' <=> Running(u)
  BY <1>1, <1>2 DEF Running
<1>6. NoneDetached'
  BY <1>1, <1>2 DEF LastBody, NoneDetached, Detaching
<1>7. AllListed'
  BY <1>1, <1>2, <1>5 DEF LastBody, AllListed, NotMain
<1>8. WalkMatches'
  <2> SUFFICES ASSUME processing PROVE WalkMatches'
    BY <1>1 DEF WalkMatches
  <2>1. /\ pc'[Main] \in WalkPCs /\ \A u \in Threads : pc'[u] # "starting"
        /\ \A u \in Threads : pc[u] # "starting"
    BY <1>1, <1>2 DEF LastBody, WalkMatches, WalkPCs, JoiningPCs
  <2>2. pc'[Main] \in JoiningPCs => pc[Main] \in JoiningPCs
    BY <1>1, <1>2 DEF JoiningPCs
  <2>3. ASSUME NEW e \in exec_env_list, Visited(e)' PROVE res'[handle[e]] # "joinable"
    <3>1. handle[e] \in Threads /\ Running(handle[e])
      BY <2>1, ListedHandle
    <3>2. Visited(e)
      <4> SUFFICES ASSUME ~ Visited(e) PROVE FALSE
        OBVIOUS
      <4>1. t = Main /\ e = arg[Main]
        BY <1>1, <1>2, <2>3 DEF Visited
      <4>2. handle[e] = p
        BY <1>1, <4>1 DEF LastBody, WalkMatches, JoiningPCs
      <4> QED
        BY <1>3, <3>1, <4>2
    <3> QED
      BY <1>4, <3>1, <3>2 DEF LastBody, WalkMatches
  <2> QED
    BY <1>1, <2>1, <2>2, <2>3 DEF WalkMatches, LastBody
<1>9. JoinersWait'
  <2> SUFFICES ASSUME NEW v \in Workers, Running(v), res'[v] # "joinable"
               PROVE  \E u \in Threads : pc'[u] = "joining" /\ peer[u] = v
    BY <1>1, <1>5 DEF JoinersWait, Workers
  <2>1. v # p /\ res[v] # "joinable"
    BY <1>3, <1>4 DEF Workers
  <2>2. PICK u \in Threads : pc[u] = "joining" /\ peer[u] = v
    BY <2>1 DEF LastBody, JoinersWait
  <2> QED
    BY <1>1, <1>2, <2>1, <2>2
<1>10. Unborn'
  BY <1>1, <1>2 DEF LastBody, Unborn
<1>11. Aged'
  BY <1>1, <1>2, AgedKept DEF LastBody, JoinOps, JoiningPCs, Ended, Workers
<1> QED
  BY <1>6, <1>7, <1>8, <1>9, <1>10, <1>11 DEF LastBody

\* A thread that leaves the list takes nothing of another one with it.
LEMMA LastExit ==
    ASSUME TypeInv, Body, LastBody, NEW t \in Threads, ExitCluster(t)
    PROVE  LastBody'
<1> USE MainAssumption
<1>1. /\ pc[t] = "exit_cluster" /\ pc' = [pc EXCEPT ![t] = "exit_native"] /\ ClusterFree
      /\ exec_env_list' = exec_env_list \ {env[t]} /\ detached' = detached \ {env[t]}
      /\ UNCHANGED <<env, parent, arg, peer, handle, processing, proc_nodes>>
  BY DEF ExitCluster
<1>2. pc'[t] = "exit_native" /\ \A u \in Threads \ {t} : pc'[u] = pc[u]
  BY <1>1 DEF TypeInv, TypeOK
<1>3. \A u \in Threads \ {t} : res'[u] = res[u]
  BY DEF ExitCluster, NativeDetach, TypeInv, TypeOK
<1>4. t # Main
  BY <1>1 DEF LastBody, AllListed, NotMain
<1>5. /\ Running(t) /\ ~ Running(t)'
      /\ \A u \in Threads \ {t} : Running(u)' <=> Running(u)
  BY <1>1, <1>2 DEF Running
<1>6. \A u \in Threads \ {t} : Running(u) => env[u] # env[t]
  BY <1>5 DEF Body, EnvsMatch
<1>7. NoneDetached'
  BY <1>1, <1>2 DEF LastBody, NoneDetached, Detaching
<1>8. AllListed'
  BY <1>1, <1>2, <1>4, <1>5, <1>6 DEF LastBody, AllListed, NotMain
<1>9. WalkMatches'
  <2> SUFFICES ASSUME processing PROVE WalkMatches'
    BY <1>1 DEF WalkMatches
  <2>1. pc'[Main] \in WalkPCs /\ \A u \in Threads : pc'[u] # "starting"
    BY <1>2, <1>4 DEF LastBody, WalkMatches
  <2>2. ASSUME NEW e \in exec_env_list', Visited(e)' PROVE res'[handle[e]] # "joinable"
    <3>1. e \in exec_env_list /\ e # env[t] /\ Visited(e)
      BY <1>1, <1>2, <1>4, <2>2 DEF Visited
    <3>2. handle[e] \in Threads \ {t}
      BY <1>1, <3>1, ListedHandle, NobodyStarts
    <3> QED
      BY <1>3, <3>1, <3>2 DEF LastBody, WalkMatches
  <2> QED
    BY <1>1, <1>2, <1>4, <2>1, <2>2 DEF WalkMatches, LastBody
<1>10. JoinersWait'
  <2> SUFFICES ASSUME NEW v \in Workers, Running(v)', res'[v] # "joinable"
               PROVE  \E u \in Threads : pc'[u] = "joining" /\ peer[u] = v
    BY <1>1 DEF JoinersWait
  <2>1. Running(v) /\ res[v] # "joinable"
    BY <1>3, <1>5 DEF Workers
  <2>2. PICK u \in Threads : pc[u] = "joining" /\ peer[u] = v
    BY <2>1 DEF LastBody, JoinersWait
  <2> QED
    BY <1>1, <1>2, <2>2
<1>11. Unborn'
  BY <1>1, <1>2 DEF LastBody, Unborn
<1>12. Aged'
  BY <1>1, <1>2, AgedKept DEF LastBody, JoinOps, JoiningPCs, Ended, Workers
<1> QED
  BY <1>7, <1>8, <1>9, <1>10, <1>11, <1>12 DEF LastBody

LEMMA LastExitNative ==
    ASSUME TypeInv, LastBody, NEW t \in Threads, ExitNative(t)
    PROVE  LastBody'
<1> USE MainAssumption
<1>1. /\ pc[t] = "exit_native" /\ pc' = [pc EXCEPT ![t] = "done"]
      /\ UNCHANGED <<env, parent, arg, peer, res, handle, detached, exec_env_list, processing,
                     proc_nodes>>
  BY DEF ExitNative
<1>2. pc'[t] = "done" /\ \A u \in Threads \ {t} : pc'[u] = pc[u]
  BY <1>1 DEF TypeInv, TypeOK
<1>3. t # Main
  BY <1>1 DEF LastBody, AllListed, NotMain
<1>4. \A u \in Threads : Running(u)' <=> Running(u)
  BY <1>1, <1>2 DEF Running
<1>5. NoneDetached'
  BY <1>1, <1>2 DEF LastBody, NoneDetached, Detaching
<1>6. AllListed'
  BY <1>1, <1>2, <1>3, <1>4 DEF LastBody, AllListed
<1>7. WalkMatches'
  BY <1>1, <1>2, <1>3 DEF LastBody, WalkMatches, Visited
<1>8. JoinersWait'
  <2> SUFFICES ASSUME NEW v \in Workers, Running(v), res[v] # "joinable"
               PROVE  \E u \in Threads : pc'[u] = "joining" /\ peer[u] = v
    BY <1>1, <1>4 DEF JoinersWait, Workers
  <2>1. PICK u \in Threads : pc[u] = "joining" /\ peer[u] = v
    BY DEF LastBody, JoinersWait
  <2> QED
    BY <1>1, <1>2, <2>1
<1>9. Unborn'
  BY <1>1, <1>2 DEF LastBody, Unborn
<1>10. Aged'
  BY <1>1, <1>2, AgedKept DEF LastBody, JoinOps, JoiningPCs, Ended, Workers
<1> QED
  BY <1>5, <1>6, <1>7, <1>8, <1>9, <1>10 DEF LastBody

\* The main thread goes on to an exec_env it has not been at; those it has been
\* at and that are still listed are joined.
LEMMA LastWalks ==
    ASSUME TypeInv, Body, LastBody, NEW t \in Threads, WaitAll(t), pc'[Main] # "destroy"
    PROVE  LastBody'
<1> USE MainAssumption
<1> DEFINE seen == IF processing THEN proc_nodes \union {arg[t]} ELSE {}
<1>1. /\ t = Main /\ pc[Main] = "wait_all" /\ ClusterFree
      /\ pc' = [pc EXCEPT ![Main] = "join_list"]
      /\ processing' = TRUE /\ proc_nodes' = seen
      /\ \A u \in Threads \ {Main} : arg'[u] = arg[u]
      /\ UNCHANGED <<env, parent, peer, res, handle, detached, exec_env_list>>
  BY DEF WaitAll, TypeInv, TypeOK
<1>2. pc'[Main] = "join_list" /\ \A u \in Threads \ {Main} : pc'[u] = pc[u]
  BY <1>1 DEF TypeInv, TypeOK
<1>3. \A u \in Threads : Running(u)' <=> Running(u)
  BY <1>1, <1>2 DEF Running
<1>4. NoneDetached'
  BY <1>1, <1>2 DEF LastBody, NoneDetached, Detaching
<1>5. AllListed'
  BY <1>1, <1>2, <1>3 DEF LastBody, AllListed, NotMain
<1>6. WalkMatches'
  <2>1. pc'[Main] \in WalkPCs \ JoiningPCs
    BY <1>2 DEF WalkPCs, JoinOps, JoiningPCs
  <2>2. \A u \in Threads : pc'[u] # "starting"
    BY <1>1, <1>2, NobodyStarts
  <2>3. ASSUME NEW e \in exec_env_list, Visited(e)' PROVE processing /\ Visited(e)
    BY <1>1, <1>2, <2>3 DEF Visited
  <2> QED
    BY <1>1, <2>1, <2>2, <2>3 DEF WalkMatches, LastBody
<1>7. JoinersWait'
  <2> SUFFICES ASSUME NEW v \in Workers, Running(v), res[v] # "joinable"
               PROVE  \E u \in Threads : pc'[u] = "joining" /\ peer[u] = v
    BY <1>1, <1>3 DEF JoinersWait, Workers
  <2>1. PICK u \in Threads : pc[u] = "joining" /\ peer[u] = v
    BY DEF LastBody, JoinersWait
  <2> QED
    BY <1>1, <1>2, <2>1
<1>8. Unborn'
  BY <1>1, <1>2 DEF LastBody, Unborn
<1>9. Aged'
  BY <1>1, <1>2, AgedKept DEF LastBody, JoinOps, JoiningPCs, Ended, Workers
<1> QED
  BY <1>4, <1>5, <1>6, <1>7, <1>8, <1>9 DEF LastBody

Last    == \A t \in Workers : ~ Running(t) /\ env[t] \notin exec_env_list
LastInv == IF pc[Main] \in {"destroy", "finished"} THEN Last ELSE LastBody

\* Who has ended, or destroys the cluster, does nothing else.
LEMMA LastMoves ==
    ASSUME NEW t \in Threads, App(t) \/ Runtime(t), pc[t] \in Ended \union {"destroy"}
    PROVE  ExitNative(t) \/ Destroy(t)
<1> USE DEF Ended
<1>1. ~ App(t)
  BY DEF App, AppCreate, AppJoin, AppDetach, AppCancel, AppTrap, AppClear,
         AppReturn, AppTarget, AppSetException, Begin
<1>2. ~ (\/ BranchCheck(t) \/ CallCheck(t) \/ AllocateAux(t) \/ LockSelf(t)
         \/ CreateFails(t) \/ CreateThread(t) \/ StartRoutine(t)
         \/ CreateReturns(t) \/ UndoAux(t))
  BY DEF BranchCheck, CallCheck, AllocateAux, LockSelf, CreateFails,
         CreateThread, StartRoutine, CreateReturns, UndoAux
<1>3. ~ (\/ JoinLock(t) \/ JoinFind(t) \/ JoinCount(t) \/ JoinNative(t) \/ Joined(t)
         \/ DetachLock(t) \/ DetachFind(t) \/ CancelLock(t) \/ CancelFreed(t) \/ CancelFind(t)
         \/ CancelFlag(t) \/ SearchLock(t) \/ SearchFind(t))
  BY DEF JoinLock, JoinFind, JoinCount, JoinNative, Joined, DetachLock, DetachFind,
         CancelLock, CancelFreed, CancelFind, CancelFlag, SearchLock, SearchFind, AcquireList
<1>4. ~ (\/ SpreadBegin(t) \/ SpreadVisit(t) \/ SpreadEnd(t)
         \/ ExitAux(t) \/ ExitLock(t) \/ ExitCluster(t) \/ WaitAll(t))
  BY DEF SpreadBegin, SpreadVisit, SpreadEnd, ExitAux, ExitLock, ExitCluster, WaitAll,
         AcquireList
<1> QED
  BY <1>1, <1>2, <1>3, <1>4 DEF Runtime

LEMMA LastInit == Init => LastInv
<1> SUFFICES ASSUME Init PROVE LastInv
  OBVIOUS
<1> USE MainAssumption, NoneAssumption DEF Init
<1>1. NoneDetached /\ AllListed /\ WalkMatches
  BY DEF NoneDetached, Detaching, AllListed, WalkMatches, NotMain, Running, Workers
<1>2. JoinersWait /\ Unborn
  BY DEF JoinersWait, Unborn, Running, Workers
<1>3. Aged
  <2> DEFINE age == [t \in Threads |-> 0]
  <2>1. \A u : Children(u) \subseteq {None}
    BY DEF Children, Workers
  <2>2. \A t \in Threads : age[t] <= 0
    OBVIOUS
  <2>3. AgedBy(0, age)
    BY <2>2 DEF AgedBy, Running, JoinOps, JoiningPCs, Workers
  <2>4. 0 \in Nat /\ age \in [Threads -> Nat]
    OBVIOUS
  <2> QED
    BY <2>3, <2>4 DEF Aged
<1> QED
  BY <1>1, <1>2, <1>3 DEF LastInv, LastBody

LEMMA LastRuns ==
    ASSUME \A t \in Threads : "detach" \notin May[t],
           TypeInv, Body, NativeBody, LastBody, NEW t \in Threads, App(t) \/ Runtime(t),
           ~ (WaitAll(t) /\ pc'[Main] = "destroy")
    PROVE  LastBody'
<1>1. ~ Destroy(t)
  BY DEF Destroy, LastBody, AllListed
<1> QED
  BY <1>1, LastApp, LastRuntime, LastCreate, LastStart, LastCount, LastNative, LastJoined,
     LastExit, LastExitNative, LastWalks

LEMMA LastNext ==
    ASSUME \A t \in Threads : "detach" \notin May[t]
    PROVE  TypeInv /\ LockingInv /\ NativeInv /\ LastInv /\ [Next]_vars => LastInv'
<1> SUFFICES ASSUME TypeInv, LockingInv, NativeInv, LastInv, [Next]_vars PROVE LastInv'
  OBVIOUS
<1> USE MainAssumption
<1>1. CASE UNCHANGED vars
  BY <1>1 DEF vars, LastInv, Last, LastBody, NoneDetached, AllListed, WalkMatches, Visited,
     JoinersWait, Unborn, Aged, AgedBy, Children, Running
<1>2. ASSUME NEW t \in Threads, App(t) \/ Runtime(t) PROVE LastInv'
  <2>1. CASE pc[Main] \in {"destroy", "finished"}
    <3>1. Last
      BY <2>1 DEF LastInv
    <3>2. pc[t] \in Ended \union {"destroy"}
      BY <2>1, <3>1 DEF Last, Workers, Running, Ended
    <3>3. ExitNative(t) \/ Destroy(t)
      BY <1>2, <3>2, LastMoves
    <3>4. /\ env' = env /\ exec_env_list' \subseteq exec_env_list
          /\ \A u \in Workers : Running(u)' => Running(u)
          /\ pc'[Main] \in {"destroy", "finished"}
      BY <2>1, <3>3 DEF ExitNative, Destroy, Running, Workers, TypeInv, TypeOK
    <3> QED
      BY <3>1, <3>4 DEF LastInv, Last
  <2>2. CASE pc[Main] \notin {"destroy", "finished"}
    <3>1. LastBody /\ Body /\ NativeBody
      BY <2>2 DEF LastInv, LockingInv, Body, NativeInv
    <3>2. CASE WaitAll(t) /\ pc'[Main] = "destroy"
      <4>1. /\ At(Main, "wait_all") /\ ClusterFree
            /\ LET seen == IF processing THEN proc_nodes \union {arg[Main]} ELSE {}
               IN  exec_env_list \subseteq seen \union {env[Main]}
        BY <3>2 DEF WaitAll, TypeInv, TypeOK
      <4>2. Last
        BY <3>1, <4>1, WalkEndsLast DEF Last
      <4>3. /\ UNCHANGED <<env, exec_env_list>>
            /\ \A u \in Workers : pc'[u] = pc[u]
        BY <3>2 DEF WaitAll, Workers, TypeInv, TypeOK
      <4> QED
        BY <3>2, <4>2, <4>3 DEF LastInv, Last, Running
    <3>3. CASE ~ (WaitAll(t) /\ pc'[Main] = "destroy")
      <4>1. LastBody'
        BY <1>2, <3>1, <3>3, LastRuns
      <4> QED
        BY <4>1 DEF LastInv, LastBody, AllListed
    <3> QED
      BY <3>2, <3>3
  <2> QED
    BY <2>1, <2>2
<1> QED
  BY <1>1, <1>2 DEF Next, AllEnded

\* Unless some thread detaches another, no thread is left when the main thread
\* destroys its exec_env and the cluster.
THEOREM MainIsLastCorrect ==
    ASSUME \A t \in Threads : "detach" \notin May[t]
    PROVE  Spec => []MainIsLast
<1>1. LastInv => MainIsLast
  BY DEF LastInv, Last, MainIsLast
<1>2. TypeInv /\ LockingInv /\ NativeInv /\ LastInv /\ [Next]_vars => LastInv'
  BY LastNext
<1> QED
  BY <1>1, <1>2, TypeInit, TypeStep, LockingInit, LockingNext, NativeInit, NativeNext, LastInit,
     PTL DEF Spec

\* Once the cluster is destroyed no thread has anything left to release.
Settled ==
    At(Main, "finished") =>
        \A t \in Workers : res[t] # "invalid" /\ (Leaving(t) => res[t] # "joinable")

LEMMA SettledNext ==
    ASSUME \A t \in Threads : "detach" \notin May[t]
    PROVE  TypeInv /\ LockingInv /\ NativeInv /\ LastInv /\ Settled /\ [Next]_vars => Settled'
<1> SUFFICES ASSUME TypeInv, LockingInv, NativeInv, LastInv, Settled, [Next]_vars, pc'[Main] = "finished"
             PROVE  \A t \in Workers : res'[t] # "invalid" /\ (Leaving(t)' => res'[t] # "joinable")
  BY DEF Settled
<1> USE MainAssumption
<1>1. CASE UNCHANGED vars
  BY <1>1 DEF vars, Settled, Leaving
<1>2. ASSUME NEW t \in Threads, App(t) \/ Runtime(t)
      PROVE  \A u \in Workers : res'[u] # "invalid" /\ (Leaving(u)' => res'[u] # "joinable")
  <2>1. CASE pc[Main] = "finished"
    <3>1. pc[t] \in Ended
      BY <2>1 DEF LastInv, Last, Workers, Running, Ended
    <3>2. ExitNative(t)
      BY <1>2, <3>1, LastMoves DEF Destroy, Ended
    <3>3. UNCHANGED res /\ \A u \in Workers : Leaving(u)' => Leaving(u)
      BY <3>2 DEF ExitNative, Leaving, Workers, TypeInv, TypeOK
    <3> QED
      BY <2>1, <3>3 DEF Settled
  <2>2. CASE pc[Main] # "finished"
    <3>1. NativeBody
      BY <2>2 DEF NativeInv
    <3>2. CASE Destroy(t)
      <4>1. pc[Main] = "destroy" /\ UNCHANGED res /\ \A u \in Workers : pc'[u] = pc[u]
        BY <3>2 DEF Destroy, Workers, TypeInv, TypeOK
      <4>2. \A u \in Threads : pc[u] # "join_native"
        BY <4>1 DEF LastInv, Last, Running, Workers
      <4> QED
        BY <3>1, <4>1, <4>2 DEF NativeBody, JoinerComes, Claimed, Leaving, Workers
    <3>3. CASE ~ Destroy(t)
      <4>1. CASE pc[Main] = "destroy"
        <5>1. pc[t] \in Ended \union {"destroy"}
          BY <4>1 DEF LastInv, Last, Workers, Running, Ended
        <5> QED
          BY <1>2, <3>3, <4>1, <5>1, LastMoves DEF ExitNative, TypeInv, TypeOK
      <4>2. CASE pc[Main] # "destroy"
        <5>1. LastBody /\ Body
          BY <2>2, <4>2 DEF LastInv, LockingInv, Body
        <5>2. LastBody' \/ pc'[Main] = "destroy"
          BY <1>2, <3>1, <5>1, LastRuns
        <5> QED
          BY <5>2 DEF LastBody, AllListed
      <4> QED
        BY <4>1, <4>2
    <3> QED
      BY <3>2, <3>3
  <2> QED
    BY <2>1, <2>2
<1> QED
  BY <1>1, <1>2 DEF Next, AllEnded

\* Unless some thread detaches another, the native resources of a thread are
\* released once, after the end of the cluster too.
THEOREM NativeReleasedOnceWhole ==
    ASSUME \A t \in Threads : "detach" \notin May[t]
    PROVE  Spec => []NativeReleasedOnce
<1>1. Init => Settled
  BY MainAssumption DEF Init, Settled
<1>2. NativeInv /\ Settled => NativeReleasedOnce
  BY DEF NativeInv, NativeBody, JoinerComes, Claimed, Leaving, Settled, NativeReleasedOnce, Workers
<1>3. TypeInv /\ LockingInv /\ NativeInv /\ LastInv /\ [Next]_vars => LastInv'
  BY LastNext
<1>4. TypeInv /\ LockingInv /\ NativeInv /\ LastInv /\ Settled /\ [Next]_vars => Settled'
  BY SettledNext
<1> QED
  BY <1>1, <1>2, <1>3, <1>4, TypeInit, TypeStep, LockingInit, LockingNext, NativeInit, NativeNext,
     LastInit, PTL DEF Spec
=============================================================================
