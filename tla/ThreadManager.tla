--------------------------- MODULE ThreadManager ---------------------------
(***************************************************************************)
(* The WAMR thread manager: libraries/thread-mgr/thread_manager.c together *)
(* with the part of wasm_exec_env.c that creates and destroys an exec_env. *)
(*                                                                         *)
(* One cluster: the exec_env of the main instance and those of the threads *)
(* its wasm code creates.  A native thread runs one exec_env.  A step is   *)
(* one critical section: it begins with the acquisition of a lock, a       *)
(* condition wait or a native join, and runs to the next one.  A thread    *)
(* that acquires a second lock while it holds the first has a step for     *)
(* each.  exception_lock is a leaf lock held around one store: it is part  *)
(* of the step.                                                            *)
(*                                                                         *)
(* Addresses of exec_envs are reused as malloc reuses them: env[t] keeps   *)
(* the address a terminated thread had, which is what a client that still  *)
(* holds the pointer passes to join, detach and cancel.                    *)
(*                                                                         *)
(* exec_env_list is a set: the code inserts at the head and walks from the *)
(* head; here a walk visits the members in any order.                      *)
(***************************************************************************)
EXTENDS Naturals, FiniteSets

CONSTANTS
    Threads,       \* native threads, each created at most once
    Main,          \* the thread that runs the main instance
    Envs,          \* exec_env addresses
    MainEnv,       \* the exec_env of the main instance
    MaxThreadNum,  \* cluster_max_thread_num
    May,           \* May[t]: the operations the wasm code of t performs
    None

Ops == {"create", "join", "detach", "cancel", "trap", "clear", "return"}

ASSUME MainAssumption == Main \in Threads /\ MainEnv \in Envs
ASSUME NoneAssumption == None \notin Threads /\ None \notin Envs
ASSUME MaxThreadNumAssumption == MaxThreadNum \in Nat
ASSUME MayAssumption == May \in [Threads -> SUBSET Ops]

VARIABLES
    pc,                 \* where the native thread is
    env,                \* its exec_env
    parent,             \* the thread that created it
    arg,                \* the exec_env its current operation is about
    peer,               \* the native handle it joins
    seg,                \* the aux stack segment it runs on, 0 if none
    aux,                \* the segment it allocated for a thread it creates
    raising,            \* exception # NULL in its wasm_cluster_set_exception
    res,                \* native resources of the thread
    alloc,              \* exec_envs that are allocated
    handle,             \* exec_env->handle
    waited,             \* exec_envs with wait_count # 0 (never decremented)
    detached,           \* exec_envs with thread_is_detached
    terminate,          \* exec_envs with WASM_SUSPEND_FLAG_TERMINATE
    exec_env_list,      \* cluster->exec_env_list
    has_exception,      \* cluster->has_exception
    processing,         \* cluster->processing
    proc_nodes,         \* nodes safe_traverse_exec_env_list has processed
    todo,               \* exec_envs set_exception has still to visit
    stack_segment_occupied,
    cluster_list_lock,  \* holder, None if free
    cluster_lock,
    wait_lock           \* wait_lock[e]: holder of exec_env->wait_lock

threadVars  == <<env, parent, res>>
opVars      == <<arg, peer, raising>>
stackVars   == <<seg, aux, stack_segment_occupied>>
envVars     == <<alloc, handle, waited, detached, terminate>>
clusterVars == <<exec_env_list, has_exception>>
walkVars    == <<processing, proc_nodes, todo>>
vars == <<pc, threadVars, opVars, stackVars, envVars, clusterVars, walkVars,
          cluster_list_lock, cluster_lock, wait_lock>>

Segments == 1 .. MaxThreadNum
Workers  == Threads \ {Main}

Init ==
    /\ pc = [t \in Threads |-> IF t = Main THEN "app" ELSE "idle"]
    /\ env = [t \in Threads |-> IF t = Main THEN MainEnv ELSE None]
    /\ parent = [t \in Threads |-> None]
    /\ arg = [t \in Threads |-> None]
    /\ peer = [t \in Threads |-> None]
    /\ seg = [t \in Threads |-> 0]
    /\ aux = [t \in Threads |-> 0]
    /\ raising = [t \in Threads |-> FALSE]
    /\ res = [t \in Threads |-> IF t = Main THEN "joinable" ELSE "none"]
    /\ alloc = {MainEnv}
    /\ handle = [e \in Envs |-> IF e = MainEnv THEN Main ELSE None]
    /\ waited = {}
    /\ detached = {}
    /\ terminate = {}
    /\ exec_env_list = {MainEnv}
    /\ has_exception = FALSE
    /\ processing = FALSE
    /\ proc_nodes = {}
    /\ todo = {}
    /\ stack_segment_occupied = {}
    /\ cluster_list_lock = None
    /\ cluster_lock = None
    /\ wait_lock = [e \in Envs |-> None]

-----------------------------------------------------------------------------
(* Control                                                                 *)

At(t, p)   == pc[t] = p
Goto(t, p) == pc' = [pc EXCEPT ![t] = p]

\* A native function returns to the interpreter, or to the walk of
\* wasm_cluster_wait_for_all_except_self that called it.
Return(t) == Goto(t, IF t = Main /\ processing THEN "wait_all" ELSE "check")

\* The wasm function returns: a thread's start routine goes on to its exit,
\* the main thread to the destruction of its instance.
LeaveWasm(t) == Goto(t, IF t = Main THEN "wait_all" ELSE "exit_aux")

LockList(t) == cluster_list_lock = None /\ cluster_list_lock' = t
UnlockList  == cluster_list_lock' = None
ClusterFree == cluster_lock = None
NoLocks     == UNCHANGED <<cluster_list_lock, cluster_lock, wait_lock>>

\* os_thread_detach: the system frees the thread's resources when it ends.
\* A thread that was detached or joined before has none to free.
NativeDetach(u) ==
    res' = [res EXCEPT ![u] = IF @ = "joinable" THEN "released" ELSE "invalid"]

-----------------------------------------------------------------------------
(* The wasm code of a thread                                               *)

\* exec_envs the client holds for the threads that t created.
Children(t) == {env[u] : u \in {u \in Workers : parent[u] = t}}
\* exec_envs the client holds for any thread, terminated ones included.
Known == {env[u] : u \in Workers} \ {None}

Begin(t, op, p) == At(t, "app") /\ op \in May[t] /\ Goto(t, p)

AppCreate(t) ==
    /\ Begin(t, "create", "aux_lock")
    /\ NoLocks
    /\ UNCHANGED <<threadVars, opVars, stackVars, envVars, clusterVars, walkVars>>

AppTarget(t, op, p, targets) ==
    /\ Begin(t, op, p)
    /\ \E e \in targets : arg' = [arg EXCEPT ![t] = e]
    /\ NoLocks
    /\ UNCHANGED <<threadVars, peer, raising, stackVars, envVars, clusterVars, walkVars>>

AppJoin(t)   == AppTarget(t, "join", "join_list", Children(t))
AppDetach(t) == AppTarget(t, "detach", "detach_list", Known)
AppCancel(t) == AppTarget(t, "cancel", "cancel_list", Known)

\* wasm_set_exception(inst, exception), exception # NULL iff exc.
AppSetException(t, op, exc) ==
    /\ Begin(t, op, "search_list")
    /\ raising' = [raising EXCEPT ![t] = exc]
    /\ NoLocks
    /\ UNCHANGED <<threadVars, arg, peer, stackVars, envVars, clusterVars, walkVars>>

AppTrap(t)  == AppSetException(t, "trap", TRUE)
AppClear(t) == AppSetException(t, "clear", FALSE)

AppReturn(t) ==
    /\ At(t, "app") /\ "return" \in May[t]
    /\ LeaveWasm(t)
    /\ NoLocks
    /\ UNCHANGED <<threadVars, opVars, stackVars, envVars, clusterVars, walkVars>>

\* CHECK_SUSPEND_FLAGS at a branch: a terminated thread leaves wasm.
BranchCheck(t) ==
    /\ At(t, "app") /\ env[t] \in terminate
    /\ LeaveWasm(t)
    /\ NoLocks
    /\ UNCHANGED <<threadVars, opVars, stackVars, envVars, clusterVars, walkVars>>

\* Mutant of CallCheck: the flags are not looked at after a native call.
CallCheckIgnores(t) ==
    /\ At(t, "check") /\ Goto(t, "app")
    /\ NoLocks
    /\ UNCHANGED <<threadVars, opVars, stackVars, envVars, clusterVars, walkVars>>

\* CHECK_SUSPEND_FLAGS after a call of a native function.
CallCheck(t) ==
    /\ At(t, "check")
    /\ IF env[t] \in terminate THEN LeaveWasm(t) ELSE Goto(t, "app")
    /\ NoLocks
    /\ UNCHANGED <<threadVars, opVars, stackVars, envVars, clusterVars, walkVars>>

-----------------------------------------------------------------------------
(* Creation: pthread_create_wrapper's calls, wasm_cluster_create_thread    *)

\* Mutant of FreeSegments: the loop runs to i <= cluster_max_thread_num.
FreeSegmentsOffByOne == (1 .. MaxThreadNum + 1) \ stack_segment_occupied

FreeSegments == Segments \ stack_segment_occupied

\* wasm_cluster_allocate_aux_stack: the first segment that is free.
AllocateAux(t) ==
    /\ At(t, "aux_lock") /\ ClusterFree
    /\ IF FreeSegments = {}
       THEN Return(t) /\ UNCHANGED stackVars
       ELSE \E i \in FreeSegments :
            /\ \A j \in FreeSegments : i <= j
            /\ aux' = [aux EXCEPT ![t] = i]
            /\ stack_segment_occupied' = stack_segment_occupied \union {i}
            /\ Goto(t, "self_lock")
            /\ UNCHANGED seg
    /\ NoLocks
    /\ UNCHANGED <<threadVars, opVars, envVars, clusterVars, walkVars>>

\* The creator holds its own wait_lock over wasm_cluster_create_thread.
LockSelf(t) ==
    /\ At(t, "self_lock") /\ wait_lock[env[t]] = None
    /\ wait_lock' = [wait_lock EXCEPT ![env[t]] = t]
    /\ Goto(t, "create_lock")
    /\ UNCHANGED <<threadVars, opVars, stackVars, envVars, clusterVars, walkVars,
                   cluster_list_lock, cluster_lock>>

\* A spawn request is refused, the list is full, or memory or a native
\* thread cannot be had: what was allocated under the lock is freed under it.
CreateFails(t) ==
    /\ At(t, "create_lock") /\ ClusterFree
    /\ wait_lock' = [wait_lock EXCEPT ![env[t]] = None]
    /\ Goto(t, "aux_undo")
    /\ UNCHANGED <<threadVars, opVars, stackVars, envVars, clusterVars, walkVars,
                   cluster_list_lock, cluster_lock>>

\* Mutant of SpawnAllowed: a walk over the list does not refuse new threads.
SpawnAllowedDuringWalk == ~ has_exception

SpawnAllowed == ~ has_exception /\ ~ processing

\* Mutant of KeepCluster: cluster->lock is released before the handle is set.
ReleaseCluster(t) == UNCHANGED cluster_lock

KeepCluster(t) == cluster_lock' = t

\* The new thread is in the list before its handle is known: the creator
\* keeps cluster->lock and waits for the new thread to set it.
CreateThread(t) ==
    /\ At(t, "create_lock") /\ ClusterFree
    /\ SpawnAllowed
    /\ Cardinality(exec_env_list) # MaxThreadNum + 1
    /\ \E u \in Threads, e \in Envs \ alloc :
        /\ At(u, "idle")
        /\ pc' = [pc EXCEPT ![t] = "handle_wait", ![u] = "starting"]
        /\ env' = [env EXCEPT ![u] = e]
        /\ parent' = [parent EXCEPT ![u] = t]
        /\ res' = [res EXCEPT ![u] = "joinable"]
        /\ arg' = [arg EXCEPT ![t] = e]
        /\ seg' = [seg EXCEPT ![u] = aux[t]]
        /\ aux' = [aux EXCEPT ![t] = 0]
        /\ alloc' = alloc \union {e}
        /\ handle' = [handle EXCEPT ![e] = None]
        /\ terminate' = IF env[t] \in terminate THEN terminate \union {e}
                                                ELSE terminate
        /\ exec_env_list' = exec_env_list \union {e}
    /\ KeepCluster(t)
    /\ UNCHANGED <<peer, raising, stack_segment_occupied, waited, detached,
                   has_exception, walkVars, cluster_list_lock, wait_lock>>

\* thread_manager_start_routine, up to the call of the wasm function.
\* Its signal alone ends the creator's wait, which has no loop around it.
StartRoutine(u) ==
    /\ At(u, "starting") /\ wait_lock[env[u]] = None
    /\ handle' = [handle EXCEPT ![env[u]] = u]
    /\ pc' = [pc EXCEPT ![u] = "app",
                        ![parent[u]] = IF @ = "handle_wait" THEN "handle_set" ELSE @]
    /\ NoLocks
    /\ UNCHANGED <<threadVars, opVars, stackVars, alloc, waited, detached, terminate,
                   clusterVars, walkVars>>

CreateReturns(t) ==
    /\ At(t, "handle_set") /\ wait_lock[arg[t]] = None
    /\ cluster_lock' = None
    /\ wait_lock' = [wait_lock EXCEPT ![env[t]] = None]
    /\ Return(t)
    /\ UNCHANGED <<threadVars, opVars, stackVars, envVars, clusterVars, walkVars,
                   cluster_list_lock>>

\* wasm_cluster_free_aux_stack of the segment i.
FreeAux(i) ==
    /\ ClusterFree
    /\ stack_segment_occupied' = stack_segment_occupied \ {i}
    /\ NoLocks
    /\ UNCHANGED <<threadVars, opVars, envVars, clusterVars, walkVars>>

\* Mutant of UndoAux: the failure path forgets the segment.
UndoAuxLeaks(t) ==
    /\ At(t, "aux_undo")
    /\ aux' = [aux EXCEPT ![t] = 0]
    /\ Return(t)
    /\ NoLocks
    /\ UNCHANGED <<threadVars, opVars, seg, stack_segment_occupied, envVars, clusterVars,
                   walkVars>>

UndoAux(t) ==
    /\ At(t, "aux_undo") /\ FreeAux(aux[t])
    /\ aux' = [aux EXCEPT ![t] = 0]
    /\ Return(t)
    /\ UNCHANGED seg


-----------------------------------------------------------------------------
(* wasm_cluster_join_thread                                                *)

AcquireList(t, from, to) ==
    /\ At(t, from) /\ LockList(t)
    /\ Goto(t, to)
    /\ UNCHANGED <<threadVars, opVars, stackVars, envVars, clusterVars, walkVars,
                   cluster_lock, wait_lock>>

JoinLock(t) == AcquireList(t, "join_list", "join_find")

\* Mutant of JoinFind: cluster_list_lock is released once the exec_env is found.
JoinFindUnlocks(t) ==
    /\ At(t, "join_find") /\ ClusterFree
    /\ IF arg[t] \in exec_env_list /\ arg[t] \notin detached
       THEN Goto(t, "join_count")
       ELSE Return(t)
    /\ UnlockList
    /\ UNCHANGED <<threadVars, opVars, stackVars, envVars, clusterVars, walkVars,
                   cluster_lock, wait_lock>>

\* clusters_have_exec_env takes and releases cluster->lock.
JoinFind(t) ==
    /\ At(t, "join_find") /\ ClusterFree
    /\ IF arg[t] \in exec_env_list /\ arg[t] \notin detached
       THEN Goto(t, "join_count") /\ UNCHANGED cluster_list_lock
       ELSE Return(t) /\ UnlockList
    /\ UNCHANGED <<threadVars, opVars, stackVars, envVars, clusterVars, walkVars,
                   cluster_lock, wait_lock>>

JoinCount(t) ==
    /\ At(t, "join_count") /\ wait_lock[arg[t]] = None
    /\ waited' = waited \union {arg[t]}
    /\ peer' = [peer EXCEPT ![t] = handle[arg[t]]]
    /\ UnlockList
    /\ Goto(t, "join_native")
    /\ UNCHANGED <<threadVars, arg, raising, stackVars, alloc, handle, detached,
                   terminate, clusterVars, walkVars, cluster_lock, wait_lock>>

\* os_thread_join: an error at once if the thread is being joined already
\* or is no longer joinable; otherwise it waits for the thread to end.
JoinNative(t) ==
    /\ At(t, "join_native")
    /\ IF res[peer[t]] = "joinable"
       THEN res' = [res EXCEPT ![peer[t]] = "joining"] /\ Goto(t, "joining")
       ELSE Return(t) /\ UNCHANGED res
    /\ NoLocks
    /\ UNCHANGED <<env, parent, opVars, stackVars, envVars, clusterVars, walkVars>>

Joined(t) ==
    /\ At(t, "joining") /\ At(peer[t], "done")
    /\ res' = [res EXCEPT ![peer[t]] = "released"]
    /\ Return(t)
    /\ NoLocks
    /\ UNCHANGED <<env, parent, opVars, stackVars, envVars, clusterVars, walkVars>>

-----------------------------------------------------------------------------
(* wasm_cluster_detach_thread and wasm_cluster_cancel_thread               *)

DetachLock(t) == AcquireList(t, "detach_list", "detach_find")

\* Mutant of Detachable: wait_count is not looked at.
DetachableThoughJoined(e) == e \notin detached

Detachable(e) == e \notin waited /\ e \notin detached

DetachFind(t) ==
    /\ At(t, "detach_find") /\ ClusterFree
    /\ IF arg[t] \in exec_env_list /\ Detachable(arg[t])
       THEN /\ NativeDetach(handle[arg[t]])
            /\ detached' = detached \union {arg[t]}
       ELSE UNCHANGED <<res, detached>>
    /\ UnlockList
    /\ Return(t)
    /\ UNCHANGED <<env, parent, opVars, stackVars, alloc, handle, waited, terminate,
                   clusterVars, walkVars, cluster_lock, wait_lock>>

\* With the list locked, and before the search, exec_env->cluster is read.
CancelLock(t) == AcquireList(t, "cancel_list", "cancel_find")

\* Where the exec_env has been freed the read gives anything: if it gives NULL
\* the cancel is over, if not it goes on as above.
CancelFreed(t) ==
    /\ At(t, "cancel_list") /\ cluster_list_lock = None
    /\ arg[t] \notin alloc
    /\ Return(t)
    /\ NoLocks
    /\ UNCHANGED <<threadVars, opVars, stackVars, envVars, clusterVars, walkVars>>

CancelFind(t) ==
    /\ At(t, "cancel_find") /\ ClusterFree
    /\ IF arg[t] \in exec_env_list
       THEN Goto(t, "cancel_flag") /\ UNCHANGED cluster_list_lock
       ELSE Return(t) /\ UnlockList
    /\ UNCHANGED <<threadVars, opVars, stackVars, envVars, clusterVars, walkVars,
                   cluster_lock, wait_lock>>

\* set_thread_cancel_flags, with the cluster list still locked.
CancelFlag(t) ==
    /\ At(t, "cancel_flag") /\ wait_lock[arg[t]] = None
    /\ terminate' = terminate \union {arg[t]}
    /\ UnlockList
    /\ Return(t)
    /\ UNCHANGED <<threadVars, opVars, stackVars, alloc, handle, waited, detached,
                   clusterVars, walkVars, cluster_lock, wait_lock>>

-----------------------------------------------------------------------------
(* wasm_set_exception and wasm_cluster_set_exception                       *)

\* wasm_clusters_search_exec_env finds the caller's own exec_env, which is
\* in the list as long as its thread runs wasm.
SearchLock(t) == AcquireList(t, "search_list", "search_find")

SearchFind(t) ==
    /\ At(t, "search_find") /\ ClusterFree
    /\ UnlockList
    /\ Goto(t, "spread_lock")
    /\ UNCHANGED <<threadVars, opVars, stackVars, envVars, clusterVars, walkVars,
                   cluster_lock, wait_lock>>

\* Mutants of SpreadTargets: the walk skips the caller; it stops at it.
SpreadOthers(t) == exec_env_list \ {env[t]}
SpreadSelf(t)   == {env[t]}

SpreadTargets(t) == exec_env_list

SpreadBegin(t) ==
    /\ At(t, "spread_lock") /\ ClusterFree
    /\ cluster_lock' = t
    /\ has_exception' = raising[t]
    /\ todo' = SpreadTargets(t)
    /\ Goto(t, "spread")
    /\ UNCHANGED <<threadVars, opVars, stackVars, envVars, exec_env_list, processing,
                   proc_nodes, cluster_list_lock, wait_lock>>

\* set_exception_visitor sets or clears TERMINATE under the wait_lock of the
\* exec_env it visits; cluster->lock is held over the walk.
SpreadVisit(t) ==
    /\ At(t, "spread")
    /\ \E e \in todo :
        /\ wait_lock[e] = None
        /\ terminate' = IF raising[t] THEN terminate \union {e} ELSE terminate \ {e}
        /\ todo' = todo \ {e}
    /\ NoLocks
    /\ UNCHANGED <<pc, threadVars, opVars, stackVars, alloc, handle, waited, detached,
                   clusterVars, processing, proc_nodes>>

\* A raised exception makes the interpreter of the raising thread return.
SpreadEnd(t) ==
    /\ At(t, "spread") /\ todo = {}
    /\ cluster_lock' = None
    /\ IF raising[t] THEN LeaveWasm(t) ELSE Return(t)
    /\ UNCHANGED <<threadVars, opVars, stackVars, envVars, clusterVars, walkVars,
                   cluster_list_lock, wait_lock>>

-----------------------------------------------------------------------------
(* The end of a thread: thread_manager_start_routine after the wasm        *)
(* function returned, and wasm_cluster_exit_thread, which does the same    *)

ExitAux(t) ==
    /\ At(t, "exit_aux") /\ FreeAux(seg[t])
    /\ seg' = [seg EXCEPT ![t] = 0]
    /\ Goto(t, "exit_list")
    /\ UNCHANGED aux

ExitLock(t) == AcquireList(t, "exit_list", "exit_cluster")

\* Both locks are held: a join or detach that found the exec_env in the list
\* has either counted itself or not begun.
ExitCluster(t) ==
    LET e == env[t] IN
    /\ At(t, "exit_cluster") /\ ClusterFree
    /\ IF Detachable(e) THEN NativeDetach(t) ELSE UNCHANGED res
    /\ exec_env_list' = exec_env_list \ {e}
    /\ alloc' = alloc \ {e}
    /\ waited' = waited \ {e}
    /\ detached' = detached \ {e}
    /\ terminate' = terminate \ {e}
    /\ UnlockList
    /\ Goto(t, "exit_native")
    /\ UNCHANGED <<env, parent, opVars, stackVars, handle, has_exception, walkVars,
                   cluster_lock, wait_lock>>

ExitNative(t) ==
    /\ At(t, "exit_native") /\ Goto(t, "done")
    /\ NoLocks
    /\ UNCHANGED <<threadVars, opVars, stackVars, envVars, clusterVars, walkVars>>

-----------------------------------------------------------------------------
(* The main thread destroys its exec_env: wasm_exec_env_destroy, called by *)
(* wasm_deinstantiate                                                      *)

\* wasm_cluster_wait_for_all_except_self with safe_traverse_exec_env_list:
\* the lock is released around the join of each node, and the list is read
\* again from its head afterwards.
WaitAll(t) ==
    /\ t = Main /\ At(t, "wait_all") /\ ClusterFree
    /\ LET seen == IF processing THEN proc_nodes \union {arg[t]} ELSE {}
           left == exec_env_list \ (seen \union {env[t]})
       IN IF left = {}
          THEN /\ processing' = FALSE /\ proc_nodes' = {}
               /\ Goto(t, "destroy")
               /\ UNCHANGED arg
          ELSE /\ processing' = TRUE /\ proc_nodes' = seen
               /\ \E e \in left : arg' = [arg EXCEPT ![t] = e]
               /\ Goto(t, "join_list")
    /\ NoLocks
    /\ UNCHANGED <<threadVars, peer, raising, stackVars, envVars, clusterVars, todo>>

\* wasm_cluster_del_exec_env without cluster->lock; an empty list destroys
\* the cluster, which takes cluster_list_lock.
Destroy(t) ==
    /\ t = Main /\ At(t, "destroy")
    /\ cluster_list_lock = None
    /\ exec_env_list' = exec_env_list \ {env[t]}
    /\ alloc' = alloc \ {env[t]}
    /\ Goto(t, "finished")
    /\ NoLocks
    /\ UNCHANGED <<threadVars, opVars, stackVars, handle, waited, detached, terminate,
                   has_exception, walkVars>>

-----------------------------------------------------------------------------

\* What the wasm code of t decides to do.
App(t) ==
    \/ AppCreate(t) \/ AppJoin(t) \/ AppDetach(t) \/ AppCancel(t)
    \/ AppTrap(t) \/ AppClear(t) \/ AppReturn(t)

\* What the runtime does on behalf of t.
Runtime(t) ==
    \/ BranchCheck(t) \/ CallCheck(t)
    \/ AllocateAux(t) \/ LockSelf(t) \/ CreateFails(t) \/ CreateThread(t)
    \/ StartRoutine(t) \/ CreateReturns(t) \/ UndoAux(t)
    \/ JoinLock(t) \/ JoinFind(t) \/ JoinCount(t) \/ JoinNative(t) \/ Joined(t)
    \/ DetachLock(t) \/ DetachFind(t)
    \/ CancelLock(t) \/ CancelFreed(t) \/ CancelFind(t) \/ CancelFlag(t)
    \/ SearchLock(t) \/ SearchFind(t)
    \/ SpreadBegin(t) \/ SpreadVisit(t) \/ SpreadEnd(t)
    \/ ExitAux(t) \/ ExitLock(t) \/ ExitCluster(t) \/ ExitNative(t)
    \/ WaitAll(t) \/ Destroy(t)

\* Every thread has ended; nothing is left to do.
AllEnded ==
    /\ At(Main, "finished")
    /\ \A t \in Workers : pc[t] \in {"idle", "done"}
    /\ UNCHANGED vars

Next == (\E t \in Threads : App(t) \/ Runtime(t)) \/ AllEnded

Spec == Init /\ [][Next]_vars

\* A FreeRTOS mutex wakes its waiters in turn, so a thread that asks for a
\* lock again and again gets it.  The wasm code owes nothing.
Fairness == \A t \in Threads : SF_vars(Runtime(t))

FairSpec == Spec /\ Fairness

-----------------------------------------------------------------------------
(* Properties                                                              *)

PCs == {"idle", "starting", "app", "check", "aux_lock", "self_lock", "create_lock",
        "handle_wait", "handle_set", "aux_undo", "join_list", "join_find",
        "join_count", "join_native", "joining", "detach_list", "detach_find",
        "cancel_list", "cancel_find", "cancel_flag", "search_list", "search_find",
        "spread_lock", "spread", "exit_aux", "exit_list", "exit_cluster",
        "exit_native", "done", "wait_all", "destroy", "finished"}

\* Type correctness of the state of wasm_cluster and of its threads.
TypeOK ==
    /\ pc \in [Threads -> PCs]
    /\ env \in [Threads -> Envs \union {None}]
    /\ parent \in [Threads -> Threads \union {None}]
    /\ arg \in [Threads -> Envs \union {None}]
    /\ peer \in [Threads -> Threads \union {None}]
    /\ seg \in [Threads -> Segments \union {0}]
    /\ aux \in [Threads -> Segments \union {0}]
    /\ raising \in [Threads -> BOOLEAN]
    /\ res \in [Threads -> {"none", "joinable", "joining", "released", "invalid"}]
    /\ alloc \subseteq Envs
    /\ handle \in [Envs -> Threads \union {None}]
    /\ waited \subseteq Envs
    /\ detached \subseteq Envs
    /\ terminate \subseteq Envs
    /\ exec_env_list \subseteq Envs
    /\ has_exception \in BOOLEAN
    /\ processing \in BOOLEAN
    /\ proc_nodes \subseteq Envs \union {None}
    /\ todo \subseteq Envs
    /\ stack_segment_occupied \subseteq Segments
    /\ cluster_list_lock \in Threads \union {None}
    /\ cluster_lock \in Threads \union {None}
    /\ wait_lock \in [Envs -> Threads \union {None}]

\* Threads whose exec_env exists: from its insertion in the list to its
\* removal.
Running(t) == pc[t] \notin {"idle", "exit_native", "done", "finished"}

\* What join, cancel, the walk of wasm_cluster_set_exception or a creator has
\* found in the list under cluster_list_lock or cluster->lock is not freed by
\* another thread before it touches it.  Nothing is said of what is read before
\* the search (NoUseAfterFree), nor, once the main thread has destroyed the
\* cluster, of what is left (MainIsLast).
FoundIsAlive ==
    ~ At(Main, "finished") =>
    \A t \in Threads :
        /\ Running(t) => env[t] \in alloc
        /\ pc[t] \in {"join_count", "cancel_flag", "handle_wait", "handle_set"}
              => arg[t] \in alloc
        /\ At(t, "spread") => todo \subseteq alloc

\* No step uses an exec_env that another thread has freed.  Violated by
\* wasm_cluster_cancel_thread, which reads exec_env->cluster before it looks for
\* the exec_env: "Invalid thread or the thread has exited".
NoUseAfterFree ==
    /\ FoundIsAlive
    /\ \A t \in Threads :
          At(t, "cancel_list") /\ cluster_list_lock = None => arg[t] \in alloc

\* Whoever gets cluster->lock finds in the list only exec_envs whose thread
\* runs and has set its handle: the reason the creator waits for it.
ListedHandleIsSet ==
    ClusterFree /\ ~ At(Main, "finished") => \A e \in exec_env_list :
        /\ handle[e] # None
        /\ env[handle[e]] = e
        /\ Running(handle[e])

\* The native resources of a thread are released once: by the detach, by the
\* join that counted itself in time, or by the thread's own exit.
NativeReleasedOnce ==
    \A t \in Workers :
        /\ res[t] # "invalid"
        /\ At(t, "done") /\ res[t] = "joinable" =>
              \E u \in Threads : At(u, "join_native") /\ peer[u] = t

\* An aux stack segment is marked exactly while one thread, or the creator
\* on its behalf, owns it: no two stacks overlap and none is lost.
SegmentsAccounted ==
    \A i \in Segments :
        LET stacks  == {t \in Threads : seg[t] = i}
            pending == {t \in Threads : aux[t] = i}
        IN  /\ \A t, u \in stacks : t = u
            /\ \A t, u \in pending : t = u
            /\ stacks = {} \/ pending = {}
            /\ i \in stack_segment_occupied <=> stacks \union pending # {}

\* Where a thread holds cluster_list_lock, and where it holds cluster->lock
\* from one step to the next.
ListHolders    == {"join_find", "join_count", "detach_find", "cancel_find",
                   "cancel_flag", "search_find", "exit_cluster"}
ClusterHolders == {"handle_wait", "handle_set", "spread"}

LocksMatch ==
    \A t \in Threads :
        /\ cluster_list_lock = t <=> pc[t] \in ListHolders
        /\ cluster_lock = t <=> pc[t] \in ClusterHolders

\* Running threads have exec_envs of their own, which are the listed ones, and
\* know their handle as soon as they have started.
EnvsMatch ==
    /\ \A t \in Threads : Running(t) => env[t] \in alloc
    /\ \A t, u \in Threads : Running(t) /\ Running(u) /\ env[t] = env[u] => t = u
    /\ exec_env_list \subseteq alloc
    /\ \A e \in exec_env_list : \E t \in Threads : Running(t) /\ env[t] = e
    /\ \A t \in Threads : Running(t) /\ ~ At(t, "starting") => handle[env[t]] = t

CreatorWaits ==
    \A t \in Threads :
        /\ At(t, "starting") => /\ parent[t] \in Threads
                                /\ At(parent[t], "handle_wait")
                                /\ arg[parent[t]] = env[t]
        /\ pc[t] \in {"handle_wait", "handle_set"} => arg[t] \in alloc

OperandsListed ==
    \A t \in Threads :
        /\ pc[t] \in {"join_count", "cancel_flag"} => arg[t] \in exec_env_list
        /\ At(t, "spread") => todo \subseteq exec_env_list

\* The inductive invariant of the locking protocol of thread_manager.c: a lock
\* is held exactly where the code holds it, and what is looked up under a lock
\* stays valid as long as that lock is held.
LockingInv ==
    ~ At(Main, "finished") =>
        LocksMatch /\ EnvsMatch /\ CreatorWaits /\ OperandsListed

Spreading == \E t \in Threads : At(t, "spread")

\* Once an exception is spread every thread of the cluster is told to
\* terminate, those included that were being created at the time.
ExceptionReachesAll ==
    has_exception /\ ~ Spreading => exec_env_list \subseteq terminate

\* When the main thread destroys its exec_env and the cluster, no other
\* thread uses them any more (wasm_exec_env_destroy: "this is the only alive
\* thread").
MainIsLast ==
    pc[Main] \in {"destroy", "finished"} =>
        \A t \in Workers : ~ Running(t) /\ env[t] \notin exec_env_list

\* A thread that is told to terminate ends, and its exec_env leaves the list.
TerminatedEnds ==
    \A t \in Workers : (Running(t) /\ env[t] \in terminate) ~> At(t, "done")

\* An exception ends the process: the main thread comes to destroy the cluster.
ExceptionEndsProcess == has_exception ~> At(Main, "finished")

\* An exception terminates each thread it finds: thread_manager.c "Terminate
\* the thread so it can exit from dead loops".
ExceptionTerminates ==
    \A t \in Threads : (At(t, "spread") /\ raising[t]) ~> ~ At(t, "spread")

\* pthread_join with an invalid address leaves the other threads alone:
\* "we don't want to terminate all threads, do not spread exception here".
ClearIsLocal ==
    [][\A t \in Threads : At(t, "spread") /\ ~ raising[t] =>
           terminate' \ {env[t]} = terminate \ {env[t]}]_vars
=============================================================================
