----------------------------- MODULE LibPthread -----------------------------
(* The pthread functions of wasm applications (lib_pthread_wrapper.c): the    *)
(* info node behind each handle, from pthread_create to the end of the        *)
(* cluster.  The thread manager's own calls (ThreadManager) are single steps. *)
(* A node is looked up under the lock of the map and used after it; whoever   *)
(* reads a freed node reads anything, and a write to it is lost.              *)
EXTENDS FiniteSets, Naturals

CONSTANTS
    Main,
    Workers,    \* threads that may be created; each stands for its handle too
    Results,    \* what a thread's function returns
    Calls,      \* the functions applications use: "join", "detach", "cancel"
    None

ASSUME MainAssumption == Main \notin Workers
ASSUME NoneAssumption == None \notin Workers \union {Main} \union Results

Threads == Workers \union {Main}
Statuses == {"INIT", "RUNNING", "CANCELLED", "EXIT"}

VARIABLES
    pc, target,     \* where each thread is, and whose node it works on
    parent,         \* info_node->parent_exec_env
    waitLock,       \* owner of each exec_env->wait_lock
    listed,         \* threads whose exec_env is in the cluster's list
    detached, waitCount,            \* exec_env->thread_is_detached, wait_count
    mapped, freed,  \* nodes in thread_info_map; how often each was freed
    nodeEnv, status, joinable, ret, \* the fields of each node
    known,          \* handles pthread_create has returned
    claimed,        \* threads that one join or detach has been called for
    result,         \* what each thread returned or passed to pthread_exit
    answer          \* what the last join of each thread answered, and how

exec == <<listed, detached, waitCount>>
nodes == <<mapped, freed, nodeEnv, status, joinable, ret>>
app == <<known, claimed, result, answer>>
vars == <<pc, target, parent, waitLock, exec, nodes, app>>

Goto(t, l) == pc' = [pc EXCEPT ![t] = l]

\* The call returns to the application.
Done(t) == Goto(t, "run") /\ target' = [target EXCEPT ![t] = None]

\* What a read of a field of w's node gives.
Read(w, value, Values) == IF freed[w] = 0 THEN {value} ELSE Values

\* Where a thread is whose function has returned.
Over == {"ending", "store", "stored", "leaving", "gone"}

-----------------------------------------------------------------------------
(* pthread_create                                                            *)
Unstarted == {w \in Workers : pc[w] = "none"}

\* The node is made, wait_lock is taken, and the cluster starts the thread.
Create(t, w) ==
    /\ pc[t] = "run" /\ w \in Unstarted /\ waitLock[t] = None
    /\ pc' = [pc EXCEPT ![t] = "creating", ![w] = "start"]
    /\ target' = [target EXCEPT ![t] = w]
    /\ parent' = [parent EXCEPT ![w] = t]
    /\ waitLock' = [waitLock EXCEPT ![t] = t]
    /\ listed' = listed \union {w}
    /\ status' = [status EXCEPT ![w] = "INIT"]
    /\ joinable' = [joinable EXCEPT ![w] = TRUE]
    /\ UNCHANGED <<detached, waitCount, mapped, freed, nodeEnv, ret, app>>

\* The cluster refuses the thread: the node and its handle are given up.
CreateFails(t, w) ==
    /\ pc[t] = "run" /\ w \in Unstarted
    /\ Goto(w, "gone")
    /\ freed' = [freed EXCEPT ![w] = 1]
    /\ UNCHANGED <<target, parent, waitLock, exec, mapped, nodeEnv, status, joinable, ret, app>>

\* Mutant of CreateWaits: pthread_create does not wait for the thread.
CreateDoesNotWait(t) ==
    /\ pc[t] = "creating"
    /\ waitLock' = [waitLock EXCEPT ![t] = None]
    /\ known' = known \union {target[t]}
    /\ Done(t)
    /\ UNCHANGED <<parent, exec, nodes, claimed, result, answer>>

\* os_cond_wait gives wait_lock up and sleeps in one step.
CreateWaits(t) ==
    /\ pc[t] = "creating"
    /\ Goto(t, "waiting")
    /\ waitLock' = [waitLock EXCEPT ![t] = None]
    /\ UNCHANGED <<target, parent, exec, nodes, app>>

CreateReturns(t) ==
    /\ pc[t] = "woken" /\ waitLock[t] = None
    /\ Done(t)
    /\ known' = known \union {target[t]}
    /\ UNCHANGED <<parent, waitLock, exec, nodes, claimed, result, answer>>

\* What a signal on the parent's wait_cond does to the parent.
Woken(p) == IF pc[p] = "waiting" THEN "woken" ELSE pc[p]

\* Mutant of Start: the wait_lock of the parent is not taken.
StartUnlocked(w) ==
    LET p == parent[w]
    IN  /\ pc[w] = "start"
        /\ nodeEnv' = [nodeEnv EXCEPT ![w] = w]
        /\ mapped' = mapped \union {w}
        /\ status' = [status EXCEPT ![w] = "RUNNING"]
        /\ pc' = [pc EXCEPT ![w] = "run", ![p] = Woken(p)]
        /\ UNCHANGED <<target, parent, waitLock, exec, freed, joinable, ret, app>>

\* pthread_start_routine files the node under the parent's wait_lock ...
Start(w) ==
    LET p == parent[w]
    IN  /\ pc[w] = "start" /\ waitLock[p] = None
        /\ nodeEnv' = [nodeEnv EXCEPT ![w] = w]
        /\ mapped' = mapped \union {w}
        /\ status' = [status EXCEPT ![w] = "RUNNING"]
        /\ pc' = [pc EXCEPT ![w] = "run", ![p] = Woken(p)]
        /\ UNCHANGED <<target, parent, waitLock, exec, freed, joinable, ret, app>>

\* ... or frees it, when the map has no memory for it, and ends.
StartFails(w) ==
    LET p == parent[w]
    IN  /\ pc[w] = "start" /\ waitLock[p] = None
        /\ nodeEnv' = [nodeEnv EXCEPT ![w] = w]
        /\ freed' = [freed EXCEPT ![w] = @ + 1]
        /\ pc' = [pc EXCEPT ![w] = "leaving", ![p] = Woken(p)]
        /\ UNCHANGED <<target, parent, waitLock, exec, mapped, status, joinable, ret, app>>

-----------------------------------------------------------------------------
(* join, detach and cancel of a thread by the handle w                       *)

\* Handles a thread has: those pthread_create returned, and its own.
Has(t, w) == w \in known \/ w = t

NoAnswer == [of |-> None, kind |-> "none", value |-> None]

Lookup(t, w, found) ==
    /\ pc[t] = "run" /\ Has(t, w)
    /\ w \in mapped
    /\ Goto(t, found)
    /\ target' = [target EXCEPT ![t] = w]
    /\ answer' = [answer EXCEPT ![t] = NoAnswer]
    /\ UNCHANGED <<parent, waitLock, exec, nodes, known, result>>

\* An application joins or detaches a thread once, and not itself by a join.
Claim(w) == w \notin claimed /\ claimed' = claimed \union {w}

Join(t, w) == /\ "join" \in Calls /\ t # w
              /\ Claim(w) /\ Lookup(t, w, "join")

Detach(t, w) == "detach" \in Calls /\ Claim(w) /\ Lookup(t, w, "detach")

Cancel(t, w) == "cancel" \in Calls /\ Lookup(t, w, "cancel") /\ UNCHANGED claimed

Answered(t, kind, value) ==
    answer' = [answer EXCEPT ![t] = [of |-> target[t], kind |-> kind, value |-> value]]

\* No node: the thread has ended and was not joinable.
JoinUnknown(t, w) ==
    /\ "join" \in Calls /\ t # w
    /\ pc[t] = "run" /\ Has(t, w) /\ w \notin mapped
    /\ Claim(w)
    /\ answer' = [answer EXCEPT ![t] = [of |-> w, kind |-> "unknown", value |-> None]]
    /\ UNCHANGED <<pc, target, parent, waitLock, exec, nodes, known, result>>

\* Mutant of JoinReadsStatus: any thread that is not running has a result.
JoinReadsNotRunning(t) ==
    /\ pc[t] = "join"
    /\ \E s \in Read(target[t], status[target[t]], Statuses) :
          Goto(t, IF s # "RUNNING" THEN "joinStored" ELSE "joinThread")
    /\ UNCHANGED <<target, parent, waitLock, exec, nodes, app>>

JoinReadsStatus(t) ==
    /\ pc[t] = "join"
    /\ \E s \in Read(target[t], status[target[t]], Statuses) :
          Goto(t, IF s = "EXIT" THEN "joinStored" ELSE "joinThread")
    /\ UNCHANGED <<target, parent, waitLock, exec, nodes, app>>

\* The stored result; the 1 ms sleep that follows it ends in any case.  The
\* assertion that the node is joinable (StoredIsJoinable) is empty without BH_DEBUG.
JoinStored(t) ==
    /\ pc[t] = "joinStored"
    /\ \E v \in Read(target[t], ret[target[t]], Results \union {None}) :
          Answered(t, IF freed[target[t]] = 0 THEN "stored" ELSE "stray", v)
    /\ Done(t)
    /\ UNCHANGED <<parent, waitLock, exec, nodes, known, claimed, result>>

\* wasm_cluster_join_thread
JoinThread(t) ==
    LET w == target[t]
    IN  /\ pc[t] = "joinThread" /\ w \in listed /\ ~detached[w]
        /\ waitCount' = [waitCount EXCEPT ![w] = @ + 1]
        /\ Goto(t, "joinWait")
        /\ UNCHANGED <<target, parent, waitLock, listed, detached, nodes, app>>

JoinMisses(t) ==
    LET w == target[t]
    IN  /\ pc[t] = "joinThread" /\ ~(w \in listed /\ ~detached[w])
        /\ Answered(t, "missed", None)
        /\ Done(t)
        /\ UNCHANGED <<parent, waitLock, exec, nodes, known, claimed, result>>

JoinReturns(t) ==
    /\ pc[t] = "joinWait" /\ pc[target[t]] = "gone"
    /\ Answered(t, "thread", result[target[t]])
    /\ Done(t)
    /\ UNCHANGED <<parent, waitLock, exec, nodes, known, claimed, result>>

DetachFlag(t) ==
    LET w == target[t]
    IN  /\ pc[t] = "detach"
        /\ joinable' = IF freed[w] = 0 THEN [joinable EXCEPT ![w] = FALSE] ELSE joinable
        /\ Goto(t, "detachThread")
        /\ UNCHANGED <<target, parent, waitLock, exec, mapped, freed, nodeEnv, status, ret, app>>

DetachThread(t) ==
    LET w == target[t]
    IN  /\ pc[t] = "detachThread"
        /\ detached' = [detached EXCEPT ![w] = @ \/ (w \in listed /\ waitCount[w] = 0)]
        /\ Done(t)
        /\ UNCHANGED <<parent, waitLock, listed, waitCount, nodes, app>>

\* The flag wasm_cluster_cancel_thread raises makes the wasm code return, which
\* Return allows at any time.
CancelStatus(t) ==
    LET w == target[t]
    IN  /\ pc[t] = "cancel"
        /\ status' = IF freed[w] = 0 THEN [status EXCEPT ![w] = "CANCELLED"] ELSE status
        /\ Goto(t, "cancelFlag")
        /\ UNCHANGED <<target, parent, waitLock, exec, mapped, freed, nodeEnv, joinable, ret, app>>

CancelFlag(t) ==
    LET w == target[t]
    IN  /\ pc[t] = "cancelFlag"
        /\ joinable' = IF freed[w] = 0 THEN [joinable EXCEPT ![w] = FALSE] ELSE joinable
        /\ Done(t)
        /\ UNCHANGED <<parent, waitLock, exec, mapped, freed, nodeEnv, status, ret, app>>

-----------------------------------------------------------------------------
(* The end of a thread: its function returns, or calls pthread_exit.         *)
Return(w) ==
    /\ w \in Workers /\ pc[w] = "run"
    /\ \E v \in Results : result' = [result EXCEPT ![w] = v]
    /\ Goto(w, "ending")
    /\ UNCHANGED <<target, parent, waitLock, exec, nodes, known, claimed, answer>>

\* Mutant of DeleteNode: the node is freed and stays in the map.
DeleteMapped(w) ==
    /\ pc[w] = "ending" /\ ~joinable[w]
    /\ freed' = [freed EXCEPT ![w] = @ + 1]
    /\ Goto(w, "leaving")
    /\ UNCHANGED <<target, parent, waitLock, exec, mapped, nodeEnv, status, joinable, ret, app>>

DeleteNode(w) ==
    /\ pc[w] = "ending" /\ ~joinable[w]
    /\ mapped' = mapped \ {w}
    /\ freed' = [freed EXCEPT ![w] = @ + 1]
    /\ Goto(w, "leaving")
    /\ UNCHANGED <<target, parent, waitLock, exec, nodeEnv, status, joinable, ret, app>>

\* Mutant of KeepNode: the status is written before the result.
KeepNodeStatusFirst(w) ==
    /\ pc[w] = "ending" /\ joinable[w]
    /\ status' = [status EXCEPT ![w] = "EXIT"]
    /\ Goto(w, "store")
    /\ UNCHANGED <<target, parent, waitLock, exec, mapped, freed, nodeEnv, joinable, ret, app>>

KeepNode(w) ==
    /\ pc[w] = "ending" /\ joinable[w]
    /\ Goto(w, "store")
    /\ UNCHANGED <<target, parent, waitLock, exec, nodes, app>>

StoreResult(w) ==
    /\ pc[w] = "store"
    /\ ret' = [ret EXCEPT ![w] = result[w]]
    /\ Goto(w, "stored")
    /\ UNCHANGED <<target, parent, waitLock, exec, mapped, freed, nodeEnv, status, joinable, app>>

StoreStatus(w) ==
    /\ pc[w] = "stored"
    /\ status' = [status EXCEPT ![w] = "EXIT"]
    /\ Goto(w, "leaving")
    /\ UNCHANGED <<target, parent, waitLock, exec, mapped, freed, nodeEnv, joinable, ret, app>>

\* Mutant of Leave: a join waits with cluster_list_lock held.
LeaveAfterJoins(w) ==
    /\ pc[w] = "leaving" /\ \A t \in Threads : pc[t] # "joinWait"
    /\ listed' = listed \ {w}
    /\ Goto(w, "gone")
    /\ UNCHANGED <<target, parent, waitLock, detached, waitCount, nodes, app>>

\* The thread manager removes the exec_env and ends the native thread.
Leave(w) ==
    /\ pc[w] = "leaving"
    /\ listed' = listed \ {w}
    /\ Goto(w, "gone")
    /\ UNCHANGED <<target, parent, waitLock, detached, waitCount, nodes, app>>

\* The main function has returned and every thread has ended: the callback of
\* the cluster destroys the map, and with it each node it has.
Destroy ==
    /\ pc[Main] = "run" /\ listed = {}
    /\ Goto(Main, "gone")
    /\ mapped' = {}
    /\ freed' = [w \in Workers |-> freed[w] + (IF w \in mapped THEN 1 ELSE 0)]
    /\ UNCHANGED <<target, parent, waitLock, exec, nodeEnv, status, joinable, ret, app>>

-----------------------------------------------------------------------------
Init ==
    /\ pc = [t \in Threads |-> IF t = Main THEN "run" ELSE "none"]
    /\ target = [t \in Threads |-> None]
    /\ parent = [w \in Workers |-> None]
    /\ waitLock = [t \in Threads |-> None]
    /\ listed = {}
    /\ detached = [w \in Workers |-> FALSE]
    /\ waitCount = [w \in Workers |-> 0]
    /\ mapped = {}
    /\ freed = [w \in Workers |-> 0]
    /\ nodeEnv = [w \in Workers |-> None]
    /\ status = [w \in Workers |-> "INIT"]
    /\ joinable = [w \in Workers |-> FALSE]
    /\ ret = [w \in Workers |-> None]
    /\ known = {} /\ claimed = {}
    /\ result = [w \in Workers |-> None]
    /\ answer = [t \in Threads |-> NoAnswer]

App(t, w) ==
    \/ Create(t, w) \/ CreateFails(t, w)
    \/ Join(t, w) \/ JoinUnknown(t, w) \/ Detach(t, w) \/ Cancel(t, w)

\* The steps that go on without the application.
Library(t) ==
    \/ CreateWaits(t) \/ CreateReturns(t)
    \/ JoinReadsStatus(t) \/ JoinStored(t) \/ JoinThread(t) \/ JoinMisses(t) \/ JoinReturns(t)
    \/ DetachFlag(t) \/ DetachThread(t) \/ CancelStatus(t) \/ CancelFlag(t)

Routine(w) ==
    \/ Start(w) \/ StartFails(w)
    \/ DeleteNode(w) \/ KeepNode(w) \/ StoreResult(w) \/ StoreStatus(w) \/ Leave(w)

Next ==
    \/ \E t \in Threads, w \in Workers : App(t, w)
    \/ \E t \in Threads : Library(t)
    \/ \E w \in Workers : Return(w) \/ Routine(w)
    \/ Destroy

Spec == Init /\ [][Next]_vars

\* Native threads are scheduled fairly; what the application does is its choice.
FairSpec ==
    /\ Spec
    /\ \A t \in Threads : WF_vars(Library(t))
    /\ \A w \in Workers : WF_vars(Routine(w))

-----------------------------------------------------------------------------
(* Properties                                                                *)

Labels ==
    {"none", "start", "run", "creating", "waiting", "woken", "join", "joinStored",
     "joinThread", "joinWait", "detach", "detachThread", "cancel", "cancelFlag"} \union Over
Answers == [of : Workers \union {None}, kind : {"none", "unknown", "stored", "stray", "missed", "thread"},
            value : Results \union {None}]

TypeOK ==
    /\ pc \in [Threads -> Labels]
    /\ target \in [Threads -> Workers \union {None}]
    /\ parent \in [Workers -> Threads \union {None}]
    /\ waitLock \in [Threads -> Threads \union {None}]
    /\ listed \subseteq Workers
    /\ detached \in [Workers -> BOOLEAN] /\ waitCount \in [Workers -> Nat]
    /\ mapped \subseteq Workers /\ freed \in [Workers -> Nat]
    /\ nodeEnv \in [Workers -> Workers \union {None}]
    /\ status \in [Workers -> Statuses] /\ joinable \in [Workers -> BOOLEAN]
    /\ ret \in [Workers -> Results \union {None}]
    /\ known \subseteq Workers /\ claimed \subseteq Workers
    /\ result \in [Workers -> Results \union {None}]
    /\ answer \in [Threads -> Answers]

\* However detach, cancel and the end of a thread interleave, the node of a
\* thread is freed once, by its thread or with the map, and never while the map
\* still has it; after the cluster none is left.
NodesFreedOnce ==
    \A w \in Workers :
        /\ freed[w] <= 1
        /\ w \in mapped => freed[w] = 0
        /\ pc[Main] = "gone" /\ pc[w] # "none" => freed[w] = 1

\* A handle that pthread_create has returned, and any node that join, detach or
\* cancel may find, has its exec_env ("otherwise the exec_env in the thread info
\* node may be NULL in the next pthread API call").
HandleResolved ==
    \A w \in known \union mapped : nodeEnv[w] = w

\* When a join has answered, the function of its thread has returned, even if
\* the thread was cancelled, or its node was freed under the join.
JoinMeansOver ==
    \A t \in Threads : answer[t].of # None => pc[answer[t].of] \in Over

\* A join that finds a stored result gets the one its thread has ended with.
StoredIsResult ==
    \A t \in Threads : answer[t].kind = "stored" => answer[t].value = result[answer[t].of]

\* pthread_create does not sleep through the signal of the thread it starts.
CreateEnds == \A t \in Threads : pc[t] = "waiting" ~> pc[t] = "run"

\* A join ends once the function of its thread has returned.
JoinEnds ==
    \A t \in Threads, w \in Workers :
        (pc[t] = "joinWait" /\ target[t] = w /\ pc[w] = "ending") ~> pc[t] = "run"

\* "if the thread is joinable, store the result in its info node, if the other
\* threads join this thread after exited, then we can return the stored result".
JoinGetsResult ==
    \A t \in Threads :
        LET w == answer[t].of
        IN  w # None /\ status[w] = "EXIT" => answer[t].value = result[w]

\* "this thread must be joinable, otherwise the info_node should be destroyed
\* once exit": of a node that a join finds with a stored result.  A cancel that
\* comes when the thread has read the flag clears it (see MCPthreadAssert).
StoredIsJoinable ==
    \A t \in Threads :
        pc[t] = "joinStored" /\ freed[target[t]] = 0 => joinable[target[t]]
=============================================================================
