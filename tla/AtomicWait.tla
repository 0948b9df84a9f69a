------------------------------ MODULE AtomicWait ----------------------------
(***************************************************************************)
(* memory.atomic.wait and memory.atomic.notify: wasm_shared_memory.c.      *)
(*                                                                         *)
(* g_shared_memory_lock is held over each operation but for the condition  *)
(* wait, so a step is what runs between two waits.  The memory accesses    *)
(* the interpreter makes for atomic loads and stores take the same lock.   *)
(* Timeouts count the slices of one second in which the code waits.        *)
(***************************************************************************)
EXTENDS Integers, FiniteSets, SequencesExt

CONSTANTS
    Threads,
    Addrs,
    Values,
    Counts,     \* counts passed to notify
    Timeouts,   \* slices that fit in the timeouts passed to wait
    Forever,    \* a negative timeout
    None

ASSUME ThreadsAssumption == IsFiniteSet(Threads) /\ None \notin Addrs
ASSUME CountsAssumption == Counts \subseteq Nat
ASSUME TimeoutsAssumption == Timeouts \subseteq Nat /\ Forever \notin Nat

VARIABLES
    mem,        \* the shared memory
    pc,         \* where the thread is: "blocked" is the condition wait
    op,         \* operands of its operation
    status,     \* status of its AtomicWaitNode
    ret,        \* what its last operation returned
    wait_map,   \* wait_map[a]: the nodes of the AtomicWaitInfo of a
    terminated, \* threads with WASM_SUSPEND_FLAG_TERMINATE
    exception   \* the module instance has an exception

vars == <<mem, pc, op, status, ret, wait_map, terminated, exception>>

NoOp == [addr |-> None, val |-> 0, left |-> 0]

Init ==
    /\ mem \in [Addrs -> Values]
    /\ pc = [t \in Threads |-> "app"]
    /\ op = [t \in Threads |-> NoOp]
    /\ status = [t \in Threads |-> "S_WAITING"]
    /\ ret = [t \in Threads |-> None]
    /\ wait_map = [a \in {} |-> <<>>]
    /\ terminated = {}
    /\ exception = FALSE

-----------------------------------------------------------------------------
(* The wait map                                                            *)

Info(a) == IF a \in DOMAIN wait_map THEN wait_map[a] ELSE <<>>

\* The wait map with the list of a replaced; a new AtomicWaitInfo is made if
\* a has none.
WithList(a, list) ==
    [b \in DOMAIN wait_map \union {a} |-> IF b = a THEN list ELSE wait_map[b]]

\* Mutant of Release: the info goes with its first waiter.
ReleaseAlways(a, list) == [b \in DOMAIN wait_map \ {a} |-> wait_map[b]]

\* map_try_release_wait_info: an empty list goes with its AtomicWaitInfo.
Release(a, list) ==
    IF list = <<>> THEN [b \in DOMAIN wait_map \ {a} |-> wait_map[b]]
                   ELSE WithList(a, list)

-----------------------------------------------------------------------------
(* The wasm code                                                           *)

Begin(t, p, operands) ==
    /\ pc[t] = "app"
    /\ pc' = [pc EXCEPT ![t] = p]
    /\ op' = [op EXCEPT ![t] = operands]
    /\ ret' = [ret EXCEPT ![t] = None]
    /\ UNCHANGED <<mem, status, wait_map, terminated, exception>>

AppWait(t, a, expect, timeout) ==
    ~ exception /\ Begin(t, "wait", [addr |-> a, val |-> expect, left |-> timeout])

AppNotify(t, a, count) == Begin(t, "notify", [addr |-> a, val |-> count, left |-> 0])

AppStore(t, a, v) ==
    /\ pc[t] = "app"
    /\ mem' = [mem EXCEPT ![a] = v]
    /\ UNCHANGED <<pc, op, status, ret, wait_map, terminated, exception>>

\* wasm_copy_exception finds an exception, or CHECK_SUSPEND_FLAGS the flag.
LeaveWasm(t) ==
    /\ pc[t] = "app" /\ (exception \/ t \in terminated)
    /\ pc' = [pc EXCEPT ![t] = "ended"]
    /\ UNCHANGED <<mem, op, status, ret, wait_map, terminated, exception>>

\* The interpreter goes on, or returns if there is an exception.
Return(t, r) ==
    /\ pc' = [pc EXCEPT ![t] = IF r = -1 THEN "ended" ELSE "app"]
    /\ op' = [op EXCEPT ![t] = NoOp]
    /\ ret' = [ret EXCEPT ![t] = r]

-----------------------------------------------------------------------------
(* wasm_runtime_atomic_wait                                                *)

WaitDiffers(t) ==
    /\ pc[t] = "wait" /\ mem[op[t].addr] # op[t].val
    /\ Return(t, 1)
    /\ UNCHANGED <<mem, status, wait_map, terminated, exception>>

\* Mutant of MayBlock: the value was compared before the lock was taken.
MayBlockUnlocked(t) == TRUE

MayBlock(t) == mem[op[t].addr] = op[t].val

\* bh_list_insert puts the new node at the head.
WaitBlocks(t) ==
    /\ pc[t] = "wait" /\ MayBlock(t)
    /\ status' = [status EXCEPT ![t] = "S_WAITING"]
    /\ wait_map' = WithList(op[t].addr, <<t>> \o Info(op[t].addr))
    /\ pc' = [pc EXCEPT ![t] = "blocked"]
    /\ UNCHANGED <<mem, op, ret, terminated, exception>>

\* No memory for the node or the info, or no condition variable: the lock is
\* released first.
WaitFails(t) ==
    /\ pc[t] = "wait" /\ MayBlock(t)
    /\ pc' = [pc EXCEPT ![t] = "failing"]
    /\ UNCHANGED <<mem, op, status, ret, wait_map, terminated, exception>>

\* The exception is spread to the threads of the cluster.
WaitRaises(t) ==
    /\ pc[t] = "failing"
    /\ exception' = TRUE
    /\ terminated' = Threads
    /\ Return(t, -1)
    /\ UNCHANGED <<mem, status, wait_map>>

\* Mutant of Done: a terminated thread that waits for ever is forgotten.
DoneUnlessForever(t) == status[t] = "S_NOTIFIED" \/ op[t].left \in {0, 1}

\* Mutant of Done: the notification is not looked at.
DoneUnlessNotified(t) == t \in terminated \/ op[t].left \in {0, 1}

\* The loop ends: notified, terminated or in the last slice of its timeout.
Done(t) ==
    \/ status[t] = "S_NOTIFIED"
    \/ t \in terminated
    \/ op[t].left \in {0, 1}

\* A condition wait ends and the loop goes on.
WaitSlice(t) ==
    /\ pc[t] = "blocked" /\ ~ Done(t)
    /\ op[t].left # Forever
    /\ op' = [op EXCEPT ![t].left = @ - 1]
    /\ UNCHANGED <<mem, pc, status, ret, wait_map, terminated, exception>>

\* bh_list_remove of the node of t.
Unlinked(list, t) ==
    LET i == CHOOSE j \in DOMAIN list : list[j] = t IN RemoveAt(list, i)

WaitReturns(t) ==
    LET a == op[t].addr IN
    /\ pc[t] = "blocked" /\ Done(t)
    /\ wait_map' = Release(a, Unlinked(wait_map[a], t))
    /\ Return(t, IF status[t] = "S_WAITING" THEN 2 ELSE 0)
    /\ UNCHANGED <<mem, status, terminated, exception>>

-----------------------------------------------------------------------------
(* wasm_runtime_atomic_notify                                              *)

\* Mutant of NotifyCount: count is an upper bound that the loop includes.
NotifyCountPlusOne(count, len) == IF count >= len THEN len ELSE count + 1

NotifyCount(count, len) == IF count > len THEN len ELSE count

\* notify_wait_list: the first nodes, those notified before included.
Notify(t) ==
    LET list == Info(op[t].addr)
        n    == NotifyCount(op[t].val, Len(list))
    IN
    /\ pc[t] = "notify"
    /\ status' = [u \in Threads |->
                    IF \E i \in 1 .. n : list[i] = u THEN "S_NOTIFIED" ELSE status[u]]
    /\ Return(t, n)
    /\ UNCHANGED <<mem, wait_map, terminated, exception>>

\* Another thread cancels t or raises an exception.
Terminate(t) ==
    /\ t \notin terminated
    /\ terminated' = terminated \union {t}
    /\ UNCHANGED <<mem, pc, op, status, ret, wait_map, exception>>

-----------------------------------------------------------------------------

App(t) ==
    \E a \in Addrs :
        \/ \E v \in Values : \/ AppStore(t, a, v)
                             \/ \E n \in Timeouts \union {Forever} : AppWait(t, a, v, n)
        \/ \E n \in Counts : AppNotify(t, a, n)

Runtime(t) ==
    \/ LeaveWasm(t)
    \/ WaitDiffers(t) \/ WaitBlocks(t) \/ WaitFails(t) \/ WaitRaises(t)
    \/ WaitSlice(t) \/ WaitReturns(t)
    \/ Notify(t)

Next == \E t \in Threads : App(t) \/ Runtime(t) \/ Terminate(t)

Spec == Init /\ [][Next]_vars

\* A condition wait ends when it is signalled or its slice is over.
FairSpec == Spec /\ \A t \in Threads : WF_vars(Runtime(t))

-----------------------------------------------------------------------------
(* Properties                                                              *)

Operands == [addr : Addrs \union {None},
             val : Values \union Counts \union {0},
             left : Nat \union {Forever}]

\* Type correctness; a thread in an operation has an address.
TypeOK ==
    /\ mem \in [Addrs -> Values]
    /\ pc \in [Threads -> {"app", "wait", "failing", "blocked", "notify", "ended"}]
    /\ op \in [Threads -> Operands]
    /\ \A t \in Threads :
        /\ pc[t] \notin {"app", "ended"} => op[t].addr \in Addrs
        /\ pc[t] \in {"wait", "failing", "blocked"} => op[t].val \in Values
        /\ pc[t] = "notify" => op[t].val \in Counts
    /\ status \in [Threads -> {"S_WAITING", "S_NOTIFIED"}]
    /\ ret \in [Threads -> Int \union {None}]
    /\ DOMAIN wait_map \subseteq Addrs
    /\ \A a \in DOMAIN wait_map : wait_map[a] \in Seq(Threads)
    /\ terminated \subseteq Threads
    /\ exception \in BOOLEAN

BlockedAt(a) == {t \in Threads : pc[t] = "blocked" /\ op[t].addr = a}

\* A thread in the condition wait finds its node in the list when it returns
\* (bh_assert(check_ret)), once, and the AtomicWaitInfo it has kept a pointer
\* to exists; an address nobody waits at has none.
NodesListed ==
    \A a \in Addrs :
        /\ ToSet(Info(a)) = BlockedAt(a)
        /\ \A i, j \in DOMAIN Info(a) : Info(a)[i] = Info(a)[j] => i = j
        /\ a \in DOMAIN wait_map <=> BlockedAt(a) # {}

\* A thread that is notified, terminated or has a timeout stops waiting.
WaitEnds ==
    \A t \in Threads :
        (/\ pc[t] = "blocked"
         /\ status[t] = "S_NOTIFIED" \/ t \in terminated \/ op[t].left # Forever)
            ~> pc[t] # "blocked"

Waiting  == [a \in Addrs |-> {t \in BlockedAt(a) : status[t] = "S_WAITING"}]
Notified == [a \in Addrs |-> {t \in BlockedAt(a) : status[t] = "S_NOTIFIED"}]

\* The operation a thread is in.
Calls ==
    [t \in Threads |->
        IF pc[t] \in {"app", "ended"} THEN None
        ELSE [op   |-> IF pc[t] = "notify" THEN "notify" ELSE "wait",
              addr |-> op[t].addr,
              val  |-> op[t].val]]

\* Threads compare and block atomically, and a notify wakes at most as many of
\* them as it is told to: the lists implement the abstract wait queue.
Queue == INSTANCE WaitQueue WITH
            call <- Calls, waiting <- Waiting, notified <- Notified

QueueSpec == Queue!Spec
=============================================================================
