------------------------------ MODULE WaitMutex -----------------------------
(***************************************************************************)
(* A client of AtomicWait: the mutex of sync_primitives.h and of the test  *)
(* atomic_wait_notify.c, a compare-and-swap with a wait for the value 1    *)
(* when it fails, a store of 0 and a notify of one waiter to unlock.       *)
(***************************************************************************)
EXTENDS AtomicWait

CONSTANT Mutex

ASSUME MutexAssumption == Mutex \in Addrs /\ {0, 1} \subseteq Values /\ 1 \in Counts

VARIABLE lock   \* what the thread does with the mutex

mutexVars == <<vars, lock>>

MutexInit ==
    /\ Init /\ mem[Mutex] = 0
    /\ lock = [t \in Threads |-> "none"]

Becomes(t, from, to) == lock[t] = from /\ lock' = [lock EXCEPT ![t] = to]

Lock(t) == pc[t] = "app" /\ Becomes(t, "none", "trying") /\ UNCHANGED vars

\* The compare-and-swap succeeds.
Acquire(t) == mem[Mutex] = 0 /\ AppStore(t, Mutex, 1) /\ Becomes(t, "trying", "held")

\* It fails; when the wait returns, whatever it returns, the thread tries again.
\* The test waits for ever; a client that waits with a timeout does the same.
WaitForUnlock(t) ==
    /\ mem[Mutex] # 0
    /\ \E d \in Timeouts \union {Forever} : AppWait(t, Mutex, 1, d)
    /\ Becomes(t, "trying", "trying")

Unlock(t) == AppStore(t, Mutex, 0) /\ Becomes(t, "held", "unlocked")

NotifyOne(t) == AppNotify(t, Mutex, 1) /\ Becomes(t, "unlocked", "none")

Running(t) == Acquire(t) \/ WaitForUnlock(t) \/ Unlock(t) \/ NotifyOne(t)

MutexNext ==
    \E t \in Threads : \/ Lock(t) \/ Running(t)
                       \/ (Runtime(t) \/ Terminate(t)) /\ UNCHANGED lock

MutexSpec == MutexInit /\ [][MutexNext]_mutexVars

\* A thread that uses the mutex goes on until it has unlocked it.
FairMutexSpec ==
    MutexSpec /\ \A t \in Threads : /\ WF_mutexVars(Runtime(t) /\ UNCHANGED lock)
                                    /\ WF_mutexVars(Running(t))

-----------------------------------------------------------------------------
(* Properties                                                              *)

Asleep(t) == pc[t] = "blocked" /\ status[t] = "S_WAITING"

\* While the mutex is free and a thread sleeps on it, another one is about to
\* notify it or to try the lock itself, and so to notify it later: no wakeup is
\* lost between the comparison, the wait and the notify, even if a notify is
\* spent on a thread that was notified before.
NoLostWakeup ==
    terminated = {} /\ mem[Mutex] = 0 /\ (\E t \in Threads : Asleep(t)) =>
        \E u \in Threads : \/ lock[u] = "unlocked" \/ pc[u] = "notify"
                           \/ lock[u] = "trying" /\ ~ Asleep(u)

\* As long as nobody is terminated, a mutex that threads try to lock is locked
\* by one of them again and again.
SomeoneLocks ==
    (\E t \in Threads : lock[t] = "trying") ~>
        (terminated # {} \/ \E t \in Threads : lock[t] = "held")
=============================================================================
