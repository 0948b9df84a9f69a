------------------------------ MODULE WaitQueue -----------------------------
(***************************************************************************)
(* What memory.atomic.wait and memory.atomic.notify promise to wasm code,  *)
(* whatever lists, nodes and condition variables implement them: threads   *)
(* block at an address whose value they have compared atomically, and a    *)
(* notify wakes at most as many of them as it was asked to.                *)
(***************************************************************************)
EXTENDS Integers, FiniteSets

CONSTANTS Threads, Addrs, Values, Counts, None

VARIABLES
    mem,        \* the shared memory
    call,       \* the operation of a thread, None if it is in none
    waiting,    \* waiting[a]: threads blocked at a
    notified,   \* notified[a]: threads woken at a that have not returned yet
    ret         \* what the last operation of a thread returned, None if it
                \* has not returned

vars == <<mem, call, waiting, notified, ret>>

WaitCall(a, v)   == [op |-> "wait", addr |-> a, val |-> v]
NotifyCall(a, n) == [op |-> "notify", addr |-> a, val |-> n]

Init ==
    /\ mem \in [Addrs -> Values]
    /\ call = [t \in Threads |-> None]
    /\ waiting = [a \in Addrs |-> {}]
    /\ notified = [a \in Addrs |-> {}]
    /\ ret = [t \in Threads |-> None]

Blocked == UNION {waiting[a] \union notified[a] : a \in Addrs}

Store(a, v) ==
    /\ mem' = [mem EXCEPT ![a] = v]
    /\ UNCHANGED <<call, waiting, notified, ret>>

Invoke(t, c) ==
    /\ call[t] = None
    /\ call' = [call EXCEPT ![t] = c]
    /\ ret' = [ret EXCEPT ![t] = None]
    /\ UNCHANGED <<mem, waiting, notified>>

Returns(t, r) ==
    /\ call' = [call EXCEPT ![t] = None]
    /\ ret' = [ret EXCEPT ![t] = r]
    /\ UNCHANGED mem

\* The value is compared and the thread blocks in one step.
Block(t, a, v) ==
    /\ call[t] = WaitCall(a, v) /\ t \notin Blocked
    /\ mem[a] = v
    /\ waiting' = [waiting EXCEPT ![a] = @ \union {t}]
    /\ UNCHANGED <<mem, call, notified, ret>>

\* The thread does not block, for the value differs (1) or for a failure (-1).
Refuse(t, a, v, r) ==
    /\ call[t] = WaitCall(a, v) /\ t \notin Blocked
    /\ r \in {1, -1} /\ (r = 1 => mem[a] # v)
    /\ Returns(t, r)
    /\ UNCHANGED <<waiting, notified>>

\* At most n threads wake.  Fewer than n wake only if no more wait, or if
\* threads woken before have not left yet: those may be counted again.
Notify(t, a, n) ==
    \E woken \in SUBSET waiting[a], r \in 0 .. n :
        /\ call[t] = NotifyCall(a, n)
        /\ Cardinality(woken) <= r
        /\ r <= Cardinality(waiting[a] \union notified[a])
        /\ \/ woken = waiting[a]
           \/ n <= Cardinality(woken \union notified[a])
        /\ waiting' = [waiting EXCEPT ![a] = @ \ woken]
        /\ notified' = [notified EXCEPT ![a] = @ \union woken]
        /\ Returns(t, r)

\* A woken thread returns 0.
Wake(t, a) ==
    /\ t \in notified[a]
    /\ notified' = [notified EXCEPT ![a] = @ \ {t}]
    /\ Returns(t, 0)
    /\ UNCHANGED waiting

\* A thread that times out or is terminated before it is woken returns 2.
Expire(t, a) ==
    /\ t \in waiting[a]
    /\ waiting' = [waiting EXCEPT ![a] = @ \ {t}]
    /\ Returns(t, 2)
    /\ UNCHANGED notified

Next ==
    \/ \E a \in Addrs, v \in Values : Store(a, v)
    \/ \E t \in Threads, a \in Addrs :
        \/ Wake(t, a) \/ Expire(t, a)
        \/ \E n \in Counts : Invoke(t, NotifyCall(a, n)) \/ Notify(t, a, n)
        \/ \E v \in Values : \/ Invoke(t, WaitCall(a, v)) \/ Block(t, a, v)
                            \/ \E r \in {1, -1} : Refuse(t, a, v, r)

Spec == Init /\ [][Next]_vars
=============================================================================
