------------------------------ MODULE Allocator ------------------------------
(* What a heap promises an application: the objects it hands out lie inside  *)
(* the heap and share no byte.  Where an object is put is the heap's choice.  *)
EXTENDS Naturals, Functions

CONSTANTS
    Starts,     \* offsets an object may start at
    Bytes,      \* the heap has the bytes 0 .. Bytes - 1
    Requests    \* sizes an application asks for

VARIABLE live   \* start of each object that is in use -> its size

Init == live = <<>>

Disjoint(o, s, p, t) == o + s <= p \/ p + t <= o

\* [o, o + s) is inside the heap and clear of all objects but `except`.
Fits(o, s, except) ==
    /\ o + s <= Bytes
    /\ \A p \in DOMAIN live \ except : Disjoint(o, s, p, live[p])

Allocate(o, s) ==
    /\ o \notin DOMAIN live
    /\ Fits(o, s, {})
    /\ live' = [p \in DOMAIN live \union {o} |-> IF p = o THEN s ELSE live[p]]

Resize(o, s) ==
    /\ o \in DOMAIN live
    /\ Fits(o, s, {o})
    /\ live' = [live EXCEPT ![o] = s]

Free(o) ==
    /\ o \in DOMAIN live
    /\ live' = Restrict(live, DOMAIN live \ {o})

Next ==
    \E o \in Starts :
        \/ Free(o)
        \/ \E s \in Requests : Allocate(o, s) \/ Resize(o, s)

Spec == Init /\ [][Next]_live
=============================================================================
