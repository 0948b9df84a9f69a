-------------------------- MODULE AtomicWaitProofs --------------------------
(***************************************************************************)
(* What is proved of AtomicWait for any number of threads and addresses:   *)
(* a waiter's node is in the list when it returns, and the lists implement *)
(* the abstract queue of WaitQueue.  Then of its client, the mutex: it     *)
(* uses AtomicWait as its specification allows, one thread at a time holds *)
(* it, and no wakeup is lost.                                              *)
(***************************************************************************)
EXTENDS WaitMutex, FiniteSetTheorems, SequenceTheorems, TLAPS

-----------------------------------------------------------------------------
(* Lists of distinct nodes                                                 *)

Distinct(list) == \A i, j \in DOMAIN list : list[i] = list[j] => i = j

LEMMA RemoveAtElements ==
    ASSUME NEW S, NEW s \in Seq(S), NEW i \in 1 .. Len(s)
    PROVE  /\ RemoveAt(s, i) \in Seq(S)
           /\ Len(RemoveAt(s, i)) = Len(s) - 1
           /\ \A j \in 1 .. Len(s) - 1 :
                 RemoveAt(s, i)[j] = IF j < i THEN s[j] ELSE s[j + 1]
<1> DEFINE front == SubSeq(s, 1, i - 1)
           back  == SubSeq(s, i + 1, Len(s))
<1>1. /\ front \in Seq(S) /\ Len(front) = i - 1
      /\ \A j \in 1 .. i - 1 : front[j] = s[j]
  OBVIOUS
<1>2. /\ back \in Seq(S) /\ Len(back) = Len(s) - i
      /\ \A j \in 1 .. Len(s) - i : back[j] = s[i + j]
  OBVIOUS
<1>3. RemoveAt(s, i) = front \o back
  BY DEF RemoveAt
<1> HIDE DEF front, back
<1>4. /\ front \o back \in Seq(S) /\ Len(front \o back) = Len(front) + Len(back)
      /\ \A j \in 1 .. Len(front) + Len(back) :
            (front \o back)[j] = IF j <= Len(front) THEN front[j] ELSE back[j - Len(front)]
  BY <1>1, <1>2, ConcatProperties
<1>5. ASSUME NEW j \in 1 .. Len(s) - 1
      PROVE  (front \o back)[j] = IF j < i THEN s[j] ELSE s[j + 1]
  <2>1. CASE j < i
    BY <1>1, <1>2, <1>4, <2>1
  <2>2. CASE j >= i
    <3>1. j - (i - 1) \in 1 .. Len(s) - i /\ i + (j - (i - 1)) = j + 1
      BY <2>2
    <3>2. (front \o back)[j] = back[j - (i - 1)]
      BY <1>1, <1>2, <1>4, <2>2
    <3> QED
      BY <1>2, <2>2, <3>1, <3>2
  <2>3. j < i \/ j >= i
    BY LenProperties
  <2> QED
    BY <2>1, <2>2, <2>3
<1> QED
  BY <1>1, <1>2, <1>3, <1>4, <1>5

\* bh_list_remove takes the node out and leaves the others as they are.
LEMMA UnlinkedElements ==
    ASSUME NEW list \in Seq(Threads), Distinct(list), NEW t \in ToSet(list)
    PROVE  /\ Unlinked(list, t) \in Seq(Threads)
           /\ Distinct(Unlinked(list, t))
           /\ ToSet(Unlinked(list, t)) = ToSet(list) \ {t}
           /\ Unlinked(list, t) = <<>> <=> ToSet(list) = {t}
<1> DEFINE i == CHOOSE j \in DOMAIN list : list[j] = t
           new == RemoveAt(list, i)
<1>1. i \in 1 .. Len(list) /\ list[i] = t
  BY DEF ToSet
<1>2. /\ new \in Seq(Threads) /\ Len(new) = Len(list) - 1
      /\ \A j \in 1 .. Len(list) - 1 : new[j] = IF j < i THEN list[j] ELSE list[j + 1]
  BY <1>1, RemoveAtElements
<1>3. Unlinked(list, t) = new
  BY DEF Unlinked
<1> HIDE DEF new, i
<1>4. DOMAIN list = 1 .. Len(list) /\ DOMAIN new = 1 .. Len(list) - 1 /\ Len(list) \in Nat
  BY <1>2
<1>5. Distinct(new)
  BY SMTT(60), <1>1, <1>2, <1>4 DEF Distinct
<1>6. ToSet(new) = ToSet(list) \ {t}
  <2>1. ASSUME NEW j \in DOMAIN new PROVE new[j] \in ToSet(list) \ {t}
    BY <1>1, <1>2, <1>4 DEF ToSet, Distinct
  <2>2. ASSUME NEW j \in DOMAIN list, list[j] # t PROVE \E k \in DOMAIN new : new[k] = list[j]
    <3>1. CASE j < i
      BY <1>1, <1>2, <1>4, <3>1
    <3>2. CASE j > i
      <4>1. j - 1 \in DOMAIN new /\ new[j - 1] = list[j]
        BY <1>1, <1>2, <1>4, <3>2
      <4> QED
        BY <4>1
    <3> QED
      BY <1>1, <1>4, <2>2, <3>1, <3>2
  <2> QED
    BY <2>1, <2>2 DEF ToSet
<1>7. new = <<>> <=> ToSet(list) = {t}
  <2>1. new = <<>> <=> DOMAIN new = {}
    BY <1>2, EmptySeq, LenProperties
  <2>2. DOMAIN new = {} <=> ToSet(new) = {}
    BY DEF ToSet
  <2>3. t \in ToSet(list)
    OBVIOUS
  <2> QED
    BY <1>6, <2>1, <2>2, <2>3
<1> QED
  BY <1>2, <1>3, <1>5, <1>6, <1>7

\* bh_list_insert adds the node.
LEMMA LinkedElements ==
    ASSUME NEW list \in Seq(Threads), Distinct(list), NEW t \in Threads, t \notin ToSet(list)
    PROVE  /\ <<t>> \o list \in Seq(Threads)
           /\ Distinct(<<t>> \o list)
           /\ ToSet(<<t>> \o list) = ToSet(list) \union {t}
<1> DEFINE new == <<t>> \o list
<1>1. /\ new \in Seq(Threads) /\ Len(new) = Len(list) + 1 /\ Len(list) \in Nat
      /\ new[1] = t /\ \A j \in 1 .. Len(list) : new[j + 1] = list[j]
  OBVIOUS
<1>2. DOMAIN new = 1 .. Len(list) + 1 /\ DOMAIN list = 1 .. Len(list)
  BY <1>1
<1> HIDE DEF new
<1>3. \A j \in DOMAIN new : j # 1 => j - 1 \in DOMAIN list /\ new[j] = list[j - 1]
  BY <1>1, <1>2
<1>4. Distinct(new)
  BY <1>1, <1>2, <1>3 DEF Distinct, ToSet
<1>5. ToSet(new) = ToSet(list) \union {t}
  <2>1. \A j \in DOMAIN new : new[j] \in ToSet(list) \union {t}
    BY <1>1, <1>2, <1>3 DEF ToSet
  <2>2. \A j \in DOMAIN list : \E k \in DOMAIN new : new[k] = list[j]
    BY <1>1, <1>2
  <2>3. \E k \in DOMAIN new : new[k] = t
    BY <1>1, <1>2
  <2> QED
    BY <2>1, <2>2, <2>3 DEF ToSet
<1> QED
  BY <1>1, <1>4, <1>5 DEF new

-----------------------------------------------------------------------------
(* Type correctness and the wait lists                                     *)

WaitInv == TypeOK /\ NodesListed

LEMMA WaitInit == Init => WaitInv
<1> SUFFICES ASSUME Init PROVE WaitInv
  OBVIOUS
<1> USE DEF Init
<1>1. TypeOK
  BY ThreadsAssumption DEF TypeOK, NoOp, Operands
<1>2. NodesListed
  BY DEF NodesListed, Info, BlockedAt, ToSet
<1> QED
  BY <1>1, <1>2 DEF WaitInv

LEMMA InfoType ==
    ASSUME TypeOK, NEW a \in Addrs
    PROVE  Info(a) \in Seq(Threads)
BY EmptySeq DEF TypeOK, Info

LEMMA NotifyCountType ==
    ASSUME NEW count \in Nat, NEW len \in Nat
    PROVE  /\ NotifyCount(count, len) \in Nat
           /\ NotifyCount(count, len) <= count /\ NotifyCount(count, len) <= len
           /\ NotifyCount(count, len) \in {count, len}
BY DEF NotifyCount

LEMMA TypeStep ==
    ASSUME WaitInv, NEW t \in Threads, App(t) \/ Runtime(t) \/ Terminate(t)
    PROVE  TypeOK'
<1> USE DEF WaitInv, TypeOK, Operands
<1>1. ASSUME NEW a \in Addrs, NEW v \in Values, AppStore(t, a, v) PROVE TypeOK'
  BY <1>1 DEF AppStore
<1>2. ASSUME NEW a \in Addrs, NEW v \in Values, NEW n \in Timeouts \union {Forever},
             AppWait(t, a, v, n)
      PROVE  TypeOK'
  BY <1>2, TimeoutsAssumption DEF AppWait, Begin
<1>3. ASSUME NEW a \in Addrs, NEW n \in Counts, AppNotify(t, a, n) PROVE TypeOK'
  BY <1>3 DEF AppNotify, Begin
<1>4. CASE LeaveWasm(t)
  BY <1>4 DEF LeaveWasm
<1>5. CASE WaitDiffers(t) \/ WaitRaises(t)
  <2>1. NoOp \in Operands /\ NoOp.addr = None
    BY DEF NoOp
  <2>2. /\ pc' \in [Threads -> {"app", "wait", "failing", "blocked", "notify", "ended"}]
        /\ pc'[t] \in {"app", "ended"} /\ \A u \in Threads : u # t => pc'[u] = pc[u]
        /\ ret' \in [Threads -> Int \union {None}]
        /\ op' = [op EXCEPT ![t] = NoOp]
    <3>1. PICK r \in {1, -1} : Return(t, r)
      BY <1>5 DEF WaitDiffers, WaitRaises
    <3>2. pc \in [Threads -> {"app", "wait", "failing", "blocked", "notify", "ended"}]
          /\ ret \in [Threads -> Int \union {None}]
      OBVIOUS
    <3> QED
      BY <3>1, <3>2 DEF Return
  <2>3. /\ op' \in [Threads -> Operands] /\ \A u \in Threads : u # t => op'[u] = op[u]
    BY <2>1, <2>2
  <2> QED
    BY <1>5, <2>2, <2>3 DEF WaitDiffers, WaitRaises
<1>11. CASE WaitFails(t)
  BY <1>11 DEF WaitFails
<1>6. CASE WaitBlocks(t)
  <2>1. op[t].addr \in Addrs /\ Info(op[t].addr) \in Seq(Threads)
    BY <1>6, InfoType DEF WaitBlocks
  <2>2. <<t>> \o Info(op[t].addr) \in Seq(Threads)
    BY <2>1
  <2>3. /\ DOMAIN wait_map' \subseteq Addrs
        /\ \A a \in DOMAIN wait_map' : wait_map'[a] \in Seq(Threads)
    BY <1>6, <2>1, <2>2 DEF WaitBlocks, WithList
  <2> QED
    BY <1>6, <2>3 DEF WaitBlocks
<1>7. CASE WaitSlice(t)
  <2>1. op[t].left \in Nat \ {0}
    BY <1>7 DEF WaitSlice, Done
  <2>2. op'[t] = [addr |-> op[t].addr, val |-> op[t].val, left |-> op[t].left - 1]
        /\ \A u \in Threads : u # t => op'[u] = op[u]
    BY <1>7 DEF WaitSlice
  <2> QED
    BY <1>7, <2>1, <2>2 DEF WaitSlice
<1>8. CASE WaitReturns(t)
  <2> DEFINE a == op[t].addr
             new == Unlinked(wait_map[a], t)
  <2>1. a \in Addrs /\ t \in BlockedAt(a)
    BY <1>8 DEF WaitReturns, BlockedAt
  <2>2. a \in DOMAIN wait_map /\ wait_map[a] \in Seq(Threads) /\ wait_map[a] = Info(a)
    BY <2>1 DEF NodesListed, Info
  <2>3. new \in Seq(Threads)
    BY <2>1, <2>2, UnlinkedElements DEF NodesListed, Distinct
  <2>4. wait_map' = Release(a, new)
    BY <1>8 DEF WaitReturns
  <2> HIDE DEF new
  <2>5. /\ DOMAIN wait_map' \subseteq Addrs
        /\ \A b \in DOMAIN wait_map' : wait_map'[b] \in Seq(Threads)
    BY <2>1, <2>2, <2>3, <2>4 DEF Release, WithList
  <2> QED
    BY <1>8, <2>5 DEF WaitReturns, Return, NoOp
<1>9. CASE Notify(t)
  <2>1. NotifyCount(op[t].val, Len(Info(op[t].addr))) \in Nat
    <3>1. op[t].addr \in Addrs /\ op[t].val \in Nat
      BY <1>9, CountsAssumption DEF Notify
    <3>2. Len(Info(op[t].addr)) \in Nat
      BY <3>1, InfoType, LenProperties
    <3> QED
      BY <3>1, <3>2, NotifyCountType
  <2> QED
    BY <1>9, <2>1 DEF Notify, Return, NoOp
<1>10. CASE Terminate(t)
  BY <1>10 DEF Terminate
<1> QED
  BY <1>1, <1>2, <1>3, <1>4, <1>5, <1>6, <1>7, <1>8, <1>9, <1>10, <1>11 DEF App, Runtime

\* Where the step of a thread that does not block or return leads.
LEMMA NodesQuiet ==
    ASSUME WaitInv, NEW t \in Threads, UNCHANGED wait_map,
           \A u \in Threads : /\ pc'[u] = "blocked" <=> pc[u] = "blocked"
                              /\ pc[u] = "blocked" => op'[u].addr = op[u].addr
    PROVE  NodesListed'
<1>1. \A a \in Addrs : BlockedAt(a)' = BlockedAt(a) /\ Info(a)' = Info(a)
  BY DEF BlockedAt, Info
<1> QED
  BY <1>1 DEF WaitInv, NodesListed

\* A step that changes the list and the waiters of one address only.
LEMMA NodesAt ==
    ASSUME NodesListed, NEW a \in Addrs, NEW list, Info(a)' = list, Distinct(list),
           ToSet(list) = BlockedAt(a)',
           a \in DOMAIN wait_map' <=> BlockedAt(a)' # {},
           \A b \in Addrs \ {a} : /\ Info(b)' = Info(b) /\ BlockedAt(b)' = BlockedAt(b)
                                  /\ b \in DOMAIN wait_map' <=> b \in DOMAIN wait_map
    PROVE  NodesListed'
<1> SUFFICES ASSUME NEW b \in Addrs
             PROVE  /\ ToSet(Info(b)') = BlockedAt(b)' /\ Distinct(Info(b)')
                    /\ b \in DOMAIN wait_map' <=> BlockedAt(b)' # {}
  BY DEF NodesListed, Distinct
<1> QED
  BY DEF NodesListed, Distinct

LEMMA NodesBlock ==
    ASSUME WaitInv, NEW t \in Threads, WaitBlocks(t), NEW a, a = op[t].addr
    PROVE  NodesListed'
<1> USE DEF WaitInv, TypeOK
<1>1. /\ a \in Addrs /\ pc[t] = "wait" /\ pc' = [pc EXCEPT ![t] = "blocked"]
      /\ op' = op /\ wait_map' = WithList(a, <<t>> \o Info(a))
  BY DEF WaitBlocks
<1>2. t \notin ToSet(Info(a)) /\ Distinct(Info(a))
  BY <1>1 DEF NodesListed, BlockedAt, Distinct
<1>3. /\ Distinct(<<t>> \o Info(a))
      /\ ToSet(<<t>> \o Info(a)) = ToSet(Info(a)) \union {t}
  BY <1>1, <1>2, InfoType, LinkedElements
<1>4. /\ Info(a)' = <<t>> \o Info(a) /\ a \in DOMAIN wait_map'
      /\ BlockedAt(a)' = BlockedAt(a) \union {t}
  BY <1>1 DEF Info, WithList, BlockedAt
<1>5. \A b \in Addrs \ {a} : /\ Info(b)' = Info(b) /\ BlockedAt(b)' = BlockedAt(b)
                             /\ b \in DOMAIN wait_map' <=> b \in DOMAIN wait_map
  BY <1>1 DEF Info, WithList, BlockedAt
<1>6. ToSet(Info(a)) = BlockedAt(a)
  BY <1>1 DEF NodesListed
<1> QED
  BY <1>1, <1>3, <1>4, <1>5, <1>6, NodesAt

LEMMA NodesReturn ==
    ASSUME WaitInv, NEW t \in Threads, WaitReturns(t), NEW a, a = op[t].addr
    PROVE  NodesListed'
<1> DEFINE new == Unlinked(wait_map[a], t)
<1> USE DEF WaitInv, TypeOK
<1>1. /\ a \in Addrs /\ t \in BlockedAt(a) /\ wait_map' = Release(a, new)
      /\ pc' = [pc EXCEPT ![t] = "app"] /\ \A u \in Threads : u # t => op'[u] = op[u]
  BY DEF WaitReturns, Return, BlockedAt
<1>2. /\ a \in DOMAIN wait_map /\ wait_map[a] = Info(a)
      /\ Distinct(Info(a)) /\ ToSet(Info(a)) = BlockedAt(a)
  BY <1>1 DEF NodesListed, Info, Distinct
<1>3. /\ Distinct(new) /\ ToSet(new) = BlockedAt(a) \ {t}
      /\ new = <<>> <=> BlockedAt(a) = {t}
  BY <1>1, <1>2, UnlinkedElements
<1> HIDE DEF new
<1>4. BlockedAt(a)' = BlockedAt(a) \ {t}
  <2>1. \A u \in Threads : u # t => pc'[u] = pc[u] /\ op'[u] = op[u]
    BY <1>1
  <2>2. pc'[t] = "app"
    BY <1>1
  <2> QED
    BY <2>1, <2>2 DEF BlockedAt
<1>5. Info(a)' = new /\ (a \in DOMAIN wait_map' <=> new # <<>>)
  BY <1>1 DEF Info, Release, WithList
<1>6. \A b \in Addrs \ {a} : /\ Info(b)' = Info(b) /\ BlockedAt(b)' = BlockedAt(b)
                             /\ b \in DOMAIN wait_map' <=> b \in DOMAIN wait_map
  BY <1>1 DEF Info, Release, WithList, BlockedAt
<1>7. t \in BlockedAt(a)
  BY <1>1
<1> QED
  BY ZenonT(60), <1>1, <1>3, <1>4, <1>5, <1>6, <1>7, NodesAt

LEMMA NodesStep ==
    ASSUME WaitInv, NEW t \in Threads, App(t) \/ Runtime(t) \/ Terminate(t)
    PROVE  NodesListed'
<1>1. CASE WaitBlocks(t) \/ WaitReturns(t)
  BY <1>1, NodesBlock, NodesReturn
<1>2. CASE /\ UNCHANGED wait_map
           /\ \A u \in Threads : /\ pc'[u] = "blocked" <=> pc[u] = "blocked"
                                 /\ pc[u] = "blocked" => op'[u].addr = op[u].addr
  BY <1>2, NodesQuiet
<1>3. ~ (WaitBlocks(t) \/ WaitReturns(t)) =>
        /\ UNCHANGED wait_map
        /\ \A u \in Threads : /\ pc'[u] = "blocked" <=> pc[u] = "blocked"
                              /\ pc[u] = "blocked" => op'[u].addr = op[u].addr
  <2> USE DEF WaitInv, TypeOK, Operands
  <2>1. CASE App(t)
    BY <2>1 DEF App, AppStore, AppWait, AppNotify, Begin
  <2>2. CASE LeaveWasm(t) \/ WaitDiffers(t) \/ WaitRaises(t) \/ Notify(t)
    BY <2>2 DEF LeaveWasm, WaitDiffers, WaitRaises, Notify, Return
  <2>3. CASE WaitSlice(t) \/ WaitFails(t)
    BY <2>3 DEF WaitSlice, WaitFails
  <2>4. CASE Terminate(t)
    BY <2>4 DEF Terminate
  <2> QED
    BY <2>1, <2>2, <2>3, <2>4 DEF Runtime
<1> QED
  BY <1>1, <1>2, <1>3

LEMMA WaitStep == WaitInv /\ [Next]_vars => WaitInv'
<1>1. CASE UNCHANGED vars
  BY <1>1 DEF vars, WaitInv, TypeOK, NodesListed, BlockedAt, Info
<1>2. ASSUME WaitInv, NEW t \in Threads, App(t) \/ Runtime(t) \/ Terminate(t)
      PROVE  WaitInv'
  BY <1>2, TypeStep, NodesStep DEF WaitInv
<1> QED
  BY <1>1, <1>2 DEF Next

LEMMA WaitInvariant == Spec => []WaitInv
BY WaitInit, WaitStep, PTL DEF Spec

\* Every operation keeps the types, and a thread in one its address.
THEOREM TypeCorrect == Spec => []TypeOK
BY WaitInvariant, PTL DEF WaitInv

\* The node of a waiter is in the list until the waiter takes it out, and the
\* info it keeps a pointer to is not released before.
THEOREM NodesListedCorrect == Spec => []NodesListed
BY WaitInvariant, PTL DEF WaitInv

-----------------------------------------------------------------------------
(* AtomicWait implements WaitQueue                                         *)

W(a) == Waiting[a]
N(a) == Notified[a]

LEMMA StatusSets ==
    ASSUME TypeOK, NEW a \in Addrs
    PROVE  /\ W(a) = {t \in BlockedAt(a) : status[t] = "S_WAITING"}
           /\ N(a) = {t \in BlockedAt(a) : status[t] = "S_NOTIFIED"}
           /\ W(a) \union N(a) = BlockedAt(a)
BY DEF W, N, Waiting, Notified, TypeOK, BlockedAt

LEMMA NotBlocked ==
    ASSUME TypeOK, NEW t \in Threads, pc[t] # "blocked"
    PROVE  t \notin Queue!Blocked
BY DEF Queue!Blocked, Waiting, Notified, BlockedAt

\* A step that leaves the blocked threads and their nodes alone.
LEMMA SetsUnchanged ==
    ASSUME \A u \in Threads : /\ pc'[u] = "blocked" <=> pc[u] = "blocked"
                              /\ pc[u] = "blocked" => /\ op'[u].addr = op[u].addr
                                                      /\ status'[u] = status[u]
    PROVE  /\ Waiting' = Waiting
           /\ Notified' = Notified
BY DEF Waiting, Notified, BlockedAt

InOp == {"wait", "failing", "blocked", "notify"}

LEMMA CallOf ==
    ASSUME TypeOK, NEW t \in Threads
    PROVE  /\ pc[t] \in {"app", "ended"} => Calls[t] = None
           /\ pc[t] \in {"wait", "failing", "blocked"} =>
                 Calls[t] = Queue!WaitCall(op[t].addr, op[t].val)
           /\ pc[t] = "notify" => Calls[t] = Queue!NotifyCall(op[t].addr, op[t].val)
BY DEF Calls, Queue!WaitCall, Queue!NotifyCall, TypeOK

LEMMA CallsUnchanged ==
    ASSUME TypeOK,
           \A u \in Threads :
               \/ pc[u] \in {"app", "ended"} /\ pc'[u] \in {"app", "ended"}
               \/ /\ pc[u] \in InOp /\ pc'[u] \in InOp
                  /\ pc'[u] = "notify" <=> pc[u] = "notify"
                  /\ op'[u].addr = op[u].addr /\ op'[u].val = op[u].val
    PROVE  Calls' = Calls
<1>1. ASSUME NEW u \in Threads PROVE Calls'[u] = Calls[u]
  BY DEF Calls, InOp
<1> QED
  BY <1>1 DEF Calls

\* The operation of t ends, or a thread outside begins one.
LEMMA CallsReturn ==
    ASSUME TypeOK, NEW t \in Threads, NEW q \in {"app", "ended"},
           pc' = [pc EXCEPT ![t] = q], op' = [op EXCEPT ![t] = NoOp]
    PROVE  Calls' = [Calls EXCEPT ![t] = None]
<1>1. pc'[t] = q /\ \A u \in Threads \ {t} : pc'[u] = pc[u] /\ op'[u] = op[u]
  BY DEF TypeOK
<1>2. Calls'[t] = None /\ \A u \in Threads \ {t} : Calls'[u] = Calls[u]
  BY <1>1 DEF Calls
<1> QED
  BY ZenonT(60), <1>2 DEF Calls

LEMMA CallsBegin ==
    ASSUME TypeOK, NEW t \in Threads, NEW p \in {"wait", "notify"}, NEW o,
           pc' = [pc EXCEPT ![t] = p], op' = [op EXCEPT ![t] = o]
    PROVE  Calls' = [Calls EXCEPT ![t] = [op |-> p, addr |-> o.addr, val |-> o.val]]
<1> DEFINE c == [op |-> p, addr |-> o.addr, val |-> o.val]
<1>1. /\ pc'[t] = p /\ op'[t] = o
      /\ \A u \in Threads \ {t} : pc'[u] = pc[u] /\ op'[u] = op[u]
  BY DEF TypeOK
<1>2. Calls'[t] = c /\ \A u \in Threads \ {t} : Calls'[u] = Calls[u]
  BY <1>1 DEF Calls
<1>3. /\ Calls = [u \in Threads |-> Calls[u]]
      /\ Calls' = [u \in Threads |-> Calls'[u]]
  BY DEF Calls
<1> HIDE DEF c
<1>4. Calls' = [Calls EXCEPT ![t] = c]
  BY <1>2, <1>3
<1> QED
  BY <1>4 DEF c

LEMMA QueueApp ==
    ASSUME WaitInv, NEW t \in Threads, App(t)
    PROVE  Queue!Next
<1> USE DEF WaitInv, TypeOK
<1>1. ASSUME NEW a \in Addrs, NEW v \in Values, AppStore(t, a, v)
      PROVE  Queue!Next
  <2>1. pc' = pc /\ op' = op /\ status' = status
    BY <1>1 DEF AppStore
  <2>2. Calls' = Calls
    BY <2>1 DEF Calls
  <2>3. Queue!Store(a, v)
    BY <1>1, <2>1, <2>2, SetsUnchanged DEF AppStore, Queue!Store
  <2> QED
    BY <2>3 DEF Queue!Next
<1>2. ASSUME NEW o, NEW p \in {"wait", "notify"}, Begin(t, p, o)
      PROVE  Queue!Invoke(t, [op |-> p, addr |-> o.addr, val |-> o.val])
  <2>1. \A u \in Threads : /\ pc'[u] = "blocked" <=> pc[u] = "blocked"
                           /\ pc[u] = "blocked" => /\ op'[u].addr = op[u].addr
                                                   /\ status'[u] = status[u]
    BY <1>2 DEF Begin
  <2>2. /\ Waiting' = Waiting
        /\ Notified' = Notified
    BY <2>1, SetsUnchanged
  <2>3. Calls[t] = None
    BY <1>2, CallOf DEF Begin
  <2>4. Calls' = [Calls EXCEPT ![t] = [op |-> p, addr |-> o.addr, val |-> o.val]]
    BY <1>2, CallsBegin DEF Begin
  <2> QED
    BY <1>2, <2>2, <2>3, <2>4 DEF Begin, Queue!Invoke
<1>3. ASSUME NEW a \in Addrs, NEW v \in Values, NEW n, AppWait(t, a, v, n)
      PROVE  Queue!Next
  <2> DEFINE o == [addr |-> a, val |-> v, left |-> n]
  <2>1. Begin(t, "wait", o)
    BY <1>3 DEF AppWait
  <2>2. [op |-> "wait", addr |-> o.addr, val |-> o.val] = Queue!WaitCall(a, v)
    BY DEF Queue!WaitCall
  <2> HIDE DEF o
  <2>3. Queue!Invoke(t, [op |-> "wait", addr |-> o.addr, val |-> o.val])
    BY <1>2, <2>1
  <2> QED
    BY <2>2, <2>3 DEF Queue!Next
<1>4. ASSUME NEW a \in Addrs, NEW n \in Counts, AppNotify(t, a, n)
      PROVE  Queue!Next
  <2> DEFINE o == [addr |-> a, val |-> n, left |-> 0]
  <2>1. Begin(t, "notify", o)
    BY <1>4 DEF AppNotify
  <2>2. [op |-> "notify", addr |-> o.addr, val |-> o.val] = Queue!NotifyCall(a, n)
    BY DEF Queue!NotifyCall
  <2> HIDE DEF o
  <2>3. Queue!Invoke(t, [op |-> "notify", addr |-> o.addr, val |-> o.val])
    BY <1>2, <2>1
  <2> QED
    BY <2>2, <2>3 DEF Queue!Next
<1> QED
  BY <1>1, <1>3, <1>4 DEF App

\* The first nodes of the list of a, as many as the notify takes.
LEMMA MarkedNodes ==
    ASSUME WaitInv, NEW a \in Addrs, NEW n \in Nat, n <= Len(Info(a)),
           NEW marked, marked = {Info(a)[i] : i \in 1 .. n}
    PROVE  /\ marked \subseteq BlockedAt(a)
           /\ IsFiniteSet(marked) /\ Cardinality(marked) = n
           /\ n <= Cardinality(BlockedAt(a))
           /\ n = Len(Info(a)) => marked = BlockedAt(a)
<1> USE DEF WaitInv
<1> DEFINE list == Info(a)
           f == [i \in 1 .. n |-> list[i]]
<1>1. list \in Seq(Threads) /\ DOMAIN list = 1 .. Len(list) /\ Len(list) \in Nat
  BY InfoType, LenProperties
<1>2. Distinct(list) /\ ToSet(list) = BlockedAt(a)
  BY DEF NodesListed, Distinct
<1>3. f \in Surjection(1 .. n, marked) /\ f \in Injection(1 .. n, marked)
  BY <1>1, <1>2 DEF Surjection, Injection, IsInjective, Distinct
<1>4. IsFiniteSet(1 .. n) /\ Cardinality(1 .. n) = n
  <2>1. /\ IsFiniteSet(1 .. n)
        /\ Cardinality(1 .. n) = IF 1 > n THEN 0 ELSE n - 1 + 1
    BY FS_Interval, 1 \in Int, n \in Int
  <2> QED
    BY <2>1
<1>5. IsFiniteSet(marked) /\ Cardinality(marked) = n
  BY <1>3, <1>4, FS_Surjection
<1>6. marked \subseteq BlockedAt(a) /\ (n = Len(list) => marked = BlockedAt(a))
  <2>1. BlockedAt(a) = {list[i] : i \in 1 .. Len(list)}
    BY <1>1, <1>2 DEF ToSet
  <2>2. 1 .. n \subseteq 1 .. Len(list)
    BY <1>1
  <2> QED
    BY <2>1, <2>2
<1>7. IsFiniteSet(BlockedAt(a))
  BY ThreadsAssumption, FS_Subset DEF BlockedAt
<1>8. Cardinality(marked) <= Cardinality(BlockedAt(a))
  BY <1>6, <1>7, FS_Subset
<1> QED
  BY <1>5, <1>6, <1>8

\* notify_wait_list wakes as many as the abstract notify may wake.
LEMMA QueueNotify ==
    ASSUME WaitInv, NEW t \in Threads, Notify(t)
    PROVE  Queue!Next
<1> USE DEF WaitInv, TypeOK
<1>1. PICK a \in Addrs, count \in Counts : a = op[t].addr /\ count = op[t].val
  BY DEF Notify
<1>2. PICK n : n = NotifyCount(count, Len(Info(a)))
  OBVIOUS
<1>3. Len(Info(a)) \in Nat /\ count \in Nat
  BY InfoType, LenProperties, CountsAssumption
<1>4. n \in Nat /\ n <= count /\ n <= Len(Info(a)) /\ n \in {count, Len(Info(a))}
  BY <1>2, <1>3, NotifyCountType
<1>5. PICK marked : marked = {Info(a)[i] : i \in 1 .. n}
  OBVIOUS
<1>6. /\ marked \subseteq BlockedAt(a) /\ IsFiniteSet(marked) /\ Cardinality(marked) = n
      /\ n <= Cardinality(BlockedAt(a))
      /\ n = Len(Info(a)) => marked = BlockedAt(a)
  BY <1>4, <1>5, MarkedNodes
<1>7. /\ pc[t] = "notify" /\ pc' = [pc EXCEPT ![t] = "app"]
      /\ op' = [op EXCEPT ![t] = NoOp] /\ ret' = [ret EXCEPT ![t] = n] /\ mem' = mem
      /\ status' = [u \in Threads |-> IF u \in marked THEN "S_NOTIFIED" ELSE status[u]]
  <2>1. /\ pc[t] = "notify" /\ Return(t, n) /\ mem' = mem
        /\ status' = [u \in Threads |->
              IF \E i \in 1 .. n : Info(a)[i] = u THEN "S_NOTIFIED" ELSE status[u]]
    BY <1>1, <1>2 DEF Notify
  <2>2. n # -1
    BY <1>4
  <2>3. \A u : u \in marked <=> \E i \in 1 .. n : Info(a)[i] = u
    BY <1>5
  <2> QED
    BY <2>1, <2>2, <2>3 DEF Return
<1>8. \A b \in Addrs : BlockedAt(b)' = BlockedAt(b)
  <2>1. \A u \in Threads : /\ pc'[u] = "blocked" <=> pc[u] = "blocked"
                           /\ pc[u] = "blocked" => op'[u] = op[u]
    BY <1>7
  <2> QED
    BY <2>1 DEF BlockedAt
<1> DEFINE woken == marked \intersect W(a)
<1>9. /\ Waiting' = [Waiting EXCEPT ![a] = @ \ woken]
      /\ Notified' = [Notified EXCEPT ![a] = @ \union woken]
  <2>1. \A b \in Addrs \ {a} : marked \intersect BlockedAt(b) = {}
    BY <1>6 DEF BlockedAt
  <2>2. \A b \in Addrs \ {a} :
          /\ {u \in BlockedAt(b) : status'[u] = "S_WAITING"}
               = {u \in BlockedAt(b) : status[u] = "S_WAITING"}
          /\ {u \in BlockedAt(b) : status'[u] = "S_NOTIFIED"}
               = {u \in BlockedAt(b) : status[u] = "S_NOTIFIED"}
    BY <1>7, <2>1 DEF BlockedAt
  <2>3. /\ {u \in BlockedAt(a) : status'[u] = "S_WAITING"}
             = {u \in BlockedAt(a) : status[u] = "S_WAITING"} \ woken
        /\ {u \in BlockedAt(a) : status'[u] = "S_NOTIFIED"}
             = {u \in BlockedAt(a) : status[u] = "S_NOTIFIED"} \union woken
    BY <1>6, <1>7, StatusSets DEF BlockedAt
  <2>4. /\ Waiting' =
              [b \in Addrs |-> {u \in BlockedAt(b) : status'[u] = "S_WAITING"}]
        /\ Notified' =
              [b \in Addrs |-> {u \in BlockedAt(b) : status'[u] = "S_NOTIFIED"}]
    BY <1>8 DEF Waiting, Notified
  <2>5. /\ Waiting =
              [b \in Addrs |-> {u \in BlockedAt(b) : status[u] = "S_WAITING"}]
        /\ Notified =
              [b \in Addrs |-> {u \in BlockedAt(b) : status[u] = "S_NOTIFIED"}]
    BY DEF Waiting, Notified
  <2> HIDE DEF woken
  <2> QED
    BY <2>2, <2>3, <2>4, <2>5
<1>10. Cardinality(woken) <= n
  BY <1>6, FS_Subset
<1>11. \/ woken = W(a)
       \/ count <= Cardinality(woken \union N(a))
  <2>1. CASE n = Len(Info(a))
    BY <1>6, <2>1, StatusSets
  <2>2. CASE n = count
    <3>1. marked \subseteq woken \union N(a)
      BY <1>6, StatusSets
    <3>2. IsFiniteSet(woken \union N(a))
      BY ThreadsAssumption, FS_Subset, StatusSets, <1>6 DEF BlockedAt
    <3> QED
      BY <1>6, <2>2, <3>1, <3>2, FS_Subset
  <2> QED
    BY <1>4, <2>1, <2>2
<1>12. n \in 0 .. count /\ n <= Cardinality(W(a) \union N(a)) /\ woken \subseteq W(a)
  <2>1. W(a) \union N(a) = BlockedAt(a)
    BY StatusSets
  <2>2. n \in 0 .. count
    BY <1>3, <1>4
  <2>3. n <= Cardinality(W(a) \union N(a))
    BY <1>6, <2>1
  <2> QED
    BY <2>2, <2>3
<1>13. Calls[t] = Queue!NotifyCall(a, count) /\ Calls' = [Calls EXCEPT ![t] = None]
  BY <1>1, <1>7, CallOf, CallsReturn
<1> HIDE DEF woken
<1>14. Queue!Notify(t, a, count)
  <2>1. woken \in SUBSET Waiting[a] /\ n \in 0 .. count
    BY <1>12 DEF W
  <2>2. \/ woken = Waiting[a]
        \/ count <= Cardinality(woken \union Notified[a])
    BY <1>11 DEF W, N
  <2>3. n <= Cardinality(Waiting[a] \union Notified[a])
    BY <1>12 DEF W, N
  <2>4. Queue!Returns(t, n)
    BY <1>7, <1>13 DEF Queue!Returns
  <2>5. \A S : Queue!Cardinality(S) = Cardinality(S)
    BY DEF Queue!Cardinality, Cardinality
  <2> QED
    BY <1>9, <1>10, <1>13, <2>1, <2>2, <2>3, <2>4, <2>5 DEF Queue!Notify
<1> QED
  BY <1>14 DEF Queue!Next

LEMMA QueueWait ==
    ASSUME WaitInv, NEW t \in Threads, WaitDiffers(t) \/ WaitRaises(t) \/ WaitBlocks(t)
    PROVE  Queue!Next
<1> USE DEF WaitInv, TypeOK
<1>1. PICK a \in Addrs, v \in Values : a = op[t].addr /\ v = op[t].val
  BY DEF WaitDiffers, WaitRaises, WaitBlocks
<1>2. t \notin Queue!Blocked
  BY NotBlocked DEF WaitDiffers, WaitRaises, WaitBlocks
<1>0. Calls[t] = Queue!WaitCall(a, v)
  BY <1>1, CallOf DEF WaitDiffers, WaitRaises, WaitBlocks
<1>3. CASE WaitDiffers(t) \/ WaitRaises(t)
  <2>1. \A u \in Threads : /\ pc'[u] = "blocked" <=> pc[u] = "blocked"
                           /\ pc[u] = "blocked" => /\ op'[u].addr = op[u].addr
                                                   /\ status'[u] = status[u]
    BY <1>3 DEF WaitDiffers, WaitRaises, Return
  <2>2. \E r \in {1, -1} : Queue!Refuse(t, a, v, r)
    <3>0. /\ Waiting' = Waiting
          /\ Notified' = Notified
      BY <2>1, SetsUnchanged
    <3>1. CASE WaitDiffers(t)
      <4>1. Return(t, 1) /\ mem' = mem /\ mem[a] # v
        BY <1>1, <3>1 DEF WaitDiffers
      <4>2. Calls' = [Calls EXCEPT ![t] = None]
        BY <4>1, CallsReturn DEF Return
      <4>3. Queue!Refuse(t, a, v, 1)
        BY <1>0, <1>2, <3>0, <4>1, <4>2 DEF Return, Queue!Returns, Queue!Refuse
      <4> QED
        BY <4>3
    <3>2. CASE WaitRaises(t)
      <4>1. Return(t, -1) /\ mem' = mem
        BY <3>2 DEF WaitRaises
      <4>2. Calls' = [Calls EXCEPT ![t] = None]
        BY <4>1, CallsReturn DEF Return
      <4>3. Queue!Refuse(t, a, v, -1)
        BY <1>0, <1>2, <3>0, <4>1, <4>2 DEF Return, Queue!Returns, Queue!Refuse
      <4> QED
        BY <4>3
    <3> QED
      BY <1>3, <3>1, <3>2
  <2> QED
    BY <2>2 DEF Queue!Next
<1>4. CASE WaitBlocks(t)
  <2>1. /\ pc[t] = "wait" /\ mem[a] = v /\ pc' = [pc EXCEPT ![t] = "blocked"] /\ op' = op
        /\ status' = [status EXCEPT ![t] = "S_WAITING"] /\ mem' = mem /\ ret' = ret
    BY <1>1, <1>4 DEF WaitBlocks, MayBlock
  <2>2. /\ BlockedAt(a)' = BlockedAt(a) \union {t} /\ t \notin BlockedAt(a)
        /\ \A b \in Addrs \ {a} : BlockedAt(b)' = BlockedAt(b) /\ t \notin BlockedAt(b)
    BY <1>1, <2>1 DEF BlockedAt
  <2>3. \A u \in Threads \ {t} : status'[u] = status[u]
    BY <2>1
  <2>4. status'[t] = "S_WAITING"
    BY <2>1
  <2>5. \A b \in Addrs : BlockedAt(b) \subseteq Threads \ {t}
    BY <2>2 DEF BlockedAt
  <2>6. /\ \A b \in Addrs \ {a}, s \in {"S_WAITING", "S_NOTIFIED"} :
             {u \in BlockedAt(b)' : status'[u] = s} = {u \in BlockedAt(b) : status[u] = s}
        /\ {u \in BlockedAt(a)' : status'[u] = "S_WAITING"}
             = {u \in BlockedAt(a) : status[u] = "S_WAITING"} \union {t}
        /\ {u \in BlockedAt(a)' : status'[u] = "S_NOTIFIED"}
             = {u \in BlockedAt(a) : status[u] = "S_NOTIFIED"}
    BY <2>2, <2>3, <2>4, <2>5
  <2>7. /\ Waiting =
              [b \in Addrs |-> {u \in BlockedAt(b) : status[u] = "S_WAITING"}]
        /\ Notified =
              [b \in Addrs |-> {u \in BlockedAt(b) : status[u] = "S_NOTIFIED"}]
        /\ Waiting' =
              [b \in Addrs |-> {u \in BlockedAt(b)' : status'[u] = "S_WAITING"}]
        /\ Notified' =
              [b \in Addrs |-> {u \in BlockedAt(b)' : status'[u] = "S_NOTIFIED"}]
    BY DEF Waiting, Notified
  <2>8. /\ Waiting' = [Waiting EXCEPT ![a] = @ \union {t}]
        /\ Notified' = Notified
    BY ZenonT(60), <2>6, <2>7
  <2>9. Calls' = Calls
    <3>1. \A u \in Threads \ {t} : pc'[u] = pc[u]
      BY <2>1
    <3> QED
      BY <2>1, <3>1, CallsUnchanged DEF InOp
  <2>10. Queue!Block(t, a, v)
    BY <1>0, <1>2, <2>1, <2>8, <2>9 DEF Queue!Block
  <2> QED
    BY <2>10 DEF Queue!Next
<1> QED
  BY <1>3, <1>4

LEMMA QueueReturn ==
    ASSUME WaitInv, NEW t \in Threads, WaitReturns(t)
    PROVE  Queue!Next
<1> USE DEF WaitInv, TypeOK
<1>1. PICK a \in Addrs : a = op[t].addr
  BY DEF WaitReturns
<1>2. /\ pc[t] = "blocked" /\ pc' = [pc EXCEPT ![t] = "app"] /\ op' = [op EXCEPT ![t] = NoOp]
      /\ ret' = [ret EXCEPT ![t] = IF status[t] = "S_WAITING" THEN 2 ELSE 0]
      /\ status' = status /\ mem' = mem
  BY DEF WaitReturns, Return
<1>3. /\ t \in BlockedAt(a) /\ BlockedAt(a)' = BlockedAt(a) \ {t}
      /\ \A b \in Addrs \ {a} : BlockedAt(b)' = BlockedAt(b)
  <2>1. \A u \in Threads \ {t} : pc'[u] = pc[u] /\ op'[u] = op[u]
    BY <1>2
  <2> QED
    BY <1>1, <1>2, <2>1 DEF BlockedAt
<1>4. /\ Waiting =
            [b \in Addrs |-> {u \in BlockedAt(b) : status[u] = "S_WAITING"}]
      /\ Notified =
            [b \in Addrs |-> {u \in BlockedAt(b) : status[u] = "S_NOTIFIED"}]
      /\ Waiting' =
            [b \in Addrs |-> {u \in BlockedAt(b)' : status[u] = "S_WAITING"}]
      /\ Notified' =
            [b \in Addrs |-> {u \in BlockedAt(b)' : status[u] = "S_NOTIFIED"}]
  BY <1>2 DEF Waiting, Notified
<1>5. /\ \A b \in Addrs \ {a}, s \in {"S_WAITING", "S_NOTIFIED"} :
           {u \in BlockedAt(b)' : status[u] = s} = {u \in BlockedAt(b) : status[u] = s}
      /\ \A s \in {"S_WAITING", "S_NOTIFIED"} :
           {u \in BlockedAt(a)' : status[u] = s} = {u \in BlockedAt(a) : status[u] = s} \ {t}
  BY <1>3
<1>0. Calls' = [Calls EXCEPT ![t] = None]
  BY <1>2, CallsReturn
<1>6. CASE status[t] = "S_WAITING"
  <2>1. /\ t \in Waiting[a]
        /\ Waiting' = [Waiting EXCEPT ![a] = @ \ {t}]
        /\ Notified' = Notified
    BY <1>3, <1>4, <1>5, <1>6
  <2>2. Queue!Expire(t, a)
    BY <1>0, <1>2, <1>6, <2>1 DEF Queue!Expire, Queue!Returns
  <2> QED
    BY <2>2 DEF Queue!Next
<1>7. CASE status[t] = "S_NOTIFIED"
  <2>1. /\ t \in Notified[a]
        /\ Notified' = [Notified EXCEPT ![a] = @ \ {t}]
        /\ Waiting' = Waiting
    BY <1>3, <1>4, <1>5, <1>7
  <2>2. Queue!Wake(t, a)
    BY <1>0, <1>2, <1>7, <2>1 DEF Queue!Wake, Queue!Returns
  <2> QED
    BY <2>2 DEF Queue!Next
<1> QED
  BY <1>6, <1>7

LEMMA QueueStep == WaitInv /\ [Next]_vars => [Queue!Next]_Queue!vars
<1>1. CASE UNCHANGED vars
  BY <1>1 DEF vars, Queue!vars, Waiting, Notified, BlockedAt, Calls
<1>2. ASSUME WaitInv, NEW t \in Threads, App(t) \/ Runtime(t) \/ Terminate(t)
      PROVE  [Queue!Next]_Queue!vars
  <2> USE DEF WaitInv, TypeOK
  <2>1. CASE LeaveWasm(t) \/ WaitSlice(t) \/ WaitFails(t) \/ Terminate(t)
    <3>1. \A u \in Threads : /\ pc'[u] = "blocked" <=> pc[u] = "blocked"
                             /\ pc[u] = "blocked" => /\ op'[u].addr = op[u].addr
                                                     /\ status'[u] = status[u]
      <4>1. CASE LeaveWasm(t) \/ WaitFails(t) \/ Terminate(t)
        BY <1>2, <4>1 DEF LeaveWasm, WaitFails, Terminate
      <4>2. CASE WaitSlice(t)
        <5>1. pc' = pc /\ status' = status /\ \A u \in Threads : op'[u].addr = op[u].addr
          BY <1>2, <4>2 DEF WaitSlice, Operands
        <5> QED
          BY <5>1
      <4> QED
        BY <2>1, <4>1, <4>2
    <3>2. mem' = mem /\ ret' = ret
      BY <2>1 DEF LeaveWasm, WaitSlice, WaitFails, Terminate
    <3>3. /\ Waiting' = Waiting
          /\ Notified' = Notified
      BY <3>1, SetsUnchanged
    <3>4. Calls' = Calls
      <4>1. CASE LeaveWasm(t) \/ WaitFails(t)
        BY <1>2, <4>1, CallsUnchanged DEF LeaveWasm, WaitFails, InOp
      <4>2. CASE WaitSlice(t)
        <5>1. pc' = pc /\ \A u \in Threads : /\ op'[u].addr = op[u].addr
                                           /\ op'[u].val = op[u].val
          BY <1>2, <4>2 DEF WaitSlice, Operands
        <5> QED
          BY <5>1 DEF Calls
      <4>3. CASE Terminate(t)
        BY <4>3 DEF Terminate, Calls
      <4> QED
        BY <2>1, <4>1, <4>2, <4>3
    <3> QED
      BY <3>2, <3>3, <3>4 DEF Queue!vars
  <2>2. CASE \/ App(t) \/ Notify(t) \/ WaitReturns(t)
             \/ WaitDiffers(t) \/ WaitRaises(t) \/ WaitBlocks(t)
    BY <1>2, <2>2, QueueApp, QueueNotify, QueueWait, QueueReturn
  <2> QED
    BY <1>2, <2>1, <2>2 DEF Runtime
<1> QED
  BY <1>1, <1>2 DEF Next

LEMMA QueueInit == Init => Queue!Init
BY DEF Init, Queue!Init, Waiting, Notified, BlockedAt, Calls

\* The wait map, its lists and the status of the nodes implement the abstract
\* wait queue: values are compared and threads block in one step, and a notify
\* wakes no more threads than it is asked to.
THEOREM QueueCorrect == Spec => QueueSpec
BY WaitInit, WaitStep, QueueInit, QueueStep, PTL DEF Spec, QueueSpec, Queue!Spec

-----------------------------------------------------------------------------
(* The mutex.                                                                *)
LockStates == {"none", "trying", "held", "unlocked"}

\* One thread holds the mutex exactly when its word is not 0.
MutexHeld ==
    /\ lock \in [Threads -> LockStates]
    /\ \A t \in Threads : lock[t] = "held" => mem[Mutex] # 0
    /\ \A t, u \in Threads : lock[t] = "held" /\ lock[u] = "held" => t = u
    /\ mem[Mutex] # 0 => mem[Mutex] = 1 /\ \E t \in Threads : lock[t] = "held"

\* The threads wait for the value 1 of the mutex while they try to lock it, and
\* notify one thread after they have unlocked it.
Disciplined ==
    \A t \in Threads :
        /\ pc[t] \in {"wait", "failing", "blocked"} =>
              lock[t] = "trying" /\ op[t].addr = Mutex /\ op[t].val = 1
        /\ pc[t] = "notify" => lock[t] = "none" /\ op[t].addr = Mutex /\ op[t].val = 1

\* A thread that will notify a sleeper or try the lock, now or when it has
\* unlocked the mutex.
Wakes(u) == \/ lock[u] \in {"held", "unlocked"}
            \/ pc[u] = "notify"
            \/ lock[u] = "trying" /\ ~ Asleep(u)

SleepersWoken ==
    terminated = {} =>
        /\ exception = FALSE
        /\ (\E t \in Threads : Asleep(t)) => \E u \in Threads : Wakes(u)

MutexInv == WaitInv /\ MutexHeld /\ Disciplined /\ SleepersWoken

-----------------------------------------------------------------------------
(* The mutex is a client of AtomicWait.                                      *)
LEMMA ClientStep == [MutexNext]_mutexVars => [Next]_vars
<1> SUFFICES ASSUME [MutexNext]_mutexVars PROVE [Next]_vars
  OBVIOUS
<1> USE MutexAssumption
<1>1. CASE UNCHANGED mutexVars
  BY <1>1 DEF mutexVars
<1>2. ASSUME NEW t \in Threads, Lock(t) PROVE [Next]_vars
  BY <1>2 DEF Lock
<1>3. ASSUME NEW t \in Threads, Acquire(t) \/ Unlock(t) PROVE [Next]_vars
  BY <1>3 DEF Acquire, Unlock, Next, App
<1>4. ASSUME NEW t \in Threads, WaitForUnlock(t) PROVE [Next]_vars
  BY <1>4 DEF WaitForUnlock, Next, App
<1>5. ASSUME NEW t \in Threads, NotifyOne(t) PROVE [Next]_vars
  BY <1>5 DEF NotifyOne, Next, App
<1>6. ASSUME NEW t \in Threads, Runtime(t) \/ Terminate(t) PROVE [Next]_vars
  BY <1>6 DEF Next
<1> QED
  BY <1>1, <1>2, <1>3, <1>4, <1>5, <1>6 DEF MutexNext, Running

LEMMA MutexInitInv == MutexInit => MutexInv
<1> SUFFICES ASSUME MutexInit PROVE MutexInv
  OBVIOUS
<1>1. WaitInv
  BY WaitInit DEF MutexInit
<1>2. MutexHeld /\ Disciplined /\ SleepersWoken
  BY DEF MutexInit, Init, MutexHeld, LockStates, Disciplined, SleepersWoken, Asleep
<1> QED
  BY <1>1, <1>2 DEF MutexInv

-----------------------------------------------------------------------------
(* Steps of the application.                                                 *)
LEMMA HeldStep == MutexInv /\ [MutexNext]_mutexVars => MutexHeld'
<1> SUFFICES ASSUME MutexInv, [MutexNext]_mutexVars PROVE MutexHeld'
  OBVIOUS
<1> USE MutexAssumption DEF MutexInv, MutexHeld, LockStates, WaitInv, TypeOK
<1>1. CASE UNCHANGED mutexVars
  BY <1>1 DEF mutexVars, vars
<1>2. ASSUME NEW t \in Threads, Lock(t) PROVE MutexHeld'
  BY <1>2 DEF Lock, Becomes, vars
<1>3. ASSUME NEW t \in Threads, Acquire(t) PROVE MutexHeld'
  BY <1>3 DEF Acquire, AppStore, Becomes
<1>4. ASSUME NEW t \in Threads, Unlock(t) PROVE MutexHeld'
  BY <1>4 DEF Unlock, AppStore, Becomes
<1>5. ASSUME NEW t \in Threads, WaitForUnlock(t) \/ NotifyOne(t) PROVE MutexHeld'
  BY <1>5 DEF WaitForUnlock, NotifyOne, AppWait, AppNotify, Begin, Becomes
<1>6. ASSUME NEW t \in Threads, Runtime(t) \/ Terminate(t), UNCHANGED lock PROVE MutexHeld'
  BY <1>6 DEF Runtime, LeaveWasm, WaitDiffers, WaitBlocks, WaitFails, WaitRaises, WaitSlice,
              WaitReturns, Notify, Terminate
<1> QED
  BY <1>1, <1>2, <1>3, <1>4, <1>5, <1>6 DEF MutexNext, Running

LEMMA DisciplinedStep == MutexInv /\ [MutexNext]_mutexVars => Disciplined'
<1> SUFFICES ASSUME MutexInv, [MutexNext]_mutexVars PROVE Disciplined'
  OBVIOUS
<1> USE MutexAssumption DEF MutexInv, MutexHeld, LockStates, Disciplined, WaitInv, TypeOK, Operands
<1>1. CASE UNCHANGED mutexVars
  BY <1>1 DEF mutexVars, vars
<1>2. ASSUME NEW t \in Threads, Lock(t) PROVE Disciplined'
  BY <1>2 DEF Lock, Becomes, vars
<1>3. ASSUME NEW t \in Threads, Acquire(t) \/ Unlock(t) PROVE Disciplined'
  BY <1>3 DEF Acquire, Unlock, AppStore, Becomes
<1>4. ASSUME NEW t \in Threads, WaitForUnlock(t) PROVE Disciplined'
  BY <1>4 DEF WaitForUnlock, AppWait, Begin, Becomes
<1>5. ASSUME NEW t \in Threads, NotifyOne(t) PROVE Disciplined'
  BY <1>5 DEF NotifyOne, AppNotify, Begin, Becomes
<1>6. ASSUME NEW t \in Threads, Runtime(t) \/ Terminate(t), UNCHANGED lock PROVE Disciplined'
  <2>1. CASE LeaveWasm(t)
    BY <1>6, <2>1 DEF LeaveWasm
  <2>2. CASE WaitDiffers(t) \/ WaitRaises(t)
    BY <1>6, <2>2 DEF WaitDiffers, WaitRaises, Return
  <2>3. CASE WaitBlocks(t)
    BY <1>6, <2>3 DEF WaitBlocks
  <2>4. CASE WaitSlice(t) \/ WaitFails(t)
    BY <1>6, <2>4 DEF WaitSlice, WaitFails
  <2>5. CASE WaitReturns(t)
    BY <1>6, <2>5 DEF WaitReturns, Return
  <2>6. CASE Notify(t)
    BY <1>6, <2>6 DEF Notify, Return
  <2>7. CASE Terminate(t)
    BY <1>6, <2>7 DEF Terminate
  <2> QED
    BY <1>6, <2>1, <2>2, <2>3, <2>4, <2>5, <2>6, <2>7 DEF Runtime
<1> QED
  BY <1>1, <1>2, <1>3, <1>4, <1>5, <1>6 DEF MutexNext, Running

-----------------------------------------------------------------------------
(* Sleepers.                                                                 *)

\* Who wakes the sleepers goes on doing so as long as nobody falls asleep.
LEMMA KeepsWaking ==
    ASSUME MutexInv, SleepersWoken,
           terminated' = {} => terminated = {} /\ exception' = exception,
           \A u \in Threads : Asleep(u)' => Asleep(u),
           \A u \in Threads : Wakes(u) => Wakes(u)'
    PROVE  SleepersWoken'
BY DEF SleepersWoken

LEMMA SleepersAppStep ==
    ASSUME MutexInv, NEW t \in Threads, Lock(t) \/ Running(t)
    PROVE  SleepersWoken'
<1> USE MutexAssumption DEF MutexInv, MutexHeld, LockStates, Disciplined, WaitInv, TypeOK, Asleep, Wakes
<1>1. CASE Lock(t)
  BY <1>1, KeepsWaking DEF Lock, Becomes, vars
<1>2. CASE Acquire(t) \/ Unlock(t)
  BY <1>2, KeepsWaking DEF Acquire, Unlock, AppStore, Becomes
<1>3. CASE WaitForUnlock(t)
  BY <1>3, KeepsWaking DEF WaitForUnlock, AppWait, Begin, Becomes
<1>4. CASE NotifyOne(t)
  BY <1>4, KeepsWaking DEF NotifyOne, AppNotify, Begin, Becomes
<1> QED
  BY <1>1, <1>2, <1>3, <1>4 DEF Running

\* The value was 1 when the thread blocked, so another one holds the mutex.
LEMMA SleepersBlock ==
    ASSUME MutexInv, NEW t \in Threads, WaitBlocks(t), UNCHANGED lock
    PROVE  SleepersWoken'
<1>1. mem[Mutex] # 0
  BY DEF MutexInv, Disciplined, WaitBlocks, MayBlock
<1>2. PICK u \in Threads : lock[u] = "held"
  BY <1>1 DEF MutexInv, MutexHeld
<1> QED
  BY <1>2 DEF WaitBlocks, SleepersWoken, Wakes, MutexInv

\* The notify reaches the head of the list, which then tries the lock.
LEMMA SleepersNotify ==
    ASSUME MutexInv, NEW t \in Threads, Notify(t), UNCHANGED lock
    PROVE  SleepersWoken'
<1> USE MutexAssumption DEF MutexInv, WaitInv, TypeOK
<1> DEFINE list == Info(Mutex)
           n == NotifyCount(1, Len(list))
<1>1. op[t].addr = Mutex /\ op[t].val = 1 /\ pc[t] = "notify"
  BY DEF Notify, Disciplined
<1>2. list \in Seq(Threads) /\ Len(list) \in Nat
  BY InfoType
<1>3. n \in Nat /\ (Len(list) > 0 => n = 1)
  BY <1>2 DEF NotifyCount
<1>4. \A u \in Threads : status'[u] = IF \E i \in 1 .. n : list[i] = u THEN "S_NOTIFIED"
                                                                        ELSE status[u]
  <2>1. status' = [u \in Threads |-> IF \E i \in 1 .. n : list[i] = u THEN "S_NOTIFIED"
                                                                       ELSE status[u]]
    BY <1>1 DEF Notify
  <2> QED
    BY <2>1
<1> HIDE DEF list, n
<1>5. CASE Len(list) = 0
  <2>1. BlockedAt(Mutex) = {}
    <3>1. DOMAIN list = {}
      BY <1>2, <1>5
    <3>2. ToSet(list) = {}
      BY <3>1 DEF ToSet
    <3> QED
      BY <3>2 DEF NodesListed, list
  <2>2. \A u \in Threads : pc[u] # "blocked"
    BY <2>1 DEF BlockedAt, Disciplined
  <2> QED
    <3>1. \A u \in Threads : ~ Asleep(u)'
      BY <2>2 DEF Notify, Return, Asleep
    <3> QED
      BY <3>1 DEF SleepersWoken, Notify
<1>6. CASE Len(list) > 0
  <2>1. 1 \in DOMAIN list /\ list[1] \in ToSet(list)
    BY <1>2, <1>6 DEF ToSet
  <2>2. PICK u \in BlockedAt(Mutex) : u = list[1]
    BY <2>1 DEF NodesListed, list
  <2>3. lock[u] = "trying" /\ u \in Threads
    BY DEF BlockedAt, Disciplined
  <2>4. status'[u] = "S_NOTIFIED"
    BY <1>3, <1>4, <1>6, <2>2, <2>3
  <2>5. lock'[u] = "trying" /\ ~ Asleep(u)'
    BY <2>3, <2>4 DEF Asleep
  <2> QED
    BY <2>3, <2>5 DEF SleepersWoken, Wakes, Notify
<1> QED
  BY <1>2, <1>5, <1>6

LEMMA SleepersRuntimeStep ==
    ASSUME MutexInv, NEW t \in Threads, Runtime(t) \/ Terminate(t), UNCHANGED lock
    PROVE  SleepersWoken'
<1> USE DEF MutexInv, WaitInv, TypeOK, Operands
<1>1. CASE WaitBlocks(t)
  BY <1>1, SleepersBlock
<1>2. CASE Notify(t)
  BY <1>2, SleepersNotify
<1>3. CASE WaitRaises(t) \/ Terminate(t)
  BY <1>3 DEF WaitRaises, Terminate, SleepersWoken
<1>4. CASE LeaveWasm(t)
  BY <1>4 DEF LeaveWasm, SleepersWoken
<1>5. CASE WaitDiffers(t)
  <2>1. \A u \in Threads : Asleep(u)' <=> Asleep(u)
    BY <1>5 DEF WaitDiffers, Return, Asleep
  <2>2. \A u \in Threads : Wakes(u) => Wakes(u)'
    BY <1>5, <2>1 DEF WaitDiffers, Return, Wakes
  <2> QED
    BY <1>5, <2>1, <2>2, KeepsWaking DEF WaitDiffers
<1>6. CASE WaitSlice(t) \/ WaitFails(t)
  BY <1>6, KeepsWaking DEF WaitSlice, WaitFails, Wakes, Asleep
<1>7. CASE WaitReturns(t)
  <2>1. \A u \in Threads : Asleep(u)' => Asleep(u)
    BY <1>7 DEF WaitReturns, Return, Asleep
  <2>2. \A u \in Threads : Wakes(u) => Wakes(u)'
    BY <1>7, <2>1 DEF WaitReturns, Return, Wakes
  <2> QED
    BY <1>7, <2>1, <2>2, KeepsWaking DEF WaitReturns
<1> QED
  BY <1>1, <1>2, <1>3, <1>4, <1>5, <1>6, <1>7 DEF Runtime

LEMMA SleepersStep == MutexInv /\ [MutexNext]_mutexVars => SleepersWoken'
<1>1. ASSUME MutexInv, UNCHANGED mutexVars PROVE SleepersWoken'
  BY <1>1 DEF MutexInv, mutexVars, vars, SleepersWoken, Asleep, Wakes
<1> QED
  BY <1>1, SleepersAppStep, SleepersRuntimeStep DEF MutexNext

LEMMA MutexStep == MutexInv /\ [MutexNext]_mutexVars => MutexInv'
BY WaitStep, ClientStep, HeldStep, DisciplinedStep, SleepersStep DEF MutexInv

LEMMA MutexInvariant == MutexSpec => []MutexInv
BY MutexInitInv, MutexStep, PTL DEF MutexSpec

-----------------------------------------------------------------------------

\* However many threads use the mutex, while it is free and one of them sleeps
\* on it another is about to wake it or to try the lock.
THEOREM NoLostWakeupCorrect == MutexSpec => []NoLostWakeup
<1>1. MutexInv => NoLostWakeup
  BY DEF MutexInv, MutexHeld, SleepersWoken, NoLostWakeup, Wakes
<1> QED
  BY <1>1, MutexInvariant, PTL

\* Two threads never hold the mutex of sync_primitives.h at the same time.
THEOREM MutualExclusion ==
    MutexSpec => [](\A t, u \in Threads : lock[t] = "held" /\ lock[u] = "held" => t = u)
<1>1. MutexInv => \A t, u \in Threads : lock[t] = "held" /\ lock[u] = "held" => t = u
  BY DEF MutexInv, MutexHeld
<1> QED
  BY <1>1, MutexInvariant, PTL

\* The mutex uses the shared memory as any wasm code may, so what is proved of
\* AtomicWait, its refinement of WaitQueue included, holds of its runs.
THEOREM MutexIsClient == MutexSpec => Spec
<1>1. MutexInit => Init
  BY DEF MutexInit
<1> QED
  BY <1>1, ClientStep, PTL DEF MutexSpec, Spec
=============================================================================
