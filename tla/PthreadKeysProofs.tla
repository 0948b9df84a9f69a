------------------------- MODULE PthreadKeysProofs ---------------------------
(* What is proved of PthreadKeys for any number of threads, keys and values,  *)
(* however their steps interleave: no value is given to a destructor twice.   *)
EXTENDS PthreadKeys, TLAPS

Values == 0 .. MaxSets
Inserting == {"insert", "insertLen"}
PCs == Inserting \union {"none", "app", "destructors", "unlink", "removeLen", "destroy", "done"}

OpTyped(o) == DOMAIN o = DOMAIN NoOp /\ o.key \in Keys /\ o.val \in Values

PlaceTyped ==
    /\ pc \in [Threads -> PCs]
    /\ at \in [Threads -> -1 .. KeysMax]

ValuesTyped ==
    /\ thread_key_values \in [Threads -> [Keys -> Values]]
    /\ fresh \in [Threads -> Values]
    /\ given \in [Threads -> [1 .. MaxSets -> Nat]]

OpsTyped ==
    /\ op = [t \in Threads |-> op[t]]
    /\ \A t \in Threads : OpTyped(op[t])

Typed == PlaceTyped /\ ValuesTyped /\ OpsTyped

\* Where the loop over the keys of a thread can be.
LoopAt ==
    \A t \in Threads :
        /\ pc[t] = "destructors" => at[t] >= 0
        /\ pc[t] \in {"none", "app"} \union Inserting => at[t] < KeysMax

\* A value that its thread has not set yet, or keeps, was not given to a
\* destructor, and it is kept in one place.
Kept(t, v) == v \in 1 .. fresh[t] /\ given[t][v] = 0

KeptOnce ==
    \A t \in Threads :
        /\ \A v \in 1 .. MaxSets : given[t][v] \in {0, 1} /\ (v > fresh[t] => given[t][v] = 0)
        /\ \A k \in Keys : thread_key_values[t][k] # 0 => Kept(t, thread_key_values[t][k])
        /\ \A j, k \in Keys : thread_key_values[t][j] = thread_key_values[t][k]
                                 => j = k \/ thread_key_values[t][j] = 0
        /\ pc[t] \in Inserting /\ op[t].val # 0 =>
              /\ Kept(t, op[t].val)
              /\ \A k \in Keys : thread_key_values[t][k] # op[t].val

KeysInv == Typed /\ LoopAt /\ KeptOnce

-----------------------------------------------------------------------------
LEMMA NoOpTyped == OpTyped(NoOp)
BY KeysAssumption DEF OpTyped, NoOp, Keys, Values

LEMMA InsertOpTyped ==
    ASSUME NEW k \in Keys, NEW v \in Values
    PROVE  /\ OpTyped([NoOp EXCEPT !.key = k, !.val = v])
           /\ [NoOp EXCEPT !.key = k, !.val = v].val = v
BY DEF OpTyped, NoOp

LEMMA KeysInit == Init => KeysInv
<1> SUFFICES ASSUME Init PROVE KeysInv
  OBVIOUS
<1> USE KeysAssumption DEF Init
<1>1. Typed
  <2>1. PlaceTyped
    BY DEF PlaceTyped, PCs, Inserting
  <2>2. ValuesTyped
    BY DEF ValuesTyped, NoValues, Values
  <2>3. OpsTyped
    BY NoOpTyped DEF OpsTyped
  <2> QED
    BY <2>1, <2>2, <2>3 DEF Typed
<1>2. LoopAt
  BY DEF LoopAt, Inserting
<1>3. KeptOnce
  BY DEF KeptOnce, Kept, Inserting, NoOp, NoValues, Keys
<1> QED
  BY <1>1, <1>2, <1>3 DEF KeysInv

\* The thread goes on at p, at the key i and with the operands o; the values
\* are left alone.
Moves(t, p, i, o) ==
    /\ UNCHANGED <<thread_key_values, fresh, given>>
    /\ pc' = [pc EXCEPT ![t] = p]
    /\ p \in PCs \ {"insert"} /\ (p = "insertLen" => pc[t] = "insert" /\ o.val = op[t].val)
    /\ at' = [at EXCEPT ![t] = i]
    /\ i \in -1 .. KeysMax
    /\ p = "destructors" => i >= 0
    /\ p \in {"none", "app", "insertLen"} => i < KeysMax
    /\ op' = [op EXCEPT ![t] = o]
    /\ OpTyped(o)

LEMMA KeysQuiet ==
    ASSUME KeysInv, NEW t \in Threads, NEW p, NEW i, NEW o, Moves(t, p, i, o)
    PROVE  KeysInv'
<1> USE DEF KeysInv, Moves
<1>1. Typed'
  BY DEF Typed, PlaceTyped, ValuesTyped, OpsTyped
<1>2. LoopAt'
  BY DEF LoopAt, Typed, PlaceTyped, ValuesTyped, OpsTyped, Inserting
<1>3. KeptOnce'
  BY DEF KeptOnce, Kept, Typed, PlaceTyped, ValuesTyped, OpsTyped, Inserting
<1> QED
  BY <1>1, <1>2, <1>3

LEMMA KeysSpecific ==
    ASSUME KeysInv, NEW t \in Threads, NEW k \in Keys,
           NEW v \in {0, fresh[t] + 1}, v \in Values, Specific(t, k, v)
    PROVE  KeysInv'
<1> USE KeysAssumption DEF KeysInv
<1> pc[t] = "app" /\ at' = at /\ given' = given
  BY DEF Specific, Calls
<1>0. fresh' = [fresh EXCEPT ![t] = IF v = 0 THEN @ ELSE v]
  BY DEF Specific
<1>1. CASE t \in Listed
  <2> /\ thread_key_values' = [thread_key_values EXCEPT ![t][k] = v]
      /\ UNCHANGED <<pc, op>>
    BY <1>1 DEF Specific
  <2>1. Typed' /\ LoopAt'
    BY <1>0 DEF Typed, PlaceTyped, ValuesTyped, OpsTyped, LoopAt
  <2>2. KeptOnce'
    BY <1>0 DEF KeptOnce, Kept, Typed, PlaceTyped, ValuesTyped, OpsTyped, Inserting, Values
  <2> QED
    BY <2>1, <2>2
<1>2. CASE t \notin Listed
  <2> /\ thread_key_values' = [thread_key_values EXCEPT ![t] = NoValues]
      /\ op' = [op EXCEPT ![t] = [NoOp EXCEPT !.key = k, !.val = v]]
      /\ pc' = [pc EXCEPT ![t] = "insert"]
    BY <1>2 DEF Specific, Goto
  <2>1. Typed'
    <3>1. PlaceTyped'
      BY DEF Typed, PlaceTyped, PCs, Inserting
    <3>2. ValuesTyped'
      BY <1>0 DEF Typed, ValuesTyped, NoValues, Values
    <3>3. OpsTyped'
      BY InsertOpTyped DEF Typed, OpsTyped
    <3> QED
      BY <3>1, <3>2, <3>3 DEF Typed
  <2>2. LoopAt'
    BY DEF LoopAt, Typed, PlaceTyped, ValuesTyped, OpsTyped, Inserting
  <2>3. KeptOnce'
    <3>1. op'[t].val = v /\ \A k1 \in Keys : thread_key_values'[t][k1] = 0
      BY InsertOpTyped DEF Typed, OpsTyped, ValuesTyped, NoValues
    <3>2. v # 0 => v = fresh'[t] /\ given[t][v] = 0 /\ v \in 1 .. MaxSets
      BY <1>0 DEF KeptOnce, Typed, ValuesTyped, Values
    <3>3. fresh[t] <= fresh'[t] /\ fresh[t] \in Nat /\ fresh'[t] \in Nat
      BY <1>0 DEF Typed, ValuesTyped, Values
    <3>4. \A u \in Threads \ {t} : /\ op'[u] = op[u] /\ pc'[u] = pc[u] /\ fresh'[u] = fresh[u]
                                   /\ thread_key_values'[u] = thread_key_values[u]
      BY <1>0 DEF Typed, PlaceTyped, OpsTyped, ValuesTyped
    <3> QED
      BY <3>1, <3>2, <3>3, <3>4 DEF KeptOnce, Kept, Inserting
  <2> QED
    BY <2>1, <2>2, <2>3
<1> QED
  BY <1>1, <1>2

LEMMA KeysInsert == ASSUME KeysInv, NEW t \in Threads, InsertLen(t) PROVE KeysInv'
<1> USE KeysAssumption DEF KeysInv
<1> /\ pc[t] = "insertLen" /\ pc' = [pc EXCEPT ![t] = "app"]
    /\ thread_key_values' = [thread_key_values EXCEPT ![t][op[t].key] = op[t].val]
    /\ op' = [op EXCEPT ![t] = NoOp]
    /\ UNCHANGED <<at, fresh, given>>
  BY DEF InsertLen, Goto, useVars
<1>1. Typed'
  <2>1. PlaceTyped'
    BY DEF Typed, PlaceTyped, PCs, Inserting
  <2>2. ValuesTyped'
    BY DEF Typed, ValuesTyped, OpsTyped, OpTyped
  <2>3. OpsTyped'
    BY NoOpTyped DEF Typed, OpsTyped
  <2> QED
    BY <2>1, <2>2, <2>3 DEF Typed
<1>2. LoopAt'
  BY DEF LoopAt, Typed, PlaceTyped, ValuesTyped, OpsTyped, Inserting
<1>3. KeptOnce'
  BY DEF KeptOnce, Kept, Typed, PlaceTyped, ValuesTyped, OpsTyped, OpTyped, Inserting
<1> QED
  BY <1>1, <1>2, <1>3

\* The value leaves its place as it is given to the destructor.
LEMMA KeysDestroy == ASSUME KeysInv, NEW t \in Threads, Destroy(t) PROVE KeysInv'
<1> USE KeysAssumption DEF KeysInv
<1> DEFINE k == at[t]
           v == thread_key_values[t][k]
<1> /\ pc[t] = "destructors" /\ k \in Keys /\ v # 0
    /\ thread_key_values' = [thread_key_values EXCEPT ![t][k] = 0]
    /\ UNCHANGED <<op, fresh>>
  BY DEF Destroy, ResetValue, LoopAt, Typed, PlaceTyped, ValuesTyped, OpsTyped, Keys
<1>1. CASE key_data_list[k] = "destructor"
  <2> /\ pc' = [pc EXCEPT ![t] = "app"] /\ at' = at
      /\ given' = [given EXCEPT ![t][v] = @ + 1]
    BY <1>1 DEF Destroy, Goto
  <2>1. v \in 1 .. MaxSets /\ given[t][v] = 0
    BY DEF KeptOnce, Kept, Typed, PlaceTyped, ValuesTyped, OpsTyped, Values
  <2>2. Typed'
    <3>1. PlaceTyped' /\ OpsTyped'
      BY DEF Typed, PlaceTyped, OpsTyped, PCs, Inserting
    <3>2. given' \in [Threads -> [1 .. MaxSets -> Nat]]
      BY <2>1 DEF Typed, ValuesTyped
    <3>3. ValuesTyped'
      BY <3>2 DEF Typed, ValuesTyped, Values
    <3> QED
      BY <3>1, <3>3 DEF Typed
  <2>3. LoopAt'
    BY DEF LoopAt, Typed, PlaceTyped, ValuesTyped, OpsTyped, Inserting, Keys
  <2>4. KeptOnce'
    BY <2>1 DEF KeptOnce, Kept, Typed, PlaceTyped, ValuesTyped, OpsTyped, Inserting, Values
  <2> QED
    BY <2>2, <2>3, <2>4
<1>2. CASE key_data_list[k] # "destructor"
  <2> at' = [at EXCEPT ![t] = k + 1] /\ UNCHANGED <<pc, given>>
    BY <1>2 DEF Destroy
  <2>1. Typed' /\ LoopAt'
    BY DEF Typed, PlaceTyped, ValuesTyped, OpsTyped, PCs, LoopAt, Inserting, Keys, Values
  <2>2. KeptOnce'
    BY SMTT(60) DEF KeptOnce, Kept, Typed, PlaceTyped, ValuesTyped, OpsTyped, Inserting, Values
  <2> QED
    BY <2>1, <2>2
<1> QED
  BY <1>1, <1>2

\* The other steps.
LEMMA KeysApp ==
    ASSUME KeysInv, NEW t \in Threads,
           \/ \E with \in {"destructor", "plain"} : KeyCreate(t, with)
           \/ \E k \in Keys : KeyDelete(t, k)
           \/ Ends(t) \/ DestructorReturns(t)
           \/ t \in Workers /\ Start(t)
           \/ t = Main /\ (MainEnds \/ DestroyList)
    PROVE  KeysInv'
<1> USE KeysAssumption DEF KeysInv
<1> /\ at[t] \in -1 .. KeysMax /\ OpTyped(op[t]) /\ pc[t] \in PCs
    /\ pc = [pc EXCEPT ![t] = pc[t]] /\ at = [at EXCEPT ![t] = at[t]]
    /\ op = [op EXCEPT ![t] = op[t]]
    /\ pc[t] \in {"none", "app"} => at[t] < KeysMax
  BY DEF Typed, PlaceTyped, OpsTyped, LoopAt
<1>1. ASSUME \/ \E with \in {"destructor", "plain"} : KeyCreate(t, with)
             \/ \E k \in Keys : KeyDelete(t, k)
      PROVE  KeysInv'
  <2> /\ pc[t] = "app"
      /\ UNCHANGED <<pc, at, op, thread_key_values, fresh, given>>
    BY <1>1 DEF KeyCreate, KeyDelete, Calls, useVars
  <2>1. Moves(t, "app", at[t], op[t])
    BY DEF Moves, PCs
  <2> QED
    BY <2>1, KeysQuiet
<1>2. CASE Ends(t)
  <2>1. CASE t \in Listed
    <3>1. Moves(t, "destructors", 0, op[t])
      BY <1>2, <2>1 DEF Ends, Goto, useVars, PCs, Moves
    <3> QED
      BY <3>1, KeysQuiet
  <2>2. CASE t \notin Listed
    <3>1. Moves(t, "done", -1, op[t])
      BY <1>2, <2>2 DEF Ends, Goto, useVars, PCs, Moves
    <3> QED
      BY <3>1, KeysQuiet
  <2> QED
    BY <2>1, <2>2
<1>3. CASE DestructorReturns(t)
  <2>1. Moves(t, "destructors", at[t] + 1, op[t])
    BY <1>3 DEF DestructorReturns, Goto, useVars, PCs, Moves
  <2> QED
    BY <2>1, KeysQuiet
<1>4. CASE t \in Workers /\ Start(t)
  <2>1. Moves(t, "app", at[t], op[t])
    BY <1>4 DEF Start, Goto, useVars, PCs, Moves
  <2> QED
    BY <2>1, KeysQuiet
<1>5. CASE t = Main /\ MainEnds
  <2>1. Moves(t, "destroy", at[t], op[t])
    BY <1>5 DEF MainEnds, Goto, useVars, PCs, Moves
  <2> QED
    BY <2>1, KeysQuiet
<1>6. CASE t = Main /\ DestroyList
  <2>1. Moves(t, "destructors", 0, op[t]) \/ Moves(t, "done", at[t], op[t])
    BY <1>6 DEF DestroyList, Goto, useVars, PCs, Moves
  <2> QED
    BY <2>1, KeysQuiet
<1> QED
  BY <1>1, <1>2, <1>3, <1>4, <1>5, <1>6

LEMMA KeysRuntime ==
    ASSUME KeysInv, NEW t \in Threads,
           InsertHead(t) \/ NextKey(t) \/ Remove(t) \/ Unlink(t) \/ RemoveLen(t)
    PROVE  KeysInv'
<1> USE KeysAssumption DEF KeysInv
<1> /\ at[t] \in -1 .. KeysMax /\ OpTyped(op[t]) /\ pc[t] \in PCs
    /\ pc = [pc EXCEPT ![t] = pc[t]] /\ at = [at EXCEPT ![t] = at[t]]
    /\ op = [op EXCEPT ![t] = op[t]]
    /\ pc[t] = "destructors" => at[t] >= 0
    /\ pc[t] = "insert" => at[t] < KeysMax
  BY DEF Typed, PlaceTyped, OpsTyped, LoopAt, Inserting
<1>0. /\ \A n : OpTyped([op[t] EXCEPT !.len = n]) /\ [op[t] EXCEPT !.len = n].val = op[t].val
      /\ \A p : OpTyped([op[t] EXCEPT !.prev = p])
  BY DEF OpTyped, NoOp
<1>1. CASE InsertHead(t)
  <2>1. Moves(t, "insertLen", at[t], [op[t] EXCEPT !.len = len])
    BY <1>0, <1>1 DEF InsertHead, Goto, useVars, PCs, Inserting, Moves
  <2> QED
    BY <2>1, KeysQuiet
<1>2. CASE NextKey(t)
  <2>1. Moves(t, "destructors", at[t] + 1, op[t])
    BY <1>2 DEF NextKey, useVars, PCs, Moves
  <2> QED
    BY <2>1, KeysQuiet
<1>3. CASE Remove(t)
  <2>1. CASE t \in Listed
    <3>1. PICK p : op' = [op EXCEPT ![t] = [op[t] EXCEPT !.prev = p]]
      BY <1>3, <2>1 DEF Remove
    <3>2. Moves(t, "unlink", at[t], [op[t] EXCEPT !.prev = p])
      BY <1>0, <1>3, <2>1, <3>1 DEF Remove, Goto, useVars, PCs, Moves
    <3> QED
      BY <3>2, KeysQuiet
  <2>2. CASE t \notin Listed
    <3>1. Moves(t, "done", at[t], op[t])
      BY <1>3, <2>2 DEF Remove, Goto, useVars, PCs, Moves
    <3> QED
      BY <3>1, KeysQuiet
  <2> QED
    BY <2>1, <2>2
<1>4. CASE Unlink(t)
  <2>1. Moves(t, "removeLen", at[t], [op[t] EXCEPT !.len = len])
    BY <1>0, <1>4 DEF Unlink, Goto, useVars, PCs, Moves
  <2> QED
    BY <2>1, KeysQuiet
<1>5. CASE RemoveLen(t)
  <2>1. /\ pc' = [pc EXCEPT ![t] = "done"] /\ at' = [at EXCEPT ![t] = -1]
        /\ op' = [op EXCEPT ![t] = NoOp]
        /\ UNCHANGED <<thread_key_values, fresh, given>>
    BY <1>5 DEF RemoveLen, Goto, useVars
  <2>2. Moves(t, "done", -1, NoOp)
    BY <2>1, NoOpTyped DEF PCs, Moves
  <2> QED
    BY <2>2, KeysQuiet
<1> QED
  BY <1>1, <1>2, <1>3, <1>4, <1>5

LEMMA KeysStep == KeysInv /\ [Next]_vars => KeysInv'
<1> SUFFICES ASSUME KeysInv, [Next]_vars PROVE KeysInv'
  OBVIOUS
<1>1. CASE UNCHANGED vars
  BY <1>1 DEF vars, useVars, KeysInv, Typed, PlaceTyped, ValuesTyped, OpsTyped, LoopAt, KeptOnce, Kept
<1>2. ASSUME NEW w \in Workers, Start(w) PROVE KeysInv'
  BY <1>2, KeysApp DEF Threads
<1>3. ASSUME NEW t \in Threads, App(t) PROVE KeysInv'
  <2>1. ASSUME NEW k \in Keys, \/ Specific(t, k, 0)
                               \/ fresh[t] < MaxSets /\ Specific(t, k, fresh[t] + 1)
        PROVE  KeysInv'
    <3>1. 0 \in Values /\ (fresh[t] < MaxSets => fresh[t] + 1 \in Values)
      BY KeysAssumption DEF KeysInv, Typed, ValuesTyped, Values
    <3> QED
      BY <2>1, <3>1, KeysSpecific
  <2> QED
    BY <1>3, <2>1, KeysApp DEF App
<1>4. ASSUME NEW t \in Threads, Runtime(t) PROVE KeysInv'
  BY <1>4, KeysInsert, KeysDestroy, KeysRuntime DEF Runtime
<1>5. ASSUME MainEnds \/ DestroyList PROVE KeysInv'
  BY <1>5, KeysApp DEF Threads
<1> QED
  BY <1>1, <1>2, <1>3, <1>4, <1>5 DEF Next

\* However many threads, keys and values there are, and whatever destructors do,
\* no value is given to a destructor twice.
THEOREM DestroyedOnceCorrect == Spec => []DestroyedOnce
<1>1. KeysInv => DestroyedOnce
  BY DEF KeysInv, KeptOnce, DestroyedOnce
<1> QED
  BY <1>1, KeysInit, KeysStep, PTL DEF Spec

=============================================================================
