----------------------------- MODULE PthreadKeys -----------------------------
(* Thread-specific values of lib_pthread_wrapper.c.  Each thread that uses a  *)
(* key has a node in a list of the cluster, with its value of every key; a    *)
(* thread that ends calls the destructors of its values, which are wasm       *)
(* functions and may use keys or end the thread themselves, and frees it.     *)
(* key_data_list_lock is held while a node is inserted, and not while one is  *)
(* removed: what bh_list_insert and bh_list_remove read and write is a step   *)
(* each.                                                                      *)
EXTENDS Integers, FiniteSets

CONSTANTS
    Main, Workers,  \* threads
    KeysMax,        \* WAMR_PTHREAD_KEYS_MAX
    MaxSets,        \* values a thread sets
    Alone,          \* the application's threads take turns: one enters the runtime,
                    \* or ends, when no other is in it
    None

ASSUME ThreadsAssumption == Main \notin Workers /\ None \notin Workers \union {Main}
ASSUME WorkersAssumption == IsFiniteSet(Workers)
ASSUME KeysAssumption == KeysMax \in Nat \ {0} /\ MaxSets \in Nat /\ Alone \in BOOLEAN

VARIABLES
    pc,
    key_data_list,      \* "free", or what the key was created with
    key_data_list_lock, \* holder, None if free
    nodes,              \* threads whose node is allocated
    thread_key_values,  \* of the node of each thread; 0 is NULL
    head, next, len,    \* the bh_list
    op,                 \* what a thread keeps while it inserts or removes its node
    at,                 \* the key call_key_destructor is at, 0 outside
    fresh,              \* values the thread has set
    given               \* given[t][v]: calls of a destructor with the value v of t

keyVars  == <<key_data_list, key_data_list_lock>>
listVars == <<nodes, head, next, len>>
useVars  == <<fresh, given>>
vars     == <<pc, keyVars, listVars, thread_key_values, op, at, useVars>>

Threads == Workers \union {Main}
Keys    == 0 .. KeysMax - 1
NoValues == [k \in Keys |-> 0]
NoOp == [key |-> 0, val |-> 0, prev |-> None, len |-> 0]

Init ==
    /\ pc = [t \in Threads |-> IF t = Main THEN "app" ELSE "none"]
    /\ key_data_list = [k \in Keys |-> "free"]
    /\ key_data_list_lock = None
    /\ nodes = {} /\ head = None /\ next = [t \in Threads |-> None] /\ len = 0
    /\ thread_key_values = [t \in Threads |-> NoValues]
    /\ op = [t \in Threads |-> NoOp]
    /\ at = [t \in Threads |-> -1]
    /\ fresh = [t \in Threads |-> 0]
    /\ given = [t \in Threads |-> [v \in 1 .. MaxSets |-> 0]]

Goto(t, p) == pc' = [pc EXCEPT ![t] = p]

\* The nodes from the head on.
Listed ==
    LET walk[i \in 0 .. Cardinality(Threads)] ==
            IF i = 0 THEN head
            ELSE IF walk[i - 1] = None THEN None ELSE next[walk[i - 1]]
    IN  {walk[i] : i \in DOMAIN walk} \ {None}

-----------------------------------------------------------------------------
(* The wasm code, that of destructors included.                             *)
Running == {w \in Workers : pc[w] \notin {"none", "done"}}
InApp(t) == pc[t] \in {"none", "done"} \/ (pc[t] = "app" /\ at[t] = -1)
Calls(t) == pc[t] = "app" /\ (Alone => \A o \in Threads \ {t} : InApp(o))

Start(w) ==
    /\ Calls(Main) /\ at[Main] = -1
    /\ pc[w] = "none" /\ Goto(w, "app")
    /\ UNCHANGED <<keyVars, listVars, thread_key_values, op, at, useVars>>

KeyCreate(t, with) ==
    LET free == {k \in Keys : key_data_list[k] = "free"} IN
    /\ Calls(t) /\ key_data_list_lock = None
    /\ \E k \in free : /\ \A j \in free : k <= j
                       /\ key_data_list' = [key_data_list EXCEPT ![k] = with]
    /\ UNCHANGED <<pc, key_data_list_lock, listVars, thread_key_values, op, at, useVars>>

\* The values that threads have of the key stay.
KeyDelete(t, k) ==
    /\ Calls(t) /\ key_data_list_lock = None
    /\ key_data_list[k] # "free"
    /\ key_data_list' = [key_data_list EXCEPT ![k] = "free"]
    /\ UNCHANGED <<pc, key_data_list_lock, listVars, thread_key_values, op, at, useVars>>

\* pthread_setspecific, and pthread_getspecific, which makes a node as well.
Specific(t, k, v) ==
    /\ Calls(t) /\ key_data_list_lock = None
    /\ key_data_list[k] # "free"
    /\ fresh' = [fresh EXCEPT ![t] = IF v = 0 THEN @ ELSE v]
    /\ IF t \in Listed
       THEN /\ thread_key_values' = [thread_key_values EXCEPT ![t][k] = v]
            /\ UNCHANGED <<pc, key_data_list_lock, listVars, op>>
       ELSE /\ key_data_list_lock' = t
            /\ nodes' = nodes \union {t}
            /\ thread_key_values' = [thread_key_values EXCEPT ![t] = NoValues]
            /\ next' = [next EXCEPT ![t] = head]
            /\ op' = [op EXCEPT ![t] = [NoOp EXCEPT !.key = k, !.val = v]]
            /\ Goto(t, "insert")
            /\ UNCHANGED <<head, len>>
    /\ UNCHANGED <<key_data_list, at, given>>

\* bh_list_insert, key_value_list_lookup_or_create
InsertHead(t) ==
    /\ pc[t] = "insert"
    /\ head' = t
    /\ op' = [op EXCEPT ![t].len = len]
    /\ Goto(t, "insertLen")
    /\ UNCHANGED <<keyVars, nodes, next, len, thread_key_values, at, useVars>>

InsertLen(t) ==
    /\ pc[t] = "insertLen"
    /\ len' = op[t].len + 1
    /\ thread_key_values' = [thread_key_values EXCEPT ![t][op[t].key] = op[t].val]
    /\ op' = [op EXCEPT ![t] = NoOp]
    /\ key_data_list_lock' = None
    /\ Goto(t, "app")
    /\ UNCHANGED <<key_data_list, nodes, head, next, at, useVars>>

-----------------------------------------------------------------------------
(* call_key_destructor                                                      *)

\* The wasm function of a thread returns, or calls pthread_exit, which a
\* destructor may do too; the main thread may not, and ends when the cluster is
\* destroyed.
Ends(t) ==
    /\ Calls(t) /\ t # Main
    /\ IF t \in Listed THEN Goto(t, "destructors") /\ at' = [at EXCEPT ![t] = 0]
                       ELSE Goto(t, "done") /\ at' = [at EXCEPT ![t] = -1]
    /\ UNCHANGED <<keyVars, listVars, thread_key_values, op, useVars>>

\* lib_pthread_destroy_callback, when the threads have ended; then
\* destroy_thread_key_value_list.
MainEnds ==
    /\ pc[Main] = "app" /\ at[Main] = -1 /\ Running = {}
    /\ Goto(Main, "destroy")
    /\ UNCHANGED <<keyVars, listVars, thread_key_values, op, at, useVars>>

DestroyList ==
    /\ pc[Main] = "destroy"
    /\ IF len # 0 /\ Main \in Listed
       THEN Goto(Main, "destructors") /\ at' = [at EXCEPT ![Main] = 0]
       ELSE Goto(Main, "done") /\ UNCHANGED at
    /\ UNCHANGED <<keyVars, listVars, thread_key_values, op, useVars>>

\* Mutant of ResetValue: the value is not reset before the call.
ResetValueLater(t, k) == UNCHANGED thread_key_values

ResetValue(t, k) == thread_key_values' = [thread_key_values EXCEPT ![t][k] = 0]

\* The loop over the keys; the lock is held while the destructor is looked up.
NextKey(t) ==
    LET k == at[t] IN
    /\ pc[t] = "destructors" /\ k < KeysMax
    /\ thread_key_values[t][k] = 0
    /\ at' = [at EXCEPT ![t] = k + 1]
    /\ UNCHANGED <<pc, keyVars, listVars, thread_key_values, op, useVars>>

Destroy(t) ==
    LET k == at[t]
        v == thread_key_values[t][k] IN
    /\ pc[t] = "destructors" /\ k < KeysMax /\ v # 0
    /\ key_data_list_lock = None
    /\ ResetValue(t, k)
    /\ IF key_data_list[k] = "destructor"
       THEN /\ Goto(t, "app")
            /\ given' = [given EXCEPT ![t][v] = @ + 1]
            /\ UNCHANGED at
       ELSE at' = [at EXCEPT ![t] = k + 1] /\ UNCHANGED <<pc, given>>
    /\ UNCHANGED <<keyVars, listVars, op, fresh>>

DestructorReturns(t) ==
    /\ pc[t] = "app" /\ at[t] # -1
    /\ Goto(t, "destructors") /\ at' = [at EXCEPT ![t] = @ + 1]
    /\ UNCHANGED <<keyVars, listVars, thread_key_values, op, useVars>>

\* bh_list_remove without a lock; the node is freed whether it is found or not.
Remove(t) ==
    /\ pc[t] = "destructors" /\ at[t] = KeysMax
    /\ IF t \in Listed
       THEN /\ \E p \in (Listed \union {None}) :
                  /\ IF p = None THEN head = t ELSE next[p] = t
                  /\ op' = [op EXCEPT ![t].prev = p]
            /\ Goto(t, "unlink")
            /\ UNCHANGED nodes
       ELSE /\ nodes' = nodes \ {t}
            /\ Goto(t, "done")
            /\ UNCHANGED op
    /\ UNCHANGED <<keyVars, head, next, len, thread_key_values, at, useVars>>

\* Mutant of Unlinks: a node that is not the first one is left in the list.
UnlinksHead(t, prev) ==
    /\ head' = IF prev = None THEN next[t] ELSE head
    /\ UNCHANGED next

Unlinks(t, prev) ==
    IF prev = None THEN head' = next[t] /\ UNCHANGED next
    ELSE next' = [next EXCEPT ![prev] = next[t]] /\ UNCHANGED head

Unlink(t) ==
    /\ pc[t] = "unlink"
    /\ Unlinks(t, op[t].prev)
    /\ op' = [op EXCEPT ![t].len = len]
    /\ Goto(t, "removeLen")
    /\ UNCHANGED <<keyVars, nodes, len, thread_key_values, at, useVars>>

RemoveLen(t) ==
    /\ pc[t] = "removeLen"
    /\ len' = op[t].len - 1
    /\ nodes' = nodes \ {t}
    /\ op' = [op EXCEPT ![t] = NoOp]
    /\ at' = [at EXCEPT ![t] = -1]
    /\ Goto(t, "done")
    /\ UNCHANGED <<keyVars, head, next, thread_key_values, useVars>>

-----------------------------------------------------------------------------
App(t) ==
    \/ \E with \in {"destructor", "plain"} : KeyCreate(t, with)
    \/ \E k \in Keys : \/ KeyDelete(t, k)
                       \/ Specific(t, k, 0)
                       \/ fresh[t] < MaxSets /\ Specific(t, k, fresh[t] + 1)
    \/ Ends(t) \/ DestructorReturns(t)

Runtime(t) ==
    \/ InsertHead(t) \/ InsertLen(t)
    \/ NextKey(t) \/ Destroy(t)
    \/ Remove(t) \/ Unlink(t) \/ RemoveLen(t)

Next ==
    \/ \E w \in Workers : Start(w)
    \/ \E t \in Threads : App(t) \/ Runtime(t)
    \/ MainEnds \/ DestroyList

Spec == Init /\ [][Next]_vars

-----------------------------------------------------------------------------
(* Properties                                                               *)

\* Unless a thread is at work on it, the list has the node of each thread that
\* has one, once, and only those: none is freed that is still in the list, and
\* none is lost.  A thread that has ended has none.  This is so only if threads
\* take turns (Alone), which the code does not see to: a removal takes no lock.
ListMatches ==
    (\A t \in Threads : pc[t] \notin {"insert", "insertLen", "unlink", "removeLen"}) =>
        /\ Listed = nodes /\ len = Cardinality(nodes)
        /\ \A t \in nodes : pc[t] \notin {"none", "done"}

\* A value is given to a destructor at most once, also if that destructor ends
\* the thread, which runs the destructors again.
DestroyedOnce == \A t \in Threads : \A v \in 1 .. MaxSets : given[t][v] <= 1

\* "There should be only one node for main thread": bh_assert(list->len <= 1)
\* when the cluster is destroyed.  Removals without the lock break it (see
\* MCKeysRace).
OneNodeLeft == pc[Main] = "destroy" => len <= 1

\* A thread that has just got a key finds NULL in it, as with POSIX; here a key
\* that is created again has the values of the deleted one.
DeletedKeysEmpty ==
    \A t \in nodes : \A k \in Keys : key_data_list[k] = "free" => thread_key_values[t][k] = 0
=============================================================================
