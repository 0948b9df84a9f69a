------------------------- MODULE LibPthreadProofs ---------------------------
(* What is proved of LibPthread for any number of threads: info nodes are    *)
(* freed once, handles are resolved, and what a join answers is true.        *)
EXTENDS LibPthread, TLAPS

Joining == {"join", "joinStored", "joinThread", "joinWait"}
Detaching == {"detach", "detachThread"}
Working == Joining \union Detaching \union {"cancel", "cancelFlag"}
Creating == {"creating", "waiting"}
Ended == {"leaving", "gone"}
Unborn == {"none", "start"}

\* The node of a thread is in the map from its start to the end of its
\* function; then it is in the map or freed.
NodesAccounted ==
    \A w \in Workers :
        /\ w \in mapped <=> pc[w] \notin Unborn /\ freed[w] = 0
        /\ freed[w] # 0 => freed[w] = 1 /\ pc[w] \in Ended
        /\ w \in listed <=> pc[w] \notin {"none", "gone"}
        /\ pc[Main] = "gone" => pc[w] \in {"none", "gone"} /\ w \notin mapped

\* A thread that starts has a parent that waits for it.
ParentsWait ==
    /\ \A w \in Workers : pc[w] = "start" => /\ parent[w] \in Threads
                                             /\ pc[parent[w]] \in Creating
                                             /\ target[parent[w]] = w
    /\ \A t \in Threads : pc[t] \in Creating => target[t] \in Workers /\ pc[target[t]] # "none"

\* Handles the application has, and nodes that calls have found.
Resolved ==
    /\ \A w \in Workers : pc[w] \in {"run"} \union Working => nodeEnv[w] = w
    /\ \A w \in known \union mapped : nodeEnv[w] = w /\ pc[w] \notin Unborn
    /\ \A t \in Threads : pc[t] = "woken" => /\ target[t] \in Workers
                                             /\ nodeEnv[target[t]] = target[t]
                                             /\ pc[target[t]] \notin Unborn
    /\ \A t \in Threads : pc[t] \in Working => target[t] \in Workers /\ pc[target[t]] \notin Unborn

\* A thread is joined or detached by one call.
ClaimedOnce ==
    /\ \A t \in Threads : pc[t] \in Joining \union Detaching => target[t] \in claimed
    /\ \A t, u \in Threads : /\ t # u
                             /\ pc[t] \in Joining \union Detaching
                             /\ pc[u] \in Joining \union Detaching
                             => target[t] # target[u]
    /\ \A w \in Workers : detached[w] => w \in claimed
    /\ \A t \in Threads : pc[t] \in Joining => ~detached[target[t]]

\* What the status and the stored result say.
Stored ==
    /\ \A w \in Workers : status[w] = "EXIT" => pc[w] \in Ended
    /\ \A w \in Workers : w \in mapped /\ pc[w] \in {"stored"} \union Ended => ret[w] = result[w]
    /\ \A t \in Threads : pc[t] = "joinStored" => pc[target[t]] \in Ended

IInv == /\ TypeOK /\ NodesAccounted /\ ParentsWait /\ Resolved /\ ClaimedOnce /\ Stored
        /\ JoinMeansOver /\ StoredIsResult

-----------------------------------------------------------------------------
(* TypeOK is inductive.                                                    *)
LEMMA TypeStep == ASSUME IInv, [Next]_vars PROVE TypeOK'
<1> USE MainAssumption
         DEF IInv, TypeOK, ParentsWait, Resolved, Creating, Working, Joining,
             Detaching, Labels, Over, Statuses, Answers, NoAnswer, Threads,
             exec, nodes, app
<1>1. ASSUME NEW t \in Threads, NEW w \in Workers, App(t, w) PROVE TypeOK'
  <2>1. CASE Create(t, w)
    BY <2>1 DEF Create, Unstarted
  <2>2. CASE CreateFails(t, w)
    BY <2>2 DEF CreateFails, Goto, Unstarted
  <2>3. CASE Join(t, w)
    BY <2>3 DEF Join, Goto, Claim, Lookup
  <2>4. CASE JoinUnknown(t, w)
    BY <2>4 DEF JoinUnknown, Claim, Has
  <2>5. CASE Detach(t, w)
    BY <2>5 DEF Detach, Goto, Claim, Lookup
  <2>6. CASE Cancel(t, w)
    BY <2>6 DEF Cancel, Goto, Lookup
  <2> QED
    BY <1>1, <2>1, <2>2, <2>3, <2>4, <2>5, <2>6 DEF App
<1>2. ASSUME NEW t \in Threads, Library(t) PROVE TypeOK'
  <2>1. CASE CreateWaits(t)
    BY <2>1 DEF CreateWaits, Goto
  <2>2. CASE CreateReturns(t)
    BY <2>2 DEF CreateReturns, Goto, Done
  <2>3. CASE JoinReadsStatus(t)
    BY <2>3 DEF JoinReadsStatus, Goto, Read
  <2>4. CASE JoinStored(t)
    BY <2>4 DEF JoinStored, Goto, Done, Answered, Read
  <2>5. CASE JoinThread(t)
    BY <2>5 DEF JoinThread, Goto
  <2>6. CASE JoinMisses(t)
    BY <2>6 DEF JoinMisses, Goto, Done, Answered
  <2>7. CASE JoinReturns(t)
    BY <2>7 DEF JoinReturns, Goto, Done, Answered
  <2>8. CASE DetachFlag(t)
    BY <2>8 DEF DetachFlag, Goto
  <2>9. CASE DetachThread(t)
    BY <2>9 DEF DetachThread, Goto, Done
  <2>10. CASE CancelStatus(t)
    BY <2>10 DEF CancelStatus, Goto
  <2>11. CASE CancelFlag(t)
    BY <2>11 DEF CancelFlag, Goto, Done
  <2> QED
    BY <1>2, <2>1, <2>2, <2>3, <2>4, <2>5, <2>6, <2>7, <2>8, <2>9, <2>10,
       <2>11 DEF Library
<1>3. ASSUME NEW w \in Workers, Routine(w) PROVE TypeOK'
  <2>1. CASE Start(w)
    BY <2>1 DEF Start, Woken
  <2>2. CASE StartFails(w)
    BY <2>2 DEF StartFails, Woken
  <2>3. CASE DeleteNode(w)
    BY <2>3 DEF DeleteNode, Goto
  <2>4. CASE KeepNode(w)
    BY <2>4 DEF KeepNode, Goto
  <2>5. CASE StoreResult(w)
    BY <2>5 DEF StoreResult, Goto
  <2>6. CASE StoreStatus(w)
    BY <2>6 DEF StoreStatus, Goto
  <2>7. CASE Leave(w)
    BY <2>7 DEF Leave, Goto
  <2> QED
    BY <1>3, <2>1, <2>2, <2>3, <2>4, <2>5, <2>6, <2>7 DEF Routine
<1>4. ASSUME NEW w \in Workers, Return(w) PROVE TypeOK'
  BY <1>4 DEF Return, Goto
<1>5. CASE Destroy
  BY <1>5 DEF Destroy, Goto
<1>6. CASE UNCHANGED vars
  BY <1>6 DEF vars
<1> QED
  BY <1>1, <1>2, <1>3, <1>4, <1>5, <1>6 DEF Next

-----------------------------------------------------------------------------
(* A node leaves the map when it is freed.                                 *)
LEMMA NodesAccountedStep == ASSUME IInv, [Next]_vars PROVE NodesAccounted'
<1> USE MainAssumption
         DEF IInv, TypeOK, NodesAccounted, ParentsWait, Unborn, Ended,
             Creating, Threads, exec, nodes, app
<1>1. ASSUME NEW t \in Threads, NEW w \in Workers, App(t, w) PROVE NodesAccounted'
  <2>1. CASE Create(t, w)
    BY <2>1 DEF Create, Unstarted
  <2>2. CASE CreateFails(t, w)
    BY <2>2 DEF CreateFails, Goto, Unstarted
  <2>3. CASE Join(t, w)
    BY <2>3 DEF Join, Goto, Claim, Lookup
  <2>4. CASE JoinUnknown(t, w)
    BY <2>4 DEF JoinUnknown, Claim, Has
  <2>5. CASE Detach(t, w)
    BY <2>5 DEF Detach, Goto, Claim, Lookup
  <2>6. CASE Cancel(t, w)
    BY <2>6 DEF Cancel, Goto, Lookup
  <2> QED
    BY <1>1, <2>1, <2>2, <2>3, <2>4, <2>5, <2>6 DEF App
<1>2. ASSUME NEW t \in Threads, Library(t) PROVE NodesAccounted'
  <2>1. CASE CreateWaits(t)
    BY <2>1 DEF CreateWaits, Goto
  <2>2. CASE CreateReturns(t)
    BY <2>2 DEF CreateReturns, Goto, Done
  <2>3. CASE JoinReadsStatus(t)
    BY <2>3 DEF JoinReadsStatus, Goto, Read
  <2>4. CASE JoinStored(t)
    BY <2>4 DEF JoinStored, Goto, Done, Answered, Read
  <2>5. CASE JoinThread(t)
    BY <2>5 DEF JoinThread, Goto
  <2>6. CASE JoinMisses(t)
    BY <2>6 DEF JoinMisses, Goto, Done, Answered
  <2>7. CASE JoinReturns(t)
    BY <2>7 DEF JoinReturns, Goto, Done, Answered
  <2>8. CASE DetachFlag(t)
    BY <2>8 DEF DetachFlag, Goto
  <2>9. CASE DetachThread(t)
    BY <2>9 DEF DetachThread, Goto, Done
  <2>10. CASE CancelStatus(t)
    BY <2>10 DEF CancelStatus, Goto
  <2>11. CASE CancelFlag(t)
    BY <2>11 DEF CancelFlag, Goto, Done
  <2> QED
    BY <1>2, <2>1, <2>2, <2>3, <2>4, <2>5, <2>6, <2>7, <2>8, <2>9, <2>10,
       <2>11 DEF Library
<1>3. ASSUME NEW w \in Workers, Routine(w) PROVE NodesAccounted'
  <2>1. CASE Start(w)
    BY <2>1 DEF Start, Woken
  <2>2. CASE StartFails(w)
    BY <2>2 DEF StartFails, Woken
  <2>3. CASE DeleteNode(w)
    BY <2>3 DEF DeleteNode, Goto
  <2>4. CASE KeepNode(w)
    BY <2>4 DEF KeepNode, Goto
  <2>5. CASE StoreResult(w)
    BY <2>5 DEF StoreResult, Goto
  <2>6. CASE StoreStatus(w)
    BY <2>6 DEF StoreStatus, Goto
  <2>7. CASE Leave(w)
    BY <2>7 DEF Leave, Goto
  <2> QED
    BY <1>3, <2>1, <2>2, <2>3, <2>4, <2>5, <2>6, <2>7 DEF Routine
<1>4. ASSUME NEW w \in Workers, Return(w) PROVE NodesAccounted'
  BY <1>4 DEF Return, Goto
<1>5. CASE Destroy
  BY <1>5 DEF Destroy, Goto
<1>6. CASE UNCHANGED vars
  BY <1>6 DEF vars
<1> QED
  BY <1>1, <1>2, <1>3, <1>4, <1>5, <1>6 DEF Next

-----------------------------------------------------------------------------
(* A parent waits until its thread has started.                            *)
LEMMA ParentsWaitStep == ASSUME IInv, [Next]_vars PROVE ParentsWait'
<1> USE DEF IInv, TypeOK, ParentsWait, Creating, Threads, exec, nodes, app
<1>1. ASSUME NEW t \in Threads, NEW w \in Workers, App(t, w) PROVE ParentsWait'
  <2>1. CASE Create(t, w)
    BY <2>1 DEF Create, Unstarted
  <2>2. CASE CreateFails(t, w)
    BY <2>2 DEF CreateFails, Goto, Unstarted
  <2>3. CASE Join(t, w)
    BY <2>3 DEF Join, Goto, Claim, Lookup
  <2>4. CASE JoinUnknown(t, w)
    BY <2>4 DEF JoinUnknown, Claim, Has
  <2>5. CASE Detach(t, w)
    BY <2>5 DEF Detach, Goto, Claim, Lookup
  <2>6. CASE Cancel(t, w)
    BY <2>6 DEF Cancel, Goto, Lookup
  <2> QED
    BY <1>1, <2>1, <2>2, <2>3, <2>4, <2>5, <2>6 DEF App
<1>2. ASSUME NEW t \in Threads, Library(t) PROVE ParentsWait'
  <2>1. CASE CreateWaits(t)
    BY <2>1 DEF CreateWaits, Goto
  <2>2. CASE CreateReturns(t)
    BY <2>2 DEF CreateReturns, Goto, Done
  <2>3. CASE JoinReadsStatus(t)
    BY <2>3 DEF JoinReadsStatus, Goto, Read
  <2>4. CASE JoinStored(t)
    BY <2>4 DEF JoinStored, Goto, Done, Answered, Read
  <2>5. CASE JoinThread(t)
    BY <2>5 DEF JoinThread, Goto
  <2>6. CASE JoinMisses(t)
    BY <2>6 DEF JoinMisses, Goto, Done, Answered
  <2>7. CASE JoinReturns(t)
    BY <2>7 DEF JoinReturns, Goto, Done, Answered
  <2>8. CASE DetachFlag(t)
    BY <2>8 DEF DetachFlag, Goto
  <2>9. CASE DetachThread(t)
    BY <2>9 DEF DetachThread, Goto, Done
  <2>10. CASE CancelStatus(t)
    BY <2>10 DEF CancelStatus, Goto
  <2>11. CASE CancelFlag(t)
    BY <2>11 DEF CancelFlag, Goto, Done
  <2> QED
    BY <1>2, <2>1, <2>2, <2>3, <2>4, <2>5, <2>6, <2>7, <2>8, <2>9, <2>10,
       <2>11 DEF Library
<1>3. ASSUME NEW w \in Workers, Routine(w) PROVE ParentsWait'
  <2>1. CASE Start(w)
    BY <2>1 DEF Start, Woken
  <2>2. CASE StartFails(w)
    BY <2>2 DEF StartFails, Woken
  <2>3. CASE DeleteNode(w)
    BY <2>3 DEF DeleteNode, Goto
  <2>4. CASE KeepNode(w)
    BY <2>4 DEF KeepNode, Goto
  <2>5. CASE StoreResult(w)
    BY <2>5 DEF StoreResult, Goto
  <2>6. CASE StoreStatus(w)
    BY <2>6 DEF StoreStatus, Goto
  <2>7. CASE Leave(w)
    BY <2>7 DEF Leave, Goto
  <2> QED
    BY <1>3, <2>1, <2>2, <2>3, <2>4, <2>5, <2>6, <2>7 DEF Routine
<1>4. ASSUME NEW w \in Workers, Return(w) PROVE ParentsWait'
  BY <1>4 DEF Return, Goto
<1>5. CASE Destroy
  BY <1>5 DEF Destroy, Goto
<1>6. CASE UNCHANGED vars
  BY <1>6 DEF vars
<1> QED
  BY <1>1, <1>2, <1>3, <1>4, <1>5, <1>6 DEF Next

-----------------------------------------------------------------------------
(* A node gets its exec_env before it gets into the map.                   *)
LEMMA ResolvedStep == ASSUME IInv, [Next]_vars PROVE Resolved'
<1> USE DEF IInv, TypeOK, NodesAccounted, ParentsWait, Resolved, Working,
             Joining, Detaching, Creating, Unborn, Ended, Threads, exec,
             nodes, app
<1>1. ASSUME NEW t \in Threads, NEW w \in Workers, App(t, w) PROVE Resolved'
  <2>1. CASE Create(t, w)
    BY <2>1 DEF Create, Unstarted
  <2>2. CASE CreateFails(t, w)
    BY <2>2 DEF CreateFails, Goto, Unstarted
  <2>3. CASE Join(t, w)
    BY <2>3 DEF Join, Goto, Claim, Lookup
  <2>4. CASE JoinUnknown(t, w)
    BY <2>4 DEF JoinUnknown, Claim, Has
  <2>5. CASE Detach(t, w)
    BY <2>5 DEF Detach, Goto, Claim, Lookup
  <2>6. CASE Cancel(t, w)
    BY <2>6 DEF Cancel, Goto, Lookup
  <2> QED
    BY <1>1, <2>1, <2>2, <2>3, <2>4, <2>5, <2>6 DEF App
<1>2. ASSUME NEW t \in Threads, Library(t) PROVE Resolved'
  <2>1. CASE CreateWaits(t)
    BY <2>1 DEF CreateWaits, Goto
  <2>2. CASE CreateReturns(t)
    BY <2>2 DEF CreateReturns, Goto, Done
  <2>3. CASE JoinReadsStatus(t)
    BY <2>3 DEF JoinReadsStatus, Goto, Read
  <2>4. CASE JoinStored(t)
    BY <2>4 DEF JoinStored, Goto, Done, Answered, Read
  <2>5. CASE JoinThread(t)
    BY <2>5 DEF JoinThread, Goto
  <2>6. CASE JoinMisses(t)
    BY <2>6 DEF JoinMisses, Goto, Done, Answered
  <2>7. CASE JoinReturns(t)
    BY <2>7 DEF JoinReturns, Goto, Done, Answered
  <2>8. CASE DetachFlag(t)
    BY <2>8 DEF DetachFlag, Goto
  <2>9. CASE DetachThread(t)
    BY <2>9 DEF DetachThread, Goto, Done
  <2>10. CASE CancelStatus(t)
    BY <2>10 DEF CancelStatus, Goto
  <2>11. CASE CancelFlag(t)
    BY <2>11 DEF CancelFlag, Goto, Done
  <2> QED
    BY <1>2, <2>1, <2>2, <2>3, <2>4, <2>5, <2>6, <2>7, <2>8, <2>9, <2>10,
       <2>11 DEF Library
<1>3. ASSUME NEW w \in Workers, Routine(w) PROVE Resolved'
  <2>1. CASE Start(w)
    BY <2>1 DEF Start, Woken
  <2>2. CASE StartFails(w)
    BY <2>2 DEF StartFails, Woken
  <2>3. CASE DeleteNode(w)
    BY <2>3 DEF DeleteNode, Goto
  <2>4. CASE KeepNode(w)
    BY <2>4 DEF KeepNode, Goto
  <2>5. CASE StoreResult(w)
    BY <2>5 DEF StoreResult, Goto
  <2>6. CASE StoreStatus(w)
    BY <2>6 DEF StoreStatus, Goto
  <2>7. CASE Leave(w)
    BY <2>7 DEF Leave, Goto
  <2> QED
    BY <1>3, <2>1, <2>2, <2>3, <2>4, <2>5, <2>6, <2>7 DEF Routine
<1>4. ASSUME NEW w \in Workers, Return(w) PROVE Resolved'
  BY <1>4 DEF Return, Goto
<1>5. CASE Destroy
  BY <1>5 DEF Destroy, Goto
<1>6. CASE UNCHANGED vars
  BY <1>6 DEF vars
<1> QED
  BY <1>1, <1>2, <1>3, <1>4, <1>5, <1>6 DEF Next

-----------------------------------------------------------------------------
(* A claim is made once, and ends with the call.                           *)
LEMMA ClaimedOnceStep == ASSUME IInv, [Next]_vars PROVE ClaimedOnce'
<1> USE DEF IInv, TypeOK, ParentsWait, ClaimedOnce, Joining, Detaching,
             Creating, Threads, exec, nodes, app
<1>1. ASSUME NEW t \in Threads, NEW w \in Workers, App(t, w) PROVE ClaimedOnce'
  <2>1. CASE Create(t, w)
    BY <2>1 DEF Create, Unstarted
  <2>2. CASE CreateFails(t, w)
    BY <2>2 DEF CreateFails, Goto, Unstarted
  <2>3. CASE Join(t, w)
    BY <2>3 DEF Join, Goto, Claim, Lookup
  <2>4. CASE JoinUnknown(t, w)
    BY <2>4 DEF JoinUnknown, Claim, Has
  <2>5. CASE Detach(t, w)
    BY <2>5 DEF Detach, Goto, Claim, Lookup
  <2>6. CASE Cancel(t, w)
    BY <2>6 DEF Cancel, Goto, Lookup
  <2> QED
    BY <1>1, <2>1, <2>2, <2>3, <2>4, <2>5, <2>6 DEF App
<1>2. ASSUME NEW t \in Threads, Library(t) PROVE ClaimedOnce'
  <2>1. CASE CreateWaits(t)
    BY <2>1 DEF CreateWaits, Goto
  <2>2. CASE CreateReturns(t)
    BY <2>2 DEF CreateReturns, Goto, Done
  <2>3. CASE JoinReadsStatus(t)
    BY <2>3 DEF JoinReadsStatus, Goto, Read
  <2>4. CASE JoinStored(t)
    BY <2>4 DEF JoinStored, Goto, Done, Answered, Read
  <2>5. CASE JoinThread(t)
    BY <2>5 DEF JoinThread, Goto
  <2>6. CASE JoinMisses(t)
    BY <2>6 DEF JoinMisses, Goto, Done, Answered
  <2>7. CASE JoinReturns(t)
    BY <2>7 DEF JoinReturns, Goto, Done, Answered
  <2>8. CASE DetachFlag(t)
    BY <2>8 DEF DetachFlag, Goto
  <2>9. CASE DetachThread(t)
    BY <2>9 DEF DetachThread, Goto, Done
  <2>10. CASE CancelStatus(t)
    BY <2>10 DEF CancelStatus, Goto
  <2>11. CASE CancelFlag(t)
    BY <2>11 DEF CancelFlag, Goto, Done
  <2> QED
    BY <1>2, <2>1, <2>2, <2>3, <2>4, <2>5, <2>6, <2>7, <2>8, <2>9, <2>10,
       <2>11 DEF Library
<1>3. ASSUME NEW w \in Workers, Routine(w) PROVE ClaimedOnce'
  <2>1. CASE Start(w)
    BY <2>1 DEF Start, Woken
  <2>2. CASE StartFails(w)
    BY <2>2 DEF StartFails, Woken
  <2>3. CASE DeleteNode(w)
    BY <2>3 DEF DeleteNode, Goto
  <2>4. CASE KeepNode(w)
    BY <2>4 DEF KeepNode, Goto
  <2>5. CASE StoreResult(w)
    BY <2>5 DEF StoreResult, Goto
  <2>6. CASE StoreStatus(w)
    BY <2>6 DEF StoreStatus, Goto
  <2>7. CASE Leave(w)
    BY <2>7 DEF Leave, Goto
  <2> QED
    BY <1>3, <2>1, <2>2, <2>3, <2>4, <2>5, <2>6, <2>7 DEF Routine
<1>4. ASSUME NEW w \in Workers, Return(w) PROVE ClaimedOnce'
  BY <1>4 DEF Return, Goto
<1>5. CASE Destroy
  BY <1>5 DEF Destroy, Goto
<1>6. CASE UNCHANGED vars
  BY <1>6 DEF vars
<1> QED
  BY <1>1, <1>2, <1>3, <1>4, <1>5, <1>6 DEF Next

-----------------------------------------------------------------------------
(* The result is stored before the status.                                 *)
LEMMA StoredStep == ASSUME IInv, [Next]_vars PROVE Stored'
<1> USE DEF IInv, TypeOK, NodesAccounted, ParentsWait, Resolved, Stored,
             Working, Joining, Detaching, Creating, Unborn, Ended, Threads,
             exec, nodes, app
<1>1. ASSUME NEW t \in Threads, NEW w \in Workers, App(t, w) PROVE Stored'
  <2>1. CASE Create(t, w)
    <3>1. \A x \in Threads : pc[x] \in Ended => pc'[x] = pc[x]
      BY <2>1 DEF Create, Unstarted
    <3>2. \A x \in Workers : status'[x] = "EXIT" => status[x] = "EXIT"
      BY <2>1 DEF Create, Unstarted
    <3>3. \A x \in Workers : x \in mapped' /\ pc'[x] \in {"stored"} \union Ended
                              => x \in mapped /\ pc[x] \in {"stored"} \union Ended
      BY <2>1 DEF Create, Unstarted
    <3>4. \A u \in Threads : pc'[u] = "joinStored" => pc[u] = "joinStored" /\ target'[u] = target[u]
      BY <2>1 DEF Create, Unstarted
    <3>5. ret' = ret /\ result' = result
      BY <2>1 DEF Create, Unstarted
    <3> QED
      BY <3>1, <3>2, <3>3, <3>4, <3>5
  <2>2. CASE CreateFails(t, w)
    <3>1. \A x \in Threads : pc[x] \in Ended => pc'[x] = pc[x]
      BY <2>2 DEF CreateFails, Goto, Unstarted
    <3>2. \A x \in Workers : status'[x] = "EXIT" => status[x] = "EXIT"
      BY <2>2 DEF CreateFails
    <3>3. \A x \in Workers : x \in mapped' /\ pc'[x] \in {"stored"} \union Ended
                              => x \in mapped /\ pc[x] \in {"stored"} \union Ended
      BY <2>2 DEF CreateFails, Goto, Unstarted
    <3>4. \A u \in Threads : pc'[u] = "joinStored" => pc[u] = "joinStored" /\ target'[u] = target[u]
      BY <2>2 DEF CreateFails, Goto, Unstarted
    <3>5. ret' = ret /\ result' = result
      BY <2>2 DEF CreateFails
    <3> QED
      BY <3>1, <3>2, <3>3, <3>4, <3>5
  <2>3. CASE Join(t, w)
    BY <2>3 DEF Join, Goto, Claim, Lookup
  <2>4. CASE JoinUnknown(t, w)
    BY <2>4 DEF JoinUnknown, Claim, Has
  <2>5. CASE Detach(t, w)
    BY <2>5 DEF Detach, Goto, Claim, Lookup
  <2>6. CASE Cancel(t, w)
    BY <2>6 DEF Cancel, Goto, Lookup
  <2> QED
    BY <1>1, <2>1, <2>2, <2>3, <2>4, <2>5, <2>6 DEF App
<1>2. ASSUME NEW t \in Threads, Library(t) PROVE Stored'
  <2>1. CASE CreateWaits(t)
    BY <2>1 DEF CreateWaits, Goto
  <2>2. CASE CreateReturns(t)
    BY <2>2 DEF CreateReturns, Goto, Done
  <2>3. CASE JoinReadsStatus(t)
    BY <2>3 DEF JoinReadsStatus, Goto, Read
  <2>4. CASE JoinStored(t)
    BY <2>4 DEF JoinStored, Goto, Done, Answered, Read
  <2>5. CASE JoinThread(t)
    BY <2>5 DEF JoinThread, Goto
  <2>6. CASE JoinMisses(t)
    BY <2>6 DEF JoinMisses, Goto, Done, Answered
  <2>7. CASE JoinReturns(t)
    BY <2>7 DEF JoinReturns, Goto, Done, Answered
  <2>8. CASE DetachFlag(t)
    BY <2>8 DEF DetachFlag, Goto
  <2>9. CASE DetachThread(t)
    BY <2>9 DEF DetachThread, Goto, Done
  <2>10. CASE CancelStatus(t)
    BY <2>10 DEF CancelStatus, Goto
  <2>11. CASE CancelFlag(t)
    BY <2>11 DEF CancelFlag, Goto, Done
  <2> QED
    BY <1>2, <2>1, <2>2, <2>3, <2>4, <2>5, <2>6, <2>7, <2>8, <2>9, <2>10,
       <2>11 DEF Library
<1>3. ASSUME NEW w \in Workers, Routine(w) PROVE Stored'
  <2>1. CASE Start(w)
    BY <2>1 DEF Start, Woken
  <2>2. CASE StartFails(w)
    BY <2>2 DEF StartFails, Woken
  <2>3. CASE DeleteNode(w)
    BY <2>3 DEF DeleteNode, Goto
  <2>4. CASE KeepNode(w)
    BY <2>4 DEF KeepNode, Goto
  <2>5. CASE StoreResult(w)
    BY <2>5 DEF StoreResult, Goto
  <2>6. CASE StoreStatus(w)
    BY <2>6 DEF StoreStatus, Goto
  <2>7. CASE Leave(w)
    BY <2>7 DEF Leave, Goto
  <2> QED
    BY <1>3, <2>1, <2>2, <2>3, <2>4, <2>5, <2>6, <2>7 DEF Routine
<1>4. ASSUME NEW w \in Workers, Return(w) PROVE Stored'
  BY <1>4 DEF Return, Goto
<1>5. CASE Destroy
  BY <1>5 DEF Destroy, Goto
<1>6. CASE UNCHANGED vars
  BY <1>6 DEF vars
<1> QED
  BY <1>1, <1>2, <1>3, <1>4, <1>5, <1>6 DEF Next

-----------------------------------------------------------------------------
(* Each way a join may answer tells that the function is over.             *)
LEMMA JoinMeansOverStep == ASSUME IInv, [Next]_vars PROVE JoinMeansOver'
<1> USE NoneAssumption
         DEF IInv, TypeOK, NodesAccounted, ParentsWait, Resolved,
             ClaimedOnce, Stored, JoinMeansOver, NoAnswer, Answers, Working,
             Joining, Detaching, Creating, Unborn, Ended, Over, Threads,
             exec, nodes, app
<1>1. ASSUME NEW t \in Threads, NEW w \in Workers, App(t, w) PROVE JoinMeansOver'
  <2>1. CASE Create(t, w)
    <3>1. \A x \in Threads : pc[x] \in Over => pc'[x] \in Over
      BY <2>1 DEF Create, Unstarted
    <3>2. answer' = answer /\ \A u \in Threads : answer[u].of \in Workers \union {None}
      BY <2>1 DEF Create
    <3> QED
      BY <3>1, <3>2
  <2>2. CASE CreateFails(t, w)
    BY <2>2 DEF CreateFails, Goto, Unstarted
  <2>3. CASE Join(t, w)
    BY <2>3 DEF Join, Goto, Claim, Lookup
  <2>4. CASE JoinUnknown(t, w)
    <3>1. pc[w] \in Over /\ pc' = pc
      BY <2>4 DEF JoinUnknown, Has
    <3>2. answer' = [answer EXCEPT ![t] = [of |-> w, kind |-> "unknown", value |-> None]]
      BY <2>4 DEF JoinUnknown
    <3> QED
      BY <3>1, <3>2
  <2>5. CASE Detach(t, w)
    BY <2>5 DEF Detach, Goto, Claim, Lookup
  <2>6. CASE Cancel(t, w)
    BY <2>6 DEF Cancel, Goto, Lookup
  <2> QED
    BY <1>1, <2>1, <2>2, <2>3, <2>4, <2>5, <2>6 DEF App
<1>2. ASSUME NEW t \in Threads, Library(t) PROVE JoinMeansOver'
  <2>1. CASE CreateWaits(t)
    BY <2>1 DEF CreateWaits, Goto
  <2>2. CASE CreateReturns(t)
    BY <2>2 DEF CreateReturns, Goto, Done
  <2>3. CASE JoinReadsStatus(t)
    BY <2>3 DEF JoinReadsStatus, Goto, Read
  <2>4. CASE JoinStored(t)
    BY <2>4 DEF JoinStored, Goto, Done, Answered, Read
  <2>5. CASE JoinThread(t)
    BY <2>5 DEF JoinThread, Goto
  <2>6. CASE JoinMisses(t)
    BY <2>6 DEF JoinMisses, Goto, Done, Answered
  <2>7. CASE JoinReturns(t)
    BY <2>7 DEF JoinReturns, Goto, Done, Answered
  <2>8. CASE DetachFlag(t)
    BY <2>8 DEF DetachFlag, Goto
  <2>9. CASE DetachThread(t)
    BY <2>9 DEF DetachThread, Goto, Done
  <2>10. CASE CancelStatus(t)
    BY <2>10 DEF CancelStatus, Goto
  <2>11. CASE CancelFlag(t)
    BY <2>11 DEF CancelFlag, Goto, Done
  <2> QED
    BY <1>2, <2>1, <2>2, <2>3, <2>4, <2>5, <2>6, <2>7, <2>8, <2>9, <2>10,
       <2>11 DEF Library
<1>3. ASSUME NEW w \in Workers, Routine(w) PROVE JoinMeansOver'
  <2>1. CASE Start(w)
    <3>1. \A x \in Threads : pc[x] \in Over => pc'[x] \in Over
      BY <2>1 DEF Start, Woken
    <3>2. answer' = answer /\ \A u \in Threads : answer[u].of \in Workers \union {None}
      BY <2>1 DEF Start
    <3> QED
      BY <3>1, <3>2
  <2>2. CASE StartFails(w)
    <3>1. \A x \in Threads : pc[x] \in Over => pc'[x] \in Over
      BY <2>2 DEF StartFails, Woken
    <3>2. answer' = answer /\ \A u \in Threads : answer[u].of \in Workers \union {None}
      BY <2>2 DEF StartFails
    <3> QED
      BY <3>1, <3>2
  <2>3. CASE DeleteNode(w)
    BY <2>3 DEF DeleteNode, Goto
  <2>4. CASE KeepNode(w)
    BY <2>4 DEF KeepNode, Goto
  <2>5. CASE StoreResult(w)
    BY <2>5 DEF StoreResult, Goto
  <2>6. CASE StoreStatus(w)
    BY <2>6 DEF StoreStatus, Goto
  <2>7. CASE Leave(w)
    BY <2>7 DEF Leave, Goto
  <2> QED
    BY <1>3, <2>1, <2>2, <2>3, <2>4, <2>5, <2>6, <2>7 DEF Routine
<1>4. ASSUME NEW w \in Workers, Return(w) PROVE JoinMeansOver'
  BY <1>4 DEF Return, Goto
<1>5. CASE Destroy
  BY <1>5 DEF Destroy, Goto
<1>6. CASE UNCHANGED vars
  BY <1>6 DEF vars
<1> QED
  BY <1>1, <1>2, <1>3, <1>4, <1>5, <1>6 DEF Next

-----------------------------------------------------------------------------
(* The result of a thread does not change, nor does what it has stored.    *)
LEMMA StoredIsResultStep == ASSUME IInv, [Next]_vars PROVE StoredIsResult'
<1> USE NoneAssumption
         DEF IInv, TypeOK, NodesAccounted, ParentsWait, Resolved,
             ClaimedOnce, Stored, JoinMeansOver, StoredIsResult, NoAnswer,
             Answers, Working, Joining, Detaching, Creating, Unborn, Ended,
             Over, Threads, exec, nodes, app
<1>1. ASSUME NEW t \in Threads, NEW w \in Workers, App(t, w) PROVE StoredIsResult'
  <2>1. CASE Create(t, w)
    BY <2>1 DEF Create, Unstarted
  <2>2. CASE CreateFails(t, w)
    BY <2>2 DEF CreateFails, Goto, Unstarted
  <2>3. CASE Join(t, w)
    BY <2>3 DEF Join, Goto, Claim, Lookup
  <2>4. CASE JoinUnknown(t, w)
    BY <2>4 DEF JoinUnknown, Claim, Has
  <2>5. CASE Detach(t, w)
    BY <2>5 DEF Detach, Goto, Claim, Lookup
  <2>6. CASE Cancel(t, w)
    BY <2>6 DEF Cancel, Goto, Lookup
  <2> QED
    BY <1>1, <2>1, <2>2, <2>3, <2>4, <2>5, <2>6 DEF App
<1>2. ASSUME NEW t \in Threads, Library(t) PROVE StoredIsResult'
  <2>1. CASE CreateWaits(t)
    BY <2>1 DEF CreateWaits, Goto
  <2>2. CASE CreateReturns(t)
    BY <2>2 DEF CreateReturns, Goto, Done
  <2>3. CASE JoinReadsStatus(t)
    BY <2>3 DEF JoinReadsStatus, Goto, Read
  <2>4. CASE JoinStored(t)
    BY <2>4 DEF JoinStored, Goto, Done, Answered, Read
  <2>5. CASE JoinThread(t)
    BY <2>5 DEF JoinThread, Goto
  <2>6. CASE JoinMisses(t)
    BY <2>6 DEF JoinMisses, Goto, Done, Answered
  <2>7. CASE JoinReturns(t)
    BY <2>7 DEF JoinReturns, Goto, Done, Answered
  <2>8. CASE DetachFlag(t)
    BY <2>8 DEF DetachFlag, Goto
  <2>9. CASE DetachThread(t)
    BY <2>9 DEF DetachThread, Goto, Done
  <2>10. CASE CancelStatus(t)
    BY <2>10 DEF CancelStatus, Goto
  <2>11. CASE CancelFlag(t)
    BY <2>11 DEF CancelFlag, Goto, Done
  <2> QED
    BY <1>2, <2>1, <2>2, <2>3, <2>4, <2>5, <2>6, <2>7, <2>8, <2>9, <2>10,
       <2>11 DEF Library
<1>3. ASSUME NEW w \in Workers, Routine(w) PROVE StoredIsResult'
  <2>1. CASE Start(w)
    BY <2>1 DEF Start, Woken
  <2>2. CASE StartFails(w)
    BY <2>2 DEF StartFails, Woken
  <2>3. CASE DeleteNode(w)
    BY <2>3 DEF DeleteNode, Goto
  <2>4. CASE KeepNode(w)
    BY <2>4 DEF KeepNode, Goto
  <2>5. CASE StoreResult(w)
    BY <2>5 DEF StoreResult, Goto
  <2>6. CASE StoreStatus(w)
    BY <2>6 DEF StoreStatus, Goto
  <2>7. CASE Leave(w)
    BY <2>7 DEF Leave, Goto
  <2> QED
    BY <1>3, <2>1, <2>2, <2>3, <2>4, <2>5, <2>6, <2>7 DEF Routine
<1>4. ASSUME NEW w \in Workers, Return(w) PROVE StoredIsResult'
  BY <1>4 DEF Return, Goto
<1>5. CASE Destroy
  BY <1>5 DEF Destroy, Goto
<1>6. CASE UNCHANGED vars
  BY <1>6 DEF vars
<1> QED
  BY <1>1, <1>2, <1>3, <1>4, <1>5, <1>6 DEF Next

-----------------------------------------------------------------------------
(* The theorems.                                                             *)
LEMMA InitInv == Init => IInv
<1> SUFFICES ASSUME Init PROVE IInv
  OBVIOUS
<1> USE MainAssumption, NoneAssumption DEF Init
<1>1. TypeOK
  BY DEF TypeOK, Labels, Statuses, Answers, NoAnswer, Threads
<1>2. NodesAccounted
  BY DEF NodesAccounted, Unborn, Ended, Threads
<1>3. ParentsWait /\ ClaimedOnce
  BY DEF ParentsWait, ClaimedOnce, Creating, Joining, Detaching, Threads
<1>4. Resolved /\ Stored
  BY DEF Resolved, Stored, Working, Joining, Detaching, Unborn, Ended, Threads
<1>5. JoinMeansOver /\ StoredIsResult
  BY DEF JoinMeansOver, StoredIsResult, NoAnswer
<1> QED
  BY <1>1, <1>2, <1>3, <1>4, <1>5 DEF IInv

LEMMA StepInv == IInv /\ [Next]_vars => IInv'
BY TypeStep, NodesAccountedStep, ParentsWaitStep, ResolvedStep, ClaimedOnceStep, StoredStep,
   JoinMeansOverStep, StoredIsResultStep DEF IInv

LEMMA Invariant == Spec => []IInv
BY InitInv, StepInv, PTL DEF Spec

\* However the end of a thread, detach and cancel interleave, its node is freed
\* once: by the thread, or with the map when the cluster is destroyed.
THEOREM NodesFreedOnceCorrect == Spec => []NodesFreedOnce
<1>1. IInv => NodesFreedOnce
  BY MainAssumption DEF IInv, TypeOK, NodesAccounted, NodesFreedOnce, Unborn, Ended
<1> QED
  BY <1>1, Invariant, PTL

\* join, detach and cancel never find a node without its exec_env.
THEOREM HandleResolvedCorrect == Spec => []HandleResolved
<1>1. IInv => HandleResolved
  BY DEF IInv, Resolved, HandleResolved
<1> QED
  BY <1>1, Invariant, PTL

\* A join answers after the function of its thread has returned.
THEOREM JoinMeansOverCorrect == Spec => []JoinMeansOver
<1>1. IInv => JoinMeansOver
  BY DEF IInv
<1> QED
  BY <1>1, Invariant, PTL

\* A stored result is the result of the thread.
THEOREM StoredIsResultCorrect == Spec => []StoredIsResult
<1>1. IInv => StoredIsResult
  BY DEF IInv
<1> QED
  BY <1>1, Invariant, PTL
=============================================================================
