---------------------------- MODULE EmsHeapProofs ----------------------------
(* What is proved of EmsHeap for a heap of any size, at any addresses, with   *)
(* any requests.  A heap is Sound when its chunks tile it, what each says of  *)
(* the one before it is true, free neighbours have been merged, and the lists *)
(* and the tree have the free chunks, in order.  The module follows the code  *)
(* up: the tree, the lists, taking a chunk out and putting one in, and then   *)
(* gc_alloc_vo, gc_free_vo, gc_realloc_vo and gc_migrate on a sound heap.     *)
(* Induction is by a smallest counterexample: a tree or a list has a rank for *)
(* each node, which shrinks on the way down.                                  *)
EXTENDS EmsHeap, FiniteSetTheorems, WellFoundedInduction, TLAPS

\* A set of natural numbers has a least member (the library's WFMin on <).
LEMMA LeastOf ==
    ASSUME NEW T \in SUBSET Nat, T # {}
    PROVE  \E m \in T : \A k \in T : m <= k
<1> DEFINE R == OpToRel(<, Nat)
<1>1. IsWellFoundedOn(R, Nat)
  BY NatLessThanWellFounded
<1>2. PICK m \in T : \A k \in T : ~ (<<k, m>> \in R)
  <2> HIDE DEF R
  <2> QED
    BY <1>1, WFMin
<1>3. \A k \in T : ~ (k < m)
  BY <1>2 DEF OpToRel
<1> QED
  BY <1>3

\* Of nodes with a rank one has the least: proofs by a smallest counterexample
\* rest on it.
LEMMA LeastNode ==
    ASSUME NEW S, S # {}, NEW rank, \A n \in S : rank[n] \in Nat
    PROVE  \E n \in S : \A m \in S : rank[n] <= rank[m]
<1> DEFINE T == {rank[n] : n \in S}
<1>1. T \in SUBSET Nat /\ T # {}
  OBVIOUS
<1>2. PICK k \in T : \A j \in T : k <= j
  <2> HIDE DEF T
  <2> QED BY <1>1, LeastOf
<1>3. PICK n \in S : k = rank[n]
  OBVIOUS
<1> QED BY <1>2, <1>3

-----------------------------------------------------------------------------
(* A loop: from a place to the next until it stops.                           *)
Loops(f, D, stop, to, val) ==
    /\ f = [a \in D |-> f[a]]
    /\ \A a \in D : f[a] = IF a \in stop THEN val[a] ELSE f[to[a]]

\* A loop that goes from place to place has a value at each of them, which is
\* what Rightmost, AddTreeNode and BestFit compute; where a loop never stops, any
\* value will do.
LEMMA LoopEnds ==
    ASSUME NEW D, NEW stop \in SUBSET D, NEW to, \A a \in D \ stop : to[a] \in D, NEW val
    PROVE  \E f : Loops(f, D, stop, to, val)
<1> DEFINE Closed(S) == \A x \in S \ stop : to[x] \in S
           Ends(a) == {e \in stop : \A S \in SUBSET D : a \in S /\ Closed(S) => e \in S}
           end(a) == CHOOSE e : e \in Ends(a)
           f == [a \in D |-> val[end(a)]]
<1>1. ASSUME NEW a \in stop PROVE Ends(a) = {a}
  <2>1. {a} \in SUBSET D /\ Closed({a})
    OBVIOUS
  <2> QED BY <2>1
<1>2. ASSUME NEW a \in D \ stop PROVE Ends(a) = Ends(to[a])
  <2>1. ASSUME NEW e \in Ends(a) PROVE e \in Ends(to[a])
    <3> SUFFICES ASSUME NEW S \in SUBSET D, to[a] \in S, Closed(S) PROVE e \in S
      OBVIOUS
    <3>1. S \union {a} \in SUBSET D /\ Closed(S \union {a})
      OBVIOUS
    <3> QED BY <3>1, <1>2
  <2>2. ASSUME NEW e \in Ends(to[a]) PROVE e \in Ends(a)
    <3> SUFFICES ASSUME NEW S \in SUBSET D, a \in S, Closed(S) PROVE e \in S
      OBVIOUS
    <3>1. to[a] \in S
      BY <1>2
    <3> QED BY <3>1
  <2> HIDE DEF Ends
  <2> QED BY <2>1, <2>2
<1>3. ASSUME NEW a \in stop PROVE end(a) = a
  <2> HIDE DEF Ends
  <2> QED BY <1>1
<1>4. ASSUME NEW a \in D \ stop PROVE end(a) = end(to[a])
  <2> HIDE DEF Ends
  <2> QED BY <1>2
<1>5. ASSUME NEW a \in D PROVE f[a] = IF a \in stop THEN val[a] ELSE f[to[a]]
  <2> HIDE DEF end
  <2> QED BY <1>3, <1>4
<1>6. f = [a \in D |-> f[a]]
  OBVIOUS
<1>7. Loops(f, D, stop, to, val)
  <2> HIDE DEF f
  <2> QED BY <1>5, <1>6 DEF Loops
<1> QED BY <1>7

-----------------------------------------------------------------------------
(* The tree.  sub has the nodes of the subtree at each node, rank shrinks on  *)
(* the way down.                                                              *)
IsNode(n) == n = [left |-> n.left, right |-> n.right, parent |-> n.parent]

\* Pointers of the tree: a node and its children agree, the root has one child.
Links(t) ==
    /\ t = [n \in DOMAIN t |-> t[n]]
    /\ Root \in DOMAIN t /\ Null \notin DOMAIN t /\ t[Root].left = Null /\ t[Root].parent = Null
    /\ \A n \in DOMAIN t :
        /\ IsNode(t[n])
        /\ t[n].left \in (DOMAIN t \ {Root}) \union {Null}
        /\ t[n].right \in (DOMAIN t \ {Root}) \union {Null}
        /\ t[n].left # Null => t[t[n].left].parent = n
        /\ t[n].right # Null => t[t[n].right].parent = n
    /\ \A m \in DOMAIN t \ {Root} :
        t[m].parent \in DOMAIN t /\ m \in {t[t[m].parent].left, t[t[m].parent].right}

\* sub[n] has the nodes of the subtree at n, and rank shrinks on the way down,
\* so that the way ends.
Subtrees(t, sub, rank) ==
    /\ sub[Null] = {} /\ sub[Root] = DOMAIN t
    /\ \A n \in DOMAIN t :
        /\ sub[n] = {n} \union sub[t[n].left] \union sub[t[n].right]
        /\ sub[n] \subseteq DOMAIN t
        /\ sub[t[n].left] \intersect sub[t[n].right] = {}
        /\ rank[n] \in Nat
        /\ \A m \in sub[t[n].left] \union sub[t[n].right] : rank[m] < rank[n]

\* "size[left] <= size[cur] < size[right]"
Sorted(t, size, sub) ==
    \A n \in DOMAIN t :
        /\ \A m \in sub[t[n].left] : size[m] <= size[n]
        /\ \A m \in sub[t[n].right] : size[n] < size[m]

\* A tree of chunks of these sizes, with the witnesses.
Tree(t, size, sub, rank) ==
    /\ Links(t) /\ Subtrees(t, sub, rank) /\ Sorted(t, size, sub)
    /\ \A n \in DOMAIN t : size[n] \in Nat

\* The root of the tree is part of the gc_heap_t and no chunk.
LEMMA RootIsNoAddress == Root # Null
BY RootAssumption DEF Null

\* A child is another node, with its parent above it, and the nodes below it are
\* below its parent, at a smaller rank.
LEMMA ChildFacts ==
    ASSUME NEW t, NEW sub, NEW rank, Links(t), Subtrees(t, sub, rank),
           NEW n \in DOMAIN t, NEW c \in {t[n].left, t[n].right}, c # Null
    PROVE  /\ c \in DOMAIN t /\ c # Root /\ c # n /\ t[c].parent = n
           /\ c \in sub[c] /\ c \in sub[n] /\ sub[c] \subseteq sub[n] /\ n \notin sub[c]
           /\ rank[c] < rank[n]
<1>1. c \in DOMAIN t /\ c # Root /\ t[c].parent = n
  BY DEF Links
<1>2. c \in sub[c]
  BY <1>1 DEF Subtrees
<1>3. sub[c] \subseteq sub[n] /\ \A m \in sub[c] : rank[m] < rank[n]
  BY DEF Subtrees
<1>4. rank[n] \in Nat
  BY DEF Subtrees
<1> QED BY <1>1, <1>2, <1>3, <1>4

\* What is below a node below another is below that one.
LEMMA BelowBelow ==
    ASSUME NEW t, NEW sub, NEW rank, Links(t), Subtrees(t, sub, rank),
           NEW n \in DOMAIN t, NEW m \in sub[n]
    PROVE  m \in DOMAIN t /\ m \in sub[m] /\ sub[m] \subseteq sub[n]
<1> DEFINE Bad == {k \in DOMAIN t : \E j \in sub[k] : ~ (sub[j] \subseteq sub[k])}
<1>1. Bad = {}
  <2> SUFFICES ASSUME Bad # {} PROVE FALSE
    OBVIOUS
  <2>1. \A k \in Bad : rank[k] \in Nat
    BY DEF Subtrees
  <2>2. PICK k \in Bad : \A j \in Bad : rank[k] <= rank[j]
    <3> HIDE DEF Bad
    <3> QED BY <2>1, LeastNode
  <2>3. PICK j \in sub[k] : ~ (sub[j] \subseteq sub[k])
    OBVIOUS
  <2>4. j # k
    BY <2>3
  <2>5. PICK c \in {t[k].left, t[k].right} : j \in sub[c] /\ c # Null
    BY <2>3, <2>4 DEF Subtrees
  <2>6. c \in DOMAIN t /\ sub[c] \subseteq sub[k] /\ rank[c] < rank[k] /\ rank[c] \in Nat /\ rank[k] \in Nat
    <3>1. k \in DOMAIN t
      OBVIOUS
    <3> HIDE DEF Bad
    <3>2. c \in DOMAIN t /\ sub[c] \subseteq sub[k] /\ rank[c] < rank[k]
      BY <2>5, <3>1, ChildFacts
    <3> QED BY <3>1, <3>2 DEF Subtrees
  <2>7. c \notin Bad
    BY <2>2, <2>6
  <2> QED BY <2>3, <2>5, <2>6, <2>7
<1> QED BY <1>1 DEF Subtrees

\* A solution of the equation of TreeOrdered.
LEMMA SubtreesAre ==
    ASSUME NEW t, NEW sub, NEW rank, Links(t), Subtrees(t, sub, rank),
           NEW all, all[Null] = {},
           \A n \in DOMAIN t : all[n] = {n} \union all[t[n].left] \union all[t[n].right]
    PROVE  \A n \in DOMAIN t \union {Null} : all[n] = sub[n]
<1> DEFINE Bad == {k \in DOMAIN t : all[k] # sub[k]}
<1>1. Bad = {}
  <2> SUFFICES ASSUME Bad # {} PROVE FALSE
    OBVIOUS
  <2>1. \A k \in Bad : rank[k] \in Nat
    BY DEF Subtrees
  <2>2. PICK k \in Bad : \A j \in Bad : rank[k] <= rank[j]
    <3> HIDE DEF Bad
    <3> QED BY <2>1, LeastNode
  <2>3. k \in DOMAIN t /\ all[k] # sub[k] /\ rank[k] \in Nat
    BY <2>1
  <2>4. ASSUME NEW c \in {t[k].left, t[k].right} PROVE all[c] = sub[c]
    <3>1. CASE c = Null
      BY <3>1 DEF Subtrees
    <3>2. CASE c # Null
      <4>1. c \in DOMAIN t /\ rank[c] < rank[k]
        <5> HIDE DEF Bad
        <5> QED BY <2>3, <3>2, ChildFacts
      <4>2. rank[c] \in Nat
        BY <4>1 DEF Subtrees
      <4>3. c \notin Bad
        <5> HIDE DEF Bad
        <5> QED BY <2>2, <2>3, <4>1, <4>2
      <4> QED BY <4>1, <4>3
    <3> QED BY <3>1, <3>2
  <2>5. all[t[k].left] = sub[t[k].left] /\ all[t[k].right] = sub[t[k].right]
    BY <2>4
  <2>6. sub[k] = {k} \union sub[t[k].left] \union sub[t[k].right]
    BY <2>3 DEF Subtrees
  <2> HIDE DEF Bad
  <2> QED BY <2>3, <2>5, <2>6
<1> QED BY <1>1 DEF Subtrees

-----------------------------------------------------------------------------
(* A node with one child at most is taken out.                                *)
\* remove_tree_node, a node with at most one child: its child takes its place, and
\* no other pointer changes.
LEMMA SpliceIs ==
    ASSUME NEW t, NEW sub, NEW rank, Links(t), Subtrees(t, sub, rank),
           NEW p \in DOMAIN t \ {Root}, Null \in {t[p].left, t[p].right}
    PROVE  LET c == IF t[p].left = Null THEN t[p].right ELSE t[p].left
               s == Splice(t, p)
           IN  /\ s = [n \in DOMAIN t \ {p} |-> s[n]]
               /\ \A n \in DOMAIN t \ {p} :
                    s[n] = [left |-> IF t[n].left = p THEN c ELSE t[n].left,
                            right |-> IF t[n].right = p THEN c ELSE t[n].right,
                            parent |-> IF n = c THEN t[p].parent ELSE t[n].parent]
<1> DEFINE c == IF t[p].left = Null THEN t[p].right ELSE t[p].left
           up == t[p].parent
           s == Splice(t, p)
           side == IF t[up].right = p THEN [t EXCEPT ![up].right = c]
                                      ELSE [t EXCEPT ![up].left = c]
           r == IF c = Null THEN side ELSE [side EXCEPT ![c].parent = up]
<1>1. up \in DOMAIN t /\ p \in {t[up].left, t[up].right} /\ p # Null
  BY DEF Links
<1>2. up # p /\ p \in sub[up] /\ rank[p] < rank[up] /\ p \in sub[p] /\ up \notin sub[p]
  BY <1>1, ChildFacts
<1>3. c # Null => c \in DOMAIN t /\ c # p /\ c # up /\ c \in sub[p] /\ t[c].parent = p
  BY <1>2, ChildFacts
<1>4. \A n \in DOMAIN t : (t[n].left = p => n = up) /\ (t[n].right = p => n = up)
  BY <1>1 DEF Links
<1>5. ~ (t[up].left = p /\ t[up].right = p)
  BY <1>1, <1>2 DEF Subtrees
<1>6. s = [n \in DOMAIN r \ {p} |-> r[n]]
  BY DEF Splice, Replace, Remove, Restrict
<1>7. t = [n \in DOMAIN t |-> t[n]] /\ \A n \in DOMAIN t : IsNode(t[n])
  BY DEF Links
<1> HIDE DEF c, up
<1>8. /\ side = [n \in DOMAIN t |-> side[n]]
      /\ \A n \in DOMAIN t : side[n] = [left |-> IF t[n].left = p THEN c ELSE t[n].left,
                                        right |-> IF t[n].right = p THEN c ELSE t[n].right,
                                        parent |-> t[n].parent]
  <2>1. CASE t[up].right = p
    BY <1>1, <1>4, <1>5, <1>7, <2>1 DEF IsNode
  <2>2. CASE t[up].right # p
    BY <1>1, <1>4, <1>5, <1>7, <2>2 DEF IsNode
  <2> QED BY <2>1, <2>2
<1> HIDE DEF side
<1>9. /\ r = [n \in DOMAIN t |-> r[n]]
      /\ \A n \in DOMAIN t : r[n] = [left |-> side[n].left, right |-> side[n].right,
                                     parent |-> IF n = c THEN up ELSE t[n].parent]
  <2>1. Null \notin DOMAIN t
    BY DEF Links
  <2>2. CASE c = Null
    BY <1>8, <2>1, <2>2
  <2>3. CASE c # Null
    BY <1>3, <1>8, <2>3
  <2> QED BY <2>2, <2>3
<1> HIDE DEF r
<1>10. \A n \in DOMAIN t \ {p} :
         s[n] = [left |-> IF t[n].left = p THEN c ELSE t[n].left,
                 right |-> IF t[n].right = p THEN c ELSE t[n].right,
                 parent |-> IF n = c THEN up ELSE t[n].parent]
  BY <1>6, <1>8, <1>9
<1>11. s = [n \in DOMAIN t \ {p} |-> s[n]]
  BY <1>6, <1>9
<1> QED BY <1>10, <1>11 DEF c, up

\* Below a node without p.
Without(below, sub, t, p) == \A n \in (DOMAIN t \ {p}) \union {Null} : below[n] = sub[n] \ {p}

\* remove_tree_node, a node with at most one child: the tree without it is a
\* tree, and below every other node are the nodes that were, without it.
LEMMA SpliceTree ==
    ASSUME NEW t, NEW size, NEW sub, NEW rank, Tree(t, size, sub, rank),
           NEW p \in DOMAIN t \ {Root}, Null \in {t[p].left, t[p].right},
           NEW below, Without(below, sub, t, p)
    PROVE  /\ DOMAIN Splice(t, p) = DOMAIN t \ {p}
           /\ Tree(Splice(t, p), size, below, rank)
           /\ \A n \in DOMAIN t \ {p} :
                /\ Splice(t, p)[n].left \in (DOMAIN t \ {p}) \union {Null}
                /\ sub[Splice(t, p)[n].left] \ {p} = sub[t[n].left] \ {p}
                /\ Splice(t, p)[n].right \in (DOMAIN t \ {p}) \union {Null}
                /\ sub[Splice(t, p)[n].right] \ {p} = sub[t[n].right] \ {p}
<1> DEFINE c == IF t[p].left = Null THEN t[p].right ELSE t[p].left
           up == t[p].parent
           s == Splice(t, p)
           D == DOMAIN t \ {p}
<1> USE DEF Tree, Without
<1>1. up \in DOMAIN t /\ p \in {t[up].left, t[up].right} /\ p # Null
  BY DEF Links
<1>2. up # p /\ p \in sub[up] /\ rank[p] < rank[up] /\ p \in sub[p] /\ up \notin sub[p]
  BY <1>1, ChildFacts
<1>3. c # Null => c \in DOMAIN t /\ c # p /\ c # up /\ c \in sub[p] /\ t[c].parent = p /\ p \notin sub[c] /\ c # Root
  BY <1>2, ChildFacts
<1>4. \A n \in DOMAIN t : (t[n].left = p => n = up) /\ (t[n].right = p => n = up)
  BY <1>1 DEF Links
<1>5. ~ (t[up].left = p /\ t[up].right = p)
  BY <1>1, <1>2 DEF Subtrees
<1>6. /\ s = [n \in D |-> s[n]]
      /\ \A n \in D :
            s[n] = [left |-> IF t[n].left = p THEN c ELSE t[n].left,
                    right |-> IF t[n].right = p THEN c ELSE t[n].right,
                    parent |-> IF n = c THEN up ELSE t[n].parent]
  <2>1. Links(t) /\ Subtrees(t, sub, rank)
    OBVIOUS
  <2>2. p \in DOMAIN t \ {Root} /\ Null \in {t[p].left, t[p].right}
    OBVIOUS
  <2> HIDE DEF Tree
  <2> QED BY ONLY <2>1, <2>2, SpliceIs
<1>7. sub[p] = {p} \union sub[c] /\ p \notin sub[c]
  <2>1. sub[p] = {p} \union sub[t[p].left] \union sub[t[p].right] /\ sub[Null] = {}
    BY DEF Subtrees
  <2> QED BY <1>3, <2>1
<1> HIDE DEF s, c, up
<1>8. Links(s)
  <2>1. DOMAIN s = D /\ Root \in D /\ Null \notin D
    BY <1>6 DEF Links
  <2>2. s[Root].left = Null /\ s[Root].parent = Null
    <3>1. t[Root].left = Null /\ t[Root].parent = Null /\ Root \in D
      BY DEF Links
    <3>2. Root # c /\ p # Null
      BY <1>1, <1>3, RootIsNoAddress
    <3>3. s[Root].left = (IF t[Root].left = p THEN c ELSE t[Root].left)
          /\ s[Root].parent = (IF Root = c THEN up ELSE t[Root].parent)
      BY <1>6, <3>1
    <3> QED BY <3>1, <3>2, <3>3
  <2>3. ASSUME NEW n \in D
        PROVE  /\ IsNode(s[n])
               /\ s[n].left \in (D \ {Root}) \union {Null}
               /\ s[n].right \in (D \ {Root}) \union {Null}
               /\ s[n].left # Null => s[s[n].left].parent = n
               /\ s[n].right # Null => s[s[n].right].parent = n
    <3>1. /\ t[n].left \in (DOMAIN t \ {Root}) \union {Null}
          /\ t[n].right \in (DOMAIN t \ {Root}) \union {Null}
          /\ t[n].left # Null => t[t[n].left].parent = n
          /\ t[n].right # Null => t[t[n].right].parent = n
      BY DEF Links
    <3>2. n # up => t[n].left # p /\ t[n].right # p
      BY <1>4
    <3>3. IsNode(s[n])
      BY <1>6 DEF IsNode
    <3> HIDE DEF D
    <3>4. ASSUME NEW x \in {t[n].left, t[n].right}, x # Null, x # p
          PROVE  x \in D \ {Root} /\ s[x].parent = n
      <4>1. x \in D \ {Root} /\ t[x].parent = n
        BY <3>1, <3>4 DEF D
      <4>2. x # c
        BY <1>3, <3>4, <4>1 DEF D
      <4> QED BY <1>6, <4>1, <4>2
    <3>5. c # Null => c \in D \ {Root} /\ s[c].parent = up
      BY <1>3, <1>6 DEF D
    <3>6. s[n].left = (IF t[n].left = p THEN c ELSE t[n].left)
          /\ s[n].right = (IF t[n].right = p THEN c ELSE t[n].right)
      BY <1>6
    <3> QED BY <1>4, <3>2, <3>3, <3>4, <3>5, <3>6 DEF D
  <2>4. ASSUME NEW m \in D \ {Root}
        PROVE  s[m].parent \in D /\ m \in {s[s[m].parent].left, s[s[m].parent].right}
    <3>1. t[m].parent \in DOMAIN t /\ m \in {t[t[m].parent].left, t[t[m].parent].right}
      BY DEF Links
    <3>2. CASE m = c
      <4>1. s[m].parent = up /\ up \in D
        BY <1>1, <1>2, <1>6, <3>2
      <4> QED BY <1>1, <1>6, <3>2, <4>1
    <3>3. CASE m # c
      <4>1. t[m].parent # p
        <5>1. p \in DOMAIN t
          OBVIOUS
        <5>2. m # Null
          BY DEF Links
        <5>3. t[m].parent = p => m \in {t[p].left, t[p].right}
          BY <3>1
        <5> QED BY <3>3, <5>2, <5>3 DEF c
      <4>2. s[m].parent = t[m].parent /\ t[m].parent \in D
        BY <1>6, <3>1, <3>3, <4>1
      <4> QED BY <1>6, <3>1, <4>2
    <3> QED BY <3>2, <3>3
  <2> QED BY <1>6, <2>1, <2>2, <2>3, <2>4 DEF Links
<1>9. ASSUME NEW n \in D
      PROVE /\ below[s[n].left] = sub[t[n].left] \ {p} /\ below[s[n].right] = sub[t[n].right] \ {p}
            /\ s[n].left \in D \union {Null} /\ s[n].right \in D \union {Null}
            /\ sub[s[n].left] \ {p} = sub[t[n].left] \ {p} /\ sub[s[n].right] \ {p} = sub[t[n].right] \ {p}
  <2>1. s[n].left \in D \union {Null} /\ s[n].right \in D \union {Null}
    BY <1>6, <1>8 DEF Links
  <2>2. below[s[n].left] = sub[s[n].left] \ {p} /\ below[s[n].right] = sub[s[n].right] \ {p}
    BY <2>1
  <2>3. /\ s[n].left = (IF t[n].left = p THEN c ELSE t[n].left)
        /\ s[n].right = (IF t[n].right = p THEN c ELSE t[n].right)
    BY <1>6
  <2> QED BY <1>7, <2>1, <2>2, <2>3
<1>10. DOMAIN s = D
  BY <1>6
<1>11. below[Null] = {} /\ \A n \in D : below[n] = sub[n] \ {p}
  BY DEF Subtrees
<1>12. Subtrees(s, below, rank)
  <2>1. below[Root] = DOMAIN s
    BY <1>8, <1>10, <1>11 DEF Links, Subtrees
  <2>2. ASSUME NEW n \in D
        PROVE  /\ below[n] = {n} \union below[s[n].left] \union below[s[n].right]
               /\ below[n] \subseteq D
               /\ below[s[n].left] \intersect below[s[n].right] = {}
               /\ rank[n] \in Nat
               /\ \A m \in below[s[n].left] \union below[s[n].right] : rank[m] < rank[n]
    <3>1. /\ sub[n] = {n} \union sub[t[n].left] \union sub[t[n].right]
          /\ sub[n] \subseteq DOMAIN t
          /\ sub[t[n].left] \intersect sub[t[n].right] = {}
          /\ rank[n] \in Nat
          /\ \A m \in sub[t[n].left] \union sub[t[n].right] : rank[m] < rank[n]
      BY DEF Subtrees
    <3> QED BY <1>9, <1>11, <3>1
  <2> QED BY <1>10, <1>11, <2>1, <2>2 DEF Subtrees
<1>13. Sorted(s, size, below)
  BY <1>9, <1>10 DEF Sorted
<1> QED BY <1>8, <1>9, <1>10, <1>12, <1>13 DEF s

-----------------------------------------------------------------------------
(* The largest node of a subtree, which has none to its right.                *)
\* The loop to the right ends at the largest node of the subtree.
LEMMA RightmostIs ==
    ASSUME NEW t, NEW size, NEW sub, NEW rank, Tree(t, size, sub, rank), NEW a \in DOMAIN t
    PROVE  /\ Rightmost(t, a) \in sub[a]
           /\ t[Rightmost(t, a)].right = Null
           /\ \A m \in sub[a] : size[m] <= size[Rightmost(t, a)]
<1> DEFINE D == DOMAIN t
           Runs(f) == f = [b \in D |-> IF t[b].right = Null THEN b ELSE f[t[b].right]]
           g == CHOOSE f : Runs(f)
           Bad == {b \in D : ~ (/\ g[b] \in sub[b] /\ t[g[b]].right = Null
                                /\ \A m \in sub[b] : size[m] <= size[g[b]])}
<1>1. \E f : Runs(f)
  <2> DEFINE stop == {b \in D : t[b].right = Null}
             to == [b \in D |-> t[b].right]
             val == [b \in D |-> b]
  <2>1. stop \in SUBSET D /\ \A b \in D \ stop : to[b] \in D
    BY DEF Tree, Links
  <2> HIDE DEF stop, to, val, D
  <2>2. PICK f : Loops(f, D, stop, to, val)
    BY <2>1, LoopEnds
  <2>3. \A b \in D : f[b] = IF t[b].right = Null THEN b ELSE f[t[b].right]
    BY <2>2 DEF stop, to, val, Loops
  <2> QED BY <2>2, <2>3 DEF Loops
<1>2. Runs(g)
  <2> HIDE DEF Runs
  <2> QED BY <1>1
<1>3. Rightmost(t, a) = g[a]
  BY DEF Rightmost
<1> HIDE DEF g
<1>4. \A b \in D : g[b] = IF t[b].right = Null THEN b ELSE g[t[b].right]
  BY <1>2
<1>5. Bad = {}
  <2> SUFFICES ASSUME Bad # {} PROVE FALSE
    OBVIOUS
  <2>1. \A b \in D : rank[b] \in Nat /\ b \in sub[b]
    BY DEF Tree, Subtrees
  <2>2. PICK b \in Bad : \A x \in Bad : rank[b] <= rank[x]
    <3>1. \A x \in Bad : rank[x] \in Nat
      BY <2>1
    <3> HIDE DEF Bad
    <3> QED BY <3>1, LeastNode
  <2>3. b \in D /\ rank[b] \in Nat
    BY <2>1
  <2>4. /\ sub[b] = {b} \union sub[t[b].left] \union sub[t[b].right]
        /\ \A m \in sub[t[b].left] : size[m] <= size[b]
        /\ \A m \in sub[t[b].right] : size[b] < size[m]
        /\ sub[b] \subseteq D /\ sub[Null] = {}
    BY <2>3 DEF Tree, Subtrees, Sorted
  <2>5. \A m \in D : size[m] \in Nat
    BY DEF Tree
  <2>6. CASE t[b].right = Null
    <3>1. g[b] = b /\ b \in sub[b]
      BY <1>4, <2>1, <2>3, <2>6
    <3>2. \A m \in sub[b] : size[m] <= size[b]
      BY <2>3, <2>4, <2>5, <2>6
    <3> QED BY <2>6, <3>1, <3>2
  <2>7. CASE t[b].right # Null
    <3> DEFINE c == t[b].right
    <3>1. c \in D /\ rank[c] < rank[b] /\ sub[c] \subseteq sub[b] /\ c \in sub[c]
      <4> HIDE DEF Bad
      <4> QED BY <2>3, <2>7, ChildFacts DEF Tree
    <3>2. c \notin Bad
      <4>1. rank[c] \in Nat
        BY <2>1, <3>1
      <4> HIDE DEF Bad
      <4> QED BY <2>2, <2>3, <3>1, <4>1
    <3>3. g[b] = g[c] /\ g[c] \in sub[c] /\ t[g[c]].right = Null /\ \A m \in sub[c] : size[m] <= size[g[c]]
      BY <1>4, <2>3, <2>7, <3>1, <3>2
    <3>4. size[b] < size[g[c]] /\ g[c] \in D
      BY <2>4, <3>1, <3>3
    <3>5. ASSUME NEW m \in sub[b] PROVE size[m] <= size[g[c]]
      <4>1. size[m] \in Nat /\ size[b] \in Nat /\ size[g[c]] \in Nat
        BY <2>3, <2>4, <2>5, <3>4
      <4>2. m \in sub[c] \/ size[m] <= size[b]
        BY <2>4, <4>1
      <4> QED BY <3>3, <3>4, <4>1, <4>2
    <3> QED BY <3>1, <3>3, <3>5
  <2> QED BY <2>6, <2>7
<1> QED BY <1>3, <1>5

-----------------------------------------------------------------------------
(* Nodes get other addresses: g leads from the old ones to the new, k back.   *)
Renames(t, u, g, k) ==
    /\ \A n \in DOMAIN t \union {Null} : k[g[n]] = n
    /\ g[Null] = Null /\ g[Root] = Root
    /\ u = [x \in DOMAIN u |-> u[x]]
    /\ DOMAIN u = {g[n] : n \in DOMAIN t}
    /\ \A n \in DOMAIN t : u[g[n]] = [left |-> g[t[n].left], right |-> g[t[n].right],
                                       parent |-> g[t[n].parent]]

\* What is below a node, and its rank, go with it.
Carries(below, level, t, sub, rank, g) ==
    /\ \A n \in DOMAIN t \union {Null} : below[g[n]] = {g[m] : m \in sub[n]}
    /\ \A n \in DOMAIN t : level[g[n]] = rank[n]

\* A tree whose nodes get other addresses, all pointers with them, is a tree.
LEMMA RenamedTree ==
    ASSUME NEW t, NEW sub, NEW rank, Links(t), Subtrees(t, sub, rank),
           NEW g, NEW k, NEW u, Renames(t, u, g, k),
           NEW below, NEW level, Carries(below, level, t, sub, rank, g)
    PROVE  Links(u) /\ Subtrees(u, below, level)
<1> DEFINE D == DOMAIN t \union {Null}
           E == DOMAIN u
<1> USE DEF Carries
<1>1. \A n \in DOMAIN t : /\ n \in D /\ t[n].left \in D /\ t[n].right \in D /\ t[n].parent \in D
                          /\ IsNode(t[n]) /\ g[n] \in E
  BY DEF Links, Renames
<1>2. \A n \in D : k[g[n]] = n
  BY DEF Renames
<1>a. \A m, n \in D : g[m] = g[n] => m = n
  BY <1>2
<1>b. \A x \in E : \E n \in DOMAIN t : x = g[n]
  BY DEF Renames
<1>3. \A n \in DOMAIN t : /\ IsNode(u[g[n]]) /\ u[g[n]].left = g[t[n].left]
                          /\ u[g[n]].right = g[t[n].right] /\ u[g[n]].parent = g[t[n].parent]
  <2> SUFFICES ASSUME NEW n \in DOMAIN t
               PROVE  /\ IsNode(u[g[n]]) /\ u[g[n]].left = g[t[n].left]
                      /\ u[g[n]].right = g[t[n].right] /\ u[g[n]].parent = g[t[n].parent]
    OBVIOUS
  <2>1. u[g[n]] = [left |-> g[t[n].left], right |-> g[t[n].right], parent |-> g[t[n].parent]]
    BY DEF Renames
  <2> QED BY <2>1 DEF IsNode
<1>4. g[Null] = Null /\ g[Root] = Root /\ k[Null] = Null /\ k[Root] = Root
      /\ Null \in D /\ Root \in D /\ Root \in DOMAIN t
  BY DEF Links, Renames
<1>c. u = [x \in E |-> u[x]]
  BY DEF Renames
<1> HIDE DEF E, D
<1>5. Links(u)
  <2>1. Root \in E /\ Null \notin E
    <3>1. Null \notin DOMAIN t
      BY DEF Links
    <3> QED BY <1>1, <1>2, <1>4, <1>b, <3>1
  <2>2. u[Root].left = Null /\ u[Root].parent = Null
    <3>1. t[Root].left = Null /\ t[Root].parent = Null
      BY DEF Links
    <3> QED BY <1>3, <1>4, <3>1
  <2>3. ASSUME NEW x \in E
        PROVE  /\ IsNode(u[x])
               /\ u[x].left \in (E \ {Root}) \union {Null}
               /\ u[x].right \in (E \ {Root}) \union {Null}
               /\ u[x].left # Null => u[u[x].left].parent = x
               /\ u[x].right # Null => u[u[x].right].parent = x
    <3>1. PICK n \in DOMAIN t : x = g[n]
      BY <1>b
    <3>2. IsNode(u[x]) /\ u[x].left = g[t[n].left] /\ u[x].right = g[t[n].right]
      BY <1>3, <3>1
    <3>3. ASSUME NEW c \in {t[n].left, t[n].right}
          PROVE  g[c] \in (E \ {Root}) \union {Null} /\ (g[c] # Null => u[g[c]].parent = x)
      <4>1. CASE c = Null
        BY <1>4, <4>1
      <4>2. CASE c # Null
        <5>1. c \in DOMAIN t \ {Root} /\ t[c].parent = n
          BY <4>2 DEF Links
        <5>2. g[c] # Root /\ g[c] \in E
          BY <1>1, <1>a, <1>4, <5>1
        <5>3. u[g[c]].parent = g[n]
          BY <1>3, <5>1
        <5> QED BY <3>1, <5>2, <5>3
      <4> QED BY <4>1, <4>2
    <3> QED BY <3>2, <3>3
  <2>4. ASSUME NEW x \in E \ {Root}
        PROVE  u[x].parent \in E /\ x \in {u[u[x].parent].left, u[u[x].parent].right}
    <3>1. PICK n \in DOMAIN t : x = g[n]
      BY <1>b
    <3>2. n # Root
      BY <1>4, <3>1
    <3>3. t[n].parent \in DOMAIN t /\ n \in {t[t[n].parent].left, t[t[n].parent].right}
      BY <3>2 DEF Links
    <3>4. u[x].parent = g[t[n].parent] /\ g[t[n].parent] \in E
      BY <1>1, <1>3, <3>1, <3>3
    <3>5. u[g[t[n].parent]].left = g[t[t[n].parent].left]
          /\ u[g[t[n].parent]].right = g[t[t[n].parent].right]
      BY <1>3, <3>3
    <3> QED BY <3>1, <3>3, <3>4, <3>5
  <2> QED BY <1>c, <2>1, <2>2, <2>3, <2>4 DEF Links, E
<1>6. ASSUME NEW n \in DOMAIN t
      PROVE  /\ below[g[n]] = {g[m] : m \in sub[n]} /\ level[g[n]] = rank[n]
             /\ below[u[g[n]].left] = {g[m] : m \in sub[t[n].left]}
             /\ below[u[g[n]].right] = {g[m] : m \in sub[t[n].right]}
  <2>1. u[g[n]].left = g[t[n].left] /\ u[g[n]].right = g[t[n].right] /\ g[n] \in E
    BY <1>1, <1>3
  <2> QED BY <1>1, <2>1 DEF D
<1>7. below[Null] = {} /\ below[Root] = E
  <2>1. sub[Null] = {} /\ sub[Root] = DOMAIN t
    BY DEF Subtrees
  <2>2. below[Root] = {g[m] : m \in DOMAIN t} /\ below[Null] = {g[m] : m \in {}}
    BY <1>4, <2>1
  <2> QED BY <2>2 DEF Renames, E
<1>8. ASSUME NEW x \in E
      PROVE  /\ below[x] = {x} \union below[u[x].left] \union below[u[x].right]
             /\ below[x] \subseteq E
             /\ below[u[x].left] \intersect below[u[x].right] = {}
             /\ level[x] \in Nat
             /\ \A y \in below[u[x].left] \union below[u[x].right] : level[y] < level[x]
  <2>1. PICK n \in DOMAIN t : x = g[n]
    BY <1>b
  <2>2. /\ sub[n] = {n} \union sub[t[n].left] \union sub[t[n].right]
        /\ sub[n] \subseteq DOMAIN t
        /\ sub[t[n].left] \intersect sub[t[n].right] = {}
        /\ rank[n] \in Nat
        /\ \A m \in sub[t[n].left] \union sub[t[n].right] : rank[m] < rank[n]
    BY DEF Subtrees
  <2>3. \A m \in sub[n] : m \in DOMAIN t /\ g[m] \in E /\ level[g[m]] = rank[m]
    BY <1>1, <1>6, <2>2
  <2>4. /\ below[x] = {g[m] : m \in sub[n]} /\ level[x] = rank[n]
        /\ below[u[x].left] = {g[m] : m \in sub[t[n].left]}
        /\ below[u[x].right] = {g[m] : m \in sub[t[n].right]}
    BY <1>6, <2>1
  <2>5. below[x] = {x} \union below[u[x].left] \union below[u[x].right]
    BY <2>1, <2>2, <2>4
  <2>6. below[u[x].left] \intersect below[u[x].right] = {}
    <3>1. \A m \in sub[n] : m \in D
      BY <1>1, <2>3
    <3> QED BY <1>a, <2>2, <2>4, <3>1
  <2>7. \A y \in below[u[x].left] \union below[u[x].right] : level[y] < level[x]
    BY <2>2, <2>3, <2>4
  <2> QED BY <2>2, <2>3, <2>4, <2>5, <2>6, <2>7
<1> QED BY <1>5, <1>7, <1>8 DEF Subtrees, E

\* A tree of chunks of these sizes.
IsTree(t, size) == \E sub, rank : Tree(t, size, sub, rank)

-----------------------------------------------------------------------------
(* Taking out a node.                                                         *)
\* remove_tree_node: the tree is in order without the node.
LEMMA RemoveTree ==
    ASSUME NEW t, NEW size, IsTree(t, size), NEW p \in DOMAIN t \ {Root}
    PROVE  DOMAIN RemoveTreeNode(t, p) = DOMAIN t \ {p} /\ IsTree(RemoveTreeNode(t, p), size)
<1>1. PICK sub, rank : Tree(t, size, sub, rank)
  BY DEF IsTree
<1>2. CASE Null \in {t[p].left, t[p].right}
  <2> DEFINE below == [n \in (DOMAIN t \ {p}) \union {Null} |-> sub[n] \ {p}]
  <2>1. Without(below, sub, t, p)
    BY DEF Without
  <2> HIDE DEF below
  <2>2. DOMAIN Splice(t, p) = DOMAIN t \ {p} /\ Tree(Splice(t, p), size, below, rank)
    <3> DEFINE q == p
    <3>1. q \in DOMAIN t \ {Root} /\ Null \in {t[q].left, t[q].right} /\ Without(below, sub, t, q)
      BY <1>2, <2>1
    <3>2. q = p
      OBVIOUS
    <3> HIDE DEF q
    <3>3. DOMAIN Splice(t, q) = DOMAIN t \ {q} /\ Tree(Splice(t, q), size, below, rank)
      BY <1>1, <3>1, SpliceTree
    <3> QED BY <3>2, <3>3
  <2>3. RemoveTreeNode(t, p) = Splice(t, p)
    BY <1>2 DEF RemoveTreeNode
  <2> QED BY <2>2, <2>3 DEF IsTree
<1>3. CASE Null \notin {t[p].left, t[p].right}
  <2> DEFINE a == t[p].left
             q == Rightmost(t, a)
             s == Splice(t, q)
             u == Substitute(s, p, q)
             D == DOMAIN t \ {q}
             below == [n \in D \union {Null} |-> sub[n] \ {q}]
             g == [n \in D \union {Null} |-> IF n = p THEN q ELSE n]
             k == [x \in DOMAIN t \union {Null} |-> IF x = q THEN p ELSE x]
             all == [x \in DOMAIN t \union {Null} |-> {g[m] : m \in below[k[x]]}]
             level == [x \in DOMAIN t |-> rank[k[x]]]
  <2>1. /\ a \in DOMAIN t /\ a \in sub[a] /\ sub[a] \subseteq sub[p] /\ p \notin sub[a] /\ a # Root
        /\ \A m \in sub[a] : m \in DOMAIN t
    <3>1. a \in DOMAIN t /\ a \in sub[a] /\ sub[a] \subseteq sub[p] /\ p \notin sub[a] /\ a # Root
      BY <1>1, <1>3, ChildFacts DEF Tree
    <3> QED BY <1>1, <3>1 DEF Tree, Subtrees
  <2>2. Root \notin sub[a]
    <3>1. Root \in sub[a] => sub[Root] \subseteq sub[a]
      BY <1>1, <2>1, BelowBelow DEF Tree
    <3> QED BY <1>1, <2>1, <3>1 DEF Tree, Subtrees
  <2>3. q \in sub[a] /\ t[q].right = Null /\ \A m \in sub[a] : size[m] <= size[q]
    BY <1>1, <2>1, RightmostIs
  <2>4. q \in DOMAIN t \ {Root} /\ q # p /\ Null \in {t[q].left, t[q].right}
    BY <2>1, <2>2, <2>3
  <2>5. /\ DOMAIN s = D /\ Tree(s, size, below, rank)
        /\ \A n \in D :
             /\ s[n].left \in D \union {Null} /\ sub[s[n].left] \ {q} = sub[t[n].left] \ {q}
             /\ s[n].right \in D \union {Null} /\ sub[s[n].right] \ {q} = sub[t[n].right] \ {q}
    <3>1. Without(below, sub, t, q)
      BY DEF Without
    <3> HIDE DEF q, below
    <3> QED BY <1>1, <2>4, <3>1, SpliceTree
  <2>6. p \in D /\ Root \in D /\ Null \notin DOMAIN t /\ q # Null /\ p # Null
    BY <1>1, <2>4 DEF Tree, Links
  <2> HIDE DEF q, s
  <2>7. Links(s) /\ Subtrees(s, below, rank)
    BY <2>5 DEF Tree
  <2>8. Renames(s, u, g, k)
    <3>1. \A n \in D \union {Null} : k[g[n]] = n
      BY <2>4, <2>6
    <3>2. g[Null] = Null /\ g[Root] = Root
      BY <2>6
    <3>3. DOMAIN u = {g[n] : n \in D} /\ u = [x \in DOMAIN u |-> u[x]]
      <4>1. DOMAIN u = (D \ {p}) \union {q} /\ u = [x \in DOMAIN u |-> u[x]]
        BY <2>5 DEF Substitute
      <4>2. {g[n] : n \in D} = (D \ {p}) \union {q}
        BY <2>6
      <4> QED BY <4>1, <4>2
    <3>4. ASSUME NEW n \in D
          PROVE  u[g[n]] = [left |-> g[s[n].left], right |-> g[s[n].right], parent |-> g[s[n].parent]]
      <4>1. /\ s[n] = [left |-> s[n].left, right |-> s[n].right, parent |-> s[n].parent]
            /\ s[n].left \in D \union {Null} /\ s[n].right \in D \union {Null}
            /\ s[n].parent \in D \union {Null}
        <5>1. IsNode(s[n]) /\ s[n].parent \in D \union {Null}
          BY <2>5, <2>7 DEF Links
        <5> QED BY <2>5, <5>1 DEF IsNode
      <4>2. g[n] \in (D \ {p}) \union {q}
        BY <2>6
      <4>3. CASE n = p
        <5>1. u[g[n]] = s[p]
          BY <2>5, <2>6, <4>2, <4>3 DEF Substitute
        <5>2. s[p].left # p /\ s[p].right # p /\ s[p].parent # p
          <6>1. ASSUME NEW c \in {s[p].left, s[p].right} PROVE c # p
            BY <2>5, <2>6, <2>7, <6>1, ChildFacts
          <6>2. s[p].parent # p
            <7>1. s[p].parent \in D /\ p \in {s[s[p].parent].left, s[s[p].parent].right}
              BY <2>4, <2>5, <2>6, <2>7 DEF Links
            <7> QED BY <2>5, <2>6, <2>7, <6>1, <7>1
          <6> QED BY <6>1, <6>2
        <5> QED BY <4>1, <4>3, <5>1, <5>2
      <4>4. CASE n # p
        <5>1. g[n] = n /\ n # q /\ n \in D \ {p}
          BY <4>4
        <5>2. u[n] = [left |-> IF s[n].left = p THEN q ELSE s[n].left,
                      right |-> IF s[n].right = p THEN q ELSE s[n].right,
                      parent |-> IF s[n].parent = p THEN q ELSE s[n].parent]
          BY <2>5, <5>1 DEF Substitute
        <5> QED BY <4>1, <5>1, <5>2
      <4> QED BY <4>3, <4>4
    <3> HIDE DEF g, k, u
    <3> QED BY <2>5, <3>1, <3>2, <3>3, <3>4 DEF Renames
  <2>9. DOMAIN u = DOMAIN t \ {p}
    BY <2>4, <2>5 DEF Substitute
  <2>a. ASSUME NEW n \in D \union {Null}
        PROVE  k[g[n]] = n /\ g[n] \in DOMAIN t \union {Null} /\ (n \in D => g[n] \in DOMAIN t)
    BY <2>4, <2>6
  <2> HIDE DEF u, g, k
  <2>b. \A n \in D \union {Null} : all[g[n]] = {g[m] : m \in below[n]}
    BY <2>a
  <2>c. \A n \in D : level[g[n]] = rank[n]
    BY <2>a
  <2> HIDE DEF all, level
  <2>10. Links(u) /\ Subtrees(u, all, level)
    <3>1. Carries(all, level, s, below, rank, g)
      BY <2>5, <2>b, <2>c DEF Carries
    <3> QED BY <2>7, <2>8, <3>1, RenamedTree
  <2>11. ASSUME NEW n \in D
         PROVE  /\ \A m \in below[s[n].left] : size[g[m]] <= size[g[n]]
                /\ \A m \in below[s[n].right] : size[g[n]] < size[g[m]]
    <3>1. /\ below[s[n].left] = sub[t[n].left] \ {q} /\ below[s[n].right] = sub[t[n].right] \ {q}
      BY <2>5
    <3>2. /\ \A m \in below[s[n].left] : size[m] <= size[n]
          /\ \A m \in below[s[n].right] : size[n] < size[m]
      BY <2>5 DEF Tree, Sorted
    <3>3. /\ \A m \in below[s[n].left] : m \in D
          /\ \A m \in below[s[n].right] : m \in D
      <4>1. below[n] = {n} \union below[s[n].left] \union below[s[n].right] /\ below[n] \subseteq D
        BY <2>5, <2>7 DEF Subtrees
      <4> QED BY <4>1
    <3>4. \A m \in D : size[m] \in Nat /\ g[m] = (IF m = p THEN q ELSE m)
      BY <1>1 DEF Tree, g
    <3>5. size[q] \in Nat /\ size[q] <= size[p] /\ p \notin sub[t[p].left] /\ p \notin sub[t[p].right]
      <4>1. size[q] <= size[p] /\ size[q] \in Nat
        BY <1>1, <2>3, <2>4 DEF Tree, Sorted
      <4>2. \A m \in sub[t[p].left] \union sub[t[p].right] : rank[m] < rank[p]
        BY <1>1 DEF Tree, Subtrees
      <4>3. rank[p] \in Nat
        BY <1>1 DEF Tree, Subtrees
      <4> QED BY <4>1, <4>2, <4>3
    <3>6. p \in sub[t[n].right] => size[n] < size[q]
      <4>1. p \in sub[t[n].right] => t[n].right # Null
        BY <1>1 DEF Tree, Subtrees
      <4>2. p \in sub[t[n].right] => sub[p] \subseteq sub[t[n].right]
        <5>1. t[n].right # Null => t[n].right \in DOMAIN t
          BY <1>1 DEF Tree, Links
        <5> QED BY <1>1, <4>1, <5>1, BelowBelow DEF Tree
      <4>3. q \in sub[p]
        BY <2>1, <2>3
      <4> QED BY <1>1, <4>2, <4>3 DEF Tree, Sorted
    <3>7. ASSUME NEW m \in below[s[n].left] PROVE size[g[m]] <= size[g[n]]
      <4>1. CASE m = p
        <5>1. n # p
          BY <3>1, <3>5, <3>7, <4>1
        <5>2. size[p] <= size[n] /\ size[p] \in Nat /\ size[n] \in Nat /\ g[m] = q /\ g[n] = n
          BY <2>6, <3>2, <3>4, <4>1, <5>1
        <5> QED BY <3>5, <5>2
      <4>2. CASE m # p /\ n = p
        BY <2>3, <3>1, <3>3, <3>4, <4>2
      <4>3. CASE m # p /\ n # p
        BY <3>2, <3>3, <3>4, <4>3
      <4> QED BY <4>1, <4>2, <4>3
    <3>8. ASSUME NEW m \in below[s[n].right] PROVE size[g[n]] < size[g[m]]
      <4>1. CASE m = p
        <5>1. n # p
          BY <3>1, <3>5, <3>8, <4>1
        <5> QED BY <3>1, <3>3, <3>4, <3>6, <4>1, <5>1
      <4>2. CASE m # p /\ n = p
        <5>1. size[p] < size[m] /\ size[p] \in Nat /\ size[m] \in Nat /\ g[m] = m /\ g[n] = q
          BY <2>6, <3>2, <3>3, <3>4, <4>2
        <5> QED BY <3>5, <5>1
      <4>3. CASE m # p /\ n # p
        BY <3>2, <3>3, <3>4, <4>3
      <4> QED BY <4>1, <4>2, <4>3
    <3> QED BY <3>7, <3>8
  <2>12. Sorted(u, size, all)
    <3> SUFFICES ASSUME NEW x \in DOMAIN u
                 PROVE  /\ \A y \in all[u[x].left] : size[y] <= size[x]
                        /\ \A y \in all[u[x].right] : size[x] < size[y]
      BY DEF Sorted
    <3>1. PICK n \in D : x = g[n]
      BY <2>5, <2>8 DEF Renames
    <3>2. u[g[n]] = [left |-> g[s[n].left], right |-> g[s[n].right], parent |-> g[s[n].parent]]
      BY <2>5, <2>8 DEF Renames
    <3>3. u[x].left = g[s[n].left] /\ u[x].right = g[s[n].right]
      BY <3>1, <3>2
    <3>5. all[u[x].left] = {g[m] : m \in below[s[n].left]} /\ all[u[x].right] = {g[m] : m \in below[s[n].right]}
      BY <2>5, <2>b, <3>3
    <3> HIDE DEF below
    <3> QED BY <2>11, <3>1, <3>5
  <2>13. \A n \in DOMAIN u : size[n] \in Nat
    BY <1>1, <2>9 DEF Tree
  <2>14. Tree(u, size, all, level)
    <3> QED BY <2>10, <2>12, <2>13 DEF Tree
  <2>15. RemoveTreeNode(t, p) = u
    BY <1>3 DEF RemoveTreeNode, u, s, q
  <2> QED BY <2>9, <2>14, <2>15 DEF IsTree
<1> QED BY <1>2, <1>3

-----------------------------------------------------------------------------
(* Putting in a node a: below up, on the side its size asks for.              *)
Beside(t, goes, n) == IF n \in goes THEN t[n].right ELSE t[n].left

\* u is t with a as a leaf below up.
Hangs(t, u, a, up, goes) ==
    /\ u = [n \in DOMAIN u |-> u[n]] /\ DOMAIN u = DOMAIN t \union {a}
    /\ u[a] = [left |-> Null, right |-> Null, parent |-> up]
    /\ u[up] = IF up \in goes THEN [left |-> t[up].left, right |-> a, parent |-> t[up].parent]
                              ELSE [left |-> a, right |-> t[up].right, parent |-> t[up].parent]
    /\ \A n \in DOMAIN t \ {up} : u[n] = t[n]

\* A new leaf in a free slot, to which the way down leads from every node above
\* it, gives a tree of one more node.
LEMMA HangTree ==
    ASSUME NEW t, NEW size, NEW sub, NEW rank, Tree(t, size, sub, rank),
           NEW a, a \notin DOMAIN t, a # Null, size[a] \in Nat,
           NEW goes, Root \in goes, \A n \in DOMAIN t : n \in goes <=> size[n] < size[a],
           NEW up \in DOMAIN t, Beside(t, goes, up) = Null,
           \A n \in DOMAIN t : up \in sub[n] /\ n # up => up \in sub[Beside(t, goes, n)],
           NEW u, Hangs(t, u, a, up, goes)
    PROVE  IsTree(u, size)
<1> DEFINE D == DOMAIN t \union {a}
           all == [n \in D \union {Null} |-> IF n = a THEN {a}
                                             ELSE IF up \in sub[n] THEN sub[n] \union {a} ELSE sub[n]]
           level == [n \in D |-> IF n = a THEN 0 ELSE rank[n] + 1]
<1>1. Links(t) /\ Subtrees(t, sub, rank) /\ Sorted(t, size, sub) /\ \A n \in DOMAIN t : size[n] \in Nat
  BY DEF Tree
<1>2. /\ Root \in DOMAIN t /\ Root # a /\ Null \notin D /\ DOMAIN u = D
      /\ u[Root].left = Null /\ u[Root].parent = Null
  <2>1. Root \in DOMAIN t /\ Root # a /\ Null \notin D /\ DOMAIN u = D
        /\ t[Root].left = Null /\ t[Root].parent = Null
    BY <1>1 DEF Links, Hangs
  <2>2. CASE up = Root
    BY <2>1, <2>2 DEF Hangs
  <2>3. CASE up # Root
    BY <2>1, <2>3 DEF Hangs
  <2> QED BY <2>1, <2>2, <2>3
<1>3. /\ up \notin sub[t[up].left] /\ up \notin sub[t[up].right] /\ up \in sub[up]
  <2>1. rank[up] \in Nat /\ up \in sub[up] /\ \A m \in sub[t[up].left] \union sub[t[up].right] : rank[m] < rank[up]
    BY <1>1 DEF Subtrees
  <2> QED BY <2>1
<1>4. ASSUME NEW n \in DOMAIN t
      PROVE  /\ u[n].parent = t[n].parent /\ IsNode(u[n])
             /\ u[n].left = IF n = up /\ n \notin goes THEN a ELSE t[n].left
             /\ u[n].right = IF n = up /\ n \in goes THEN a ELSE t[n].right
             /\ t[n].left \in (DOMAIN t \ {Root}) \union {Null}
             /\ t[n].right \in (DOMAIN t \ {Root}) \union {Null}
  <2>1. IsNode(t[n])
    BY <1>1 DEF Links
  <2>2. /\ t[n].left \in (DOMAIN t \ {Root}) \union {Null}
        /\ t[n].right \in (DOMAIN t \ {Root}) \union {Null}
    BY <1>1 DEF Links
  <2>3. CASE n = up
    BY <2>2, <2>3 DEF Hangs, IsNode
  <2>4. CASE n # up
    <3>1. u[n] = t[n]
      BY <2>4 DEF Hangs
    <3> QED BY <2>1, <2>2, <2>4, <3>1
  <2> QED BY <2>3, <2>4
<1>5. u[a].left = Null /\ u[a].right = Null /\ u[a].parent = up /\ IsNode(u[a])
  BY DEF Hangs, IsNode
<1>6. Links(u)
  <2>1. u = [n \in DOMAIN u |-> u[n]]
    BY DEF Hangs
  <2>2. ASSUME NEW n \in D
        PROVE  /\ IsNode(u[n])
               /\ u[n].left \in (D \ {Root}) \union {Null}
               /\ u[n].right \in (D \ {Root}) \union {Null}
               /\ u[n].left # Null => u[u[n].left].parent = n
               /\ u[n].right # Null => u[u[n].right].parent = n
    <3>1. CASE n = a
      BY <1>5, <3>1
    <3>2. CASE n # a
      <4>1. n \in DOMAIN t
        BY <3>2
      <4>2. ASSUME NEW c \in {t[n].left, t[n].right}, c # Null
            PROVE  c \in D \ {Root} /\ u[c].parent = n
        <5>1. c \in DOMAIN t \ {Root} /\ t[c].parent = n
          BY <1>1, <4>1, <4>2 DEF Links
        <5> QED BY <1>4, <5>1
      <4> QED BY <1>2, <1>4, <1>5, <4>1, <4>2
    <3> QED BY <3>1, <3>2
  <2>3. ASSUME NEW m \in D \ {Root}
        PROVE  u[m].parent \in D /\ m \in {u[u[m].parent].left, u[u[m].parent].right}
    <3>1. CASE m = a
      BY <1>4, <1>5, <3>1
    <3>2. CASE m # a
      <4>1. m \in DOMAIN t \ {Root} /\ m # Null
        BY <1>2, <3>2
      <4>2. t[m].parent \in DOMAIN t /\ m \in {t[t[m].parent].left, t[t[m].parent].right}
        BY <1>1, <4>1 DEF Links
      <4>3. u[m].parent = t[m].parent
        BY <1>4, <4>1
      <4>4. t[m].parent = up => Beside(t, goes, up) # m
        BY <4>1
      <4> QED BY <1>4, <4>2, <4>3, <4>4 DEF Beside
    <3> QED BY <3>1, <3>2
  <2> QED BY <1>2, <2>1, <2>2, <2>3 DEF Links
<1>7. /\ all[Null] = {} /\ all[a] = {a} /\ level[a] = 0 /\ sub[Null] = {}
      /\ \A n \in DOMAIN t : all[n] = (IF up \in sub[n] THEN sub[n] \union {a} ELSE sub[n]) /\ level[n] = rank[n] + 1
  <2>1. sub[Null] = {}
    BY <1>1 DEF Subtrees
  <2> QED BY <1>2, <2>1
<1> HIDE DEF all, level
<1>8. ASSUME NEW n \in DOMAIN t
      PROVE  /\ all[u[n].left] = IF up \in sub[n] /\ n \notin goes THEN sub[t[n].left] \union {a} ELSE sub[t[n].left]
             /\ all[u[n].right] = IF up \in sub[n] /\ n \in goes THEN sub[t[n].right] \union {a} ELSE sub[t[n].right]
  <2>1. CASE n = up
    <3>1. Beside(t, goes, n) = Null
      BY <2>1
    <3>2. all[t[n].left] = sub[t[n].left] /\ all[t[n].right] = sub[t[n].right]
      BY <1>3, <1>4, <1>7, <2>1
    <3>3. n \in goes => t[n].right = Null
      BY <3>1 DEF Beside
    <3>4. n \notin goes => t[n].left = Null
      BY <3>1 DEF Beside
    <3> QED BY <1>3, <1>4, <1>7, <2>1, <3>2, <3>3, <3>4
  <2>2. CASE n # up
    <3>1. u[n].left = t[n].left /\ u[n].right = t[n].right
      BY <1>4, <2>2
    <3>2. sub[n] = {n} \union sub[t[n].left] \union sub[t[n].right] /\ sub[t[n].left] \intersect sub[t[n].right] = {}
      BY <1>1 DEF Subtrees
    <3>3. up \in sub[n] <=> up \in sub[t[n].left] \/ up \in sub[t[n].right]
      BY <2>2, <3>2
    <3>4. up \in sub[n] => up \in sub[Beside(t, goes, n)]
      BY <2>2
    <3>5. up \in sub[t[n].left] <=> up \in sub[n] /\ n \notin goes
      BY <3>2, <3>3, <3>4 DEF Beside
    <3>6. up \in sub[t[n].right] <=> up \in sub[n] /\ n \in goes
      BY <3>2, <3>3, <3>4 DEF Beside
    <3>7. ASSUME NEW c \in {t[n].left, t[n].right}
          PROVE  all[c] = IF up \in sub[c] THEN sub[c] \union {a} ELSE sub[c]
      <4>1. c \in DOMAIN t \union {Null}
        BY <1>4
      <4>2. CASE c = Null
        BY <1>7, <4>2
      <4>3. CASE c # Null
        BY <1>7, <4>1, <4>3
      <4> QED BY <4>2, <4>3
    <3>8. /\ all[t[n].left] = IF up \in sub[t[n].left] THEN sub[t[n].left] \union {a} ELSE sub[t[n].left]
          /\ all[t[n].right] = IF up \in sub[t[n].right] THEN sub[t[n].right] \union {a} ELSE sub[t[n].right]
      BY <3>7
    <3>9. all[u[n].left] = all[t[n].left] /\ all[u[n].right] = all[t[n].right]
      BY <3>1
    <3>10. all[u[n].left] = IF up \in sub[n] /\ n \notin goes THEN sub[t[n].left] \union {a} ELSE sub[t[n].left]
      BY <3>5, <3>8, <3>9
    <3>11. all[u[n].right] = IF up \in sub[n] /\ n \in goes THEN sub[t[n].right] \union {a} ELSE sub[t[n].right]
      BY <3>6, <3>8, <3>9
    <3> QED BY <3>10, <3>11
  <2> QED BY <2>1, <2>2
<1>9. Subtrees(u, all, level)
  <2>1. all[Root] = D
    <3>1. sub[Root] = DOMAIN t
      BY <1>1 DEF Subtrees
    <3> QED BY <1>2, <1>7, <3>1
  <2>2. ASSUME NEW n \in D
        PROVE  /\ all[n] = {n} \union all[u[n].left] \union all[u[n].right]
               /\ all[n] \subseteq D
               /\ all[u[n].left] \intersect all[u[n].right] = {}
               /\ level[n] \in Nat
               /\ \A m \in all[u[n].left] \union all[u[n].right] : level[m] < level[n]
    <3>1. CASE n = a
      BY <1>5, <1>7, <3>1
    <3>2. CASE n # a
      <4>1. n \in DOMAIN t
        BY <3>2
      <4>2. /\ sub[n] = {n} \union sub[t[n].left] \union sub[t[n].right]
            /\ sub[n] \subseteq DOMAIN t
            /\ sub[t[n].left] \intersect sub[t[n].right] = {}
            /\ rank[n] \in Nat
            /\ \A m \in sub[t[n].left] \union sub[t[n].right] : rank[m] < rank[n]
        BY <1>1, <4>1 DEF Subtrees
      <4>3. \A m \in sub[n] : m \in DOMAIN t /\ m # a /\ rank[m] \in Nat /\ level[m] = rank[m] + 1
        BY <1>1, <1>7, <4>2 DEF Subtrees
      <4>4. all[n] = (IF up \in sub[n] THEN sub[n] \union {a} ELSE sub[n]) /\ level[n] = rank[n] + 1
        BY <1>7, <4>1
      <4>5. /\ all[u[n].left] = IF up \in sub[n] /\ n \notin goes THEN sub[t[n].left] \union {a} ELSE sub[t[n].left]
            /\ all[u[n].right] = IF up \in sub[n] /\ n \in goes THEN sub[t[n].right] \union {a} ELSE sub[t[n].right]
        BY <1>8, <4>1
      <4>6. all[n] = {n} \union all[u[n].left] \union all[u[n].right]
        BY <4>2, <4>4, <4>5
      <4>7. all[n] \subseteq D
        BY <4>2, <4>4
      <4>8. all[u[n].left] \intersect all[u[n].right] = {}
        BY <4>2, <4>3, <4>5
      <4>9. \A m \in all[u[n].left] \union all[u[n].right] : level[m] < level[n]
        BY <1>7, <4>2, <4>3, <4>4, <4>5
      <4> QED BY <4>2, <4>4, <4>6, <4>7, <4>8, <4>9
    <3> QED BY <3>1, <3>2
  <2> QED BY <1>2, <1>7, <2>1, <2>2 DEF Subtrees
<1>10. Sorted(u, size, all)
  <2>1. ASSUME NEW n \in D
        PROVE  /\ \A m \in all[u[n].left] : size[m] <= size[n]
               /\ \A m \in all[u[n].right] : size[n] < size[m]
    <3>1. CASE n = a
      BY <1>5, <1>7, <3>1
    <3>2. CASE n # a
      <4>1. n \in DOMAIN t /\ size[n] \in Nat
        BY <1>1, <3>2
      <4>2. /\ \A m \in sub[t[n].left] : size[m] <= size[n]
            /\ \A m \in sub[t[n].right] : size[n] < size[m]
        BY <1>1, <4>1 DEF Sorted
      <4>3. /\ all[u[n].left] = IF up \in sub[n] /\ n \notin goes THEN sub[t[n].left] \union {a} ELSE sub[t[n].left]
            /\ all[u[n].right] = IF up \in sub[n] /\ n \in goes THEN sub[t[n].right] \union {a} ELSE sub[t[n].right]
        BY <1>8, <4>1
      <4>4. ASSUME NEW m \in all[u[n].left] PROVE size[m] <= size[n]
        <5>1. m \in sub[t[n].left] \/ (m = a /\ n \notin goes)
          BY <4>3, <4>4
        <5> QED BY <4>1, <4>2, <5>1
      <4>5. ASSUME NEW m \in all[u[n].right] PROVE size[n] < size[m]
        <5>1. m \in sub[t[n].right] \/ (m = a /\ n \in goes)
          BY <4>3, <4>5
        <5> QED BY <4>1, <4>2, <5>1
      <4> QED BY <4>4, <4>5
    <3> QED BY <3>1, <3>2
  <2> QED BY <1>2, <2>1 DEF Sorted
<1>11. \A n \in DOMAIN u : size[n] \in Nat
  BY <1>1, <1>2
<1> QED BY <1>6, <1>9, <1>10, <1>11 DEF IsTree, Tree

\* The place that gci_add_fc walks to.
LEMMA PlaceFor ==
    ASSUME NEW t, NEW size, NEW sub, NEW rank, Tree(t, size, sub, rank), NEW goes,
           NEW f, \A n \in DOMAIN t : f[n] = IF Beside(t, goes, n) = Null THEN n ELSE f[Beside(t, goes, n)]
    PROVE  \A n \in DOMAIN t :
             /\ f[n] \in DOMAIN t /\ f[n] \in sub[n] /\ Beside(t, goes, f[n]) = Null
             /\ \A x \in sub[n] : f[n] \in sub[x] /\ x # f[n] => f[n] \in sub[Beside(t, goes, x)]
<1> DEFINE Fine(n) == /\ f[n] \in DOMAIN t /\ f[n] \in sub[n] /\ Beside(t, goes, f[n]) = Null
                      /\ \A x \in sub[n] : f[n] \in sub[x] /\ x # f[n] => f[n] \in sub[Beside(t, goes, x)]
           Bad == {n \in DOMAIN t : ~Fine(n)}
<1>1. Links(t) /\ Subtrees(t, sub, rank)
  BY DEF Tree
<1> SUFFICES ASSUME Bad # {} PROVE FALSE
  OBVIOUS
<1>2. \A n \in DOMAIN t : rank[n] \in Nat /\ n \in sub[n]
  BY <1>1 DEF Subtrees
<1>3. PICK n \in Bad : \A x \in Bad : rank[n] <= rank[x]
  <2>1. \A x \in Bad : rank[x] \in Nat
    BY <1>2
  <2> HIDE DEF Bad
  <2> QED BY <2>1, LeastNode
<1>4. n \in DOMAIN t /\ ~Fine(n)
  OBVIOUS
<1>5. /\ sub[n] = {n} \union sub[t[n].left] \union sub[t[n].right] /\ sub[n] \subseteq DOMAIN t
      /\ sub[t[n].left] \intersect sub[t[n].right] = {}
      /\ \A m \in sub[t[n].left] \union sub[t[n].right] : rank[m] < rank[n]
  BY <1>1, <1>4 DEF Subtrees
<1>6. Beside(t, goes, n) \in {t[n].left, t[n].right}
  BY DEF Beside
<1>7. ASSUME NEW x \in sub[n], n \in sub[x] PROVE x = n
  <2> SUFFICES ASSUME x # n PROVE FALSE
    OBVIOUS
  <2>1. rank[x] < rank[n] /\ x \in DOMAIN t
    BY <1>5
  <2>2. rank[n] < rank[x]
    BY <1>1, <1>7, <2>1 DEF Subtrees
  <2> QED BY <1>2, <1>4, <2>1, <2>2
<1>8. CASE Beside(t, goes, n) = Null
  <2>1. f[n] = n
    BY <1>4, <1>8
  <2> QED BY <1>2, <1>4, <1>7, <1>8, <2>1
<1>9. CASE Beside(t, goes, n) # Null
  <2> DEFINE c == Beside(t, goes, n)
  <2>1. f[n] = f[c]
    BY <1>4, <1>9
  <2>2. c \in DOMAIN t /\ rank[c] < rank[n] /\ sub[c] \subseteq sub[n]
    BY <1>1, <1>4, <1>6, <1>9, ChildFacts
  <2>3. Fine(c)
    <3>1. rank[c] \in Nat /\ rank[n] \in Nat
      BY <1>2, <1>4, <2>2
    <3> HIDE DEF Fine, c
    <3> QED BY <1>3, <2>2, <3>1
  <2>4. ASSUME NEW x \in sub[n], f[c] \in sub[x], x # f[c] PROVE f[c] \in sub[Beside(t, goes, x)]
    <3>1. CASE x = n
      BY <2>3, <3>1
    <3>2. CASE x \in sub[c]
      BY <2>3, <2>4, <3>2
    <3>3. CASE x # n /\ x \notin sub[c]
      <4>1. PICK o \in {t[n].left, t[n].right} : x \in sub[o]
        BY <1>5, <3>3
      <4>2. o # c /\ o # Null
        BY <1>1, <3>3, <4>1 DEF Subtrees
      <4>3. sub[o] \intersect sub[c] = {}
        BY <1>5, <1>6, <4>1, <4>2
      <4>4. sub[x] \subseteq sub[o]
        <5>1. o \in DOMAIN t
          BY <1>1, <1>4, <4>1, <4>2, ChildFacts
        <5> QED BY <1>1, <4>1, <5>1, BelowBelow
      <4> QED BY <2>3, <2>4, <4>3, <4>4
    <3> QED BY <3>1, <3>2, <3>3
  <2> HIDE DEF c
  <2> QED BY <1>4, <2>1, <2>2, <2>3, <2>4
<1> QED BY <1>8, <1>9

\* gci_add_fc: the chunk added to the tree is in it, and the tree is in order.
LEMMA AddTree ==
    ASSUME NEW h, NEW size, IsTree(h.tree, size), NEW a, a \notin DOMAIN h.tree, a # Null,
           size[a] \in Nat \ {0}, \A n \in DOMAIN h.tree : size[n] = TreeSize(h, n)
    PROVE  /\ DOMAIN AddTreeNode(h, a, size[a]) = DOMAIN h.tree \union {a}
           /\ IsTree(AddTreeNode(h, a, size[a]), size)
<1> DEFINE t == h.tree
           goes == {n \in DOMAIN t : TreeSize(h, n) < size[a]}
           Side(n) == IF TreeSize(h, n) < size[a] THEN "right" ELSE "left"
           Runs(f) == f = [n \in DOMAIN t |-> IF t[n][Side(n)] = Null THEN n ELSE f[t[n][Side(n)]]]
           f == CHOOSE g : Runs(g)
           up == f[Root]
           u == Put([t EXCEPT ![up][Side(up)] = a], a, Node(up))
<1>1. PICK sub, rank : Tree(t, size, sub, rank)
  BY DEF IsTree
<1>2. Links(t) /\ Subtrees(t, sub, rank)
  BY <1>1 DEF Tree
<1>3. ASSUME NEW n \in DOMAIN t PROVE t[n][Side(n)] = Beside(t, goes, n)
  BY DEF Beside
<1>4. \E g : Runs(g)
  <2> DEFINE stop == {n \in DOMAIN t : Beside(t, goes, n) = Null}
             to == [n \in DOMAIN t |-> Beside(t, goes, n)]
             val == [n \in DOMAIN t |-> n]
  <2>1. stop \in SUBSET DOMAIN t /\ \A n \in DOMAIN t \ stop : to[n] \in DOMAIN t
    BY <1>2 DEF Links, Beside
  <2> HIDE DEF stop, to, val
  <2>2. PICK g : Loops(g, DOMAIN t, stop, to, val)
    BY <2>1, LoopEnds
  <2>3. \A n \in DOMAIN t : g[n] = IF t[n][Side(n)] = Null THEN n ELSE g[t[n][Side(n)]]
    <3> HIDE DEF goes, Side
    <3> QED BY <1>3, <2>2 DEF stop, to, val, Loops
  <2> HIDE DEF Side
  <2> QED BY <2>2, <2>3 DEF Loops
<1>5. Runs(f)
  <2> HIDE DEF Runs
  <2> QED BY <1>4
<1>6. AddTreeNode(h, a, size[a]) = u
  BY DEF AddTreeNode
<1> HIDE DEF f
<1>7. \A n \in DOMAIN t : f[n] = IF Beside(t, goes, n) = Null THEN n ELSE f[Beside(t, goes, n)]
  <2> HIDE DEF goes, Side
  <2> QED BY <1>3, <1>5
<1>8. Root \in DOMAIN t /\ Root \in goes /\ sub[Root] = DOMAIN t
  BY <1>2 DEF Links, Subtrees, TreeSize
<1>9. /\ up \in DOMAIN t /\ Beside(t, goes, up) = Null
      /\ \A x \in DOMAIN t : up \in sub[x] /\ x # up => up \in sub[Beside(t, goes, x)]
  <2> HIDE DEF goes
  <2> QED BY SMTT(60), <1>1, <1>7, <1>8, PlaceFor
<1> HIDE DEF up
<1>10. Hangs(t, u, a, up, goes)
  <2> DEFINE r == [t EXCEPT ![up][Side(up)] = a]
  <2>1. u = [n \in DOMAIN u |-> u[n]] /\ DOMAIN u = DOMAIN t \union {a} /\ u[a] = Node(up)
        /\ \A n \in DOMAIN t : u[n] = r[n]
    BY DEF Put
  <2>2. \A n \in DOMAIN t \ {up} : r[n] = t[n]
    OBVIOUS
  <2>3. r[up] = IF up \in goes THEN [left |-> t[up].left, right |-> a, parent |-> t[up].parent]
                ELSE [left |-> a, right |-> t[up].right, parent |-> t[up].parent]
    <3> DEFINE e == t[up]
    <3>1. e = [left |-> e.left, right |-> e.right, parent |-> e.parent]
      BY <1>2, <1>9 DEF Links, IsNode
    <3>2. r[up] = [e EXCEPT ![Side(up)] = a]
      BY <1>9
    <3> HIDE DEF e, r
    <3>3. r[up] = [x \in DOMAIN e |-> IF x = Side(up) THEN a ELSE e[x]]
      BY <3>2
    <3>4. CASE up \in goes
      <4>1. Side(up) = "right"
        BY <3>4
      <4> HIDE DEF Side
      <4> QED BY <3>1, <3>3, <3>4, <4>1 DEF e
    <3>5. CASE up \notin goes
      <4>1. Side(up) = "left"
        BY <1>9, <3>5
      <4> HIDE DEF Side
      <4> QED BY <3>1, <3>3, <3>5, <4>1 DEF e
    <3> QED BY <3>4, <3>5
  <2> HIDE DEF u, r, goes
  <2> QED BY <1>9, <2>1, <2>2, <2>3 DEF Hangs, Node
<1>11. IsTree(u, size)
  <2>1. \A n \in DOMAIN t : n \in goes <=> size[n] < size[a]
    OBVIOUS
  <2> HIDE DEF goes, u
  <2> QED BY <1>1, <1>8, <1>9, <1>10, <2>1, HangTree
<1>12. DOMAIN u = DOMAIN t \union {a}
  BY DEF Put
<1> QED BY <1>6, <1>11, <1>12

\* The best fit is large enough, and there is one if any node is.
LEMMA BestFitIs ==
    ASSUME NEW h, NEW size, IsTree(h.tree, size),
           \A n \in DOMAIN h.tree : size[n] = TreeSize(h, n), NEW want \in Nat
    PROVE  \/ BestFit(h, want) = Null /\ \A n \in DOMAIN h.tree \ {Root} : size[n] < want
           \/ BestFit(h, want) \in DOMAIN h.tree \ {Root} /\ size[BestFit(h, want)] >= want
<1> DEFINE t == h.tree
           nodes == DOMAIN t \union {Null}
           D == nodes \X nodes
           Runs(f) == f = [p \in D |->
               IF p[1] = Null THEN p[2]
               ELSE IF Size(h, p[1]) < want THEN f[<<t[p[1]].right, p[2]>>]
               ELSE f[<<t[p[1]].left, p[1]>>]]
           f == CHOOSE g : Runs(g)
<1>1. PICK sub, rank : Tree(t, size, sub, rank)
  BY DEF IsTree
<1>2. Links(t) /\ Subtrees(t, sub, rank) /\ Sorted(t, size, sub) /\ \A n \in DOMAIN t : size[n] \in Nat
  BY <1>1 DEF Tree
<1>3. \A n \in DOMAIN t : t[n].left \in nodes \ {Root} /\ t[n].right \in nodes \ {Root}
  BY <1>2, RootIsNoAddress DEF Links
<1>4. \E g : Runs(g)
  <2> DEFINE stop == {p \in D : p[1] = Null}
             to == [p \in D |-> IF Size(h, p[1]) < want THEN <<t[p[1]].right, p[2]>> ELSE <<t[p[1]].left, p[1]>>]
             val == [p \in D |-> p[2]]
  <2>1. stop \in SUBSET D /\ \A p \in D \ stop : to[p] \in D
    BY <1>3
  <2> HIDE DEF stop, to, val, D
  <2>2. PICK g : Loops(g, D, stop, to, val)
    BY <2>1, LoopEnds
  <2>3. \A p \in D : g[p] = IF p[1] = Null THEN p[2]
               ELSE IF Size(h, p[1]) < want THEN g[<<t[p[1]].right, p[2]>>]
               ELSE g[<<t[p[1]].left, p[1]>>]
    BY <2>2 DEF stop, to, val, Loops
  <2> QED BY <2>2, <2>3 DEF Loops
<1>5. Runs(f)
  <2> HIDE DEF Runs
  <2> QED BY <1>4
<1>6. BestFit(h, want) = f[<<t[Root].right, Null>>]
  BY DEF BestFit
<1> HIDE DEF f
<1>7. \A n, l \in nodes : f[<<n, l>>] = IF n = Null THEN l
               ELSE IF Size(h, n) < want THEN f[<<t[n].right, l>>] ELSE f[<<t[n].left, n>>]
  <2>1. \A p \in D : f[p] = IF p[1] = Null THEN p[2]
               ELSE IF Size(h, p[1]) < want THEN f[<<t[p[1]].right, p[2]>>]
               ELSE f[<<t[p[1]].left, p[1]>>]
    BY <1>5
  <2> QED BY <2>1
<1> DEFINE Found(n, l) == \/ f[<<n, l>>] = l /\ \A m \in sub[n] : size[m] < want
                          \/ f[<<n, l>>] \in sub[n] /\ size[f[<<n, l>>]] >= want
           Fine(n) == \A l \in nodes : Found(n, l)
           Bad == {n \in DOMAIN t \ {Root} : ~Fine(n)}
<1>8. \A n \in DOMAIN t : rank[n] \in Nat /\ sub[Null] = {}
  BY <1>2 DEF Subtrees
<1>9. Fine(Null)
  <2>1. Null \in nodes
    OBVIOUS
  <2>2. \A l \in nodes : f[<<Null, l>>] = l
    BY <1>7, <2>1
  <2>3. sub[Null] = {}
    BY <1>2 DEF Subtrees
  <2> QED BY <2>2, <2>3
<1>10. Bad = {}
  <2> SUFFICES ASSUME Bad # {} PROVE FALSE
    OBVIOUS
  <2>1. PICK n \in Bad : \A x \in Bad : rank[n] <= rank[x]
    <3>1. \A x \in Bad : rank[x] \in Nat
      BY <1>8
    <3> HIDE DEF Bad
    <3> QED BY <3>1, LeastNode
  <2>2. n \in DOMAIN t /\ n # Root /\ ~Fine(n)
    OBVIOUS
  <2>3. PICK l \in nodes : ~Found(n, l)
    BY <2>2
  <2>4. ASSUME NEW c \in {t[n].left, t[n].right} PROVE Fine(c)
    <3>1. CASE c = Null
      BY <1>9, <3>1
    <3>2. CASE c # Null
      <4>1. c \in DOMAIN t /\ rank[c] < rank[n] /\ c # Root
        BY <1>2, <2>2, <3>2, ChildFacts
      <4>2. rank[c] \in Nat /\ rank[n] \in Nat
        BY <1>8, <2>2, <4>1
      <4> HIDE DEF Fine
      <4> QED BY <2>1, <4>1, <4>2
    <3> QED BY <3>1, <3>2
  <2>5. /\ sub[n] = {n} \union sub[t[n].left] \union sub[t[n].right] /\ sub[n] \subseteq DOMAIN t
        /\ \A m \in sub[t[n].left] : size[m] <= size[n]
    BY <1>2, <2>2 DEF Subtrees, Sorted
  <2>6. n \in nodes /\ n # Null /\ Size(h, n) = size[n] /\ size[n] \in Nat
    BY <1>2, <2>2 DEF Links, TreeSize
  <2>7. CASE size[n] < want
    <3>1. f[<<n, l>>] = f[<<t[n].right, l>>]
      BY <1>7, <2>6, <2>7
    <3>2. Found(t[n].right, l)
      BY <2>4
    <3>3. CASE f[<<t[n].right, l>>] = l /\ \A m \in sub[t[n].right] : size[m] < want
      <4>1. \A m \in sub[n] : size[m] < want
        <5>1. \A m \in sub[n] : size[m] \in Nat
          BY <1>2, <2>5
        <5> QED BY <2>5, <2>6, <2>7, <3>3, <5>1
      <4> QED BY <2>3, <3>1, <3>3, <4>1
    <3>4. CASE f[<<t[n].right, l>>] \in sub[t[n].right] /\ size[f[<<t[n].right, l>>]] >= want
      BY <2>3, <2>5, <3>1, <3>4
    <3> QED BY <3>2, <3>3, <3>4
  <2>8. CASE ~(size[n] < want)
    <3>1. f[<<n, l>>] = f[<<t[n].left, n>>]
      BY <1>7, <2>6, <2>8
    <3>2. Found(t[n].left, n)
      BY <2>4, <2>6
    <3>3. f[<<n, l>>] \in sub[n] /\ size[f[<<n, l>>]] >= want
      BY <2>5, <2>6, <2>8, <3>1, <3>2
    <3> QED BY <2>3, <3>3
  <2> QED BY <2>7, <2>8
<1>11. Root \in DOMAIN t /\ t[Root].left = Null /\ sub[Root] = DOMAIN t
       /\ sub[Root] = {Root} \union sub[t[Root].left] \union sub[t[Root].right]
  BY <1>2 DEF Links, Subtrees
<1>12. t[Root].right \in nodes \ {Root}
  BY <1>3, <1>11
<1>13. Found(t[Root].right, Null)
  <2>1. Fine(t[Root].right)
    <3> HIDE DEF Fine
    <3> QED BY <1>9, <1>10, <1>12
  <2>2. Null \in nodes
    OBVIOUS
  <2> QED BY <2>1, <2>2
<1>14. sub[t[Root].right] = DOMAIN t \ {Root}
  <2>1. Root \notin sub[t[Root].right]
    <3>1. rank[Root] \in Nat /\ \A m \in sub[t[Root].right] : rank[m] < rank[Root]
      BY <1>2, <1>11 DEF Subtrees
    <3> QED BY <3>1
  <2> QED BY <1>8, <1>11, <2>1
<1> QED BY <1>6, <1>13, <1>14

-----------------------------------------------------------------------------
(* The lists.  nx leads from a chunk in L to the next of its list, hd has the *)
(* heads, below what a list has from a chunk on, and rank shrinks on the way. *)
Row(nx, L, below, rank) ==
    /\ Null \notin L /\ below[Null] = {}
    /\ \A a \in L :
        /\ nx[a] \in L \union {Null}
        /\ below[a] = {a} \union below[nx[a]] /\ below[a] \subseteq L
        /\ rank[a] \in Nat
        /\ \A m \in below[nx[a]] : rank[m] < rank[a]

\* The list of size i has the chunks of L of that size.
Heads(L, hd, size, I, below) ==
    \A i \in I : hd[i] \in L \union {Null} /\ below[hd[i]] = {a \in L : size[a] = i}

\* The chunks of L are in the lists of their sizes.
Lists(nx, L, hd, size, I) ==
    \E below, rank : Row(nx, L, below, rank) /\ Heads(L, hd, size, I, below)

\* Chunks in rows with their heads are lists.
LEMMA RowIntro ==
    ASSUME NEW nx, NEW L, NEW hd, NEW size, NEW I, NEW below, NEW rank,
           Row(nx, L, below, rank), Heads(L, hd, size, I, below)
    PROVE  Lists(nx, L, hd, size, I)
BY DEF Lists

\* What follows a chunk that follows another follows that one.
LEMMA RowBelow ==
    ASSUME NEW nx, NEW L, NEW below, NEW rank, Row(nx, L, below, rank),
           NEW a \in L, NEW b \in below[a]
    PROVE  b \in L /\ b \in below[b] /\ below[b] \subseteq below[a]
<1> DEFINE Bad == {x \in L : \E y \in below[x] : ~ (below[y] \subseteq below[x])}
<1>1. Bad = {}
  <2> SUFFICES ASSUME Bad # {} PROVE FALSE
    OBVIOUS
  <2>1. \A x \in L : rank[x] \in Nat
    BY DEF Row
  <2>2. PICK x \in Bad : \A y \in Bad : rank[x] <= rank[y]
    <3>1. \A y \in Bad : rank[y] \in Nat
      BY <2>1
    <3> HIDE DEF Bad
    <3> QED BY <3>1, LeastNode
  <2>3. x \in L
    OBVIOUS
  <2>4. PICK y \in below[x] : ~ (below[y] \subseteq below[x])
    OBVIOUS
  <2>5. y \in below[nx[x]] /\ nx[x] \in L /\ rank[nx[x]] < rank[x] /\ below[nx[x]] \subseteq below[x]
    BY <2>3, <2>4 DEF Row
  <2>6. nx[x] \notin Bad
    <3> HIDE DEF Bad
    <3> QED BY <2>1, <2>2, <2>3, <2>5
  <2> QED BY <2>4, <2>5, <2>6
<1> QED BY <1>1 DEF Row

\* Of two chunks of a list one follows the other.
LEMMA RowOrder ==
    ASSUME NEW nx, NEW L, NEW below, NEW rank, Row(nx, L, below, rank),
           NEW a \in L, NEW b \in below[a], NEW c \in below[a]
    PROVE  b \in below[c] \/ c \in below[b]
<1> DEFINE Bad == {x \in L : \E y, z \in below[x] : ~ (y \in below[z] \/ z \in below[y])}
<1>1. Bad = {}
  <2> SUFFICES ASSUME Bad # {} PROVE FALSE
    OBVIOUS
  <2>1. \A x \in L : rank[x] \in Nat
    BY DEF Row
  <2>2. PICK x \in Bad : \A y \in Bad : rank[x] <= rank[y]
    <3>1. \A y \in Bad : rank[y] \in Nat
      BY <2>1
    <3> HIDE DEF Bad
    <3> QED BY <3>1, LeastNode
  <2>3. x \in L
    OBVIOUS
  <2>4. PICK y, z \in below[x] : ~ (y \in below[z] \/ z \in below[y])
    OBVIOUS
  <2>5. y # x /\ z # x
    BY <2>4
  <2>6. y \in below[nx[x]] /\ z \in below[nx[x]] /\ nx[x] \in L /\ rank[nx[x]] < rank[x]
    BY <2>3, <2>5 DEF Row
  <2>7. nx[x] \notin Bad
    <3> HIDE DEF Bad
    <3> QED BY <2>1, <2>2, <2>3, <2>6
  <2> QED BY <2>4, <2>6, <2>7
<1> QED BY <1>1

\* A chunk is in the list of its size, and one that precedes another is too.
LEMMA RowFacts ==
    ASSUME NEW nx, NEW L, NEW hd, NEW size, NEW I, NEW below, NEW rank,
           Row(nx, L, below, rank), Heads(L, hd, size, I, below),
           NEW a \in L, size[a] \in I
    PROVE  /\ a \in below[hd[size[a]]] /\ hd[size[a]] \in L
           /\ \A b \in L : size[b] \in I /\ a \in below[b] => size[b] = size[a]
           /\ \A b, c \in L : size[b] \in I /\ nx[b] = a /\ nx[c] = a /\ size[c] \in I => b = c
           /\ \A b \in L : a \in below[b] /\ b \in below[a] => a = b
           /\ a # hd[size[a]] => \E b \in L : size[b] = size[a] /\ nx[b] = a
<1>1. a \in below[hd[size[a]]]
  BY DEF Heads
<1>2. hd[size[a]] \in L
  BY <1>1 DEF Heads, Row
<1>3. ASSUME NEW b \in L, size[b] \in I, a \in below[b] PROVE size[b] = size[a]
  <2>1. b \in below[hd[size[b]]]
    BY <1>3 DEF Heads
  <2>2. hd[size[b]] \in L
    BY <1>3, <2>1 DEF Heads, Row
  <2>3. below[b] \subseteq below[hd[size[b]]]
    BY <2>1, <2>2, RowBelow
  <2> QED BY <1>3, <2>3 DEF Heads
<1>4. ASSUME NEW b \in L, a \in below[b], b \in below[a] PROVE a = b
  <2> SUFFICES ASSUME a # b PROVE FALSE
    OBVIOUS
  <2>1. a \in below[nx[b]] /\ b \in below[nx[a]]
    BY <1>4 DEF Row
  <2>2. rank[a] < rank[b] /\ rank[b] < rank[a] /\ rank[a] \in Nat /\ rank[b] \in Nat
    BY <1>4, <2>1 DEF Row
  <2> QED BY <2>2
<1>5. ASSUME NEW b \in L, NEW c \in L, size[b] \in I, size[c] \in I, nx[b] = a, nx[c] = a PROVE b = c
  <2>1. a \in below[b] /\ a \in below[c] /\ a \in below[a]
    BY <1>5 DEF Row
  <2>2. size[b] = size[a] /\ size[c] = size[a]
    BY <1>3, <1>5, <2>1
  <2>3. b \in below[hd[size[a]]] /\ c \in below[hd[size[a]]]
    BY <1>5, <2>2 DEF Heads
  <2>4. b \in below[c] \/ c \in below[b]
    BY <1>2, <2>3, RowOrder
  <2> SUFFICES ASSUME b # c PROVE FALSE
    OBVIOUS
  <2>5. b \in below[a] \/ c \in below[a]
    BY <1>5, <2>4 DEF Row
  <2>6. a # b /\ a # c
    <3>1. rank[b] \in Nat /\ rank[c] \in Nat /\ rank[a] < rank[b] /\ rank[a] < rank[c]
      BY <1>5, <2>1 DEF Row
    <3> QED BY <3>1
  <2>7. rank[a] \in Nat /\ rank[b] \in Nat /\ rank[c] \in Nat /\ rank[a] < rank[b] /\ rank[a] < rank[c]
    BY <1>5, <2>1 DEF Row
  <2>8. rank[b] < rank[a] \/ rank[c] < rank[a]
    BY <2>5, <2>6 DEF Row
  <2> QED BY <2>7, <2>8
<1>6. ASSUME a # hd[size[a]] PROVE \E b \in L : size[b] = size[a] /\ nx[b] = a
  <2> DEFINE S == {b \in L : size[b] = size[a] /\ a \in below[b] /\ b # a}
  <2>1. hd[size[a]] \in S
    <3>1. hd[size[a]] \in below[hd[size[a]]]
      BY <1>2 DEF Row
    <3> QED BY <1>1, <1>2, <1>6, <3>1 DEF Heads
  <2>2. PICK b \in S : \A x \in S : rank[b] <= rank[x]
    <3>1. \A x \in S : rank[x] \in Nat
      BY DEF Row
    <3> HIDE DEF S
    <3> QED BY <2>1, <3>1, LeastNode
  <2>3. b \in L /\ size[b] = size[a] /\ a \in below[nx[b]] /\ nx[b] \in L /\ rank[nx[b]] < rank[b]
    BY <2>2 DEF Row
  <2>4. size[nx[b]] = size[a]
    <3>1. b \in below[hd[size[a]]]
      BY <2>3 DEF Heads
    <3>2. below[b] \subseteq below[hd[size[a]]]
      BY <1>2, <3>1, RowBelow
    <3>3. nx[b] \in below[b]
      BY <2>3 DEF Row
    <3> QED BY <3>2, <3>3 DEF Heads
  <2>5. nx[b] \notin S
    <3>1. rank[nx[b]] \in Nat /\ rank[b] \in Nat
      BY <2>3 DEF Row
    <3> HIDE DEF S
    <3> QED BY <2>2, <2>3, <3>1
  <2> QED BY <2>3, <2>4, <2>5
<1> QED BY <1>1, <1>2, <1>3, <1>4, <1>5, <1>6

\* of and my are the lists hd and nx with a put at the head of list i.
Pushed(nx, L, hd, size, I, a, my, of, sz, i) ==
    /\ Lists(nx, L, hd, size, I) /\ a \notin L /\ a # Null /\ i \in I
    /\ \A b \in L : my[b] = nx[b] /\ sz[b] = size[b]
    /\ my[a] = hd[i] /\ sz[a] = i /\ of[i] = a
    /\ \A j \in I \ {i} : of[j] = hd[j]

\* A chunk at the head.
LEMMA PushHead ==
    ASSUME NEW nx, NEW L, NEW hd, NEW size, NEW I, NEW a, NEW my, NEW of, NEW sz, NEW i,
           Pushed(nx, L, hd, size, I, a, my, of, sz, i)
    PROVE  Lists(my, L \union {a}, of, sz, I)
<1>a. /\ Lists(nx, L, hd, size, I) /\ a \notin L /\ a # Null /\ i \in I
      /\ \A b \in L : my[b] = nx[b] /\ sz[b] = size[b]
      /\ my[a] = hd[i] /\ sz[a] = i /\ of[i] = a
      /\ \A j \in I \ {i} : of[j] = hd[j]
  BY DEF Pushed
<1> USE <1>a
<1>1. PICK below, rank : Row(nx, L, below, rank) /\ Heads(L, hd, size, I, below)
  BY DEF Lists
<1> DEFINE D == L \union {a, Null}
           under == [b \in D |-> IF b = a THEN {a} \union below[hd[i]] ELSE below[b]]
           level == [b \in D |-> IF b # a THEN rank[b]
                                 ELSE IF hd[i] = Null THEN 0 ELSE rank[hd[i]] + 1]
<1>2. \A b \in L \union {Null} : b \in D /\ b # a /\ under[b] = below[b]
  OBVIOUS
<1>3. \A b \in L : level[b] = rank[b]
  OBVIOUS
<1>4. under[a] = {a} \union below[hd[i]] /\ level[a] = IF hd[i] = Null THEN 0 ELSE rank[hd[i]] + 1
  OBVIOUS
<1> HIDE DEF under, level
<1>5. hd[i] \in L \union {Null} /\ below[hd[i]] \subseteq L
  BY <1>1 DEF Heads
<1>6. level[a] \in Nat /\ \A m \in below[hd[i]] : level[m] < level[a]
  <2>1. CASE hd[i] = Null
    BY <1>1, <1>4, <2>1 DEF Row
  <2>2. CASE hd[i] # Null
    <3>1. hd[i] \in L /\ rank[hd[i]] \in Nat /\ \A m \in below[hd[i]] : m = hd[i] \/ rank[m] < rank[hd[i]]
      BY <1>1, <1>5, <2>2 DEF Row
    <3>2. \A m \in below[hd[i]] : rank[m] \in Nat /\ level[m] = rank[m]
      BY <1>1, <1>3, <1>5 DEF Row
    <3> QED BY <1>4, <2>2, <3>1, <3>2
  <2> QED BY <2>1, <2>2
<1>7. Row(my, L \union {a}, under, level)
  <2>1. Null \notin L \union {a} /\ under[Null] = {}
    BY <1>1, <1>2 DEF Row
  <2>2. ASSUME NEW b \in L \union {a}
        PROVE  /\ my[b] \in (L \union {a}) \union {Null}
               /\ under[b] = {b} \union under[my[b]] /\ under[b] \subseteq L \union {a}
               /\ level[b] \in Nat
               /\ \A m \in under[my[b]] : level[m] < level[b]
    <3>1. CASE b = a
      <4>1. under[my[a]] = below[hd[i]]
        BY <1>2, <1>5
      <4> QED BY <1>4, <1>5, <1>6, <3>1, <4>1
    <3>2. CASE b # a
      <4>1. b \in L /\ nx[b] \in L \union {Null} /\ below[b] = {b} \union below[nx[b]] /\ below[b] \subseteq L
            /\ rank[b] \in Nat /\ \A m \in below[nx[b]] : rank[m] < rank[b]
        BY <1>1, <3>2 DEF Row
      <4>2. my[b] = nx[b] /\ under[nx[b]] = below[nx[b]] /\ under[b] = below[b] /\ level[b] = rank[b]
        BY <1>2, <1>3, <4>1
      <4>3. \A m \in below[nx[b]] : level[m] = rank[m]
        BY <1>3, <4>1
      <4> QED BY <4>1, <4>2, <4>3
    <3> QED BY <3>1, <3>2
  <2> QED BY <2>1, <2>2 DEF Row
<1>8. Heads(L \union {a}, of, sz, I, under)
  <2> SUFFICES ASSUME NEW j \in I
               PROVE  /\ of[j] \in (L \union {a}) \union {Null}
                      /\ under[of[j]] = {b \in L \union {a} : sz[b] = j}
    BY DEF Heads
  <2>1. hd[j] \in L \union {Null} /\ below[hd[j]] = {b \in L : size[b] = j}
    BY <1>1 DEF Heads
  <2>2. CASE j = i
    BY <1>4, <2>1, <2>2
  <2>3. CASE j # i
    <3>1. of[j] = hd[j] /\ under[hd[j]] = below[hd[j]]
      BY <1>2, <2>1, <2>3
    <3> QED BY <2>1, <2>3, <3>1
  <2> QED BY <2>2, <2>3
<1> QED BY <1>7, <1>8, RowIntro

\* A chunk is taken out: the head, or the link before it, leads past it.
LEMMA TakeOut ==
    ASSUME NEW nx, NEW L, NEW hd, NEW size, NEW I, Lists(nx, L, hd, size, I),
           \A b \in L : size[b] \in I,
           NEW a \in L, NEW my, NEW of,
           \A b \in L \ {a} : my[b] = IF nx[b] = a THEN nx[a] ELSE nx[b],
           \A j \in I : of[j] = IF hd[j] = a THEN nx[a] ELSE hd[j]
    PROVE  Lists(my, L \ {a}, of, size, I)
<1>1. PICK below, rank : Row(nx, L, below, rank) /\ Heads(L, hd, size, I, below)
  BY DEF Lists
<1> DEFINE under == [b \in L \union {Null} |-> below[b] \ {a}]
<1>2. \A b \in L \union {Null} : under[b] = below[b] \ {a}
  OBVIOUS
<1> HIDE DEF under
<1>3. /\ nx[a] \in L \union {Null} /\ below[a] = {a} \union below[nx[a]] /\ a \notin below[nx[a]]
      /\ nx[a] # a
  <2>1. /\ nx[a] \in L \union {Null} /\ below[a] = {a} \union below[nx[a]]
        /\ rank[a] \in Nat /\ \A m \in below[nx[a]] : rank[m] < rank[a]
    BY <1>1 DEF Row
  <2>2. nx[a] \in L => nx[a] \in below[nx[a]]
    BY <1>1 DEF Row
  <2>3. Null \notin L
    BY <1>1 DEF Row
  <2> QED BY <2>1, <2>2, <2>3
<1>4. under[nx[a]] = below[a] \ {a}
  BY <1>2, <1>3
<1>5. Row(my, L \ {a}, under, rank)
  <2>1. Null \notin L \ {a} /\ under[Null] = {}
    BY <1>1, <1>2 DEF Row
  <2>2. ASSUME NEW b \in L \ {a}
        PROVE  /\ my[b] \in (L \ {a}) \union {Null}
               /\ under[b] = {b} \union under[my[b]] /\ under[b] \subseteq L \ {a}
               /\ rank[b] \in Nat
               /\ \A m \in under[my[b]] : rank[m] < rank[b]
    <3>1. /\ nx[b] \in L \union {Null} /\ below[b] = {b} \union below[nx[b]] /\ below[b] \subseteq L
          /\ rank[b] \in Nat /\ \A m \in below[nx[b]] : rank[m] < rank[b]
      BY <1>1 DEF Row
    <3>2. under[my[b]] = below[nx[b]] \ {a} /\ my[b] \in (L \ {a}) \union {Null}
      BY <1>2, <1>3, <1>4, <3>1
    <3> QED BY <1>2, <3>1, <3>2
  <2> QED BY <2>1, <2>2 DEF Row
<1>6. Heads(L \ {a}, of, size, I, under)
  <2> SUFFICES ASSUME NEW j \in I
               PROVE  /\ of[j] \in (L \ {a}) \union {Null}
                      /\ under[of[j]] = {b \in L \ {a} : size[b] = j}
    BY DEF Heads
  <2>1. hd[j] \in L \union {Null} /\ below[hd[j]] = {b \in L : size[b] = j}
    BY <1>1 DEF Heads
  <2>2. under[of[j]] = below[hd[j]] \ {a} /\ of[j] \in (L \ {a}) \union {Null}
    BY <1>2, <1>3, <1>4, <2>1
  <2> QED BY <2>1, <2>2
<1> QED BY <1>5, <1>6, RowIntro

\* Who leads to a chunk.
LEMMA OnlyBefore ==
    ASSUME NEW nx, NEW L, NEW hd, NEW size, NEW I, Lists(nx, L, hd, size, I),
           \A b \in L : size[b] \in I, NEW a \in L
    PROVE  /\ nx[a] \in L \union {Null} /\ nx[a] # a
           /\ hd[size[a]] \in L
           /\ \A j \in I : hd[j] = a => j = size[a]
           /\ hd[size[a]] = a => \A b \in L : nx[b] # a
           /\ \A b, c \in L : nx[b] = a /\ nx[c] = a => b = c
<1>1. PICK below, rank : Row(nx, L, below, rank) /\ Heads(L, hd, size, I, below)
  BY DEF Lists
<1>2. /\ a \in below[hd[size[a]]] /\ hd[size[a]] \in L
      /\ \A b \in L : size[b] \in I /\ a \in below[b] => size[b] = size[a]
      /\ \A b, c \in L : size[b] \in I /\ nx[b] = a /\ nx[c] = a /\ size[c] \in I => b = c
      /\ \A b \in L : a \in below[b] /\ b \in below[a] => a = b
  BY <1>1, RowFacts
<1>3. a \in below[a] /\ nx[a] \in L \union {Null} /\ a # Null
  BY <1>1 DEF Row
<1>4. nx[a] # a
  BY <1>1, <1>3 DEF Row
<1>5. \A j \in I : hd[j] = a => j = size[a]
  BY <1>1, <1>3 DEF Heads
<1>6. ASSUME hd[size[a]] = a, NEW b \in L, nx[b] = a PROVE FALSE
  <2>1. a \in below[b]
    BY <1>1, <1>3, <1>6 DEF Row
  <2>2. size[b] = size[a]
    BY <1>2, <2>1
  <2>3. b \in below[a]
    BY <1>1, <1>6, <2>2 DEF Heads
  <2> QED BY <1>2, <1>4, <1>6, <2>1, <2>3
<1> QED BY <1>2, <1>3, <1>4, <1>5, <1>6

-----------------------------------------------------------------------------
(* A list as a sequence.                                                      *)
Walk(nx, C, a, s) ==
    /\ s \in Seq(C)
    /\ a = Null <=> Len(s) = 0
    /\ a # Null => s[1] = a /\ nx[s[Len(s)]] = Null
    /\ \A j \in 1 .. Len(s) - 1 : s[j + 1] = nx[s[j]]

\* A list as a sequence, from one chunk further up.
LEMMA WalkFrom ==
    ASSUME NEW nx, NEW C, Null \notin C, NEW a \in C, NEW s, Walk(nx, C, nx[a], s)
    PROVE  Walk(nx, C, a, <<a>> \o s)
<1> DEFINE r == <<a>> \o s
<1>1. s \in Seq(C) /\ Len(s) \in Nat /\ \A j \in 1 .. Len(s) : s[j] \in C
  BY DEF Walk
<1>2. r \in Seq(C) /\ Len(r) = Len(s) + 1 /\ r[1] = a /\ \A j \in 1 .. Len(s) : r[j + 1] = s[j]
  BY <1>1
<1> HIDE DEF r
<1>3. a # Null /\ Len(r) # 0
  BY <1>1, <1>2
<1>4. nx[r[Len(r)]] = Null
  <2>1. CASE nx[a] = Null
    <3>1. Len(s) = 0
      BY <2>1 DEF Walk
    <3> QED BY <1>2, <2>1, <3>1
  <2>2. CASE nx[a] # Null
    <3>1. Len(s) # 0 /\ nx[s[Len(s)]] = Null
      BY <2>2 DEF Walk
    <3>2. r[Len(r)] = s[Len(s)]
      BY <1>1, <1>2, <3>1
    <3> QED BY <3>1, <3>2
  <2> QED BY <2>1, <2>2
<1>5. ASSUME NEW j \in 1 .. Len(r) - 1 PROVE r[j + 1] = nx[r[j]]
  <2>1. CASE j = 1
    <3>1. Len(s) # 0 /\ s[1] = nx[a]
      BY <1>1, <1>2, <1>5, <2>1 DEF Walk
    <3> QED BY <1>1, <1>2, <2>1, <3>1
  <2>2. CASE j # 1
    <3>1. j - 1 \in 1 .. Len(s) - 1 /\ j - 1 \in 1 .. Len(s) /\ j \in 1 .. Len(s)
      BY <1>1, <1>2, <2>2
    <3>2. s[(j - 1) + 1] = nx[s[j - 1]]
      BY <3>1 DEF Walk
    <3>3. r[j + 1] = s[j] /\ r[(j - 1) + 1] = s[j - 1]
      BY <1>2, <3>1
    <3> QED BY <3>1, <3>2, <3>3
  <2> QED BY <2>1, <2>2
<1> QED BY <1>2, <1>3, <1>4, <1>5 DEF Walk, r

\* Links lead along one sequence only.
LEMMA WalkUnique ==
    ASSUME NEW nx, NEW C, Null \notin C, NEW a \in C \union {Null},
           NEW s, NEW r, Walk(nx, C, a, s), Walk(nx, C, a, r)
    PROVE  s = r
<1>1. /\ s \in Seq(C) /\ Len(s) \in Nat /\ \A j \in 1 .. Len(s) : s[j] \in C
      /\ r \in Seq(C) /\ Len(r) \in Nat /\ \A j \in 1 .. Len(r) : r[j] \in C
  BY DEF Walk
<1>2. CASE a = Null
  <2>1. Len(s) = 0 /\ Len(r) = 0
    BY <1>2 DEF Walk
  <2> QED BY <1>1, <2>1
<1>3. CASE a # Null
  <2>1. /\ Len(s) # 0 /\ s[1] = a /\ nx[s[Len(s)]] = Null
        /\ Len(r) # 0 /\ r[1] = a /\ nx[r[Len(r)]] = Null
        /\ \A j \in 1 .. Len(s) - 1 : s[j + 1] = nx[s[j]]
        /\ \A j \in 1 .. Len(r) - 1 : r[j + 1] = nx[r[j]]
    BY <1>3 DEF Walk
  <2> DEFINE Bad == {j \in Nat : j \in 1 .. Len(s) /\ j \in 1 .. Len(r) /\ s[j] # r[j]}
  <2>2. Bad = {}
    <3> SUFFICES ASSUME Bad # {} PROVE FALSE
      OBVIOUS
    <3>1. PICK j \in Bad : \A k \in Bad : j <= k
      <4>1. Bad \in SUBSET Nat
        OBVIOUS
      <4> HIDE DEF Bad
      <4> QED BY <4>1, LeastOf
    <3>2. j # 1 /\ j - 1 \notin Bad
      <4>1. j \in Nat
        OBVIOUS
      <4>2. j # 1
        BY <2>1
      <4> HIDE DEF Bad
      <4> QED BY <3>1, <4>1, <4>2
    <3>3. j - 1 \in 1 .. Len(s) - 1 /\ j - 1 \in 1 .. Len(r) - 1 /\ j - 1 \in Nat
      BY <1>1, <3>1, <3>2
    <3>4. s[j - 1] = r[j - 1]
      BY <1>1, <3>2, <3>3
    <3>5. s[(j - 1) + 1] = nx[s[j - 1]] /\ r[(j - 1) + 1] = nx[r[j - 1]]
      BY <2>1, <3>3
    <3>6. (j - 1) + 1 = j
      BY <3>3
    <3> QED BY <3>1, <3>4, <3>5, <3>6
  <2>3. \A j \in 1 .. Len(s) : j \in 1 .. Len(r) => s[j] = r[j]
    BY <1>1, <2>2
  <2> HIDE DEF Bad
  <2>4. ~ (Len(s) < Len(r))
    <3> SUFFICES ASSUME Len(s) < Len(r) PROVE FALSE
      OBVIOUS
    <3>1. Len(s) \in 1 .. Len(s) /\ Len(s) \in 1 .. Len(r) - 1 /\ Len(s) \in 1 .. Len(r) /\ Len(s) + 1 \in 1 .. Len(r)
      BY <1>1, <2>1
    <3>2. r[Len(s) + 1] = Null
      BY <2>1, <2>3, <3>1
    <3> QED BY <1>1, <3>1, <3>2
  <2>5. ~ (Len(r) < Len(s))
    <3> SUFFICES ASSUME Len(r) < Len(s) PROVE FALSE
      OBVIOUS
    <3>1. Len(r) \in 1 .. Len(r) /\ Len(r) \in 1 .. Len(s) - 1 /\ Len(r) \in 1 .. Len(s) /\ Len(r) + 1 \in 1 .. Len(s)
      BY <1>1, <2>1
    <3>2. s[Len(r) + 1] = Null
      BY <2>1, <2>3, <3>1
    <3> QED BY <1>1, <3>1, <3>2
  <2>6. Len(s) = Len(r)
    BY <1>1, <2>4, <2>5
  <2> QED BY <1>1, <2>3, <2>6
<1> QED BY <1>2, <1>3

\* What ListOf yields.
LEMMA ListOfIs ==
    ASSUME NEW h, NEW i, NEW L \in SUBSET DOMAIN h.chunk, Null \notin DOMAIN h.chunk,
           NEW nx, \A a \in DOMAIN h.chunk : nx[a] = ListNext(h, a) /\ nx[a] \in L \union {Null},
           NEW below, NEW rank, Row(nx, L, below, rank), h.normal[i] \in L \union {Null}
    PROVE  /\ Walk(nx, DOMAIN h.chunk, h.normal[i], ListOf(h, i))
           /\ {ListOf(h, i)[j] : j \in DOMAIN ListOf(h, i)} = below[h.normal[i]]
           /\ \A j, k \in DOMAIN ListOf(h, i) : ListOf(h, i)[j] = ListOf(h, i)[k] => j = k
<1> DEFINE C == DOMAIN h.chunk
           E == C \union {Null, h.normal[i]}
           Runs(f) == f = [a \in E |-> IF a = Null THEN <<>>
                                       ELSE IF a \notin C THEN <<a>>
                                       ELSE <<a>> \o f[ListNext(h, a)]]
           f == CHOOSE g : Runs(g)
<1>1. E = C \union {Null}
  OBVIOUS
<1>2. Walk(nx, C, Null, <<>>)
  BY DEF Walk
<1>3. ASSUME NEW a \in C, NEW s, Walk(nx, C, nx[a], s) PROVE Walk(nx, C, a, <<a>> \o s)
  BY <1>3, WalkFrom
<1>4. \A a \in C \union {Null} : \E s : Walk(nx, C, a, s)
  <2> DEFINE Bad == {a \in L : ~ \E s : Walk(nx, C, a, s)}
  <2>1. Bad = {}
    <3> SUFFICES ASSUME Bad # {} PROVE FALSE
      OBVIOUS
    <3>1. PICK a \in Bad : \A b \in Bad : rank[a] <= rank[b]
      <4>1. \A b \in Bad : rank[b] \in Nat
        BY DEF Row
      <4> HIDE DEF Bad
      <4> QED BY <4>1, LeastNode
    <3>2. a \in L /\ a \in C
      OBVIOUS
    <3>3. nx[a] # Null
      <4> SUFFICES ASSUME nx[a] = Null PROVE FALSE
        OBVIOUS
      <4>1. Walk(nx, C, nx[a], <<>>)
        BY <1>2
      <4>2. Walk(nx, C, a, <<a>> \o <<>>)
        BY <1>3, <3>2, <4>1
      <4> QED BY <4>2
    <3>4. nx[a] \in L /\ rank[nx[a]] < rank[a] /\ rank[nx[a]] \in Nat /\ rank[a] \in Nat
      BY <3>2, <3>3 DEF Row
    <3>5. nx[a] \notin Bad
      <4> HIDE DEF Bad
      <4> QED BY <3>1, <3>2, <3>4
    <3> QED BY <1>3, <3>2, <3>4, <3>5
  <2>2. \A a \in L \union {Null} : \E s : Walk(nx, C, a, s)
    BY <1>2, <2>1
  <2> QED BY <1>3, <2>2
<1>5. \E g : Runs(g)
  <2> DEFINE g == [a \in C \union {Null} |-> CHOOSE s : Walk(nx, C, a, s)]
  <2>1. \A a \in C \union {Null} : Walk(nx, C, a, g[a])
    BY <1>4
  <2>2. g = [a \in E |-> g[a]]
    BY <1>1
  <2> HIDE DEF g, E
  <2>3. g[Null] = <<>>
    BY <1>2, <2>1, WalkUnique
  <2>4. ASSUME NEW a \in C PROVE g[a] = <<a>> \o g[ListNext(h, a)]
    <3>1. nx[a] = ListNext(h, a) /\ nx[a] \in C \union {Null}
      OBVIOUS
    <3>2. Walk(nx, C, nx[a], g[nx[a]])
      BY <2>1, <3>1
    <3>3. Walk(nx, C, a, <<a>> \o g[nx[a]]) /\ Walk(nx, C, a, g[a])
      BY <1>3, <2>1, <3>2
    <3>4. g[a] = <<a>> \o g[nx[a]]
      BY <3>3, WalkUnique
    <3> QED BY <3>1, <3>4
  <2>5. \A a \in E : g[a] = IF a = Null THEN <<>> ELSE IF a \notin C THEN <<a>> ELSE <<a>> \o g[ListNext(h, a)]
    BY <1>1, <2>3, <2>4
  <2>6. Runs(g)
    BY <2>2, <2>5
  <2> QED BY <2>6
<1>6. Runs(f)
  <2> HIDE DEF Runs
  <2> QED BY <1>5
<1>7. ListOf(h, i) = f[h.normal[i]]
  BY DEF ListOf
<1> HIDE DEF f
<1>8. f[Null] = <<>> /\ \A a \in C : f[a] = <<a>> \o f[nx[a]]
  <2>1. \A a \in E : f[a] = IF a = Null THEN <<>> ELSE IF a \notin C THEN <<a>> ELSE <<a>> \o f[ListNext(h, a)]
    BY <1>6
  <2> HIDE DEF E
  <2>2. \A a \in C : a \in E /\ a # Null /\ nx[a] = ListNext(h, a)
    BY <1>1
  <2> QED BY <1>1, <2>1, <2>2
<1> DEFINE Fine(a) == /\ Walk(nx, C, a, f[a])
                      /\ {f[a][j] : j \in DOMAIN f[a]} = below[a]
                      /\ \A j, k \in DOMAIN f[a] : f[a][j] = f[a][k] => j = k
           Bad == {a \in L : ~Fine(a)}
<1>9. Fine(Null)
  BY <1>2, <1>8 DEF Row
<1>10. ASSUME NEW a \in L, Fine(nx[a]) PROVE Fine(a)
  <2> DEFINE s == f[nx[a]]
  <2>1. f[a] = <<a>> \o s /\ s \in Seq(C)
    BY <1>8, <1>10 DEF Walk
  <2>2. Walk(nx, C, a, f[a])
    BY <1>3, <1>10, <2>1
  <2>3. below[a] = {a} \union below[nx[a]] /\ a \notin below[nx[a]]
    <3>1. below[a] = {a} \union below[nx[a]] /\ rank[a] \in Nat /\ \A m \in below[nx[a]] : rank[m] < rank[a]
      BY DEF Row
    <3> QED BY <3>1
  <2>4. below[nx[a]] = {s[j] : j \in 1 .. Len(s)} /\ \A j, k \in 1 .. Len(s) : s[j] = s[k] => j = k
    BY <1>10, <2>1
  <2> HIDE DEF s
  <2>5. /\ DOMAIN f[a] = 1 .. Len(s) + 1 /\ f[a][1] = a /\ Len(s) \in Nat
        /\ \A j \in 1 .. Len(s) : f[a][j + 1] = s[j]
    BY <2>1
  <2>6. {f[a][j] : j \in DOMAIN f[a]} = {a} \union {s[j] : j \in 1 .. Len(s)}
    <3>1. ASSUME NEW j \in DOMAIN f[a] PROVE f[a][j] \in {a} \union {s[k] : k \in 1 .. Len(s)}
      <4>1. CASE j = 1
        BY <2>5, <4>1
      <4>2. CASE j # 1
        <5>1. j - 1 \in 1 .. Len(s) /\ j = (j - 1) + 1
          BY <2>5, <4>2
        <5> QED BY <2>5, <5>1
      <4> QED BY <4>1, <4>2
    <3>2. ASSUME NEW k \in 1 .. Len(s) PROVE s[k] \in {f[a][j] : j \in DOMAIN f[a]}
      <4>1. k + 1 \in DOMAIN f[a] /\ f[a][k + 1] = s[k]
        BY <2>5
      <4> QED BY <4>1
    <3>3. a \in {f[a][j] : j \in DOMAIN f[a]}
      <4>1. 1 \in DOMAIN f[a] /\ f[a][1] = a
        BY <2>5
      <4> QED BY <4>1
    <3> QED BY <3>1, <3>2, <3>3
  <2>7. ASSUME NEW j \in DOMAIN f[a], NEW k \in DOMAIN f[a], f[a][j] = f[a][k] PROVE j = k
    <3>1. ASSUME NEW m \in DOMAIN f[a], m # 1
          PROVE  m - 1 \in 1 .. Len(s) /\ f[a][m] = s[m - 1] /\ f[a][m] # a /\ m \in Nat
      <4>1. m - 1 \in 1 .. Len(s) /\ m = (m - 1) + 1 /\ m \in Nat
        BY <2>5, <3>1
      <4>2. f[a][m] = s[m - 1]
        BY <2>5, <4>1
      <4> QED BY <2>3, <2>4, <4>1, <4>2
    <3>2. CASE j = 1 \/ k = 1
      BY <2>5, <2>7, <3>1, <3>2
    <3>3. CASE j # 1 /\ k # 1
      <4>1. s[j - 1] = s[k - 1] /\ j - 1 \in 1 .. Len(s) /\ k - 1 \in 1 .. Len(s) /\ j \in Nat /\ k \in Nat
        BY <2>7, <3>1, <3>3
      <4>2. j - 1 = k - 1
        BY <2>4, <4>1
      <4> QED BY <4>1, <4>2
    <3> QED BY <3>2, <3>3
  <2> QED BY <2>2, <2>3, <2>4, <2>6, <2>7
<1>11. Bad = {}
  <2> SUFFICES ASSUME Bad # {} PROVE FALSE
    OBVIOUS
  <2>1. PICK a \in Bad : \A b \in Bad : rank[a] <= rank[b]
    <3>1. \A b \in Bad : rank[b] \in Nat
      BY DEF Row
    <3> HIDE DEF Bad
    <3> QED BY <3>1, LeastNode
  <2>2. a \in L /\ ~Fine(a)
    OBVIOUS
  <2> HIDE DEF Fine
  <2>3. nx[a] # Null
    BY <1>9, <1>10, <2>2
  <2>4. nx[a] \in L /\ rank[nx[a]] < rank[a] /\ rank[nx[a]] \in Nat /\ rank[a] \in Nat
    BY <2>2, <2>3 DEF Row
  <2>5. nx[a] \notin Bad
    <3> HIDE DEF Bad
    <3> QED BY <2>1, <2>4
  <2> QED BY <1>10, <2>2, <2>4, <2>5
<1>12. Fine(h.normal[i])
  <2> HIDE DEF Fine
  <2> QED BY <1>9, <1>11
<1> QED BY <1>7, <1>12

\* Lists depend on the links and sizes of their chunks, and on nothing else.
LEMMA ListsSame ==
    ASSUME NEW nx, NEW L, NEW hd, NEW size, NEW I, Lists(nx, L, hd, size, I),
           NEW my, NEW of, NEW sz, \A b \in L : my[b] = nx[b] /\ sz[b] = size[b],
           \A i \in I : of[i] = hd[i]
    PROVE  Lists(my, L, of, sz, I)
<1>1. PICK below, rank : Row(nx, L, below, rank) /\ Heads(L, hd, size, I, below)
  BY DEF Lists
<1>2. Row(my, L, below, rank)
  BY <1>1 DEF Row
<1>3. Heads(L, of, sz, I, below)
  BY <1>1 DEF Heads
<1> QED BY <1>2, <1>3, RowIntro

\* A tree is in order whatever else has changed, as long as the sizes of its
\* chunks have not.
LEMMA TreeSame ==
    ASSUME NEW t, NEW size, IsTree(t, size), NEW sz, \A n \in DOMAIN t : sz[n] = size[n]
    PROVE  IsTree(t, sz)
<1>1. PICK sub, rank : Tree(t, size, sub, rank)
  BY DEF IsTree
<1>2. Links(t) /\ Subtrees(t, sub, rank) /\ Sorted(t, size, sub) /\ \A n \in DOMAIN t : size[n] \in Nat
  BY <1>1 DEF Tree
<1>3. Sorted(t, sz, sub)
  <2> SUFFICES ASSUME NEW n \in DOMAIN t
               PROVE  /\ \A m \in sub[t[n].left] : sz[m] <= sz[n]
                      /\ \A m \in sub[t[n].right] : sz[n] < sz[m]
    BY DEF Sorted
  <2>1. sub[t[n].left] \subseteq DOMAIN t /\ sub[t[n].right] \subseteq DOMAIN t
    BY <1>2 DEF Subtrees
  <2> QED BY <1>2, <2>1 DEF Sorted
<1>4. Tree(t, sz, sub, rank)
  BY <1>2, <1>3 DEF Tree
<1> QED BY <1>4 DEF IsTree

-----------------------------------------------------------------------------
(* Heaps.                                                                     *)
IsChunk(c) == c = [ut |-> c.ut, size |-> c.size, pinuse |-> c.pinuse, next |-> c.next, word |-> c.word]

\* The gc_heap_t and the headers have their fields.
Formed(h) ==
    /\ h = [base |-> h.base, chunk |-> h.chunk, normal |-> h.normal, tree |-> h.tree,
            corrupted |-> h.corrupted]
    /\ h.base \in Nat
    /\ h.chunk = [a \in DOMAIN h.chunk |-> h.chunk[a]]
    /\ \A a \in DOMAIN h.chunk : /\ IsChunk(h.chunk[a]) /\ Size(h, a) \in Nat \ {0}
                                 /\ h.chunk[a].next \in Int
                                 /\ a \in Nat \ {Null} /\ InHeap(h, a)
    /\ NormalCnt(h) \in Nat \ 0 .. 3
    /\ h.normal = [i \in 0 .. NormalCnt(h) - 1 |-> h.normal[i]]

\* Links, sizes and lists of a heap.
NextOf(h) == [a \in DOMAIN h.chunk |-> ListNext(h, a)]
SizeOf(h) == [a \in DOMAIN h.chunk |-> Size(h, a)]
NodeSize(h) == [n \in DOMAIN h.tree |-> TreeSize(h, n)]
Smalls(h, F) == {a \in F : IsNormal(h, Size(h, a))}
Larges(h, F) == {a \in F : ~IsNormal(h, Size(h, a))}
ListSizes(h) == 0 .. NormalCnt(h) - 2

\* The lists and the tree have the chunks in F.
Linked(h, F) ==
    /\ F \subseteq DOMAIN h.chunk
    /\ Lists(NextOf(h), Smalls(h, F), h.normal, SizeOf(h), ListSizes(h))
    /\ h.normal[NormalCnt(h) - 1] = Null
    /\ DOMAIN h.tree = {Root} \union Larges(h, F)
    /\ IsTree(h.tree, NodeSize(h))

\* Links lead to chunks of lists, also those of chunks in none.
NextListed(h, F) == \A a \in DOMAIN h.chunk : ListNext(h, a) \in Smalls(h, F) \union {Null}
\* A chunk in no list has no link.
Quiet(h, F) == \A a \in DOMAIN h.chunk \ Smalls(h, F) : h.chunk[a].next = 0

\* HMU_IS_FC_NORMAL: a chunk that is for a list has the size of a list, and no
\* address is that of the root.
LEMMA SmallSizes ==
    ASSUME NEW h, Formed(h), NEW F, F \subseteq DOMAIN h.chunk
    PROVE  /\ \A b \in Smalls(h, F) : SizeOf(h)[b] \in ListSizes(h) /\ SizeOf(h)[b] = Size(h, b)
           /\ ListSizes(h) \subseteq DOMAIN h.normal
           /\ \A s \in Nat : IsNormal(h, s) <=> s \in ListSizes(h)
           /\ \A s \in Int : IsNormal(h, s) <=> s < NormalCnt(h) - 1
           /\ DOMAIN h.normal = 0 .. NormalCnt(h) - 1
           /\ Null \notin DOMAIN h.chunk /\ Root \notin DOMAIN h.chunk /\ Root \notin F
<1>1. NormalCnt(h) \in Nat \ 0 .. 3 /\ DOMAIN h.normal = 0 .. NormalCnt(h) - 1
  BY DEF Formed
<1>2. \A b \in F : Size(h, b) \in Nat
  BY DEF Formed
<1>3. \A s \in Int : IsNormal(h, s) <=> s < NormalCnt(h) - 1
  BY <1>1 DEF IsNormal
<1>4. \A s \in Nat : IsNormal(h, s) <=> s \in ListSizes(h)
  BY <1>1, <1>3 DEF ListSizes
<1>5. \A b \in Smalls(h, F) : SizeOf(h)[b] \in ListSizes(h) /\ SizeOf(h)[b] = Size(h, b)
  BY <1>2, <1>4 DEF Smalls, SizeOf
<1>6. ListSizes(h) \subseteq DOMAIN h.normal
  BY <1>1 DEF ListSizes
<1>7. Null \notin DOMAIN h.chunk /\ Root \notin DOMAIN h.chunk
  BY RootAssumption DEF Formed
<1> QED BY <1>1, <1>3, <1>4, <1>5, <1>6, <1>7

\* The lists and the tree do not notice a change of other chunks.
LEMMA LinkedSame ==
    ASSUME NEW h, Formed(h), NEW F, Linked(h, F),
           NEW g, Formed(g), g.normal = h.normal, g.tree = h.tree, F \subseteq DOMAIN g.chunk,
           \A a \in F : Size(g, a) = Size(h, a) /\ g.chunk[a].next = h.chunk[a].next
    PROVE  Linked(g, F) /\ Smalls(g, F) = Smalls(h, F) /\ Larges(g, F) = Larges(h, F)
<1>1. NormalCnt(g) = NormalCnt(h)
  BY DEF NormalCnt
<1>2. \A s : IsNormal(g, s) <=> IsNormal(h, s)
  BY <1>1 DEF IsNormal
<1>3. Smalls(g, F) = Smalls(h, F) /\ Larges(g, F) = Larges(h, F)
  BY <1>2 DEF Smalls, Larges
<1>4. F \subseteq DOMAIN h.chunk
  BY DEF Linked
<1>5. \A b \in Smalls(h, F) : NextOf(g)[b] = NextOf(h)[b] /\ SizeOf(g)[b] = SizeOf(h)[b]
  BY <1>4 DEF Smalls, NextOf, SizeOf, ListNext
<1>6. ListSizes(g) = ListSizes(h)
  BY <1>1 DEF ListSizes
<1>7. Lists(NextOf(g), Smalls(g, F), g.normal, SizeOf(g), ListSizes(g))
  <2>1. Lists(NextOf(h), Smalls(h, F), h.normal, SizeOf(h), ListSizes(h))
    BY DEF Linked
  <2> QED BY <1>3, <1>5, <1>6, <2>1, ListsSame
<1>8. \A n \in DOMAIN h.tree : NodeSize(g)[n] = NodeSize(h)[n]
  <2>1. DOMAIN h.tree = {Root} \union Larges(h, F)
    BY DEF Linked
  <2> QED BY <2>1 DEF NodeSize, TreeSize, Larges
<1>9. IsTree(g.tree, NodeSize(g))
  <2>1. IsTree(h.tree, NodeSize(h))
    BY DEF Linked
  <2> QED BY <1>8, <2>1, TreeSame
<1> QED BY <1>1, <1>3, <1>7, <1>9 DEF Linked

\* No pointer of the tree leads out of the heap, so nothing is reported.
LEMMA Unbroken ==
    ASSUME NEW h, Formed(h), NEW F, Linked(h, F)
    PROVE  ~TreeBroken(h)
<1>1. PICK sub, rank : Tree(h.tree, NodeSize(h), sub, rank)
  BY DEF Linked, IsTree
<1>2. /\ \A n \in DOMAIN h.tree :
          /\ h.tree[n].left \in (DOMAIN h.tree \ {Root}) \union {Null}
          /\ h.tree[n].right \in (DOMAIN h.tree \ {Root}) \union {Null}
      /\ \A m \in DOMAIN h.tree \ {Root} :
          /\ h.tree[m].parent \in DOMAIN h.tree
          /\ m \in {h.tree[h.tree[m].parent].left, h.tree[h.tree[m].parent].right}
  BY <1>1 DEF Tree, Links
<1>3. \A n \in DOMAIN h.tree \ {Root} : InHeap(h, n)
  BY DEF Linked, Larges, Formed
<1> QED BY <1>2, <1>3 DEF TreeBroken

\* The header of a free chunk.
FreeChunk(c, size, pinuse) ==
    IsChunk(c) /\ c.ut = "FC" /\ c.size = size /\ c.pinuse = pinuse /\ c.word = 0

\* g is h with chunk a, free and of that size, put where it belongs.
Added(h, F, a, size, pinuse, g) ==
    /\ Formed(g) /\ Linked(g, F \union {a})
    /\ g.base = h.base /\ g.corrupted = h.corrupted /\ NormalCnt(g) = NormalCnt(h)
    /\ DOMAIN g.chunk = DOMAIN h.chunk \union {a}
    /\ \A b \in DOMAIN h.chunk \ {a} : g.chunk[b] = h.chunk[b]
    /\ FreeChunk(g.chunk[a], size, pinuse)
    /\ a \in Smalls(g, F \union {a}) \/ g.chunk[a].next = 0
    /\ Smalls(h, F) \subseteq Smalls(g, F \union {a})

\* A chunk that is put where its size belongs.
LEMMA AddFcIs ==
    ASSUME NEW h, Formed(h), NEW F, Linked(h, F), NEW a \in Nat \ {Null}, InHeap(h, a), a \notin F,
           NEW size \in Nat \ {0}, NEW pinuse, NEW g, g = AddFc(h, a, size, pinuse)
    PROVE  Added(h, F, a, size, pinuse, g)
<1> SUFFICES /\ Formed(g) /\ Linked(g, F \union {a})
             /\ g.base = h.base /\ g.corrupted = h.corrupted /\ NormalCnt(g) = NormalCnt(h)
             /\ DOMAIN g.chunk = DOMAIN h.chunk \union {a}
             /\ \A b \in DOMAIN h.chunk \ {a} : g.chunk[b] = h.chunk[b]
             /\ FreeChunk(g.chunk[a], size, pinuse)
             /\ a \in Smalls(g, F \union {a}) \/ g.chunk[a].next = 0
             /\ Smalls(h, F) \subseteq Smalls(g, F \union {a})
  BY DEF Added
<1> DEFINE free == [ut |-> "FC", size |-> size, pinuse |-> pinuse, next |-> 0, word |-> 0]
           C == DOMAIN h.chunk
<1>1. /\ h = [base |-> h.base, chunk |-> h.chunk, normal |-> h.normal, tree |-> h.tree,
              corrupted |-> h.corrupted]
      /\ h.chunk = [b \in C |-> h.chunk[b]]
      /\ NormalCnt(h) \in Nat \ 0 .. 3
      /\ h.normal = [i \in 0 .. NormalCnt(h) - 1 |-> h.normal[i]]
  BY DEF Formed
<1>2. /\ F \subseteq C /\ \A b \in F : b # a /\ b # Null /\ b # Root
      /\ Lists(NextOf(h), Smalls(h, F), h.normal, SizeOf(h), ListSizes(h))
      /\ h.normal[NormalCnt(h) - 1] = Null
      /\ DOMAIN h.tree = {Root} \union Larges(h, F) /\ IsTree(h.tree, NodeSize(h))
  BY SmallSizes DEF Linked
<1>3. CASE IsNormal(h, size)
  <2> DEFINE c == [free EXCEPT !.next = Offset(a, h.normal[size])]
  <2>1. g = [h EXCEPT !.chunk = Put(h.chunk, a, c), !.normal[size] = a]
    BY <1>3 DEF AddFc
  <2>2. size \in ListSizes(h) /\ size \in DOMAIN h.normal /\ size # NormalCnt(h) - 1
    <3>1. size < NormalCnt(h) - 1
      BY <1>1, <1>3 DEF IsNormal
    <3> QED BY <1>1, <3>1 DEF ListSizes
  <2>3. PICK below, rank : Row(NextOf(h), Smalls(h, F), below, rank)
                           /\ Heads(Smalls(h, F), h.normal, SizeOf(h), ListSizes(h), below)
    BY <1>2 DEF Lists
  <2>4. h.normal[size] \in Smalls(h, F) \union {Null}
    BY <2>2, <2>3 DEF Heads
  <2>5. h.normal[size] \in Nat /\ h.normal[size] # a
    <3>1. CASE h.normal[size] = Null
      BY <3>1 DEF Null
    <3>2. CASE h.normal[size] # Null
      <4>1. h.normal[size] \in F /\ h.normal[size] \in C
        BY <1>2, <2>4, <3>2 DEF Smalls
      <4> QED BY <1>2, <4>1 DEF Formed
    <3> QED BY <3>1, <3>2
  <2>6. c = [ut |-> "FC", size |-> size, pinuse |-> pinuse, next |-> Offset(a, h.normal[size]), word |-> 0]
    OBVIOUS
  <2>7. /\ c.next \in Int /\ c.next = (IF h.normal[size] = Null THEN 0 ELSE h.normal[size] - a)
        /\ FreeChunk(c, size, pinuse)
    BY <2>5, <2>6 DEF FreeChunk, IsChunk, Offset
  <2> HIDE DEF c
  <2>8. /\ g = [base |-> g.base, chunk |-> g.chunk, normal |-> g.normal, tree |-> g.tree,
                corrupted |-> g.corrupted]
        /\ g.base = h.base /\ g.corrupted = h.corrupted /\ g.tree = h.tree
        /\ g.chunk = Put(h.chunk, a, c) /\ g.normal = [h.normal EXCEPT ![size] = a]
    BY <1>1, <2>1
  <2>9. /\ g.chunk = [x \in DOMAIN g.chunk |-> g.chunk[x]] /\ DOMAIN g.chunk = C \union {a}
        /\ g.chunk[a] = c /\ \A b \in C \ {a} : g.chunk[b] = h.chunk[b]
    BY <2>8 DEF Put
  <2>10. DOMAIN g.normal = DOMAIN h.normal /\ NormalCnt(g) = NormalCnt(h)
         /\ g.normal[size] = a /\ \A j \in DOMAIN h.normal \ {size} : g.normal[j] = h.normal[j]
         /\ g.normal = [i \in 0 .. NormalCnt(h) - 1 |-> g.normal[i]]
    <3>1. /\ DOMAIN g.normal = DOMAIN h.normal
          /\ g.normal[size] = a /\ \A j \in DOMAIN h.normal \ {size} : g.normal[j] = h.normal[j]
          /\ g.normal = [i \in 0 .. NormalCnt(h) - 1 |-> g.normal[i]]
      BY <1>1, <2>2, <2>8
    <3> QED BY <3>1 DEF NormalCnt
  <2>11. Formed(g)
    <3>1. ASSUME NEW x \in DOMAIN g.chunk
          PROVE  /\ IsChunk(g.chunk[x]) /\ Size(g, x) \in Nat \ {0} /\ g.chunk[x].next \in Int
                 /\ x \in Nat \ {Null} /\ InHeap(g, x)
      <4>1. CASE x = a
        BY <2>7, <2>8, <2>9, <4>1 DEF FreeChunk, Size, InHeap
      <4>2. CASE x # a
        BY <2>8, <2>9, <4>2 DEF Formed, Size, InHeap
      <4> QED BY <4>1, <4>2
    <3>2. g.base \in Nat
      BY <2>8 DEF Formed
    <3> QED BY <1>1, <2>8, <2>9, <2>10, <3>1, <3>2 DEF Formed
  <2>12. Smalls(g, F \union {a}) = Smalls(h, F) \union {a} /\ Larges(g, F \union {a}) = Larges(h, F)
    <3>1. \A s : IsNormal(g, s) <=> IsNormal(h, s)
      BY <2>10 DEF IsNormal
    <3>2. \A b \in F : Size(g, b) = Size(h, b)
      BY <1>2, <2>9 DEF Size
    <3>3. Size(g, a) = size
      BY <2>7, <2>9 DEF Size, FreeChunk
    <3> QED BY <1>3, <3>1, <3>2, <3>3 DEF Smalls, Larges
  <2>13. Lists(NextOf(g), Smalls(g, F \union {a}), g.normal, SizeOf(g), ListSizes(g))
    <3>1. \A b \in Smalls(h, F) : NextOf(g)[b] = NextOf(h)[b] /\ SizeOf(g)[b] = SizeOf(h)[b]
      BY <1>2, <2>9 DEF Smalls, NextOf, SizeOf, Size, ListNext
    <3>2. NextOf(g)[a] = h.normal[size] /\ SizeOf(g)[a] = size
      BY <2>5, <2>7, <2>9 DEF NextOf, SizeOf, ListNext, Size, FreeChunk
    <3>3. ListSizes(g) = ListSizes(h) /\ ListSizes(h) \subseteq DOMAIN h.normal
      BY <1>1, <2>10 DEF ListSizes
    <3>4. a \notin Smalls(h, F)
      BY DEF Smalls
    <3>5. \A j \in ListSizes(h) \ {size} : g.normal[j] = h.normal[j]
      BY <2>10, <3>3
    <3>6. g.normal[size] = a
      BY <2>10
    <3>7. a # Null
      OBVIOUS
    <3>8. Lists(NextOf(g), Smalls(h, F) \union {a}, g.normal, SizeOf(g), ListSizes(h))
      <4> DEFINE L == Smalls(h, F)
                 nx == NextOf(h)
                 my == NextOf(g)
                 hd == h.normal
                 of == g.normal
                 sizes == SizeOf(h)
                 sz == SizeOf(g)
                 I == ListSizes(h)
      <4>1. Lists(nx, L, hd, sizes, I) /\ size \in I
        BY <1>2, <2>2
      <4>2. /\ a \notin L /\ a # Null /\ my[a] = hd[size] /\ sz[a] = size /\ of[size] = a
            /\ \A b \in L : my[b] = nx[b] /\ sz[b] = sizes[b]
            /\ \A j \in I \ {size} : of[j] = hd[j]
        BY <3>1, <3>2, <3>4, <3>5, <3>6, <3>7
      <4> HIDE DEF L, nx, my, hd, of, sizes, sz, I
      <4>3. Lists(my, L \union {a}, of, sz, I)
        <5>1. Pushed(nx, L, hd, sizes, I, a, my, of, sz, size)
          BY <4>1, <4>2 DEF Pushed
        <5> QED BY <5>1, PushHead
      <4> QED BY <4>3 DEF L, my, of, sz, I
    <3> QED BY <2>12, <3>3, <3>8
  <2>14. g.normal[NormalCnt(g) - 1] = Null
    <3>1. NormalCnt(h) - 1 \in DOMAIN h.normal \ {size}
      <4>1. DOMAIN h.normal = 0 .. NormalCnt(h) - 1
        BY <1>1
      <4> QED BY <1>1, <2>2, <4>1
    <3> QED BY <1>2, <2>10, <3>1
  <2>15. IsTree(g.tree, NodeSize(g))
    <3>1. \A n \in DOMAIN h.tree : NodeSize(g)[n] = NodeSize(h)[n]
      BY <1>2, <2>8, <2>9 DEF NodeSize, TreeSize, Size, Larges
    <3> QED BY <1>2, <2>8, <3>1, TreeSame
  <2>16. Linked(g, F \union {a})
    BY <1>2, <2>8, <2>9, <2>12, <2>13, <2>14, <2>15 DEF Linked
  <2> QED BY <2>7, <2>8, <2>9, <2>10, <2>11, <2>12, <2>16
<1>4. CASE ~IsNormal(h, size)
  <2> DEFINE k == [h EXCEPT !.chunk = Put(h.chunk, a, free)]
             t == AddTreeNode(k, a, size)
             sz == [n \in DOMAIN h.tree \union {a} |-> TreeSize(k, n)]
  <2>1. g = IF TreeBroken(k) THEN Corrupt(k) ELSE [k EXCEPT !.tree = t]
    BY <1>4 DEF AddFc
  <2>2. FreeChunk(free, size, pinuse) /\ free.next = 0
    BY DEF FreeChunk, IsChunk
  <2> HIDE DEF free
  <2>3. /\ k = [base |-> k.base, chunk |-> k.chunk, normal |-> k.normal, tree |-> k.tree,
                corrupted |-> k.corrupted]
        /\ k.base = h.base /\ k.corrupted = h.corrupted /\ k.tree = h.tree /\ k.normal = h.normal
        /\ k.chunk = Put(h.chunk, a, free)
    BY <1>1
  <2>4. /\ k.chunk = [x \in DOMAIN k.chunk |-> k.chunk[x]] /\ DOMAIN k.chunk = C \union {a}
        /\ k.chunk[a] = free /\ \A b \in C \ {a} : k.chunk[b] = h.chunk[b]
    BY <2>3 DEF Put
  <2>5. NormalCnt(k) = NormalCnt(h)
    BY <2>3 DEF NormalCnt
  <2>6. Formed(k)
    <3>1. ASSUME NEW x \in DOMAIN k.chunk
          PROVE  /\ IsChunk(k.chunk[x]) /\ Size(k, x) \in Nat \ {0} /\ k.chunk[x].next \in Int
                 /\ x \in Nat \ {Null} /\ InHeap(k, x)
      <4>1. CASE x = a
        BY <2>2, <2>3, <2>4, <4>1 DEF FreeChunk, Size, InHeap
      <4>2. CASE x # a
        BY <2>3, <2>4, <4>2 DEF Formed, Size, InHeap
      <4> QED BY <4>1, <4>2
    <3>2. k.base \in Nat
      BY <2>3 DEF Formed
    <3> QED BY <1>1, <2>3, <2>4, <2>5, <3>1, <3>2 DEF Formed
  <2>7. Linked(k, F) /\ Smalls(k, F) = Smalls(h, F) /\ Larges(k, F) = Larges(h, F)
    <3>1. \A b \in F : Size(k, b) = Size(h, b) /\ k.chunk[b].next = h.chunk[b].next
      BY <1>2, <2>4 DEF Size
    <3>2. F \subseteq DOMAIN k.chunk
      BY <1>2, <2>4
    <3> QED BY ZenonT(90), <2>3, <2>6, <3>1, <3>2, LinkedSame
  <2> HIDE DEF k
  <2>0. g = [k EXCEPT !.tree = t]
    <3>1. ~TreeBroken(k)
      BY <2>6, <2>7, Unbroken
    <3> HIDE DEF t
    <3> QED BY <2>1, <3>1
  <2>8. Size(k, a) = size /\ a # Root
    BY <2>2, <2>4, RootAssumption DEF Size, FreeChunk
  <2>9. IsTree(k.tree, sz) /\ sz[a] = size
    <3>1. IsTree(k.tree, NodeSize(k))
      BY <2>7 DEF Linked
    <3>2. \A n \in DOMAIN k.tree : sz[n] = NodeSize(k)[n]
      BY <2>3 DEF NodeSize
    <3>3. sz[a] = size
      BY <2>8 DEF TreeSize
    <3> QED BY <3>1, <3>2, <3>3, TreeSame
  <2>10. a \notin DOMAIN k.tree
    BY <1>2, <2>3, <2>8 DEF Larges
  <2>11. DOMAIN t = DOMAIN h.tree \union {a} /\ IsTree(t, sz)
    <3>1. \A n \in DOMAIN k.tree : sz[n] = TreeSize(k, n)
      BY <2>3
    <3> HIDE DEF sz
    <3>2. /\ DOMAIN AddTreeNode(k, a, sz[a]) = DOMAIN k.tree \union {a}
          /\ IsTree(AddTreeNode(k, a, sz[a]), sz)
      BY <2>9, <2>10, <3>1, AddTree
    <3> QED BY <2>3, <2>9, <3>2
  <2> HIDE DEF t
  <2>12. /\ g = [base |-> g.base, chunk |-> g.chunk, normal |-> g.normal, tree |-> g.tree,
                 corrupted |-> g.corrupted]
         /\ g.base = h.base /\ g.corrupted = h.corrupted /\ g.chunk = k.chunk /\ g.normal = h.normal
         /\ g.tree = t /\ NormalCnt(g) = NormalCnt(h)
    <3>1. /\ g = [base |-> g.base, chunk |-> g.chunk, normal |-> g.normal, tree |-> g.tree,
                  corrupted |-> g.corrupted]
          /\ g.base = h.base /\ g.corrupted = h.corrupted /\ g.chunk = k.chunk /\ g.normal = h.normal
          /\ g.tree = t
      BY <2>0, <2>3
    <3> QED BY <3>1 DEF NormalCnt
  <2>13. Formed(g)
    <3>1. \A x \in DOMAIN g.chunk : /\ IsChunk(g.chunk[x]) /\ Size(g, x) \in Nat \ {0} /\ g.chunk[x].next \in Int
                                    /\ x \in Nat \ {Null} /\ InHeap(g, x)
      BY <2>3, <2>6, <2>12 DEF Formed, Size, InHeap
    <3> QED BY <1>1, <2>3, <2>6, <2>12, <3>1 DEF Formed
  <2>14. Smalls(g, F \union {a}) = Smalls(h, F) /\ Larges(g, F \union {a}) = Larges(h, F) \union {a}
    <3>1. \A s : IsNormal(g, s) <=> IsNormal(h, s)
      BY <2>12 DEF IsNormal
    <3>2. \A b \in F : Size(g, b) = Size(h, b)
      BY <1>2, <2>4, <2>12 DEF Size
    <3>3. Size(g, a) = size
      BY <2>8, <2>12 DEF Size
    <3> QED BY <1>4, <3>1, <3>2, <3>3 DEF Smalls, Larges
  <2>15. Lists(NextOf(g), Smalls(g, F \union {a}), g.normal, SizeOf(g), ListSizes(g))
    <3>1. Lists(NextOf(k), Smalls(k, F), k.normal, SizeOf(k), ListSizes(k))
      BY <2>7 DEF Linked
    <3>2. NextOf(g) = NextOf(k) /\ SizeOf(g) = SizeOf(k) /\ ListSizes(g) = ListSizes(k)
      BY <2>5, <2>12 DEF NextOf, SizeOf, ListSizes, ListNext, Size
    <3> QED BY <2>3, <2>7, <2>12, <2>14, <3>1, <3>2
  <2>16. IsTree(g.tree, NodeSize(g))
    <3>1. \A n \in DOMAIN g.tree : NodeSize(g)[n] = sz[n]
      BY <2>11, <2>12 DEF NodeSize, TreeSize, Size
    <3> QED BY <2>11, <2>12, <3>1, TreeSame
  <2>17. Linked(g, F \union {a})
    <3>1. F \union {a} \subseteq DOMAIN g.chunk
      BY <1>2, <2>4, <2>12
    <3>2. DOMAIN g.tree = {Root} \union Larges(g, F \union {a})
      BY <1>2, <2>11, <2>12, <2>14
    <3>3. g.normal[NormalCnt(g) - 1] = Null
      BY <1>2, <2>12
    <3> QED BY <2>15, <2>16, <3>1, <3>2, <3>3 DEF Linked
  <2> QED BY <2>2, <2>4, <2>12, <2>13, <2>14, <2>17
<1> QED BY <1>3, <1>4

\* g is h after chunk a, of those in F, has been taken out of its list or tree.
Unlinked(h, F, a, g) ==
    /\ Formed(g) /\ Linked(g, F \ {a})
    /\ g.base = h.base /\ g.corrupted = h.corrupted /\ NormalCnt(g) = NormalCnt(h)
    /\ DOMAIN g.chunk = DOMAIN h.chunk
    /\ \A b \in DOMAIN h.chunk :
        /\ g.chunk[b].ut = h.chunk[b].ut /\ Size(g, b) = Size(h, b)
        /\ g.chunk[b].pinuse = h.chunk[b].pinuse /\ g.chunk[b].word = h.chunk[b].word
        /\ b \notin Smalls(h, F) \ {a} => g.chunk[b] = h.chunk[b]
    /\ Smalls(g, F \ {a}) = Smalls(h, F) \ {a}
    /\ Quiet(h, F) => NextListed(g, F \ {a})

\* The lists h.normal[i] and the links of a heap.
LEMMA SmallLists ==
    ASSUME NEW h, Formed(h), NEW F, Linked(h, F), NEW a \in Smalls(h, F)
    PROVE  /\ a \in F /\ a \in DOMAIN h.chunk /\ a # Null /\ a \in Nat
           /\ Size(h, a) \in ListSizes(h) /\ Size(h, a) \in DOMAIN h.normal
           /\ Size(h, a) # NormalCnt(h) - 1
           /\ NextOf(h)[a] = ListNext(h, a) /\ SizeOf(h)[a] = Size(h, a)
           /\ ListNext(h, a) \in Smalls(h, F) \union {Null} /\ ListNext(h, a) # a
           /\ h.normal[Size(h, a)] \in Smalls(h, F)
           /\ \A j \in ListSizes(h) : h.normal[j] = a => j = Size(h, a)
           /\ h.normal[Size(h, a)] = a => \A b \in Smalls(h, F) : ListNext(h, b) # a
           /\ \A b, c \in Smalls(h, F) : ListNext(h, b) = a /\ ListNext(h, c) = a => b = c
           /\ \A b \in Smalls(h, F) : ListNext(h, b) = a => ListNext(h, a) # b
<1>1. Lists(NextOf(h), Smalls(h, F), h.normal, SizeOf(h), ListSizes(h)) /\ F \subseteq DOMAIN h.chunk
  BY DEF Linked
<1>2. \A b \in Smalls(h, F) : SizeOf(h)[b] \in ListSizes(h) /\ SizeOf(h)[b] = Size(h, b)
  BY <1>1, SmallSizes
<1>3. /\ a \in F /\ a \in DOMAIN h.chunk /\ a # Null /\ a \in Nat
      /\ Size(h, a) \in ListSizes(h) /\ Size(h, a) \in DOMAIN h.normal
      /\ Size(h, a) # NormalCnt(h) - 1
  <2>1. a \in F /\ a \in DOMAIN h.chunk
    BY <1>1 DEF Smalls
  <2>2. a # Null /\ a \in Nat /\ Size(h, a) \in Nat /\ NormalCnt(h) \in Nat
    BY <2>1 DEF Formed
  <2>3. IsNormal(h, Size(h, a))
    BY DEF Smalls
  <2>4. Size(h, a) \in ListSizes(h) /\ ListSizes(h) \subseteq DOMAIN h.normal
    BY <1>1, <1>2, SmallSizes
  <2> QED BY <2>1, <2>2, <2>3, <2>4 DEF IsNormal
<1>4. \A b \in Smalls(h, F) : NextOf(h)[b] = ListNext(h, b)
  BY <1>1 DEF Smalls, NextOf
<1>5. /\ NextOf(h)[a] \in Smalls(h, F) \union {Null} /\ NextOf(h)[a] # a
      /\ h.normal[SizeOf(h)[a]] \in Smalls(h, F)
      /\ \A j \in ListSizes(h) : h.normal[j] = a => j = SizeOf(h)[a]
      /\ h.normal[SizeOf(h)[a]] = a => \A b \in Smalls(h, F) : NextOf(h)[b] # a
      /\ \A b, c \in Smalls(h, F) : NextOf(h)[b] = a /\ NextOf(h)[c] = a => b = c
  <2>1. \A b \in Smalls(h, F) : SizeOf(h)[b] \in ListSizes(h)
    BY <1>2
  <2> QED BY <1>1, <2>1, OnlyBefore
<1>6. ASSUME NEW b \in Smalls(h, F), NextOf(h)[b] = a PROVE NextOf(h)[a] # b
  <2>1. PICK below, rank : Row(NextOf(h), Smalls(h, F), below, rank)
    BY <1>1 DEF Lists
  <2>2. rank[a] \in Nat /\ rank[b] \in Nat
    BY <2>1 DEF Row
  <2>3. a \in below[a] /\ b \in below[b]
    BY <2>1 DEF Row
  <2>4. rank[a] < rank[b]
    BY <1>6, <2>1, <2>3 DEF Row
  <2>5. NextOf(h)[a] = b => rank[b] < rank[a]
    BY <2>1, <2>3 DEF Row
  <2> QED BY <2>2, <2>4, <2>5
<1> QED BY <1>2, <1>3, <1>4, <1>5, <1>6

\* The chunk before a removed one leads to the one after it.
Relinked(h, p, next) == [h EXCEPT !.chunk[p].next = Offset(p, next)]

\* Where unlink_hmu finds a chunk.
LEMMA UnlinkNormalIs ==
    ASSUME NEW h, Formed(h), NEW F, Linked(h, F), NextListed(h, F), NEW a \in Smalls(h, F)
    PROVE  \/ /\ h.normal[Size(h, a)] = a
              /\ UnlinkNormal(h, a) = [h EXCEPT !.normal[Size(h, a)] = ListNext(h, a)]
           \/ /\ h.normal[Size(h, a)] # a
              /\ \E prev \in Smalls(h, F) :
                    /\ ListNext(h, prev) = a
                    /\ UnlinkNormal(h, a) = Relinked(h, prev, ListNext(h, a))
<1> DEFINE i == Size(h, a)
           s == ListOf(h, i)
           at == {j \in DOMAIN s : s[j] = a}
<1>1. /\ a \in DOMAIN h.chunk /\ a # Null /\ i \in ListSizes(h) /\ h.normal[i] \in Smalls(h, F)
      /\ SizeOf(h)[a] = i
  BY SmallLists
<1>2. Lists(NextOf(h), Smalls(h, F), h.normal, SizeOf(h), ListSizes(h)) /\ F \subseteq DOMAIN h.chunk
  BY DEF Linked
<1>3. PICK below, rank : /\ Row(NextOf(h), Smalls(h, F), below, rank)
                         /\ Heads(Smalls(h, F), h.normal, SizeOf(h), ListSizes(h), below)
  BY <1>2 DEF Lists
<1>4. /\ Walk(NextOf(h), DOMAIN h.chunk, h.normal[i], s)
      /\ {s[j] : j \in DOMAIN s} = below[h.normal[i]]
      /\ \A j, k \in DOMAIN s : s[j] = s[k] => j = k
  <2>1. Smalls(h, F) \in SUBSET DOMAIN h.chunk /\ Null \notin DOMAIN h.chunk
    BY <1>2, SmallSizes DEF Smalls
  <2>2. \A b \in DOMAIN h.chunk : NextOf(h)[b] = ListNext(h, b) /\ NextOf(h)[b] \in Smalls(h, F) \union {Null}
    BY DEF NextListed, NextOf
  <2>3. h.normal[i] \in Smalls(h, F) \union {Null}
    BY <1>1
  <2> HIDE DEF i
  <2> QED BY <1>3, <2>1, <2>2, <2>3, ListOfIs
<1>5. a \in below[h.normal[i]]
  BY <1>1, <1>3 DEF Heads
<1> HIDE DEF i, s
<1>6. /\ s \in Seq(DOMAIN h.chunk) /\ DOMAIN s = 1 .. Len(s) /\ Len(s) \in Nat
      /\ s[1] = h.normal[i]
      /\ \A j \in 1 .. Len(s) - 1 : s[j + 1] = NextOf(h)[s[j]]
  <2>1. h.normal[i] # Null
    BY <1>1, SmallLists
  <2> QED BY <1>4, <2>1 DEF Walk
<1>7. PICK k \in 1 .. Len(s) : s[k] = a
  BY <1>4, <1>5, <1>6
<1>8. at = {k}
  BY <1>4, <1>6, <1>7
<1>9. Min(at) = k
  BY <1>8, <1>6 DEF Min
<1>10. ~ \E j \in DOMAIN s : ~InHeap(h, s[j]) /\ \A l \in at : j < l
  <2>1. \A j \in DOMAIN s : s[j] \in DOMAIN h.chunk
    BY <1>6
  <2> QED BY <2>1 DEF Formed
<1>11. at # {}
  BY <1>8
<1>12. UnlinkNormal(h, a) = IF k = 1 THEN [h EXCEPT !.normal[i] = ListNext(h, a)]
                            ELSE Relinked(h, s[k - 1], ListNext(h, a))
  <2> HIDE DEF at
  <2>1. UnlinkNormal(h, a) =
          IF Min(at) = 1 THEN [h EXCEPT !.normal[i] = ListNext(h, a)]
          ELSE Relinked(h, s[Min(at) - 1], ListNext(h, a))
    BY <1>10, <1>11 DEF UnlinkNormal, Relinked, i, s, at
  <2> QED BY <1>9, <2>1
<1>13. CASE k = 1
  BY <1>6, <1>7, <1>12, <1>13 DEF i
<1>14. CASE k # 1
  <2>1. k - 1 \in 1 .. Len(s) - 1 /\ k - 1 \in DOMAIN s /\ (k - 1) + 1 = k
    BY <1>6, <1>14
  <2>2. NextOf(h)[s[k - 1]] = a
    BY <1>6, <1>7, <2>1
  <2>3. s[k - 1] \in below[h.normal[i]]
    BY <1>4, <2>1
  <2>4. s[k - 1] \in Smalls(h, F)
    BY <1>1, <1>3, <2>3 DEF Row
  <2>5. h.normal[i] # a
    <3>1. 1 \in DOMAIN s /\ k \in DOMAIN s
      BY <1>6
    <3> QED BY <1>4, <1>6, <1>7, <1>14, <3>1
  <2>6. ListNext(h, s[k - 1]) = a
    BY <2>2, <2>4, SmallLists
  <2> QED BY <1>12, <1>14, <2>4, <2>5, <2>6 DEF i
<1> QED BY <1>13, <1>14

\* The first chunk of a list is taken.
LEMMA DropHead ==
    ASSUME NEW h, Formed(h), NEW F, Linked(h, F), NEW a \in Smalls(h, F), NEW i,
           i = Size(h, a), h.normal[i] = a,
           NEW g, g = [h EXCEPT !.normal[i] = ListNext(h, a)]
    PROVE  Unlinked(h, F, a, g) /\ g.chunk = h.chunk
<1>1. /\ a \in F /\ a \in DOMAIN h.chunk /\ i \in ListSizes(h) /\ i \in DOMAIN h.normal
      /\ i # NormalCnt(h) - 1 /\ NextOf(h)[a] = ListNext(h, a)
      /\ \A j \in ListSizes(h) : h.normal[j] = a => j = i
      /\ \A b \in Smalls(h, F) : ListNext(h, b) # a
  BY SmallLists
<1>2. /\ h = [base |-> h.base, chunk |-> h.chunk, normal |-> h.normal, tree |-> h.tree,
              corrupted |-> h.corrupted]
      /\ h.normal = [j \in 0 .. NormalCnt(h) - 1 |-> h.normal[j]]
  BY DEF Formed
<1>3. /\ g = [base |-> g.base, chunk |-> g.chunk, normal |-> g.normal, tree |-> g.tree,
              corrupted |-> g.corrupted]
      /\ g.base = h.base /\ g.corrupted = h.corrupted /\ g.tree = h.tree /\ g.chunk = h.chunk
      /\ g.normal = [h.normal EXCEPT ![i] = ListNext(h, a)]
  BY <1>2
<1>4. /\ NormalCnt(g) = NormalCnt(h) /\ g.normal[i] = ListNext(h, a)
      /\ \A j \in DOMAIN h.normal \ {i} : g.normal[j] = h.normal[j]
      /\ g.normal = [j \in 0 .. NormalCnt(h) - 1 |-> g.normal[j]]
  <2>1. /\ DOMAIN g.normal = DOMAIN h.normal /\ g.normal[i] = ListNext(h, a)
        /\ \A j \in DOMAIN h.normal \ {i} : g.normal[j] = h.normal[j]
        /\ g.normal = [j \in 0 .. NormalCnt(h) - 1 |-> g.normal[j]]
    BY <1>1, <1>2, <1>3
  <2> QED BY <2>1 DEF NormalCnt
<1>5. Formed(g)
  <2>1. ASSUME NEW x \in DOMAIN g.chunk
        PROVE  /\ IsChunk(g.chunk[x]) /\ Size(g, x) \in Nat \ {0} /\ g.chunk[x].next \in Int
               /\ x \in Nat \ {Null} /\ InHeap(g, x)
    BY <1>3 DEF Formed, Size, InHeap
  <2>2. g.base \in Nat /\ g.chunk = [x \in DOMAIN g.chunk |-> g.chunk[x]] /\ NormalCnt(h) \in Nat \ 0 .. 3
    BY <1>3 DEF Formed
  <2> QED BY <1>3, <1>4, <2>1, <2>2 DEF Formed
<1>6. /\ \A b : Size(g, b) = Size(h, b) /\ ListNext(g, b) = ListNext(h, b)
      /\ \A k : IsNormal(g, k) <=> IsNormal(h, k)
  BY <1>3, <1>4 DEF Size, ListNext, IsNormal
<1>7. Smalls(g, F \ {a}) = Smalls(h, F) \ {a} /\ Larges(g, F \ {a}) = Larges(h, F)
  BY <1>6 DEF Smalls, Larges
<1>8. Lists(NextOf(g), Smalls(g, F \ {a}), g.normal, SizeOf(g), ListSizes(g))
  <2>1. NextOf(g) = NextOf(h) /\ SizeOf(g) = SizeOf(h) /\ ListSizes(g) = ListSizes(h)
    BY <1>3, <1>4, <1>6 DEF NextOf, SizeOf, ListSizes
  <2>2. Lists(NextOf(h), Smalls(h, F), h.normal, SizeOf(h), ListSizes(h)) /\ F \subseteq DOMAIN h.chunk
    BY DEF Linked
  <2>3. \A b \in Smalls(h, F) : SizeOf(h)[b] \in ListSizes(h)
    BY <2>2, SmallSizes
  <2>4. ListSizes(h) \subseteq DOMAIN h.normal
    BY <2>2, SmallSizes
  <2>5. \A b \in Smalls(h, F) \ {a} : NextOf(h)[b] = IF NextOf(h)[b] = a THEN NextOf(h)[a] ELSE NextOf(h)[b]
    BY <1>1, <2>2 DEF NextOf, Smalls
  <2>6. \A j \in ListSizes(h) : g.normal[j] = IF h.normal[j] = a THEN NextOf(h)[a] ELSE h.normal[j]
    BY <1>1, <1>4, <2>4
  <2>7. Lists(NextOf(h), Smalls(h, F) \ {a}, g.normal, SizeOf(h), ListSizes(h))
    BY ONLY <2>2, <2>3, <2>5, <2>6, a \in Smalls(h, F), TakeOut
  <2> QED BY <1>7, <2>1, <2>7
<1>9. g.normal[NormalCnt(g) - 1] = Null
  <2>1. NormalCnt(h) - 1 \in DOMAIN h.normal
    BY DEF Formed
  <2> QED BY <1>1, <1>4, <2>1 DEF Linked
<1>10. DOMAIN g.tree = {Root} \union Larges(g, F \ {a}) /\ IsTree(g.tree, NodeSize(g))
  <2>1. NodeSize(g) = NodeSize(h)
    BY <1>3, <1>6 DEF NodeSize, TreeSize
  <2> QED BY <1>3, <1>7, <2>1 DEF Linked
<1>11. F \ {a} \subseteq DOMAIN g.chunk
  BY <1>3 DEF Linked
<1>12. Linked(g, F \ {a})
  BY <1>8, <1>9, <1>10, <1>11 DEF Linked
<1>13. ASSUME Quiet(h, F) PROVE NextListed(g, F \ {a})
  <2> SUFFICES ASSUME NEW b \in DOMAIN h.chunk
               PROVE  ListNext(h, b) \in (Smalls(h, F) \ {a}) \union {Null}
    BY <1>3, <1>6, <1>7 DEF NextListed
  <2>1. CASE b \in Smalls(h, F)
    <3>1. ListNext(h, b) \in Smalls(h, F) \union {Null}
      BY <2>1, SmallLists
    <3> QED BY <1>1, <2>1, <3>1
  <2>2. CASE b \notin Smalls(h, F)
    BY <1>13, <2>2 DEF Quiet, ListNext
  <2> QED BY <2>1, <2>2
<1> QED BY <1>3, <1>4, <1>5, <1>6, <1>7, <1>12, <1>13 DEF Unlinked

\* A chunk further down a list is taken.
LEMMA DropInner ==
    ASSUME NEW h, Formed(h), NEW F, Linked(h, F), NEW a \in Smalls(h, F),
           h.normal[Size(h, a)] # a, NEW p \in Smalls(h, F), ListNext(h, p) = a,
           NEW g, g = [h EXCEPT !.chunk[p].next = Offset(p, ListNext(h, a))]
    PROVE  Unlinked(h, F, a, g)
<1> DEFINE next == ListNext(h, a)
<1>1. /\ a \in F /\ a \in DOMAIN h.chunk /\ NextOf(h)[a] = next
      /\ next \in Smalls(h, F) \union {Null} /\ next # a /\ next # p
      /\ \A j \in ListSizes(h) : h.normal[j] = a => j = Size(h, a)
      /\ \A b \in Smalls(h, F) : ListNext(h, b) = a => b = p
  BY SmallLists
<1>2. p # a /\ p \in F /\ p \in DOMAIN h.chunk /\ p \in Nat
  BY <1>1, SmallLists
<1>3. next \in Nat
  <2>1. \A b \in Smalls(h, F) : b \in Nat
    BY SmallLists
  <2> QED BY <1>1, <2>1 DEF Null
<1> HIDE DEF next
<1>4. /\ Offset(p, next) \in Int
      /\ next = IF Offset(p, next) = 0 THEN Null ELSE p + Offset(p, next)
  BY <1>1, <1>2, <1>3 DEF Offset
<1>5. /\ h = [base |-> h.base, chunk |-> h.chunk, normal |-> h.normal, tree |-> h.tree,
              corrupted |-> h.corrupted]
      /\ h.chunk = [b \in DOMAIN h.chunk |-> h.chunk[b]]
      /\ IsChunk(h.chunk[p])
  BY <1>2 DEF Formed
<1>6. /\ g = [base |-> g.base, chunk |-> g.chunk, normal |-> g.normal, tree |-> g.tree,
              corrupted |-> g.corrupted]
      /\ g.base = h.base /\ g.corrupted = h.corrupted /\ g.tree = h.tree /\ g.normal = h.normal
      /\ g.chunk = [h.chunk EXCEPT ![p].next = Offset(p, next)]
  BY <1>5 DEF next
<1>7. /\ DOMAIN g.chunk = DOMAIN h.chunk
      /\ g.chunk = [b \in DOMAIN g.chunk |-> g.chunk[b]]
      /\ \A b \in DOMAIN h.chunk \ {p} : g.chunk[b] = h.chunk[b]
      /\ IsChunk(g.chunk[p]) /\ g.chunk[p].next = Offset(p, next)
      /\ g.chunk[p].ut = h.chunk[p].ut /\ g.chunk[p].size = h.chunk[p].size
      /\ g.chunk[p].pinuse = h.chunk[p].pinuse /\ g.chunk[p].word = h.chunk[p].word
  <2>1. /\ DOMAIN g.chunk = DOMAIN h.chunk
        /\ g.chunk = [b \in DOMAIN g.chunk |-> g.chunk[b]]
        /\ \A b \in DOMAIN h.chunk \ {p} : g.chunk[b] = h.chunk[b]
        /\ g.chunk[p] = [h.chunk[p] EXCEPT !.next = Offset(p, next)]
    BY <1>2, <1>5, <1>6
  <2> QED BY <1>5, <2>1 DEF IsChunk
<1>8. NormalCnt(g) = NormalCnt(h)
  BY <1>6 DEF NormalCnt
<1>9. \A b \in DOMAIN h.chunk : Size(g, b) = Size(h, b)
  BY <1>7 DEF Size
<1>10. /\ ListNext(g, p) = next
       /\ \A b \in DOMAIN h.chunk \ {p} : ListNext(g, b) = ListNext(h, b)
  BY <1>4, <1>7 DEF ListNext
<1>11. \A k : IsNormal(g, k) <=> IsNormal(h, k)
  BY <1>8 DEF IsNormal
<1>12. Formed(g)
  <2>1. ASSUME NEW x \in DOMAIN g.chunk
        PROVE  /\ IsChunk(g.chunk[x]) /\ Size(g, x) \in Nat \ {0} /\ g.chunk[x].next \in Int
               /\ x \in Nat \ {Null} /\ InHeap(g, x)
    <3>1. CASE x = p
      BY <1>2, <1>4, <1>6, <1>7, <1>9, <3>1 DEF Formed, InHeap
    <3>2. CASE x # p
      BY <1>6, <1>7, <1>9, <3>2 DEF Formed, InHeap
    <3> QED BY <3>1, <3>2
  <2> QED BY <1>6, <1>7, <1>8, <2>1 DEF Formed
<1>13. F \subseteq DOMAIN h.chunk
  BY DEF Linked
<1>14. Smalls(g, F \ {a}) = Smalls(h, F) \ {a} /\ Larges(g, F \ {a}) = Larges(h, F)
  <2>1. IsNormal(h, Size(h, a))
    BY DEF Smalls
  <2> QED BY <1>9, <1>11, <1>13, <2>1 DEF Smalls, Larges
<1>15. Lists(NextOf(g), Smalls(g, F \ {a}), g.normal, SizeOf(g), ListSizes(g))
  <2>1. SizeOf(g) = SizeOf(h) /\ ListSizes(g) = ListSizes(h)
    BY <1>7, <1>8, <1>9 DEF SizeOf, ListSizes
  <2>2. Lists(NextOf(h), Smalls(h, F), h.normal, SizeOf(h), ListSizes(h))
    BY DEF Linked
  <2>3. \A b \in Smalls(h, F) : SizeOf(h)[b] \in ListSizes(h)
    BY <1>13, SmallSizes
  <2>4. \A b \in Smalls(h, F) \ {a} : NextOf(g)[b] = IF NextOf(h)[b] = a THEN NextOf(h)[a] ELSE NextOf(h)[b]
    <3> SUFFICES ASSUME NEW b \in Smalls(h, F) \ {a}
                 PROVE  NextOf(g)[b] = IF NextOf(h)[b] = a THEN NextOf(h)[a] ELSE NextOf(h)[b]
      OBVIOUS
    <3>1. b \in DOMAIN h.chunk /\ NextOf(g)[b] = ListNext(g, b) /\ NextOf(h)[b] = ListNext(h, b)
      BY <1>7, <1>13 DEF NextOf, Smalls
    <3>2. CASE b = p
      BY <1>1, <1>10, <3>1, <3>2
    <3>3. CASE b # p
      BY <1>1, <1>10, <3>1, <3>3
    <3> QED BY <3>2, <3>3
  <2>5. \A j \in ListSizes(h) : g.normal[j] = IF h.normal[j] = a THEN NextOf(h)[a] ELSE h.normal[j]
    BY <1>1, <1>6
  <2>6. Lists(NextOf(g), Smalls(h, F) \ {a}, g.normal, SizeOf(h), ListSizes(h))
    BY ONLY <2>2, <2>3, <2>4, <2>5, a \in Smalls(h, F), TakeOut
  <2> QED BY <1>14, <2>1, <2>6
<1>16. g.normal[NormalCnt(g) - 1] = Null
  BY <1>6, <1>8 DEF Linked
<1>17. DOMAIN g.tree = {Root} \union Larges(g, F \ {a}) /\ IsTree(g.tree, NodeSize(g))
  <2>1. DOMAIN h.tree = {Root} \union Larges(h, F) /\ IsTree(h.tree, NodeSize(h))
    BY DEF Linked
  <2>2. \A n \in DOMAIN h.tree : NodeSize(g)[n] = NodeSize(h)[n]
    BY <1>6, <1>9, <1>13, <2>1 DEF NodeSize, TreeSize, Larges
  <2> QED BY <1>6, <1>14, <2>1, <2>2, TreeSame
<1>18. Linked(g, F \ {a})
  BY <1>7, <1>13, <1>15, <1>16, <1>17 DEF Linked
<1>19. ASSUME Quiet(h, F) PROVE NextListed(g, F \ {a})
  <2> SUFFICES ASSUME NEW b \in DOMAIN h.chunk
               PROVE  ListNext(g, b) \in (Smalls(h, F) \ {a}) \union {Null}
    BY <1>7, <1>14 DEF NextListed
  <2>1. CASE b = p
    BY <1>1, <1>10, <2>1
  <2>2. CASE b \in Smalls(h, F) \ {p}
    <3>1. ListNext(h, b) \in Smalls(h, F) \union {Null}
      BY <2>2, SmallLists
    <3> QED BY <1>1, <1>10, <2>2, <3>1
  <2>3. CASE b \notin Smalls(h, F)
    <3>1. ListNext(h, b) = Null
      BY <1>19, <2>3 DEF Quiet, ListNext
    <3>2. b # p
      BY <2>3
    <3> QED BY <1>10, <3>1, <3>2
  <2> QED BY <2>1, <2>2, <2>3
<1>20. \A b \in DOMAIN h.chunk :
        /\ g.chunk[b].ut = h.chunk[b].ut
        /\ g.chunk[b].pinuse = h.chunk[b].pinuse /\ g.chunk[b].word = h.chunk[b].word
        /\ b \notin Smalls(h, F) \ {a} => g.chunk[b] = h.chunk[b]
  BY <1>2, <1>7
<1> QED BY <1>6, <1>7, <1>8, <1>9, <1>12, <1>14, <1>18, <1>19, <1>20 DEF Unlinked

\* A chunk is taken out of the tree.
LEMMA DropNode ==
    ASSUME NEW h, Formed(h), NEW F, Linked(h, F), NEW a \in Larges(h, F),
           NEW g, g = [h EXCEPT !.tree = RemoveTreeNode(h.tree, a)]
    PROVE  Unlinked(h, F, a, g) /\ g.chunk = h.chunk
<1>1. /\ h = [base |-> h.base, chunk |-> h.chunk, normal |-> h.normal, tree |-> h.tree,
              corrupted |-> h.corrupted]
  BY DEF Formed
<1>2. /\ g = [base |-> g.base, chunk |-> g.chunk, normal |-> g.normal, tree |-> g.tree,
              corrupted |-> g.corrupted]
      /\ g.base = h.base /\ g.corrupted = h.corrupted /\ g.normal = h.normal /\ g.chunk = h.chunk
      /\ g.tree = RemoveTreeNode(h.tree, a)
  BY <1>1
<1>3. NormalCnt(g) = NormalCnt(h)
  BY <1>2 DEF NormalCnt
<1>4. /\ \A b : Size(g, b) = Size(h, b) /\ ListNext(g, b) = ListNext(h, b)
      /\ \A k : IsNormal(g, k) <=> IsNormal(h, k)
  BY <1>2, <1>3 DEF Size, ListNext, IsNormal
<1>5. Formed(g)
  <2>1. ASSUME NEW x \in DOMAIN g.chunk
        PROVE  /\ IsChunk(g.chunk[x]) /\ Size(g, x) \in Nat \ {0} /\ g.chunk[x].next \in Int
               /\ x \in Nat \ {Null} /\ InHeap(g, x)
    BY <1>2 DEF Formed, Size, InHeap
  <2>2. /\ g.base \in Nat /\ g.chunk = [x \in DOMAIN g.chunk |-> g.chunk[x]]
        /\ NormalCnt(h) \in Nat \ 0 .. 3
        /\ g.normal = [i \in 0 .. NormalCnt(g) - 1 |-> g.normal[i]]
    BY <1>2, <1>3 DEF Formed
  <2> QED BY <1>2, <1>3, <2>1, <2>2 DEF Formed
<1>6. /\ Smalls(g, F \ {a}) = Smalls(h, F) /\ Smalls(h, F) = Smalls(h, F) \ {a}
      /\ Larges(g, F \ {a}) = Larges(h, F) \ {a}
  BY <1>4 DEF Smalls, Larges
<1>7. /\ Lists(NextOf(h), Smalls(h, F), h.normal, SizeOf(h), ListSizes(h)) /\ F \subseteq DOMAIN h.chunk
      /\ h.normal[NormalCnt(h) - 1] = Null
      /\ DOMAIN h.tree = {Root} \union Larges(h, F) /\ IsTree(h.tree, NodeSize(h))
  BY DEF Linked
<1>8. a # Root
  BY <1>7, SmallSizes DEF Larges
<1>9. a \in DOMAIN h.tree \ {Root}
  BY <1>7, <1>8
<1>10. DOMAIN g.tree = DOMAIN h.tree \ {a} /\ IsTree(g.tree, NodeSize(h))
  BY <1>2, <1>7, <1>9, RemoveTree
<1>11. IsTree(g.tree, NodeSize(g))
  <2>1. \A n \in DOMAIN g.tree : NodeSize(g)[n] = NodeSize(h)[n]
    BY <1>4, <1>10 DEF NodeSize, TreeSize
  <2> QED BY <1>10, <2>1, TreeSame
<1>12. Lists(NextOf(g), Smalls(g, F \ {a}), g.normal, SizeOf(g), ListSizes(g))
  <2>1. NextOf(g) = NextOf(h) /\ SizeOf(g) = SizeOf(h) /\ ListSizes(g) = ListSizes(h)
    BY <1>2, <1>3, <1>4 DEF NextOf, SizeOf, ListSizes
  <2> QED BY <1>2, <1>6, <1>7, <2>1
<1>13. DOMAIN g.tree = {Root} \union Larges(g, F \ {a})
  BY <1>6, <1>7, <1>8, <1>10
<1>14. Linked(g, F \ {a})
  BY <1>2, <1>3, <1>7, <1>11, <1>12, <1>13 DEF Linked
<1>15. ASSUME Quiet(h, F) PROVE NextListed(g, F \ {a})
  <2> SUFFICES ASSUME NEW b \in DOMAIN h.chunk
               PROVE  ListNext(h, b) \in Smalls(h, F) \union {Null}
    BY <1>2, <1>4, <1>6 DEF NextListed
  <2>1. CASE b \in Smalls(h, F)
    BY <2>1, SmallLists
  <2>2. CASE b \notin Smalls(h, F)
    BY <1>15, <2>2 DEF Quiet, ListNext
  <2> QED BY <2>1, <2>2
<1> QED BY <1>2, <1>3, <1>4, <1>5, <1>6, <1>14, <1>15 DEF Unlinked

\* unlink_hmu takes a free chunk out of its list or out of the tree, and leaves
\* all others where they are, whether the tree or a list had it.
LEMMA UnlinkIs ==
    ASSUME NEW h, Formed(h), NEW F, Linked(h, F), NextListed(h, F), NEW a \in F
    PROVE  Unlinked(h, F, a, Unlink(h, a))
<1>1. CASE IsNormal(h, Size(h, a))
  <2>1. a \in Smalls(h, F) /\ Unlink(h, a) = UnlinkNormal(h, a)
    BY <1>1 DEF Smalls, Unlink
  <2>2. CASE h.normal[Size(h, a)] = a
    <3>1. Unlink(h, a) = [h EXCEPT !.normal[Size(h, a)] = ListNext(h, a)]
      BY <2>1, <2>2, UnlinkNormalIs
    <3> QED BY <2>1, <2>2, <3>1, DropHead
  <2>3. CASE h.normal[Size(h, a)] # a
    <3>1. PICK p \in Smalls(h, F) : ListNext(h, p) = a /\ UnlinkNormal(h, a) = Relinked(h, p, ListNext(h, a))
      BY <2>1, <2>3, UnlinkNormalIs
    <3>2. Unlink(h, a) = [h EXCEPT !.chunk[p].next = Offset(p, ListNext(h, a))]
      BY <2>1, <3>1 DEF Relinked
    <3> QED BY <2>1, <2>3, <3>1, <3>2, DropInner
  <2> QED BY <2>2, <2>3
<1>2. CASE ~IsNormal(h, Size(h, a))
  <2>1. a \in Larges(h, F) /\ Unlink(h, a) = [h EXCEPT !.tree = RemoveTreeNode(h.tree, a)]
    BY <1>2, Unbroken DEF Larges, Unlink
  <2> QED BY <2>1, DropNode
<1> QED BY <1>1, <1>2

-----------------------------------------------------------------------------
(* The addresses in C, with what z says of their sizes, tile lo .. hi.        *)
Tiles(C, z, lo, hi) ==
    /\ lo \in C
    /\ lo \in Int /\ hi \in Int
    /\ \A a \in C :
        /\ a \in Int /\ lo <= a
        /\ z[a] \in Nat \ {0} /\ a + z[a] <= hi /\ a + z[a] \in C \union {hi}
        /\ \A b \in C : b <= a \/ a + z[a] <= b

\* Every chunk but the first has one before it.
LEMMA TileBefore ==
    ASSUME NEW C, NEW z, NEW lo, NEW hi, Tiles(C, z, lo, hi),
           NEW a \in C \union {hi}, a # lo
    PROVE  \E p \in C : p + z[p] = a /\ p < a /\ \A q \in C : q + z[q] = a => q = p
<1> DEFINE S == {b \in C : b < a}
           rank == [b \in S |-> hi - b]
<1>1. /\ lo \in C /\ lo \in Int /\ hi \in Int /\ a \in Int /\ lo < a /\ a <= hi
  BY DEF Tiles
<1>2. S # {}
  BY <1>1
<1>3. \A b \in S : rank[b] \in Nat
  BY <1>1 DEF Tiles
<1>4. PICK p \in S : \A q \in S : rank[p] <= rank[q]
  <2> HIDE DEF S, rank
  <2> QED BY <1>2, <1>3, LeastNode
<1>5. p \in C /\ p \in Int /\ p < a /\ z[p] \in Nat \ {0} /\ p + z[p] \in C \union {hi}
  BY DEF Tiles
<1>6. \A q \in S : q \in Int /\ q <= p
  <2> SUFFICES ASSUME NEW q \in S PROVE q \in Int /\ q <= p
    OBVIOUS
  <2>1. q \in Int
    BY DEF Tiles
  <2>2. hi - p <= hi - q
    BY <1>4
  <2> QED BY <1>1, <1>5, <2>1, <2>2
<1>7. p + z[p] <= a
  BY <1>1, <1>5 DEF Tiles
<1>8. p + z[p] = a
  <2> SUFFICES ASSUME p + z[p] # a PROVE FALSE
    OBVIOUS
  <2>1. p + z[p] < a /\ p + z[p] # hi
    BY <1>1, <1>5, <1>7
  <2>2. p + z[p] \in S
    BY <1>5, <2>1
  <2>3. p + z[p] <= p
    BY <1>6, <2>2
  <2> QED BY <1>5, <2>3
<1>9. ASSUME NEW q \in C, q + z[q] = a PROVE q = p
  <2>1. q \in Int /\ z[q] \in Nat \ {0}
    BY DEF Tiles
  <2>2. q \in S
    BY <1>1, <1>9, <2>1
  <2>3. q <= p
    BY <1>6, <2>2
  <2>4. p <= q \/ q + z[q] <= p
    BY <1>5 DEF Tiles
  <2> QED BY <1>5, <1>9, <2>1, <2>3, <2>4
<1> QED BY <1>5, <1>8, <1>9

\* A chunk takes in the next.
LEMMA TileMerge ==
    ASSUME NEW C, NEW z, NEW lo, NEW hi, Tiles(C, z, lo, hi),
           NEW a \in C, NEW n \in C, n = a + z[a],
           NEW D, D = C \ {n}, NEW y, y[a] = z[a] + z[n], \A b \in D \ {a} : y[b] = z[b]
    PROVE  Tiles(D, y, lo, hi)
<1>1. /\ lo \in Int /\ hi \in Int /\ lo \in C
      /\ a \in Int /\ lo <= a /\ z[a] \in Nat \ {0}
      /\ n \in Int /\ z[n] \in Nat \ {0} /\ n + z[n] <= hi /\ n + z[n] \in C \union {hi}
  BY DEF Tiles
<1>2. a # n /\ lo # n /\ n + z[n] # n
  BY <1>1
<1>3. ASSUME NEW b \in D
      PROVE  /\ b \in Int /\ lo <= b
             /\ y[b] \in Nat \ {0} /\ b + y[b] <= hi /\ b + y[b] \in D \union {hi}
             /\ \A c \in D : c <= b \/ b + y[b] <= c
  <2>1. b \in C /\ b # n /\ b \in Int /\ lo <= b
    BY DEF Tiles
  <2>2. CASE b = a
    <3>1. a + y[a] = n + z[n] /\ y[a] \in Nat \ {0}
      BY <1>1
    <3>2. \A c \in D : c <= a \/ n + z[n] <= c
      <4> SUFFICES ASSUME NEW c \in D PROVE c <= a \/ n + z[n] <= c
        OBVIOUS
      <4>1. c \in Int /\ c # n /\ (c <= a \/ n <= c) /\ (c <= n \/ n + z[n] <= c)
        BY DEF Tiles
      <4> QED BY <1>1, <4>1
    <3> QED BY <1>1, <1>2, <2>1, <2>2, <3>1, <3>2
  <2>3. CASE b # a
    <3>1. /\ z[b] \in Nat \ {0} /\ b + z[b] <= hi /\ b + z[b] \in C \union {hi}
          /\ \A c \in D : c <= b \/ b + z[b] <= c
      BY <2>1 DEF Tiles
    <3>2. b + z[b] # n
      <4>1. \E p \in C : \A q \in C : q + z[q] = n => q = p
        BY <1>2, TileBefore
      <4> QED BY <2>1, <2>3, <4>1
    <3> QED BY <2>1, <2>3, <3>1, <3>2
  <2> QED BY <2>2, <2>3
<1> QED BY <1>1, <1>2, <1>3 DEF Tiles

\* A chunk is cut in two.
LEMMA TileSplit ==
    ASSUME NEW C, NEW z, NEW lo, NEW hi, Tiles(C, z, lo, hi),
           NEW a \in C, NEW k \in Nat \ {0}, k < z[a], NEW n, n = a + k,
           NEW D, D = C \union {n}, NEW y, y[a] = k, y[n] = z[a] - k, \A b \in C \ {a} : y[b] = z[b]
    PROVE  Tiles(D, y, lo, hi) /\ n \notin C
<1>1. /\ lo \in Int /\ hi \in Int /\ lo \in C
      /\ a \in Int /\ lo <= a /\ z[a] \in Nat \ {0} /\ a + z[a] <= hi /\ a + z[a] \in C \union {hi}
      /\ n \in Int /\ a < n /\ n < a + z[a] /\ n + y[n] = a + z[a] /\ y[n] \in Nat \ {0}
      /\ \A b \in C : b \in Int /\ (b <= a \/ a + z[a] <= b)
  BY DEF Tiles
<1>2. n \notin C
  BY <1>1
<1>3. ASSUME NEW b \in D
      PROVE  /\ b \in Int /\ lo <= b
             /\ y[b] \in Nat \ {0} /\ b + y[b] <= hi /\ b + y[b] \in D \union {hi}
             /\ \A c \in D : c <= b \/ b + y[b] <= c
  <2>1. CASE b = a
    BY <1>1, <2>1
  <2>2. CASE b = n
    BY <1>1, <2>2
  <2>3. CASE b # a /\ b # n
    <3>1. /\ b \in C /\ b \in Int /\ lo <= b
          /\ z[b] \in Nat \ {0} /\ b + z[b] <= hi /\ b + z[b] \in C \union {hi}
          /\ \A c \in C : c <= b \/ b + z[b] <= c
          /\ y[b] = z[b]
      BY <2>3 DEF Tiles
    <3>2. n <= b \/ b + z[b] <= n
      BY <1>1, <3>1
    <3>3. a <= b \/ b + z[b] <= a
      BY <3>1, <1>1
    <3> QED BY <1>1, <3>1, <3>2, <3>3
  <2> QED BY <2>1, <2>2, <2>3
<1> QED BY <1>1, <1>2, <1>3 DEF Tiles

\* The chunks stay where they are and keep their sizes.
LEMMA TileSame ==
    ASSUME NEW C, NEW z, NEW lo, NEW hi, Tiles(C, z, lo, hi), NEW y, \A b \in C : y[b] = z[b]
    PROVE  Tiles(C, y, lo, hi)
BY DEF Tiles

\* All of them move by the same distance.
LEMMA TileShift ==
    ASSUME NEW C, NEW z, NEW lo, NEW hi, Tiles(C, z, lo, hi), NEW by \in Int,
           NEW D, D = {b + by : b \in C}, NEW y, \A b \in C : y[b + by] = z[b]
    PROVE  Tiles(D, y, lo + by, hi + by)
<1>1. lo + by \in D /\ lo + by \in Int /\ hi + by \in Int
  BY DEF Tiles
<1>2. ASSUME NEW d \in D
      PROVE  /\ d \in Int /\ lo + by <= d
             /\ y[d] \in Nat \ {0} /\ d + y[d] <= hi + by /\ d + y[d] \in D \union {hi + by}
             /\ \A c \in D : c <= d \/ d + y[d] <= c
  <2>1. PICK b \in C : d = b + by
    OBVIOUS
  <2>2. /\ b \in Int /\ lo \in Int /\ hi \in Int /\ lo <= b /\ z[b] \in Nat \ {0}
        /\ b + z[b] <= hi /\ b + z[b] \in C \union {hi}
        /\ \A c \in C : c \in Int /\ (c <= b \/ b + z[b] <= c)
    BY DEF Tiles
  <2>3. y[d] = z[b] /\ d + y[d] = (b + z[b]) + by
    BY <2>1, <2>2
  <2>4. d + y[d] \in D \union {hi + by}
    BY <2>2, <2>3
  <2>5. ASSUME NEW c \in D PROVE c <= d \/ d + y[d] <= c
    <3>1. PICK e \in C : c = e + by
      OBVIOUS
    <3> QED BY <2>1, <2>2, <2>3, <3>1
  <2> QED BY <2>1, <2>2, <2>3, <2>4, <2>5
<1> QED BY <1>1, <1>2 DEF Tiles

-----------------------------------------------------------------------------
(* Sound heaps.                                                              *)
Frees(h) == {a \in DOMAIN h.chunk : IsFree(h, a)}
Objs(h) == {a \in DOMAIN h.chunk : h.chunk[a].ut = "VO"}
After(h, a) == a + Size(h, a)
End(h) == h.base + HeapUnits

\* No object can end with a word that leads from it to a chunk.
HarmlessWords == \A w \in Words : w = 0 \/ w > HeapUnits \/ w < -HeapUnits

\* The chunks fill the heap, each with room for a header and the links.
Tiled(h) ==
    /\ Tiles(DOMAIN h.chunk, SizeOf(h), h.base, End(h))
    /\ \A a \in DOMAIN h.chunk : Size(h, a) >= Smallest

\* What a chunk says of the one before it is true, and free chunks are merged.
Marked(h) ==
    /\ h.chunk[h.base].pinuse = TRUE
    /\ \A a \in DOMAIN h.chunk :
        /\ h.chunk[a].ut \in {"FC", "VO"} /\ h.chunk[a].pinuse \in BOOLEAN
        /\ h.chunk[a].ut = "VO" => h.chunk[a].word \in Words \union {0}
        /\ After(h, a) \in DOMAIN h.chunk =>
              IF h.chunk[a].ut = "FC"
              THEN h.chunk[After(h, a)].ut = "VO" /\ h.chunk[After(h, a)].pinuse = FALSE
              ELSE h.chunk[After(h, a)].pinuse = TRUE \/ HarmlessWords

\* The heap's part of the invariant.
Sound(h) ==
    /\ Formed(h) /\ Linked(h, Frees(h)) /\ Quiet(h, Frees(h))
    /\ Tiled(h) /\ Marked(h) /\ h.corrupted = FALSE

\* In a heap that its chunks tile: what follows a chunk is a chunk or the end of
\* the heap, no chunk begins inside another, and two do not end at one place.
LEMMA ChunkFacts ==
    ASSUME NEW h, Formed(h), Tiled(h), NEW a \in DOMAIN h.chunk
    PROVE  /\ a \in Nat /\ a # Null /\ h.base \in Nat /\ h.base \in DOMAIN h.chunk /\ h.base <= a
           /\ Size(h, a) \in Nat /\ Size(h, a) >= 2 /\ SizeOf(h)[a] = Size(h, a)
           /\ After(h, a) \in DOMAIN h.chunk \union {End(h)}
           /\ After(h, a) \in Nat /\ End(h) \in Nat /\ After(h, a) <= End(h) /\ a < After(h, a)
           /\ InHeap(h, After(h, a)) <=> After(h, a) \in DOMAIN h.chunk
           /\ NextInHeap(h, a) <=> After(h, a) \in DOMAIN h.chunk
           /\ \A b \in DOMAIN h.chunk : b <= a \/ After(h, a) <= b
           /\ \A b \in DOMAIN h.chunk : After(h, b) = After(h, a) => b = a
<1>1. /\ a \in Nat /\ a # Null /\ h.base \in Nat
      /\ \A b \in DOMAIN h.chunk : InHeap(h, b) /\ Size(h, b) \in Nat /\ b \in Nat
  BY DEF Formed
<1>2. \A b \in DOMAIN h.chunk : SizeOf(h)[b] = Size(h, b) /\ Size(h, b) >= 2
  BY DEF SizeOf, Tiled, Smallest
<1>3. /\ h.base \in DOMAIN h.chunk /\ h.base <= a
      /\ After(h, a) \in DOMAIN h.chunk \union {End(h)} /\ After(h, a) <= End(h)
      /\ \A b \in DOMAIN h.chunk : b <= a \/ After(h, a) <= b
      /\ \A b \in DOMAIN h.chunk : a <= b \/ After(h, b) <= a
  BY <1>2 DEF Tiled, Tiles, After
<1>4. HeapUnits \in Nat /\ End(h) \in Nat /\ After(h, a) \in Nat /\ a < After(h, a)
  BY <1>1, <1>2, HeapUnitsAssumption DEF End, After
<1>5. InHeap(h, After(h, a)) <=> After(h, a) \in DOMAIN h.chunk
  BY <1>1, <1>3, <1>4 DEF InHeap, End
<1>6. NextInHeap(h, a) <=> After(h, a) \in DOMAIN h.chunk
  BY <1>5 DEF NextInHeap, After
<1>7. ASSUME NEW b \in DOMAIN h.chunk, After(h, b) = After(h, a) PROVE b = a
  <2>1. b \in Nat /\ Size(h, b) \in Nat /\ Size(h, b) >= 2 /\ Size(h, a) \in Nat /\ Size(h, a) >= 2
    BY <1>1, <1>2
  <2> QED BY <1>1, <1>3, <1>7, <2>1 DEF After
<1> QED BY <1>1, <1>2, <1>3, <1>4, <1>5, <1>6, <1>7

\* The chunk before a chunk.
LEMMA BeforeIs ==
    ASSUME NEW h, Formed(h), Tiled(h), NEW a \in DOMAIN h.chunk, a # h.base
    PROVE  \E p \in DOMAIN h.chunk : After(h, p) = a /\ p < a
<1>1. Tiles(DOMAIN h.chunk, SizeOf(h), h.base, End(h))
  BY DEF Tiled
<1>2. PICK p \in DOMAIN h.chunk : p + SizeOf(h)[p] = a /\ p < a
  BY <1>1, TileBefore
<1> QED BY <1>2 DEF After, SizeOf

-----------------------------------------------------------------------------
(* Changes of the chunks that the lists and the tree do not notice.          *)
Kept(h, F, g) ==
    /\ Formed(g) /\ Linked(g, F) /\ Smalls(g, F) = Smalls(h, F)
    /\ g.base = h.base /\ g.corrupted = h.corrupted

\* g is h with header x replaced.
Rechunked(h, F, x, r, g) ==
    /\ Kept(h, F, g) /\ DOMAIN g.chunk = DOMAIN h.chunk /\ g.chunk[x] = r
    /\ \A b \in DOMAIN h.chunk \ {x} : g.chunk[b] = h.chunk[b]

\* Writing a header does not change lists and tree, if the chunk is in none or
\* keeps its size and link.
LEMMA Rechunk ==
    ASSUME NEW h, Formed(h), NEW F, Linked(h, F), NEW x \in DOMAIN h.chunk,
           NEW r, IsChunk(r), r.size \in Nat \ {0}, r.next \in Int,
           x \notin F \/ (r.size = h.chunk[x].size /\ r.next = h.chunk[x].next),
           NEW g, g = [h EXCEPT !.chunk[x] = r]
    PROVE  Rechunked(h, F, x, r, g)
<1>1. /\ h = [base |-> h.base, chunk |-> h.chunk, normal |-> h.normal, tree |-> h.tree,
              corrupted |-> h.corrupted]
      /\ h.chunk = [b \in DOMAIN h.chunk |-> h.chunk[b]]
      /\ NormalCnt(h) \in Nat \ 0 .. 3 /\ h.normal = [i \in 0 .. NormalCnt(h) - 1 |-> h.normal[i]]
  BY DEF Formed
<1>2. /\ g = [base |-> g.base, chunk |-> g.chunk, normal |-> g.normal, tree |-> g.tree,
              corrupted |-> g.corrupted]
      /\ g.base = h.base /\ g.corrupted = h.corrupted /\ g.tree = h.tree /\ g.normal = h.normal
      /\ g.chunk = [h.chunk EXCEPT ![x] = r]
  BY <1>1
<1>3. /\ DOMAIN g.chunk = DOMAIN h.chunk /\ g.chunk = [b \in DOMAIN g.chunk |-> g.chunk[b]]
      /\ g.chunk[x] = r /\ \A b \in DOMAIN h.chunk \ {x} : g.chunk[b] = h.chunk[b]
  BY <1>1, <1>2
<1>4. Formed(g)
  <2>1. ASSUME NEW b \in DOMAIN g.chunk
        PROVE  /\ IsChunk(g.chunk[b]) /\ Size(g, b) \in Nat \ {0} /\ g.chunk[b].next \in Int
               /\ b \in Nat \ {Null} /\ InHeap(g, b)
    <3>1. CASE b = x
      BY <1>2, <1>3, <3>1 DEF Formed, InHeap, Size
    <3>2. CASE b # x
      BY <1>2, <1>3, <3>2 DEF Formed, InHeap, Size
    <3> QED BY <3>1, <3>2
  <2>2. NormalCnt(g) = NormalCnt(h) /\ g.base \in Nat
    BY <1>2 DEF NormalCnt, Formed
  <2> QED BY <1>1, <1>2, <1>3, <2>1, <2>2 DEF Formed
<1>5. F \subseteq DOMAIN g.chunk
  BY <1>3 DEF Linked
<1>6. \A a \in F : Size(g, a) = Size(h, a) /\ g.chunk[a].next = h.chunk[a].next
  BY <1>3, <1>5 DEF Size
<1>7. Linked(g, F) /\ Smalls(g, F) = Smalls(h, F)
  <2>1. g.normal = h.normal /\ g.tree = h.tree
    BY <1>2
  <2> QED BY ONLY Formed(h), Linked(h, F), <1>4, <1>5, <1>6, <2>1, LinkedSame
<1> QED BY <1>2, <1>3, <1>4, <1>7 DEF Kept, Rechunked

\* g is h without header x.
Dechunked(h, F, x, g) ==
    /\ Kept(h, F, g) /\ DOMAIN g.chunk = DOMAIN h.chunk \ {x}
    /\ \A b \in DOMAIN h.chunk \ {x} : g.chunk[b] = h.chunk[b]

\* A header that nobody looks at any more does not change lists and tree.
LEMMA Dechunk ==
    ASSUME NEW h, Formed(h), NEW F, Linked(h, F), NEW x \in DOMAIN h.chunk, x \notin F,
           NEW g, g = [h EXCEPT !.chunk = Remove(h.chunk, x)]
    PROVE  Dechunked(h, F, x, g)
<1>1. /\ h = [base |-> h.base, chunk |-> h.chunk, normal |-> h.normal, tree |-> h.tree,
              corrupted |-> h.corrupted]
      /\ h.chunk = [b \in DOMAIN h.chunk |-> h.chunk[b]]
      /\ NormalCnt(h) \in Nat \ 0 .. 3 /\ h.normal = [i \in 0 .. NormalCnt(h) - 1 |-> h.normal[i]]
  BY DEF Formed
<1>2. /\ g = [base |-> g.base, chunk |-> g.chunk, normal |-> g.normal, tree |-> g.tree,
              corrupted |-> g.corrupted]
      /\ g.base = h.base /\ g.corrupted = h.corrupted /\ g.tree = h.tree /\ g.normal = h.normal
      /\ g.chunk = Remove(h.chunk, x)
  BY <1>1
<1>3. /\ DOMAIN g.chunk = DOMAIN h.chunk \ {x} /\ g.chunk = [b \in DOMAIN g.chunk |-> g.chunk[b]]
      /\ \A b \in DOMAIN h.chunk \ {x} : g.chunk[b] = h.chunk[b]
  BY <1>1, <1>2 DEF Remove, Restrict
<1>4. Formed(g)
  <2>1. ASSUME NEW b \in DOMAIN g.chunk
        PROVE  /\ IsChunk(g.chunk[b]) /\ Size(g, b) \in Nat \ {0} /\ g.chunk[b].next \in Int
               /\ b \in Nat \ {Null} /\ InHeap(g, b)
    BY <1>2, <1>3 DEF Formed, InHeap, Size
  <2>2. NormalCnt(g) = NormalCnt(h) /\ g.base \in Nat
    BY <1>2 DEF NormalCnt, Formed
  <2> QED BY <1>1, <1>2, <1>3, <2>1, <2>2 DEF Formed
<1>5. F \subseteq DOMAIN g.chunk
  BY <1>3 DEF Linked
<1>6. \A a \in F : Size(g, a) = Size(h, a) /\ g.chunk[a].next = h.chunk[a].next
  BY <1>3, <1>5 DEF Size
<1>7. Linked(g, F) /\ Smalls(g, F) = Smalls(h, F)
  <2>1. g.normal = h.normal /\ g.tree = h.tree
    BY <1>2
  <2> QED BY ONLY Formed(h), Linked(h, F), <1>4, <1>5, <1>6, <2>1, LinkedSame
<1> QED BY <1>2, <1>3, <1>4, <1>7 DEF Kept, Dechunked

-----------------------------------------------------------------------------
(* A free chunk is taken: Carve and Use.                                     *)
IsObject(c, size, pinuse, word) ==
    IsChunk(c) /\ c.ut = "VO" /\ c.size = size /\ c.pinuse = pinuse /\ c.next = 0 /\ c.word = word

\* g is h with the first `size` units of free chunk p taken, the rest free.
Split(h, p, size, g, w) ==
    LET n == p + size
        F == (Frees(h) \ {p}) \union {n}
    IN  /\ Formed(g) /\ Linked(g, F) /\ g.base = h.base /\ g.corrupted = h.corrupted
        /\ n \notin DOMAIN h.chunk /\ DOMAIN g.chunk = DOMAIN h.chunk \union {n}
        /\ IsObject(g.chunk[p], size, h.chunk[p].pinuse, w)
        /\ FreeChunk(g.chunk[n], Size(h, p) - size, TRUE)
        /\ \A b \in DOMAIN h.chunk \ {p} : g.chunk[b] = h.chunk[b]
        /\ n \in Smalls(g, F) \/ g.chunk[n].next = 0
        /\ Smalls(h, Frees(h)) \ {p} \subseteq Smalls(g, F)

\* g is h with all of free chunk p taken.
Whole(h, p, g, w) ==
    LET n == After(h, p)
        F == Frees(h) \ {p}
    IN  /\ Formed(g) /\ Linked(g, F) /\ g.base = h.base /\ g.corrupted = h.corrupted
        /\ DOMAIN g.chunk = DOMAIN h.chunk
        /\ IsObject(g.chunk[p], Size(h, p), h.chunk[p].pinuse, w)
        /\ \A b \in DOMAIN h.chunk \ {p, n} : g.chunk[b] = h.chunk[b]
        /\ n \in DOMAIN h.chunk => g.chunk[n] = [h.chunk[n] EXCEPT !.pinuse = TRUE]
        /\ Smalls(h, Frees(h)) \ {p} \subseteq Smalls(g, F)

\* hmu_mark_pinuse and hmu_unmark_pinuse change one bit.
LEMMA ChunkMarked ==
    ASSUME NEW c, IsChunk(c), NEW used
    PROVE  /\ IsChunk([c EXCEPT !.pinuse = used]) /\ [c EXCEPT !.pinuse = used].pinuse = used
           /\ [c EXCEPT !.pinuse = used].size = c.size /\ [c EXCEPT !.pinuse = used].next = c.next
           /\ [c EXCEPT !.pinuse = used].ut = c.ut /\ [c EXCEPT !.pinuse = used].word = c.word
BY DEF IsChunk

\* hmu_set_ut and the object's contents make a chunk an object.
LEMMA ChunkUsed ==
    ASSUME NEW c, IsChunk(c), NEW w
    PROVE  IsObject([c EXCEPT !.ut = "VO", !.next = 0, !.word = w], c.size, c.pinuse, w)
<1> DEFINE r1 == [c EXCEPT !.ut = "VO"]
           r2 == [r1 EXCEPT !.next = 0]
           r3 == [r2 EXCEPT !.word = w]
<1>1. IsChunk(r1) /\ r1.ut = "VO" /\ r1.size = c.size /\ r1.pinuse = c.pinuse
  BY DEF IsChunk
<1>2. [c EXCEPT !.ut = "VO", !.next = 0, !.word = w] = r3
  OBVIOUS
<1> HIDE DEF r1
<1>3. IsChunk(r2) /\ r2.ut = "VO" /\ r2.size = c.size /\ r2.pinuse = c.pinuse /\ r2.next = 0
  BY <1>1 DEF IsChunk
<1> HIDE DEF r2
<1>4. IsObject(r3, c.size, c.pinuse, w)
  BY <1>3 DEF IsChunk, IsObject
<1> QED BY <1>2, <1>4

\* A chunk out of all lists becomes an object; nothing else changes.
LEMMA UseIs ==
    ASSUME NEW h, Formed(h), NEW F, Linked(h, F), NEW p \in DOMAIN h.chunk, p \notin F,
           NEW w, NEW g, g = Use(h, p, w)
    PROVE  /\ Kept(h, F, g) /\ DOMAIN g.chunk = DOMAIN h.chunk
           /\ IsObject(g.chunk[p], Size(h, p), h.chunk[p].pinuse, w)
           /\ \A b \in DOMAIN h.chunk \ {p} : g.chunk[b] = h.chunk[b]
<1> DEFINE r == [h.chunk[p] EXCEPT !.ut = "VO", !.next = 0, !.word = w]
<1>1. IsChunk(h.chunk[p]) /\ Size(h, p) \in Nat \ {0}
  BY DEF Formed
<1>2. IsObject(r, h.chunk[p].size, h.chunk[p].pinuse, w)
  BY <1>1, ChunkUsed
<1>3. g = [h EXCEPT !.chunk[p] = r]
  <2>1. /\ h = [base |-> h.base, chunk |-> h.chunk, normal |-> h.normal, tree |-> h.tree,
                corrupted |-> h.corrupted]
        /\ h.chunk = [b \in DOMAIN h.chunk |-> h.chunk[b]]
    BY DEF Formed
  <2>2. Use(h, p, w) = [h EXCEPT !.chunk = [[[h.chunk EXCEPT ![p].ut = "VO"] EXCEPT ![p].next = 0] EXCEPT ![p].word = w]]
    BY <2>1 DEF Use
  <2>3. [[[h.chunk EXCEPT ![p].ut = "VO"] EXCEPT ![p].next = 0] EXCEPT ![p].word = w]
          = [h.chunk EXCEPT ![p] = r]
    BY <2>1
  <2> QED BY <2>2, <2>3
<1>4. /\ IsChunk(r) /\ r.size \in Nat \ {0} /\ r.next \in Int
      /\ IsObject(r, Size(h, p), h.chunk[p].pinuse, w)
  BY <1>1, <1>2 DEF IsChunk, IsObject, Size
<1> HIDE DEF r
<1>5. /\ Kept(h, F, g) /\ DOMAIN g.chunk = DOMAIN h.chunk /\ g.chunk[p] = r
      /\ \A b \in DOMAIN h.chunk \ {p} : g.chunk[b] = h.chunk[b]
  <2>1. Rechunked(h, F, p, r, g)
    BY <1>3, <1>4, Rechunk
  <2> QED BY <2>1 DEF Rechunked
<1> QED BY <1>4, <1>5

\* alloc_hmu, where a chunk can be left over: Split says what it does.
LEMMA SplitIs ==
    ASSUME NEW h, Sound(h), NEW p \in Frees(h), NEW k, Unlinked(h, Frees(h), p, k), k.chunk = h.chunk,
           NEW size \in Nat, size >= 2, Size(h, p) >= size + Smallest, NEW w,
           NEW g, g = Use(Carve(k, p, size), p, w)
    PROVE  Split(h, p, size, g, w) /\ Carve(k, p, size).corrupted = FALSE
<1> DEFINE all == Size(h, p)
           n == p + size
           E == Frees(h) \ {p}
           cut == [k EXCEPT !.chunk[p].size = size]
           c == AddFc(cut, n, all - size, TRUE)
<1>1. /\ Formed(h) /\ Tiled(h) /\ p \in DOMAIN h.chunk /\ p \in Nat /\ all \in Nat
      /\ all - size \in Nat \ {0} /\ size < all /\ Size(k, p) = all
  BY ChunkFacts DEF Sound, Frees, Smallest, Size
<1>2. Formed(k) /\ Linked(k, E) /\ k.base = h.base /\ k.corrupted = h.corrupted
      /\ Smalls(k, E) = Smalls(h, Frees(h)) \ {p}
  BY DEF Unlinked
<1>3. n \notin DOMAIN h.chunk /\ n \in Nat \ {Null} /\ InHeap(k, n)
  <2>1. /\ After(h, p) <= End(h) /\ h.base \in Nat /\ h.base <= p /\ End(h) \in Nat /\ p # Null
        /\ \A b \in DOMAIN h.chunk : b \in Nat /\ (b <= p \/ After(h, p) <= b)
    BY <1>1, ChunkFacts
  <2>2. n < After(h, p) /\ p < n
    BY <1>1 DEF After
  <2> QED BY <1>1, <1>2, <2>1, <2>2, HeapUnitsAssumption DEF InHeap, End, Null, After
<1>4. Carve(k, p, size) = c
  <2>1. (IF Size(k, p) >= size + Smallest THEN size ELSE Size(k, p)) = size
    BY <1>1
  <2> QED BY <1>1, <2>1 DEF Carve
<1> DEFINE r == [k.chunk[p] EXCEPT !.size = size]
<1>5. /\ IsChunk(r) /\ r.size = size /\ r.pinuse = h.chunk[p].pinuse /\ r.next = h.chunk[p].next
      /\ r.next \in Int
  <2>1. IsChunk(h.chunk[p]) /\ h.chunk[p].next \in Int
    BY <1>1 DEF Formed
  <2> QED BY <2>1 DEF IsChunk
<1>6. cut = [k EXCEPT !.chunk[p] = r]
  OBVIOUS
<1> HIDE DEF cut, r, n
<1>7. /\ Kept(k, E, cut) /\ DOMAIN cut.chunk = DOMAIN h.chunk /\ cut.chunk[p] = r
      /\ \A b \in DOMAIN h.chunk \ {p} : cut.chunk[b] = h.chunk[b]
  <2>1. r.size \in Nat \ {0}
    BY <1>5
  <2>2. p \in DOMAIN k.chunk /\ p \notin E
    BY <1>1
  <2>3. Rechunked(k, E, p, r, cut)
    BY <1>2, <1>5, <1>6, <2>1, <2>2, Rechunk
  <2> QED BY <2>3 DEF Rechunked
<1>8. /\ Formed(cut) /\ Linked(cut, E) /\ Smalls(cut, E) = Smalls(h, Frees(h)) \ {p}
      /\ cut.base = h.base /\ cut.corrupted = h.corrupted
  BY <1>2, <1>7 DEF Kept
<1>9. /\ Formed(c) /\ Linked(c, E \union {n}) /\ c.base = h.base /\ c.corrupted = h.corrupted
      /\ DOMAIN c.chunk = DOMAIN h.chunk \union {n}
      /\ \A b \in DOMAIN h.chunk : c.chunk[b] = cut.chunk[b]
      /\ FreeChunk(c.chunk[n], all - size, TRUE)
      /\ n \in Smalls(c, E \union {n}) \/ c.chunk[n].next = 0
      /\ Smalls(cut, E) \subseteq Smalls(c, E \union {n})
  <2>1. InHeap(cut, n) /\ n \notin E
    BY <1>2, <1>3, <1>8 DEF InHeap, Frees
  <2>2. /\ Formed(c) /\ Linked(c, E \union {n})
        /\ c.base = cut.base /\ c.corrupted = cut.corrupted
        /\ DOMAIN c.chunk = DOMAIN cut.chunk \union {n}
        /\ \A b \in DOMAIN cut.chunk \ {n} : c.chunk[b] = cut.chunk[b]
        /\ FreeChunk(c.chunk[n], all - size, TRUE)
        /\ n \in Smalls(c, E \union {n}) \/ c.chunk[n].next = 0
        /\ Smalls(cut, E) \subseteq Smalls(c, E \union {n})
    <3>1. Added(cut, E, n, all - size, TRUE, c)
      BY <1>1, <1>3, <1>8, <2>1, AddFcIs
    <3> HIDE DEF c, E
    <3> QED BY <3>1 DEF Added
  <2> QED BY <1>3, <1>7, <1>8, <2>2
<1> HIDE DEF c
<1>10. p \in DOMAIN c.chunk /\ p \notin E \union {n} /\ n # p
  BY <1>1, <1>3, <1>9
<1>11. g = Use(c, p, w)
  BY <1>4
<1>12. /\ Kept(c, E \union {n}, g) /\ DOMAIN g.chunk = DOMAIN c.chunk
       /\ IsObject(g.chunk[p], Size(c, p), c.chunk[p].pinuse, w)
       /\ \A b \in DOMAIN c.chunk \ {p} : g.chunk[b] = c.chunk[b]
  BY <1>9, <1>10, <1>11, UseIs
<1>13. Size(c, p) = size /\ c.chunk[p].pinuse = h.chunk[p].pinuse
  BY <1>1, <1>5, <1>7, <1>9 DEF Size
<1>14. /\ Formed(g) /\ Linked(g, E \union {n}) /\ g.base = h.base /\ g.corrupted = h.corrupted
       /\ Smalls(h, Frees(h)) \ {p} \subseteq Smalls(g, E \union {n})
       /\ Smalls(g, E \union {n}) = Smalls(c, E \union {n})
  BY <1>8, <1>9, <1>12 DEF Kept
<1>15. /\ FreeChunk(g.chunk[n], all - size, TRUE)
       /\ \A b \in DOMAIN h.chunk \ {p} : g.chunk[b] = h.chunk[b]
       /\ DOMAIN g.chunk = DOMAIN h.chunk \union {n}
       /\ n \in Smalls(g, E \union {n}) \/ g.chunk[n].next = 0
  BY <1>3, <1>7, <1>9, <1>10, <1>12, <1>14
<1>16. IsObject(g.chunk[p], size, h.chunk[p].pinuse, w)
  BY <1>12, <1>13
<1> HIDE DEF E, all
<1>17. /\ Formed(g) /\ Linked(g, E \union {n}) /\ g.base = h.base /\ g.corrupted = h.corrupted
       /\ n \notin DOMAIN h.chunk /\ DOMAIN g.chunk = DOMAIN h.chunk \union {n}
       /\ IsObject(g.chunk[p], size, h.chunk[p].pinuse, w)
       /\ FreeChunk(g.chunk[n], all - size, TRUE)
       /\ \A b \in DOMAIN h.chunk \ {p} : g.chunk[b] = h.chunk[b]
       /\ n \in Smalls(g, E \union {n}) \/ g.chunk[n].next = 0
       /\ Smalls(h, Frees(h)) \ {p} \subseteq Smalls(g, E \union {n})
  BY ONLY <1>3, <1>14, <1>15, <1>16
<1>18. Split(h, p, size, g, w)
  BY ONLY <1>17, Zenon DEF Split, E, all, n
<1>19. Carve(k, p, size).corrupted = FALSE
  BY <1>4, <1>9 DEF Sound
<1> QED BY <1>18, <1>19

\* alloc_hmu, where the object gets all of the chunk: Whole says what it does.
LEMMA WholeIs ==
    ASSUME NEW h, Sound(h), NEW p \in Frees(h), NEW k, Unlinked(h, Frees(h), p, k), k.chunk = h.chunk,
           NEW size \in Nat, ~ (Size(h, p) >= size + Smallest), NEW w,
           NEW g, g = Use(Carve(k, p, size), p, w)
    PROVE  Whole(h, p, g, w) /\ Carve(k, p, size).corrupted = FALSE
<1> DEFINE all == Size(h, p)
           n == After(h, p)
           E == Frees(h) \ {p}
           cut == [k EXCEPT !.chunk[p].size = all]
           c == IF NextInHeap(k, p) THEN MarkPinuse(cut, n, TRUE) ELSE cut
<1>1. /\ Formed(h) /\ Tiled(h) /\ p \in DOMAIN h.chunk /\ all \in Nat /\ Size(k, p) = all
  BY ChunkFacts DEF Sound, Frees, Size
<1>2. Formed(k) /\ Linked(k, E) /\ k.base = h.base /\ k.corrupted = h.corrupted
      /\ Smalls(k, E) = Smalls(h, Frees(h)) \ {p}
  BY DEF Unlinked
<1>3. Carve(k, p, size) = c
  <2>1. (IF Size(k, p) >= size + Smallest THEN size ELSE Size(k, p)) = all
    BY <1>1
  <2>2. n = p + Size(k, p) /\ cut = [k EXCEPT !.chunk[p].size = Size(k, p)] /\ ~ (Size(k, p) < Size(k, p))
    BY <1>1 DEF After
  <2>3. (IF Size(k, p) >= size + Smallest THEN size ELSE Size(k, p)) = Size(k, p)
    BY <1>1
  <2> HIDE DEF n, cut
  <2> QED BY <2>2, <2>3 DEF Carve
<1>4. cut = k
  <2>1. /\ k = [base |-> k.base, chunk |-> k.chunk, normal |-> k.normal, tree |-> k.tree,
                corrupted |-> k.corrupted]
        /\ k.chunk = [b \in DOMAIN k.chunk |-> k.chunk[b]]
    BY <1>2 DEF Formed
  <2>2. IsChunk(k.chunk[p])
    BY <1>1, <1>2 DEF Formed
  <2>3. [k.chunk[p] EXCEPT !.size = all] = k.chunk[p]
    BY <1>1, <2>2 DEF IsChunk, Size
  <2>4. [k.chunk EXCEPT ![p] = k.chunk[p]] = k.chunk
    BY <2>1
  <2>5. cut = [k EXCEPT !.chunk = [k.chunk EXCEPT ![p] = [k.chunk[p] EXCEPT !.size = all]]]
    OBVIOUS
  <2> HIDE DEF cut
  <2>6. cut = [k EXCEPT !.chunk = k.chunk]
    BY <2>3, <2>4, <2>5, Zenon
  <2> QED BY <2>1, <2>6
<1> HIDE DEF cut, n
<1>5. NextInHeap(k, p) <=> n \in DOMAIN h.chunk
  <2>1. NextInHeap(h, p) <=> n \in DOMAIN h.chunk
    BY <1>1, ChunkFacts DEF n
  <2> QED BY <1>2, <2>1 DEF NextInHeap, InHeap, Size
<1>6. /\ Kept(k, E, c) /\ DOMAIN c.chunk = DOMAIN h.chunk
      /\ \A b \in DOMAIN h.chunk \ {n} : c.chunk[b] = h.chunk[b]
      /\ n \in DOMAIN h.chunk => c.chunk[n] = [h.chunk[n] EXCEPT !.pinuse = TRUE]
  <2>1. CASE n \in DOMAIN h.chunk
    <3> DEFINE r == [h.chunk[n] EXCEPT !.pinuse = TRUE]
    <3>1. IsChunk(h.chunk[n]) /\ h.chunk[n].next \in Int /\ h.chunk[n].size \in Nat \ {0}
      BY <1>1, <2>1 DEF Formed, Size
    <3>2. IsChunk(r) /\ r.size = h.chunk[n].size /\ r.next = h.chunk[n].next
      BY <3>1, ChunkMarked
    <3>3. c = [k EXCEPT !.chunk[n] = r]
      BY <1>4, <1>5, <2>1 DEF MarkPinuse
    <3> HIDE DEF c, r
    <3>4. /\ Kept(k, E, c) /\ DOMAIN c.chunk = DOMAIN k.chunk /\ c.chunk[n] = r
          /\ \A b \in DOMAIN k.chunk \ {n} : c.chunk[b] = k.chunk[b]
      <4>1. Rechunked(k, E, n, r, c)
        BY <1>2, <2>1, <3>1, <3>2, <3>3, Rechunk
      <4> QED BY <4>1 DEF Rechunked
    <3> QED BY <3>4 DEF r
  <2>2. CASE n \notin DOMAIN h.chunk
    <3>1. c = k
      BY <1>4, <1>5, <2>2
    <3> HIDE DEF c
    <3> QED BY <1>2, <2>2, <3>1 DEF Kept
  <2> QED BY <2>1, <2>2
<1> HIDE DEF c
<1>7. p # n /\ p \notin E /\ p \in DOMAIN c.chunk /\ Formed(c) /\ Linked(c, E)
  <2>1. p # n
    BY <1>1, ChunkFacts DEF n
  <2> QED BY <1>1, <1>6, <2>1 DEF Kept
<1>8. g = Use(c, p, w)
  BY <1>3
<1>9. /\ Kept(c, E, g) /\ DOMAIN g.chunk = DOMAIN c.chunk
      /\ IsObject(g.chunk[p], Size(c, p), c.chunk[p].pinuse, w)
      /\ \A b \in DOMAIN c.chunk \ {p} : g.chunk[b] = c.chunk[b]
  BY <1>7, <1>8, UseIs
<1>10. Size(c, p) = all /\ c.chunk[p].pinuse = h.chunk[p].pinuse
  BY <1>1, <1>6, <1>7 DEF Size
<1>11. /\ Formed(g) /\ Linked(g, E) /\ g.base = h.base /\ g.corrupted = h.corrupted
       /\ Smalls(h, Frees(h)) \ {p} \subseteq Smalls(g, E)
  BY <1>2, <1>6, <1>9 DEF Kept
<1>12. /\ \A b \in DOMAIN h.chunk \ {p, n} : g.chunk[b] = h.chunk[b]
       /\ n \in DOMAIN h.chunk => g.chunk[n] = [h.chunk[n] EXCEPT !.pinuse = TRUE]
       /\ DOMAIN g.chunk = DOMAIN h.chunk
  BY <1>6, <1>7, <1>9
<1>13. Whole(h, p, g, w)
  BY <1>9, <1>10, <1>11, <1>12 DEF Whole, n
<1>14. Carve(k, p, size).corrupted = FALSE
  BY <1>2, <1>3, <1>6 DEF Kept, Sound
<1> QED BY <1>13, <1>14

\* g is a sound heap like h, where free chunk p has become an object.
Took(h, p, size, g) ==
    /\ Sound(g) /\ g.base = h.base
    /\ p \notin Objs(h) /\ Objs(g) = Objs(h) \union {p}
    /\ Size(g, p) >= size
    /\ \A b \in Objs(h) : Size(g, b) = Size(h, b)

\* In a sound heap a chunk is free or an object, a free one has objects around
\* it, and what a chunk says of the one before it is true.
LEMMA SoundFacts ==
    ASSUME NEW h, Sound(h), NEW a \in DOMAIN h.chunk
    PROVE  /\ h.chunk[a].ut \in {"FC", "VO"} /\ h.chunk[a].pinuse \in BOOLEAN
           /\ h.chunk[a].ut = "VO" => h.chunk[a].word \in Words \union {0}
           /\ a \in Frees(h) <=> h.chunk[a].ut = "FC"
           /\ a \in Objs(h) <=> h.chunk[a].ut = "VO"
           /\ a \in Objs(h) <=> a \notin Frees(h)
           /\ a \in Frees(h) /\ After(h, a) \in DOMAIN h.chunk
              => After(h, a) \in Objs(h) /\ h.chunk[After(h, a)].pinuse = FALSE
           /\ a \in Objs(h) /\ After(h, a) \in DOMAIN h.chunk
              => h.chunk[After(h, a)].pinuse = TRUE \/ HarmlessWords
<1>1. /\ h.chunk[a].ut \in {"FC", "VO"} /\ h.chunk[a].pinuse \in BOOLEAN
      /\ h.chunk[a].ut = "VO" => h.chunk[a].word \in Words \union {0}
      /\ After(h, a) \in DOMAIN h.chunk =>
            IF h.chunk[a].ut = "FC"
            THEN h.chunk[After(h, a)].ut = "VO" /\ h.chunk[After(h, a)].pinuse = FALSE
            ELSE h.chunk[After(h, a)].pinuse = TRUE \/ HarmlessWords
  BY DEF Sound, Marked
<1>2. a \in Frees(h) <=> h.chunk[a].ut = "FC"
  BY DEF Frees, IsFree
<1>3. a \in Objs(h) <=> h.chunk[a].ut = "VO"
  BY DEF Objs
<1>4. After(h, a) \in DOMAIN h.chunk /\ h.chunk[After(h, a)].ut = "VO" => After(h, a) \in Objs(h)
  BY DEF Objs
<1>5. CASE h.chunk[a].ut = "FC"
  BY <1>1, <1>2, <1>3, <1>4, <1>5
<1>6. CASE h.chunk[a].ut # "FC"
  BY <1>1, <1>2, <1>3, <1>4, <1>6
<1> QED BY <1>5, <1>6

\* How Sound is shown of a heap.
LEMMA SoundIntro ==
    ASSUME NEW h, NEW F, Formed(h), Linked(h, F), Tiled(h), h.corrupted = FALSE,
           F = Frees(h), \A a \in DOMAIN h.chunk \ Smalls(h, F) : h.chunk[a].next = 0,
           h.chunk[h.base].pinuse = TRUE,
           \A a \in DOMAIN h.chunk :
             /\ h.chunk[a].ut \in {"FC", "VO"} /\ h.chunk[a].pinuse \in BOOLEAN
             /\ a \in Objs(h) => h.chunk[a].word \in Words \union {0}
             /\ a \in Frees(h) /\ After(h, a) \in DOMAIN h.chunk
                => After(h, a) \in Objs(h) /\ h.chunk[After(h, a)].pinuse = FALSE
             /\ a \in Objs(h) /\ After(h, a) \in DOMAIN h.chunk
                => h.chunk[After(h, a)].pinuse = TRUE \/ HarmlessWords
    PROVE  Sound(h)
<1>1. Marked(h)
  <2> SUFFICES ASSUME NEW a \in DOMAIN h.chunk
      PROVE  /\ h.chunk[a].ut \in {"FC", "VO"} /\ h.chunk[a].pinuse \in BOOLEAN
             /\ h.chunk[a].ut = "VO" => h.chunk[a].word \in Words \union {0}
             /\ After(h, a) \in DOMAIN h.chunk =>
                   IF h.chunk[a].ut = "FC"
                   THEN h.chunk[After(h, a)].ut = "VO" /\ h.chunk[After(h, a)].pinuse = FALSE
                   ELSE h.chunk[After(h, a)].pinuse = TRUE \/ HarmlessWords
    BY DEF Marked
  <2>1. CASE h.chunk[a].ut = "FC"
    <3>1. a \in Frees(h)
      BY <2>1 DEF Frees, IsFree
    <3> QED BY <2>1, <3>1 DEF Objs
  <2>2. CASE h.chunk[a].ut # "FC"
    <3>1. a \in Objs(h)
      BY <2>2 DEF Objs
    <3> QED BY <2>2, <3>1
  <2> QED BY <2>1, <2>2
<1>2. Quiet(h, F)
  BY DEF Quiet
<1> QED BY <1>1, <1>2 DEF Sound

\* A sound heap is sound when an object has been cut off a free chunk.
LEMMA SplitSound ==
    ASSUME NEW h, Sound(h), NEW p \in Frees(h), NEW size \in Nat, size >= 2,
           Size(h, p) >= size + Smallest, NEW w \in Words \union {0}, NEW g, Split(h, p, size, g, w)
    PROVE  Took(h, p, size, g)
<1> DEFINE n == p + size
           m == After(h, p)
           F == (Frees(h) \ {p}) \union {n}
           C == DOMAIN h.chunk
<1>1. /\ Formed(g) /\ Linked(g, F) /\ g.base = h.base /\ g.corrupted = h.corrupted
      /\ n \notin C /\ DOMAIN g.chunk = C \union {n}
      /\ IsObject(g.chunk[p], size, h.chunk[p].pinuse, w)
      /\ FreeChunk(g.chunk[n], Size(h, p) - size, TRUE)
      /\ \A b \in C \ {p} : g.chunk[b] = h.chunk[b]
      /\ n \in Smalls(g, F) \/ g.chunk[n].next = 0
      /\ Smalls(h, Frees(h)) \ {p} \subseteq Smalls(g, F)
  BY DEF Split
<1>2. /\ Formed(h) /\ Linked(h, Frees(h)) /\ Tiled(h) /\ p \in C /\ h.corrupted = FALSE
      /\ h.chunk[h.base].pinuse = TRUE /\ h.base \in C
      /\ Tiles(C, SizeOf(h), h.base, End(h))
  BY ChunkFacts DEF Sound, Frees, Marked, Tiled
<1>3. /\ p \in Nat /\ Size(h, p) \in Nat /\ m = p + Size(h, p) /\ size < Size(h, p)
      /\ m \in Nat /\ m <= End(h) /\ End(h) \in Nat /\ n < m /\ p < n
  <2>1. p \in Nat /\ Size(h, p) \in Nat /\ m = p + Size(h, p) /\ m <= End(h) /\ End(h) \in Nat
    BY <1>2, ChunkFacts DEF After
  <2> QED BY <2>1 DEF Smallest
<1>4. /\ Size(g, p) = size /\ g.chunk[p].ut = "VO" /\ g.chunk[p].pinuse = h.chunk[p].pinuse
      /\ g.chunk[p].next = 0 /\ g.chunk[p].word = w
      /\ Size(g, n) = Size(h, p) - size /\ g.chunk[n].ut = "FC" /\ g.chunk[n].pinuse = TRUE
      /\ \A b \in C \ {p} : Size(g, b) = Size(h, b)
  BY <1>1 DEF IsObject, FreeChunk, Size
<1> HIDE DEF n, m
<1>5. /\ After(g, p) = n /\ After(g, n) = m
      /\ \A b \in C \ {p} : After(g, b) = After(h, b)
  BY <1>3, <1>4 DEF After, n
<1>6. Frees(g) = F /\ Objs(g) = Objs(h) \union {p} /\ p \notin Objs(h) /\ Objs(h) \subseteq C \ {p}
  <2>1. \A b \in C \ {p} : g.chunk[b].ut = h.chunk[b].ut
    BY <1>1
  <2>2. h.chunk[p].ut = "FC"
    BY DEF Frees, IsFree
  <2>3. p # n
    BY <1>2, <1>1
  <2> QED BY <1>1, <1>2, <1>4, <2>1, <2>2, <2>3 DEF Frees, IsFree, Objs
<1>7. Tiled(g)
  <2>1. /\ SizeOf(h)[p] = Size(h, p) /\ SizeOf(g)[p] = size /\ SizeOf(g)[n] = SizeOf(h)[p] - size
        /\ \A b \in C \ {p} : SizeOf(g)[b] = SizeOf(h)[b]
    BY <1>1, <1>2, <1>4 DEF SizeOf
  <2>2. size \in Nat \ {0} /\ size < SizeOf(h)[p] /\ n = p + size
    BY <1>3, <2>1 DEF n
  <2>3. Tiles(DOMAIN g.chunk, SizeOf(g), h.base, End(h))
    BY <1>1, <1>2, <2>1, <2>2, TileSplit
  <2>4. \A a \in DOMAIN g.chunk : Size(g, a) >= 2
    <3>1. \A a \in C : Size(h, a) >= 2
      BY <1>2, ChunkFacts
    <3>2. Size(h, p) - size >= 2
      BY <1>3 DEF Smallest
    <3> QED BY <1>1, <1>4, <3>1, <3>2
  <2> QED BY <1>1, <2>3, <2>4 DEF Tiled, End, Smallest
<1>8. \A a \in DOMAIN g.chunk \ Smalls(g, F) : g.chunk[a].next = 0
  <2> SUFFICES ASSUME NEW a \in DOMAIN g.chunk \ Smalls(g, F) PROVE g.chunk[a].next = 0
    OBVIOUS
  <2>1. CASE a \in {p, n}
    BY <1>1, <1>4, <2>1
  <2>2. CASE a \notin {p, n}
    <3>1. a \in C \ {p} /\ a \notin Smalls(h, Frees(h)) /\ g.chunk[a] = h.chunk[a]
      BY <1>1, <2>2
    <3> QED BY <3>1 DEF Sound, Quiet
  <2> QED BY <2>1, <2>2
<1>9. ASSUME NEW a \in DOMAIN g.chunk
      PROVE  /\ g.chunk[a].ut \in {"FC", "VO"} /\ g.chunk[a].pinuse \in BOOLEAN
             /\ a \in Objs(g) => g.chunk[a].word \in Words \union {0}
             /\ a \in Frees(g) /\ After(g, a) \in DOMAIN g.chunk
                => After(g, a) \in Objs(g) /\ g.chunk[After(g, a)].pinuse = FALSE
             /\ a \in Objs(g) /\ After(g, a) \in DOMAIN g.chunk
                => g.chunk[After(g, a)].pinuse = TRUE \/ HarmlessWords
  <2>1. CASE a = p
    <3>1. h.chunk[p].pinuse \in BOOLEAN
      BY <1>2, SoundFacts
    <3> QED BY <1>4, <1>5, <1>6, <1>2, <1>1, <2>1, <3>1
  <2>2. CASE a = n
    <3>1. n \notin Objs(g)
      BY <1>4 DEF Objs
    <3>2. m \in DOMAIN g.chunk => m \in C \ {p}
      BY <1>1, <1>3
    <3>3. m \in C => m \in Objs(h) /\ h.chunk[m].pinuse = FALSE
      BY <1>2, SoundFacts DEF m
    <3> QED BY <1>1, <1>4, <1>5, <1>6, <2>2, <3>1, <3>2, <3>3
  <2>3. CASE a \in C \ {p}
    <3> DEFINE q == After(h, a)
    <3>1. q \in C \union {End(h)} /\ After(g, a) = q /\ g.chunk[a] = h.chunk[a]
      BY <1>1, <1>2, <1>5, <2>3, ChunkFacts
    <3>2. q # n
      BY <1>1, <1>3, <3>1
    <3> HIDE DEF q
    <3>3. q \in DOMAIN g.chunk => q \in C /\ g.chunk[q].pinuse = h.chunk[q].pinuse
      BY <1>1, <1>4, <3>2
    <3>4. /\ h.chunk[a].ut \in {"FC", "VO"} /\ h.chunk[a].pinuse \in BOOLEAN
          /\ a \in Objs(h) => h.chunk[a].word \in Words \union {0}
          /\ a \in Frees(h) /\ q \in C => q \in Objs(h) /\ h.chunk[q].pinuse = FALSE
          /\ a \in Objs(h) /\ q \in C => h.chunk[q].pinuse = TRUE \/ HarmlessWords
      BY <2>3, SoundFacts DEF q
    <3>5. (a \in Frees(g) => a \in Frees(h)) /\ (a \in Objs(g) => a \in Objs(h))
      BY <1>1, <1>6, <2>3
    <3> QED BY <1>6, <3>1, <3>3, <3>4, <3>5
  <2> QED BY <1>1, <2>1, <2>2, <2>3
<1>10. g.chunk[g.base].pinuse = TRUE
  BY <1>1, <1>2, <1>4
<1>11. g.corrupted = FALSE
  BY <1>1, <1>2
<1>12. Sound(g)
  BY <1>1, <1>6, <1>7, <1>8, <1>9, <1>10, <1>11, SoundIntro
<1>13. \A b \in Objs(h) : Size(g, b) = Size(h, b)
  BY <1>4, <1>6
<1> QED BY <1>1, <1>4, <1>6, <1>12, <1>13 DEF Took

\* A sound heap is sound when a free chunk has become an object.
LEMMA WholeSound ==
    ASSUME NEW h, Sound(h), NEW p \in Frees(h), NEW size \in Nat,
           Size(h, p) >= size, NEW w \in Words \union {0}, NEW g, Whole(h, p, g, w)
    PROVE  Took(h, p, size, g)
<1> DEFINE m == After(h, p)
           F == Frees(h) \ {p}
           C == DOMAIN h.chunk
<1>1. /\ Formed(g) /\ Linked(g, F) /\ g.base = h.base /\ g.corrupted = h.corrupted
      /\ DOMAIN g.chunk = C
      /\ IsObject(g.chunk[p], Size(h, p), h.chunk[p].pinuse, w)
      /\ \A b \in C \ {p, m} : g.chunk[b] = h.chunk[b]
      /\ m \in C => g.chunk[m] = [h.chunk[m] EXCEPT !.pinuse = TRUE]
      /\ Smalls(h, Frees(h)) \ {p} \subseteq Smalls(g, F)
  BY DEF Whole
<1>2. /\ Formed(h) /\ Linked(h, Frees(h)) /\ Tiled(h) /\ p \in C /\ h.corrupted = FALSE
      /\ h.chunk[h.base].pinuse = TRUE /\ h.base \in C
      /\ Tiles(C, SizeOf(h), h.base, End(h))
  BY ChunkFacts DEF Sound, Frees, Marked, Tiled
<1>3. m # p /\ m # h.base /\ \A b \in C : After(h, b) = m => b = p
  BY <1>2, ChunkFacts
<1>4. m \in C => /\ g.chunk[m].pinuse = TRUE /\ g.chunk[m].ut = h.chunk[m].ut
                 /\ g.chunk[m].size = h.chunk[m].size /\ g.chunk[m].next = h.chunk[m].next
                 /\ g.chunk[m].word = h.chunk[m].word
  <2> SUFFICES ASSUME m \in C
      PROVE  /\ g.chunk[m].pinuse = TRUE /\ g.chunk[m].ut = h.chunk[m].ut
             /\ g.chunk[m].size = h.chunk[m].size /\ g.chunk[m].next = h.chunk[m].next
             /\ g.chunk[m].word = h.chunk[m].word
    OBVIOUS
  <2> DEFINE c == h.chunk[m]
             d == [c EXCEPT !.pinuse = TRUE]
  <2>1. IsChunk(c) /\ g.chunk[m] = d
    BY <1>1, <1>2 DEF Formed
  <2> HIDE DEF c
  <2>2. d.pinuse = TRUE /\ d.ut = c.ut /\ d.size = c.size /\ d.next = c.next /\ d.word = c.word
    BY <2>1, ChunkMarked
  <2> HIDE DEF d
  <2> QED BY <2>1, <2>2 DEF c
<1>5. /\ Size(g, p) = Size(h, p) /\ g.chunk[p].ut = "VO" /\ g.chunk[p].pinuse = h.chunk[p].pinuse
      /\ g.chunk[p].next = 0 /\ g.chunk[p].word = w
      /\ \A b \in C : Size(g, b) = Size(h, b)
      /\ \A b \in C \ {p} : /\ g.chunk[b].ut = h.chunk[b].ut /\ g.chunk[b].next = h.chunk[b].next
                            /\ g.chunk[b].word = h.chunk[b].word
      /\ \A b \in C \ {m} : g.chunk[b].pinuse = h.chunk[b].pinuse
  BY <1>1, <1>4 DEF IsObject, Size
<1> HIDE DEF m
<1>6. \A b \in C : After(g, b) = After(h, b)
  BY <1>5 DEF After
<1>7. Frees(g) = F /\ Objs(g) = Objs(h) \union {p} /\ p \notin Objs(h) /\ Objs(h) \subseteq C \ {p}
  <2>1. h.chunk[p].ut = "FC"
    BY DEF Frees, IsFree
  <2> QED BY <1>1, <1>2, <1>5, <2>1 DEF Frees, IsFree, Objs
<1>8. Tiled(g)
  <2>1. \A b \in C : SizeOf(g)[b] = SizeOf(h)[b]
    BY <1>1, <1>5 DEF SizeOf
  <2>2. Tiles(C, SizeOf(g), h.base, End(h))
    BY <1>2, <2>1, TileSame
  <2>3. \A a \in C : Size(g, a) >= 2
    BY <1>2, <1>5, ChunkFacts
  <2> QED BY <1>1, <2>2, <2>3 DEF Tiled, End, Smallest
<1>9. \A a \in DOMAIN g.chunk \ Smalls(g, F) : g.chunk[a].next = 0
  <2> SUFFICES ASSUME NEW a \in C \ Smalls(g, F), a # p PROVE g.chunk[a].next = 0
    BY <1>1, <1>5
  <2>1. a \notin Smalls(h, Frees(h)) /\ g.chunk[a].next = h.chunk[a].next
    BY <1>1, <1>5
  <2> QED BY <2>1 DEF Sound, Quiet
<1>10. ASSUME NEW a \in DOMAIN g.chunk
      PROVE  /\ g.chunk[a].ut \in {"FC", "VO"} /\ g.chunk[a].pinuse \in BOOLEAN
             /\ a \in Objs(g) => g.chunk[a].word \in Words \union {0}
             /\ a \in Frees(g) /\ After(g, a) \in DOMAIN g.chunk
                => After(g, a) \in Objs(g) /\ g.chunk[After(g, a)].pinuse = FALSE
             /\ a \in Objs(g) /\ After(g, a) \in DOMAIN g.chunk
                => g.chunk[After(g, a)].pinuse = TRUE \/ HarmlessWords
  <2> DEFINE q == After(h, a)
  <2>1. After(g, a) = q /\ a \in C
    BY <1>1, <1>6
  <2>2. /\ h.chunk[a].ut \in {"FC", "VO"} /\ h.chunk[a].pinuse \in BOOLEAN
        /\ a \in Objs(h) => h.chunk[a].word \in Words \union {0}
        /\ a \in Frees(h) /\ q \in C => q \in Objs(h) /\ h.chunk[q].pinuse = FALSE
        /\ a \in Objs(h) /\ q \in C => h.chunk[q].pinuse = TRUE \/ HarmlessWords
    BY <2>1, SoundFacts
  <2>3. g.chunk[a].pinuse \in BOOLEAN
    BY <1>4, <1>5, <2>1, <2>2
  <2>4. CASE a = p
    <3>1. q = m
      BY <2>4 DEF m
    <3> HIDE DEF q
    <3> QED BY <1>1, <1>4, <1>5, <1>7, <2>1, <2>3, <2>4, <3>1
  <2>5. CASE a # p
    <3>1. q # m
      BY <1>3, <2>1, <2>5
    <3> HIDE DEF q
    <3>2. q \in C => g.chunk[q].pinuse = h.chunk[q].pinuse
      BY <1>5, <3>1
    <3>3. (a \in Frees(g) => a \in Frees(h)) /\ (a \in Objs(g) => a \in Objs(h))
      BY <1>7, <2>5
    <3>4. g.chunk[a].ut = h.chunk[a].ut /\ g.chunk[a].word = h.chunk[a].word
      BY <1>5, <2>1, <2>5
    <3> QED BY <1>1, <1>7, <2>1, <2>2, <2>3, <3>2, <3>3, <3>4
  <2> QED BY <2>4, <2>5
<1>11. g.chunk[g.base].pinuse = TRUE
  BY <1>1, <1>2, <1>3, <1>5
<1>12. g.corrupted = FALSE
  BY <1>1, <1>2
<1>13. Sound(g)
  BY <1>1, <1>7, <1>8, <1>9, <1>10, <1>11, <1>12, SoundIntro
<1>14. \A b \in Objs(h) : Size(g, b) = Size(h, b)
  BY <1>5, <1>7
<1> QED BY <1>1, <1>5, <1>7, <1>13, <1>14 DEF Took

-----------------------------------------------------------------------------
(* Sizes in units.                                                           *)
\* A gc_size_t wraps at most once.
LEMMA Wraps ==
    ASSUME NEW w \in Nat, w >= 16, NEW x \in Nat, x < 2 * w
    PROVE  x % w = IF x < w THEN x ELSE x - w
<1>1. CASE x < w
  BY <1>1
<1>2. CASE w <= x
  BY <1>2
<1> QED BY <1>1, <1>2

\* GC_ALIGN_8(HMU_SIZE + size): unless the sum has wrapped, which gc_alloc_vo
\* looks for, header and object fit into the units asked for.
LEMMA UnitsHold ==
    ASSUME NEW bytes \in Requests
    PROVE  /\ bytes \in Nat /\ Units(bytes) \in Nat
           /\ ~Overflows(bytes) => HeaderSize + bytes <= 8 * Units(bytes) /\ Units(bytes) >= 1
<1> DEFINE w == 2^Width
           s == (HeaderSize + bytes) % w
           t == (s + 7) % w
<1>1. w \in Nat /\ w >= 16
  BY WidthAssumption
<1>2. bytes \in Nat /\ bytes < w
  BY <1>1, RequestsAssumption
<1>3. TotSize(bytes) = t - (t % 8)
  BY DEF TotSize, Align8
<1> HIDE DEF w
<1> DEFINE u == HeaderSize + bytes
           v == s + 7
<1>4. s = IF bytes + 4 < w THEN bytes + 4 ELSE bytes + 4 - w
  <2>1. u \in Nat /\ u < 2 * w /\ u = bytes + 4
    BY <1>1, <1>2 DEF HeaderSize
  <2> HIDE DEF u
  <2>2. u % w = IF u < w THEN u ELSE u - w
    BY <1>1, <2>1, Wraps
  <2>3. s = u % w
    BY DEF u
  <2> HIDE DEF s
  <2>4. s = IF u < w THEN u ELSE u - w
    BY ONLY <2>2, <2>3, Zenon
  <2>5. u = bytes + 4
    BY <2>1
  <2> QED BY <1>1, <1>2, <2>1, <2>4
<1>5. s \in Nat /\ s < w
  BY <1>1, <1>2, <1>4
<1> HIDE DEF s
<1>6. t = IF s + 7 < w THEN s + 7 ELSE s + 7 - w
  <2>1. v \in Nat /\ v < 2 * w
    BY <1>1, <1>5
  <2> HIDE DEF v
  <2>2. v % w = IF v < w THEN v ELSE v - w
    BY <1>1, <2>1, Wraps
  <2>3. t = v % w /\ v = s + 7
    BY DEF v
  <2> HIDE DEF t
  <2>4. t = IF v < w THEN v ELSE v - w
    BY ONLY <2>2, <2>3, Zenon
  <2> QED BY <1>1, <1>5, <2>1, <2>3, <2>4
<1>7. t \in Nat
  BY <1>1, <1>5, <1>6
<1> HIDE DEF t
<1>8. /\ t % 8 \in 0 .. 7 /\ t - (t % 8) \in Nat /\ t - (t % 8) <= t /\ t - (t % 8) >= t - 7
      /\ (t - (t % 8)) = 8 * ((t - (t % 8)) \div 8) /\ (t - (t % 8)) \div 8 \in Nat
  BY <1>7
<1>9. Units(bytes) \in Nat /\ 8 * Units(bytes) = t - (t % 8)
  BY <1>3, <1>8 DEF Units
<1>10. ASSUME ~Overflows(bytes) PROVE bytes + 4 <= t - (t % 8)
  <2>1. bytes <= t - (t % 8)
    BY <1>2, <1>3, <1>8, <1>10 DEF Overflows
  <2>2. CASE bytes + 4 < w
    <3>1. s = bytes + 4
      BY <1>4, <2>2
    <3>2. s + 7 < w
      BY <1>1, <1>2, <1>6, <1>8, <2>1, <2>2, <3>1
    <3> QED BY <1>2, <1>6, <1>8, <3>1, <3>2
  <2>3. CASE ~ (bytes + 4 < w)
    BY <1>1, <1>2, <1>4, <1>6, <1>8, <2>1, <2>3
  <2> QED BY <2>2, <2>3
<1>11. ~Overflows(bytes) => HeaderSize + bytes <= 8 * Units(bytes) /\ Units(bytes) >= 1
  BY <1>2, <1>9, <1>10 DEF HeaderSize
<1> QED BY <1>2, <1>9, <1>11

-----------------------------------------------------------------------------
(* alloc_hmu                                                                 *)
\* What is cut is not reported as corrupted.
LEMMA CutSound ==
    ASSUME NEW h, Sound(h), NEW p \in Frees(h), NEW k, Unlinked(h, Frees(h), p, k), k.chunk = h.chunk,
           NEW size \in Nat, size >= 2
    PROVE  Carve(k, p, size).corrupted = FALSE
<1> DEFINE g == Use(Carve(k, p, size), p, 0)
<1>1. g = Use(Carve(k, p, size), p, 0)
  OBVIOUS
<1> HIDE DEF g
<1>2. CASE Size(h, p) >= size + Smallest
  BY <1>1, <1>2, SplitIs
<1>3. CASE ~ (Size(h, p) >= size + Smallest)
  BY <1>1, <1>3, WholeIs
<1> QED BY <1>2, <1>3

\* A chunk p is taken out of its list or tree, or none is large enough.
LEMMA AllocHmuIs ==
    ASSUME NEW h, Sound(h), NEW want \in Nat, NEW size, size = IF want < Smallest THEN Smallest ELSE want,
           NEW r, r = AllocHmu(h, want)
    PROVE  \/ /\ r = [heap |-> h, hmu |-> Null]
              /\ \A a \in Frees(h) : Size(h, a) < size
           \/ \E p \in Frees(h) : \E k :
                /\ Unlinked(h, Frees(h), p, k) /\ k.chunk = h.chunk
                /\ Size(h, p) >= size
                /\ r = [heap |-> Carve(k, p, size), hmu |-> p]
<1> DEFINE F == Frees(h)
           lists == IF IsNormal(h, size) THEN FirstList(h, size) ELSE {}
           fit == BestFit(h, size)
           m == Min(lists)
           p == h.normal[m]
<1>1. /\ Formed(h) /\ Linked(h, F) /\ F \subseteq DOMAIN h.chunk
      /\ Lists(NextOf(h), Smalls(h, F), h.normal, SizeOf(h), ListSizes(h))
      /\ h.normal[NormalCnt(h) - 1] = Null
      /\ DOMAIN h.tree = {Root} \union Larges(h, F) /\ IsTree(h.tree, NodeSize(h))
      /\ NormalCnt(h) \in Nat /\ size \in Nat
  BY DEF Sound, Linked, Formed, Smallest
<1> DEFINE Cut(g, q) == IF Carve(g, q, size).corrupted THEN [heap |-> Carve(g, q, size), hmu |-> Null]
                        ELSE [heap |-> Carve(g, q, size), hmu |-> q]
<1>2. r = IF lists # {}
          THEN IF ~InHeap(h, p) THEN [heap |-> Corrupt(h), hmu |-> Null]
               ELSE Cut([h EXCEPT !.normal[m] = ListNext(h, p)], p)
          ELSE IF fit = Null THEN [heap |-> h, hmu |-> Null]
          ELSE Cut([h EXCEPT !.tree = RemoveTreeNode(h.tree, fit)], fit)
  BY <1>1, Unbroken DEF AllocHmu
<1>0. ASSUME NEW q \in F, NEW g, Unlinked(h, F, q, g), g.chunk = h.chunk
      PROVE  Cut(g, q) = [heap |-> Carve(g, q, size), hmu |-> q]
  <2>1. size \in Nat /\ size >= 2
    BY <1>1 DEF Smallest
  <2>2. Carve(g, q, size).corrupted = FALSE
    BY <1>0, <2>1, CutSound
  <2> QED BY <2>2
<1> HIDE DEF Cut
<1>3. \A a \in F : /\ a # Null /\ a # Root /\ Size(h, a) \in Nat /\ InHeap(h, a)
                   /\ a \in Smalls(h, F) \/ a \in Larges(h, F)
  <2>1. \A a \in F : a # Null /\ Size(h, a) \in Nat /\ InHeap(h, a)
    BY <1>1 DEF Formed
  <2>2. Root \notin F
    BY <1>1, SmallSizes
  <2>3. \A a \in F : a \in Smalls(h, F) \/ a \in Larges(h, F)
    BY DEF Smalls, Larges
  <2> QED BY <2>1, <2>2, <2>3
<1>4. CASE lists # {}
  <2>1. IsNormal(h, size) /\ lists = {i \in size .. NormalCnt(h) - 1 : h.normal[i] # Null}
    BY <1>4 DEF FirstList
  <2> HIDE DEF lists
  <2>2. m \in lists
    <3>1. lists \in SUBSET Nat
      BY <1>1, <2>1
    <3>2. \E x \in lists : \A y \in lists : x <= y
      BY <1>4, <3>1, LeastOf
    <3> QED BY <3>2 DEF Min
  <2> HIDE DEF m
  <2>3. m \in ListSizes(h) /\ p # Null /\ size <= m
    BY <1>1, <2>1, <2>2 DEF ListSizes
  <2>4. p \in Smalls(h, F)
    <3>1. p \in Smalls(h, F) \union {Null}
      BY <1>1, <2>3 DEF Lists, Heads
    <3> QED BY <2>3, <3>1
  <2>5. m = Size(h, p)
    <3>1. \A j \in ListSizes(h) : h.normal[j] = p => j = Size(h, p)
      <4> HIDE DEF p
      <4> QED BY <1>1, <2>4, SmallLists
    <3> QED BY <2>3, <3>1
  <2> DEFINE k == [h EXCEPT !.normal[m] = ListNext(h, p)]
  <2>6. Unlinked(h, F, p, k) /\ k.chunk = h.chunk
    <3> DEFINE q == p
               l == k
    <3>1. q \in Smalls(h, F) /\ m = Size(h, q) /\ h.normal[m] = q /\ l = [h EXCEPT !.normal[m] = ListNext(h, q)]
      BY <2>4, <2>5
    <3> HIDE DEF q, l
    <3>2. Unlinked(h, F, q, l) /\ l.chunk = h.chunk
      BY <1>1, <3>1, DropHead
    <3> QED BY <3>2 DEF q, l
  <2>7. p \in F /\ InHeap(h, p)
    BY <1>3, <2>4 DEF Smalls
  <2>8. r = [heap |-> Carve(k, p, size), hmu |-> p] /\ Size(h, p) >= size
    <3>1. r = Cut(k, p)
      BY <1>2, <1>4, <2>7
    <3>2. Cut(k, p) = [heap |-> Carve(k, p, size), hmu |-> p]
      <4> HIDE DEF k, p
      <4> QED BY <1>0, <2>6, <2>7
    <3>3. Size(h, p) >= size
      BY <1>1, <1>3, <2>3, <2>5, <2>7
    <3> QED BY <3>1, <3>2, <3>3
  <2> HIDE DEF k, p
  <2> QED BY <2>6, <2>7, <2>8
<1>5. CASE lists = {}
  <2> HIDE DEF lists, m, p
  <2>1. \/ fit = Null /\ \A n \in DOMAIN h.tree \ {Root} : NodeSize(h)[n] < size
        \/ fit \in DOMAIN h.tree \ {Root} /\ NodeSize(h)[fit] >= size
    <3>1. \A n \in DOMAIN h.tree : NodeSize(h)[n] = TreeSize(h, n)
      BY DEF NodeSize
    <3> QED BY <1>1, <3>1, BestFitIs
  <2>2. \A n \in Larges(h, F) : n \in DOMAIN h.tree \ {Root} /\ NodeSize(h)[n] = Size(h, n)
    BY <1>1, <1>3 DEF NodeSize, TreeSize, Larges
  <2>3. CASE fit = Null
    <3>1. r = [heap |-> h, hmu |-> Null]
      BY <1>2, <1>5, <2>3
    <3>2. \A n \in Larges(h, F) : Size(h, n) < size
      <4>1. Null \notin DOMAIN h.tree \ {Root}
        BY <1>1, <1>3 DEF Larges
      <4> QED BY <2>1, <2>2, <2>3, <4>1
    <3>3. ASSUME NEW a \in Smalls(h, F) PROVE Size(h, a) < size
      <4>1. Size(h, a) \in ListSizes(h) /\ h.normal[Size(h, a)] \in Smalls(h, F)
        BY <1>1, SmallLists
      <4>2. Size(h, a) \in 0 .. NormalCnt(h) - 2 /\ h.normal[Size(h, a)] # Null
        BY <1>3, <4>1 DEF ListSizes, Smalls
      <4>3. CASE IsNormal(h, size)
        <5>1. {i \in size .. NormalCnt(h) - 1 : h.normal[i] # Null} = {}
          BY <1>5, <4>3 DEF FirstList, lists
        <5> QED BY <1>1, <4>2, <5>1
      <4>4. CASE ~IsNormal(h, size)
        BY <1>1, <4>2, <4>4 DEF IsNormal
      <4> QED BY <4>3, <4>4
    <3> QED BY <1>3, <3>1, <3>2, <3>3
  <2>4. CASE fit # Null
    <3> DEFINE k == [h EXCEPT !.tree = RemoveTreeNode(h.tree, fit)]
    <3>1. fit \in Larges(h, F) /\ Size(h, fit) >= size
      BY <1>1, <2>1, <2>2, <2>4
    <3>2. Unlinked(h, F, fit, k) /\ k.chunk = h.chunk
      <4> DEFINE q == fit
                 l == k
      <4>1. q \in Larges(h, F) /\ l = [h EXCEPT !.tree = RemoveTreeNode(h.tree, q)]
        BY <3>1
      <4> HIDE DEF q, l
      <4>2. Unlinked(h, F, q, l) /\ l.chunk = h.chunk
        BY <1>1, <4>1, DropNode
      <4> QED BY <4>2 DEF q, l
    <3>3. fit \in F
      BY <3>1 DEF Larges
    <3>4. r = [heap |-> Carve(k, fit, size), hmu |-> fit]
      <4>1. r = Cut(k, fit)
        BY <1>2, <1>5, <2>4
      <4> HIDE DEF k, fit
      <4> QED BY <1>0, <3>2, <3>3, <4>1
    <3> HIDE DEF k, fit
    <3> QED BY <3>1, <3>2, <3>3, <3>4
  <2> QED BY <2>3, <2>4
<1> QED BY <1>4, <1>5

\* What gc_alloc_vo does: nothing, or a free chunk becomes an object.
LEMMA MallocIs ==
    ASSUME NEW h, Sound(h), NEW bytes \in Requests, NEW r \in Malloc(h, bytes)
    PROVE  \/ r.hmu = Null /\ r.heap = h
           \/ ~Overflows(bytes) /\ r.hmu \in Nat \ {Null} /\ Took(h, r.hmu, Units(bytes), r.heap)
<1> DEFINE want == Units(bytes)
           size == IF want < Smallest THEN Smallest ELSE want
           s == AllocHmu(h, want)
<1>1. want \in Nat /\ size \in Nat /\ size >= 2 /\ size >= want
  <2>1. want \in Nat
    BY UnitsHold
  <2> HIDE DEF want
  <2> QED BY <2>1 DEF Smallest
<1>2. /\ Malloc(h, bytes) =
           IF Overflows(bytes) THEN {[heap |-> h, hmu |-> Null]}
           ELSE IF s.hmu = Null THEN {s}
           ELSE {[heap |-> Use(s.heap, s.hmu, w), hmu |-> s.hmu] :
                     w \in LastWords(bytes, Size(s.heap, s.hmu))}
  BY DEF Malloc, Sound
<1>3. CASE Overflows(bytes)
  BY <1>2, <1>3
<1>4. CASE ~Overflows(bytes) /\ s = [heap |-> h, hmu |-> Null]
  BY <1>2, <1>4
<1>5. CASE ~Overflows(bytes) /\ s # [heap |-> h, hmu |-> Null]
  <2> HIDE DEF want, size, s
  <2>a. PICK p \in Frees(h) : \E k : /\ Unlinked(h, Frees(h), p, k) /\ k.chunk = h.chunk
                                      /\ Size(h, p) >= size
                                      /\ s = [heap |-> Carve(k, p, size), hmu |-> p]
    BY <1>1, <1>5, AllocHmuIs DEF size, s
  <2>1. PICK k : /\ Unlinked(h, Frees(h), p, k) /\ k.chunk = h.chunk
                 /\ Size(h, p) >= size
                 /\ s = [heap |-> Carve(k, p, size), hmu |-> p]
    BY <2>a
  <2>2. p \in Nat \ {Null} /\ Size(h, p) \in Nat
    BY ChunkFacts DEF Sound, Frees
  <2>3. PICK w \in LastWords(bytes, Size(s.heap, s.hmu)) :
          r = [heap |-> Use(s.heap, s.hmu, w), hmu |-> s.hmu]
    BY <1>2, <1>5, <2>1, <2>2
  <2>4. w \in Words \union {0}
    BY DEF LastWords
  <2> DEFINE g == Use(Carve(k, p, size), p, w)
  <2>5. r.hmu = p /\ r.heap = g
    BY <2>1, <2>3
  <2>6. g = Use(Carve(k, p, size), p, w)
    OBVIOUS
  <2> HIDE DEF g
  <2>7. Took(h, p, size, g)
    <3>1. CASE Size(h, p) >= size + Smallest
      <4>1. Split(h, p, size, g, w)
        BY <1>1, <2>1, <2>6, <3>1, SplitIs
      <4> QED BY <1>1, <2>4, <3>1, <4>1, SplitSound
    <3>2. CASE ~ (Size(h, p) >= size + Smallest)
      <4>1. Whole(h, p, g, w)
        BY <1>1, <2>1, <2>6, <3>2, WholeIs
      <4> QED BY <1>1, <2>1, <2>4, <4>1, WholeSound
    <3> QED BY <3>1, <3>2
  <2>8. Took(h, p, want, g)
    <3>1. Size(g, p) \in Nat
      <4>1. Sound(g) /\ p \in DOMAIN g.chunk
        BY <2>7 DEF Took, Objs
      <4> QED BY <4>1, ChunkFacts DEF Sound
    <3> QED BY <1>1, <2>7, <3>1 DEF Took
  <2> QED BY <1>5, <2>2, <2>5, <2>8 DEF want
<1> QED BY <1>3, <1>4, <1>5

\* A request is served if a free chunk is large enough.
LEMMA MallocServes ==
    ASSUME NEW h, Sound(h), NEW bytes \in Requests, ~Overflows(bytes),
           NEW a \in Frees(h), Size(h, a) >= Units(bytes)
    PROVE  \E r \in Malloc(h, bytes) : r.hmu # Null
<1> DEFINE want == Units(bytes)
           size == IF want < Smallest THEN Smallest ELSE want
           s == AllocHmu(h, want)
<1>1. want \in Nat
  BY UnitsHold
<1>2. Size(h, a) >= 2
  BY ChunkFacts DEF Sound, Frees
<1>3. Size(h, a) >= size /\ Size(h, a) \in Nat /\ size \in Nat
  <2>1. Size(h, a) \in Nat
    BY ChunkFacts DEF Sound, Frees
  <2> QED BY <1>1, <1>2, <2>1 DEF Smallest
<1>4. ~ (Size(h, a) < size)
  <2> HIDE DEF size
  <2> QED BY <1>3
<1> HIDE DEF want, s, size
<1>5. PICK p \in Frees(h) : s.hmu = p
  <2>1. \E p \in Frees(h) : \E k : s = [heap |-> Carve(k, p, size), hmu |-> p]
    BY <1>1, <1>4, AllocHmuIs DEF size, s
  <2> QED BY <2>1
<1>6. s.hmu # Null
  <2>1. p # Null
    BY ChunkFacts DEF Sound, Frees
  <2> QED BY <1>5, <2>1
<1>7. Malloc(h, bytes) = {[heap |-> Use(s.heap, s.hmu, w), hmu |-> s.hmu] :
                              w \in LastWords(bytes, Size(s.heap, s.hmu))}
  BY <1>6 DEF Malloc, Sound, s, want
<1>8. PICK w : w \in LastWords(bytes, Size(s.heap, s.hmu))
  BY WordsAssumption DEF LastWords
<1> DEFINE r == [heap |-> Use(s.heap, s.hmu, w), hmu |-> s.hmu]
<1>9. r.hmu = s.hmu
  OBVIOUS
<1>10. r \in Malloc(h, bytes)
  BY <1>7, <1>8
<1> HIDE DEF r
<1> QED BY <1>6, <1>9, <1>10

\* A gap between objects is one free chunk.
LEMMA GapIsChunk ==
    ASSUME NEW h, Sound(h), NEW a \in DOMAIN h.chunk, NEW end \in DOMAIN h.chunk \union {End(h)},
           a < end, \A b \in DOMAIN h.chunk \ Frees(h) : b < a \/ end <= b
    PROVE  a \in Frees(h) /\ end <= After(h, a)
<1>1. Formed(h) /\ Tiled(h)
  BY DEF Sound
<1>2. \A b \in DOMAIN h.chunk : b \in Nat
  BY <1>1 DEF Formed
<1>3. End(h) \in Nat /\ end \in Nat /\ After(h, a) \in Nat
  BY <1>1, <1>2, ChunkFacts
<1>4. a \in Frees(h)
  BY <1>2, <1>3
<1>5. CASE After(h, a) \in DOMAIN h.chunk
  <2>1. After(h, a) \in DOMAIN h.chunk \ Frees(h)
    BY <1>4, <1>5, SoundFacts
  <2>2. a < After(h, a)
    BY <1>1, ChunkFacts
  <2> QED BY <1>2, <1>3, <1>4, <2>1, <2>2
<1>6. CASE After(h, a) \notin DOMAIN h.chunk
  <2>1. After(h, a) = End(h)
    BY <1>1, <1>6, ChunkFacts
  <2>2. end <= End(h)
    BY <1>1, <1>2, <1>3, ChunkFacts
  <2> QED BY <1>4, <2>1, <2>2
<1> QED BY <1>5, <1>6

-----------------------------------------------------------------------------
(* gc_free_vo.                                                               *)
\* The object is merged with the chunk before it exactly if that one is free.
LEMMA MergePrevIs ==
    ASSUME NEW h, Sound(h), NEW a \in Objs(h)
    PROVE  \/ MergePrev(h, a) = a /\ \A p \in DOMAIN h.chunk : After(h, p) = a => p \in Objs(h)
           \/ MergePrev(h, a) \in Frees(h) /\ After(h, MergePrev(h, a)) = a
<1>1. /\ Formed(h) /\ Tiled(h) /\ a \in DOMAIN h.chunk /\ h.chunk[a].ut = "VO"
      /\ a \in Nat /\ h.base \in Nat /\ ~IsFree(h, a) /\ h.chunk[h.base].pinuse = TRUE
  BY ChunkFacts DEF Sound, Objs, IsFree, Marked
<1>2. ASSUME NEW p \in DOMAIN h.chunk, After(h, p) = a
      PROVE  /\ \A q \in DOMAIN h.chunk : After(h, q) = a => q = p
             /\ Footer(h, a) = IF p \in Frees(h) THEN Size(h, p) ELSE h.chunk[p].word
  <2>1. \A q \in DOMAIN h.chunk : q + Size(h, q) = a <=> q = p
    <3>1. \A q \in DOMAIN h.chunk : After(h, q) = After(h, p) => q = p
      BY <1>1, ChunkFacts
    <3> QED BY <1>2, <3>1 DEF After
  <2>2. (CHOOSE b \in DOMAIN h.chunk : b + Size(h, b) = a) = p
    BY <2>1
  <2>3. Size(h, p) >= 2 /\ Size(h, p) \in Nat
    BY <1>1, ChunkFacts
  <2>4. IsFree(h, p) <=> p \in Frees(h)
    BY DEF Frees
  <2>5. Footer(h, a) = CASE IsFree(h, p) /\ Size(h, p) = 1 -> h.chunk[p].next
                         [] IsFree(h, p) /\ Size(h, p) # 1 -> Size(h, p)
                         [] OTHER -> h.chunk[p].word
    BY <2>2 DEF Footer
  <2>6. Footer(h, a) = IF p \in Frees(h) THEN Size(h, p) ELSE h.chunk[p].word
    BY <2>3, <2>4, <2>5
  <2> QED BY <2>1, <2>6 DEF After
<1>3. CASE a = h.base
  <2>1. MergePrev(h, a) = a
    BY <1>1, <1>3 DEF MergePrev
  <2>2. \A p \in DOMAIN h.chunk : After(h, p) # h.base
    <3> SUFFICES ASSUME NEW p \in DOMAIN h.chunk PROVE After(h, p) # h.base
      OBVIOUS
    <3>1. h.base <= p /\ p < After(h, p) /\ p \in Nat /\ After(h, p) \in Nat
      BY <1>1, ChunkFacts
    <3> QED BY <1>1, <3>1
  <2> QED BY <1>3, <2>1, <2>2
<1>4. CASE a # h.base
  <2>1. PICK p \in DOMAIN h.chunk : After(h, p) = a
    BY <1>1, <1>4, BeforeIs
  <2>2. CASE p \in Frees(h)
    <3>1. h.chunk[a].pinuse = FALSE
      BY <1>1, <2>1, <2>2, SoundFacts
    <3>2. Footer(h, a) = Size(h, p)
      BY <1>2, <2>1, <2>2
    <3>3. a - Footer(h, a) = p
      <4>1. p \in Nat /\ Size(h, p) \in Nat
        BY <1>1, ChunkFacts
      <4> QED BY <2>1, <3>2, <4>1 DEF After
    <3>4. IsFree(h, p)
      BY <2>2 DEF Frees
    <3>5. MergePrev(h, a) = p
      BY <3>1, <3>3, <3>4 DEF MergePrev
    <3> QED BY <2>1, <2>2, <3>5
  <2>3. CASE p \notin Frees(h)
    <3>1. p \in Objs(h) /\ h.chunk[p].word \in Words \union {0} /\ Footer(h, a) = h.chunk[p].word
          /\ (h.chunk[a].pinuse = TRUE \/ HarmlessWords)
      BY <1>1, <1>2, <2>1, <2>3, SoundFacts
    <3>2. MergePrev(h, a) = a
      <4>1. CASE h.chunk[a].pinuse = TRUE
        BY <4>1 DEF MergePrev
      <4>2. CASE HarmlessWords
        <5> DEFINE w == h.chunk[p].word
        <5>1. w \in Words \union {0}
          BY <3>1
        <5> HIDE DEF w
        <5>2. w \in Int /\ (w = 0 \/ w > HeapUnits \/ w < -HeapUnits)
          BY <4>2, <5>1, WordsAssumption DEF HarmlessWords
        <5>3. ~IsFree(h, a - w)
          <6>1. CASE w = 0
            BY <1>1, <6>1
          <6>2. CASE w # 0
            <7>1. InHeap(h, a)
              BY <1>1 DEF Formed
            <7>2. ~InHeap(h, a - w)
              BY <1>1, <5>2, <6>2, <7>1, HeapUnitsAssumption DEF InHeap
            <7>3. a - w \notin DOMAIN h.chunk
              BY <1>1, <7>2 DEF Formed
            <7> QED BY <7>3 DEF IsFree
          <6> QED BY <6>1, <6>2
        <5>4. Footer(h, a) = w
          BY <3>1 DEF w
        <5> QED BY <5>3, <5>4 DEF MergePrev
      <4> QED BY <3>1, <4>1, <4>2
    <3>3. \A q \in DOMAIN h.chunk : After(h, q) = a => q = p
      BY <1>2, <2>1
    <3> QED BY <3>1, <3>2, <3>3
  <2> QED BY <2>2, <2>3
<1> QED BY <1>3, <1>4

\* g is h without the chunks in X, and of the free ones those in E are listed.
Thinned(h, X, E, g) ==
    /\ Formed(g) /\ Linked(g, E) /\ g.base = h.base /\ g.corrupted = h.corrupted
    /\ DOMAIN g.chunk = DOMAIN h.chunk \ X
    /\ \A b \in DOMAIN g.chunk :
        /\ g.chunk[b].ut = h.chunk[b].ut /\ Size(g, b) = Size(h, b)
        /\ g.chunk[b].pinuse = h.chunk[b].pinuse /\ g.chunk[b].word = h.chunk[b].word
        /\ b \notin Smalls(h, Frees(h)) => g.chunk[b].next = h.chunk[b].next
    /\ Smalls(g, E) = Smalls(h, Frees(h)) \intersect E

\* At first no chunk has been taken out.
LEMMA ThinNone ==
    ASSUME NEW h, Sound(h)
    PROVE  Thinned(h, {}, Frees(h), h) /\ NextListed(h, Frees(h))
<1>1. Formed(h) /\ Linked(h, Frees(h)) /\ Quiet(h, Frees(h))
  BY DEF Sound
<1>2. Thinned(h, {}, Frees(h), h)
  BY <1>1 DEF Thinned, Smalls
<1>3. ASSUME NEW b \in DOMAIN h.chunk PROVE ListNext(h, b) \in Smalls(h, Frees(h)) \union {Null}
  <2>1. CASE b \in Smalls(h, Frees(h))
    BY <1>1, <2>1, SmallLists
  <2>2. CASE b \notin Smalls(h, Frees(h))
    BY <1>1, <2>2 DEF Quiet, ListNext
  <2> QED BY <2>1, <2>2
<1> QED BY <1>2, <1>3 DEF NextListed

\* One more chunk is unlinked, as gc_free_vo does to merge it.
LEMMA ThinUnlink ==
    ASSUME NEW h, NEW X, NEW E, NEW g, Thinned(h, X, E, g), NextListed(g, E), NEW x \in E
    PROVE  /\ Thinned(h, X, E \ {x}, Unlink(g, x))
           /\ Quiet(g, E) => NextListed(Unlink(g, x), E \ {x})
<1> DEFINE k == Unlink(g, x)
<1>1. Formed(g) /\ Linked(g, E)
  BY DEF Thinned
<1>2. Unlinked(g, E, x, k)
  BY <1>1, UnlinkIs
<1> HIDE DEF k
<1>3. /\ Formed(k) /\ Linked(k, E \ {x})
      /\ k.base = g.base /\ k.corrupted = g.corrupted
      /\ DOMAIN k.chunk = DOMAIN g.chunk
      /\ Smalls(k, E \ {x}) = Smalls(g, E) \ {x}
      /\ \A b \in DOMAIN g.chunk :
          /\ k.chunk[b].ut = g.chunk[b].ut /\ Size(k, b) = Size(g, b)
          /\ k.chunk[b].pinuse = g.chunk[b].pinuse /\ k.chunk[b].word = g.chunk[b].word
          /\ b \notin Smalls(g, E) => k.chunk[b] = g.chunk[b]
      /\ Quiet(g, E) => NextListed(k, E \ {x})
  BY <1>2 DEF Unlinked
<1>4. /\ g.base = h.base /\ g.corrupted = h.corrupted
      /\ DOMAIN g.chunk = DOMAIN h.chunk \ X
      /\ \A b \in DOMAIN g.chunk :
          /\ g.chunk[b].ut = h.chunk[b].ut /\ Size(g, b) = Size(h, b)
          /\ g.chunk[b].pinuse = h.chunk[b].pinuse /\ g.chunk[b].word = h.chunk[b].word
          /\ b \notin Smalls(h, Frees(h)) => g.chunk[b].next = h.chunk[b].next
      /\ Smalls(g, E) = Smalls(h, Frees(h)) \intersect E
  BY DEF Thinned
<1>5. ASSUME NEW b \in DOMAIN k.chunk
      PROVE  /\ k.chunk[b].ut = h.chunk[b].ut /\ Size(k, b) = Size(h, b)
             /\ k.chunk[b].pinuse = h.chunk[b].pinuse /\ k.chunk[b].word = h.chunk[b].word
             /\ b \notin Smalls(h, Frees(h)) => k.chunk[b].next = h.chunk[b].next
  BY <1>3, <1>4
<1>6. Smalls(k, E \ {x}) = Smalls(h, Frees(h)) \intersect (E \ {x})
  BY <1>3, <1>4
<1>7. Thinned(h, X, E \ {x}, k)
  BY <1>3, <1>4, <1>5, <1>6 DEF Thinned
<1> QED BY <1>3, <1>7 DEF k

\* A chunk that has been unlinked becomes part of another.
LEMMA ThinRemove ==
    ASSUME NEW h, NEW X, NEW E, NEW g, Thinned(h, X, E, g), NEW x \in DOMAIN g.chunk, x \notin E,
           NEW k, k = [g EXCEPT !.chunk = Remove(g.chunk, x)]
    PROVE  Thinned(h, X \union {x}, E, k)
<1>1. Formed(g) /\ Linked(g, E)
  BY DEF Thinned
<1>2. /\ Kept(g, E, k) /\ DOMAIN k.chunk = DOMAIN g.chunk \ {x}
      /\ \A b \in DOMAIN g.chunk \ {x} : k.chunk[b] = g.chunk[b]
  <2>1. Dechunked(g, E, x, k)
    BY <1>1, Dechunk
  <2> QED BY <2>1 DEF Dechunked
<1>3. \A b \in DOMAIN k.chunk : Size(k, b) = Size(g, b)
  BY <1>2 DEF Size
<1> QED BY <1>2, <1>3 DEF Thinned, Kept

\* g is a sound heap like h, where object a has become free.
Freed(h, a, g) ==
    /\ Sound(g) /\ g.base = h.base /\ Objs(g) = Objs(h) \ {a}
    /\ \A b \in Objs(g) : Size(g, b) = Size(h, b)

\* The chunks in X are merged into chunk p, which is free from then on.
LEMMA MergedSound ==
    ASSUME NEW h, Sound(h), NEW a \in Objs(h), NEW p \in DOMAIN h.chunk, NEW X \in SUBSET DOMAIN h.chunk,
           p \notin X, a \in X \union {p}, \A b \in X \union {p} : b = a \/ b \in Frees(h),
           NEW E, E = Frees(h) \ (X \union {p}), NEW k, Thinned(h, X, E, k),
           NEW all \in Nat, all >= 2, NEW m, m = p + all,
           NEW z, z = [b \in DOMAIN h.chunk |-> IF b = p THEN all ELSE Size(h, b)],
           Tiles(DOMAIN h.chunk \ X, z, h.base, End(h)),
           m \in DOMAIN h.chunk => m \in Objs(h),
           \A q \in DOMAIN h.chunk \ X : After(h, q) = p => q \in Objs(h),
           NEW f, f = AddFc(k, p, all, h.chunk[p].pinuse),
           NEW g, g = IF InHeap(h, m) THEN MarkPinuse(f, m, FALSE) ELSE f
    PROVE  Freed(h, a, g)
<1> DEFINE D == DOMAIN h.chunk \ X
           F == E \union {p}
<1>1. /\ Formed(h) /\ Tiled(h) /\ h.corrupted = FALSE /\ h.chunk[h.base].pinuse = TRUE
      /\ \A b \in DOMAIN h.chunk : b \in Nat \ {Null} /\ InHeap(h, b) /\ Size(h, b) \in Nat /\ Size(h, b) >= 2
      /\ h.base \in Nat /\ End(h) \in Nat
  BY ChunkFacts DEF Sound, Marked, Formed
<1>2. /\ Formed(k) /\ Linked(k, E) /\ k.base = h.base /\ k.corrupted = h.corrupted
      /\ DOMAIN k.chunk = D
      /\ \A b \in D :
          /\ k.chunk[b].ut = h.chunk[b].ut /\ Size(k, b) = Size(h, b)
          /\ k.chunk[b].pinuse = h.chunk[b].pinuse /\ k.chunk[b].word = h.chunk[b].word
          /\ b \notin Smalls(h, Frees(h)) => k.chunk[b].next = h.chunk[b].next
      /\ Smalls(k, E) = Smalls(h, Frees(h)) \intersect E
  BY DEF Thinned
<1>3. Added(k, E, p, all, h.chunk[p].pinuse, f)
  <2>1. p \in Nat \ {Null} /\ InHeap(k, p) /\ p \notin E /\ all \in Nat \ {0}
    BY <1>1, <1>2 DEF InHeap
  <2> QED BY <1>2, <2>1, AddFcIs
<1>4. /\ Formed(f) /\ Linked(f, F) /\ f.base = h.base /\ f.corrupted = h.corrupted
      /\ DOMAIN f.chunk = D
      /\ \A b \in D \ {p} : f.chunk[b] = k.chunk[b]
      /\ FreeChunk(f.chunk[p], all, h.chunk[p].pinuse)
      /\ p \in Smalls(f, F) \/ f.chunk[p].next = 0
      /\ Smalls(h, Frees(h)) \intersect E \subseteq Smalls(f, F)
  BY <1>2, <1>3 DEF Added
<1>5. /\ m \in Nat /\ m # p /\ p \in Nat /\ m # h.base /\ h.base \in D /\ m \in D \union {End(h)}
      /\ (InHeap(h, m) <=> m \in D)
  <2>1. z[p] = all /\ p \in D
    OBVIOUS
  <2>2. /\ h.base \in D /\ h.base <= p /\ p + z[p] \in D \union {End(h)}
    BY <2>1 DEF Tiles
  <2>3. ~InHeap(h, End(h))
    BY <1>1, HeapUnitsAssumption DEF InHeap, End
  <2> QED BY <1>1, <2>1, <2>2, <2>3
<1>6. m \in D => m \in Objs(h) /\ m # a /\ m \notin F
  BY <1>5 DEF Objs, Frees, IsFree
<1>7. /\ Formed(g) /\ Linked(g, F) /\ Smalls(g, F) = Smalls(f, F)
      /\ g.base = h.base /\ g.corrupted = h.corrupted
      /\ DOMAIN g.chunk = D
      /\ \A b \in D \ {m} : g.chunk[b] = f.chunk[b]
      /\ m \in D => /\ g.chunk[m].pinuse = FALSE /\ g.chunk[m].ut = f.chunk[m].ut
                    /\ g.chunk[m].size = f.chunk[m].size /\ g.chunk[m].next = f.chunk[m].next
                    /\ g.chunk[m].word = f.chunk[m].word
  <2>1. CASE m \in D
    <3> DEFINE c == f.chunk[m]
               r == [c EXCEPT !.pinuse = FALSE]
    <3>1. g = [f EXCEPT !.chunk[m] = r]
      BY <1>5, <2>1 DEF MarkPinuse
    <3>2. IsChunk(c) /\ c.size \in Nat \ {0} /\ c.next \in Int
      BY <1>4, <2>1 DEF Formed, Size
    <3> HIDE DEF c
    <3>3. IsChunk(r) /\ r.pinuse = FALSE /\ r.ut = c.ut /\ r.size = c.size /\ r.next = c.next /\ r.word = c.word
      BY <3>2, ChunkMarked
    <3> HIDE DEF r
    <3>4. /\ Kept(f, F, g) /\ DOMAIN g.chunk = DOMAIN f.chunk /\ g.chunk[m] = r
          /\ \A b \in DOMAIN f.chunk \ {m} : g.chunk[b] = f.chunk[b]
      <4>1. m \in DOMAIN f.chunk /\ r.size \in Nat \ {0} /\ r.next \in Int /\ r.size = f.chunk[m].size
            /\ r.next = f.chunk[m].next /\ m \notin F
        BY <1>4, <1>6, <2>1, <3>2, <3>3 DEF c
      <4> HIDE DEF F, D
      <4>2. Rechunked(f, F, m, r, g)
        BY <1>4, <3>1, <3>3, <4>1, Rechunk
      <4> QED BY <4>2 DEF Rechunked
    <3> QED BY <1>4, <3>3, <3>4 DEF Kept, c
  <2>2. CASE m \notin D
    <3>1. g = f
      BY <1>5, <2>2
    <3> QED BY <1>4, <2>2, <3>1
  <2> QED BY <2>1, <2>2
<1>8. /\ Size(g, p) = all /\ g.chunk[p].ut = "FC" /\ g.chunk[p].pinuse = h.chunk[p].pinuse
      /\ p \in Smalls(g, F) \/ g.chunk[p].next = 0
      /\ \A b \in D \ {p} :
          /\ g.chunk[b].ut = h.chunk[b].ut /\ Size(g, b) = Size(h, b)
          /\ g.chunk[b].word = h.chunk[b].word
          /\ b # m => g.chunk[b].pinuse = h.chunk[b].pinuse
          /\ b \notin Smalls(h, Frees(h)) => g.chunk[b].next = h.chunk[b].next
  <2>1. Size(g, p) = all /\ g.chunk[p].ut = "FC" /\ g.chunk[p].pinuse = h.chunk[p].pinuse
        /\ (p \in Smalls(g, F) \/ g.chunk[p].next = 0)
    BY ZenonT(90), <1>4, <1>5, <1>7 DEF FreeChunk, Size
  <2>2. ASSUME NEW b \in D \ {p}
        PROVE  /\ g.chunk[b].ut = h.chunk[b].ut /\ Size(g, b) = Size(h, b)
               /\ g.chunk[b].word = h.chunk[b].word
               /\ b # m => g.chunk[b].pinuse = h.chunk[b].pinuse
               /\ b \notin Smalls(h, Frees(h)) => g.chunk[b].next = h.chunk[b].next
    <3>1. /\ f.chunk[b].ut = h.chunk[b].ut /\ Size(f, b) = Size(h, b)
          /\ f.chunk[b].pinuse = h.chunk[b].pinuse /\ f.chunk[b].word = h.chunk[b].word
          /\ b \notin Smalls(h, Frees(h)) => f.chunk[b].next = h.chunk[b].next
      <4>1. f.chunk[b] = k.chunk[b] /\ b \in D
        BY <1>4
      <4> HIDE DEF D
      <4> QED BY <1>2, <4>1 DEF Size
    <3>2. CASE b = m
      <4>1. /\ g.chunk[b].ut = f.chunk[b].ut /\ g.chunk[b].size = f.chunk[b].size
            /\ g.chunk[b].next = f.chunk[b].next /\ g.chunk[b].word = f.chunk[b].word
        BY <1>7, <3>2
      <4> QED BY <3>1, <3>2, <4>1 DEF Size
    <3>3. CASE b # m
      <4>1. g.chunk[b] = f.chunk[b]
        BY <1>7, <3>3
      <4> QED BY <3>1, <3>3, <4>1 DEF Size
    <3> QED BY <3>2, <3>3
  <2> QED BY <2>1, <2>2
<1>9. After(g, p) = m /\ \A b \in D \ {p} : After(g, b) = After(h, b)
  BY <1>8 DEF After
<1>10. Frees(g) = F /\ Objs(g) = Objs(h) \ {a}
  <2>1. \A b \in D \ {p} : b \in Frees(g) <=> b \in E
    BY <1>7, <1>8 DEF Frees, IsFree
  <2>2. p \in Frees(g) /\ p \notin Objs(g) /\ p \in D
    BY <1>7, <1>8 DEF Frees, IsFree, Objs
  <2>3. E \subseteq D \ {p} /\ Frees(g) \subseteq D
    BY <1>7 DEF Frees
  <2>4. \A b \in D \ {p} : b \in Objs(g) <=> b \in Objs(h)
    BY <1>7, <1>8 DEF Objs
  <2>5. Objs(h) \ {a} \subseteq D \ {p}
    BY DEF Objs, Frees, IsFree
  <2>6. a \notin D \ {p} /\ Objs(g) \subseteq D
    BY <1>7 DEF Objs
  <2> QED BY ZenonT(90), <2>1, <2>2, <2>3, <2>4, <2>5, <2>6
<1>11. Tiled(g)
  <2>1. \A b \in D : SizeOf(g)[b] = z[b]
    BY <1>7, <1>8 DEF SizeOf
  <2>2. Tiles(D, SizeOf(g), h.base, End(h))
    BY <2>1, TileSame
  <2>3. \A b \in D : Size(g, b) >= 2
    BY ZenonT(90), <1>1, <1>8
  <2> QED BY <1>7, <2>2, <2>3 DEF Tiled, End, Smallest
<1>12. \A b \in DOMAIN g.chunk \ Smalls(g, F) : g.chunk[b].next = 0
  <2> SUFFICES ASSUME NEW b \in D \ Smalls(g, F), b # p PROVE g.chunk[b].next = 0
    BY ZenonT(90), <1>7, <1>8
  <2>1. b \notin Smalls(h, Frees(h))
    <3>1. b \in Smalls(h, Frees(h)) => b \in E
      BY DEF Smalls
    <3> QED BY <1>4, <1>7, <3>1
  <2>2. h.chunk[b].next = 0
    BY <2>1 DEF Sound, Quiet
  <2> QED BY <1>8, <2>1, <2>2
<1> HIDE DEF D, F
<1>13. ASSUME NEW b \in DOMAIN g.chunk
       PROVE  /\ g.chunk[b].ut \in {"FC", "VO"} /\ g.chunk[b].pinuse \in BOOLEAN
              /\ b \in Objs(g) => g.chunk[b].word \in Words \union {0}
              /\ b \in Frees(g) /\ After(g, b) \in DOMAIN g.chunk
                 => After(g, b) \in Objs(g) /\ g.chunk[After(g, b)].pinuse = FALSE
              /\ b \in Objs(g) /\ After(g, b) \in DOMAIN g.chunk
                 => g.chunk[After(g, b)].pinuse = TRUE \/ HarmlessWords
  <2>1. b \in D /\ b \in DOMAIN h.chunk
    BY <1>7 DEF D
  <2>2. CASE b = p
    <3>1. h.chunk[p].pinuse \in BOOLEAN
      BY SoundFacts
    <3>2. b \notin Objs(g)
      BY <1>8, <2>2 DEF Objs
    <3> QED BY <1>6, <1>7, <1>8, <1>9, <1>10, <2>2, <3>1, <3>2
  <2>3. CASE b # p
    <3> DEFINE q == After(h, b)
    <3>1. After(g, b) = q
      BY <1>9, <2>1, <2>3
    <3>2. q # m
      <4>1. p \in DOMAIN g.chunk
        BY <1>7 DEF D
      <4>2. After(g, b) = After(g, p) => b = p
        BY <1>7, <1>11, <4>1, ChunkFacts
      <4> QED BY <1>9, <2>3, <3>1, <4>2
    <3> HIDE DEF q
    <3>3. q \in DOMAIN g.chunk => q \in DOMAIN h.chunk /\ g.chunk[q].pinuse = h.chunk[q].pinuse
      BY <1>7, <1>8, <3>2 DEF D
    <3>4. /\ h.chunk[b].ut \in {"FC", "VO"} /\ h.chunk[b].pinuse \in BOOLEAN
          /\ b \in Objs(h) => h.chunk[b].word \in Words \union {0}
          /\ b \in Frees(h) /\ q \in DOMAIN h.chunk => q \in Objs(h) /\ h.chunk[q].pinuse = FALSE
          /\ b \in Objs(h) /\ q \in DOMAIN h.chunk => h.chunk[q].pinuse = TRUE \/ HarmlessWords
      BY <2>1, SoundFacts DEF q
    <3>5. (b \in Frees(g) => b \in Frees(h)) /\ (b \in Objs(g) => b \in Objs(h))
      BY <1>10, <2>3 DEF F
    <3>6. b \in Frees(g) /\ q \in DOMAIN g.chunk => q # a
      <4> SUFFICES ASSUME b \in Frees(g), a \in DOMAIN g.chunk, q = a PROVE FALSE
        OBVIOUS
      <4>1. a = p
        BY <1>7 DEF D
      <4>2. b \in Objs(h)
        BY <2>1, <4>1 DEF q, D
      <4> QED BY <2>1, <3>5, <4>2, SoundFacts
    <3>7. g.chunk[b].ut = h.chunk[b].ut /\ g.chunk[b].word = h.chunk[b].word /\ g.chunk[b].pinuse \in BOOLEAN
      <4>1. b = m => g.chunk[b].pinuse = FALSE
        BY <1>7, <2>1
      <4> QED BY <1>8, <2>1, <2>3, <3>4, <4>1
    <3> QED BY <1>10, <3>1, <3>3, <3>4, <3>5, <3>6, <3>7
  <2> QED BY <2>2, <2>3
<1>14. g.chunk[g.base].pinuse = TRUE
  <2>1. h.base \in D /\ h.base # m /\ g.base = h.base
    BY <1>5, <1>7
  <2>2. g.chunk[h.base].pinuse = h.chunk[h.base].pinuse
    BY <1>8, <2>1
  <2> QED BY <1>1, <2>1, <2>2
<1>15. g.corrupted = FALSE
  BY <1>1, <1>7
<1>16. Sound(g)
  BY ONLY <1>7, <1>10, <1>11, <1>12, <1>13, <1>14, <1>15, SoundIntro
<1>17. \A b \in Objs(g) : Size(g, b) = Size(h, b)
  <2>1. Objs(g) \subseteq D \ {p}
    BY <1>7, <1>8 DEF Objs
  <2> QED BY <1>8, <2>1
<1> QED BY <1>7, <1>10, <1>16, <1>17 DEF Freed

\* gc_free_vo: a sound heap in which an object is freed, and merged with the free
\* chunks around it, is sound, and the other objects are what they were.
LEMMA FreeVoIs ==
    ASSUME NEW h, Sound(h), NEW a \in Objs(h)
    PROVE  Freed(h, a, FreeVo(h, a))
<1> DEFINE C == DOMAIN h.chunk
           F == Frees(h)
           p == MergePrev(h, a)
           left == IF p = a THEN h ELSE Unlink(h, p)
           size == Size(h, a) + (IF p = a THEN 0 ELSE Size(h, p))
           next == p + size
           merge == InHeap(h, next) /\ IsFree(h, next)
           all == IF merge THEN size + Size(h, next) ELSE size
           both == IF merge THEN Absorb(left, next) ELSE left
           one == [both EXCEPT !.chunk = IF p = a THEN both.chunk ELSE Remove(both.chunk, a)]
           m == p + all
           f == AddFc(one, p, all, h.chunk[p].pinuse)
           g == IF InHeap(h, m) THEN MarkPinuse(f, m, FALSE) ELSE f
           X1 == IF p = a THEN {} ELSE {a}
           Y == IF merge THEN {next} ELSE {}
           X == X1 \union Y
           E == F \ (X \union {p})
<1>1. /\ Formed(h) /\ Tiled(h) /\ h.corrupted = FALSE /\ a \in C /\ a \notin F /\ F \subseteq C
      /\ \A b \in C : /\ b \in Nat /\ Size(h, b) \in Nat /\ Size(h, b) >= 2 /\ InHeap(h, b)
                      /\ SizeOf(h)[b] = Size(h, b)
      /\ Tiles(C, SizeOf(h), h.base, End(h))
  BY ChunkFacts DEF Sound, Formed, Objs, Frees, IsFree, Tiled
<1>2. FreeVo(h, a) = IF left.corrupted THEN left ELSE IF both.corrupted THEN both ELSE g
  BY <1>1 DEF FreeVo
<1>3. /\ p = a \/ (p \in F /\ p # a /\ After(h, p) = a)
      /\ p \in C
      /\ p = a => \A q \in C : After(h, q) = p => q \in Objs(h)
  BY <1>1, MergePrevIs
<1> HIDE DEF p
<1>4. \A q \in C : After(h, q) = p => q \in Objs(h)
  <2>1. ASSUME p # a, NEW q \in C, After(h, q) = p PROVE q \in Objs(h)
    <3>1. p \notin Objs(h)
      BY <1>3, <2>1, SoundFacts
    <3> QED BY <1>3, <2>1, <3>1, SoundFacts
  <2> QED BY <1>3, <2>1
<1>5. next = After(h, a) /\ size \in Nat /\ size >= 2
  <2>1. CASE p = a
    BY <1>1, <2>1 DEF After
  <2>2. CASE p # a
    BY <1>1, <1>3, <2>2 DEF After
  <2> QED BY <2>1, <2>2
<1>6. next \in C \union {End(h)} /\ next # a /\ next # p /\ (InHeap(h, next) <=> next \in C)
      /\ merge = (next \in F)
  <2>1. /\ next \in C \union {End(h)} /\ a < next /\ (InHeap(h, next) <=> next \in C) /\ next \in Nat
    BY <1>1, <1>5, ChunkFacts
  <2>2. p <= a
    <3>1. p # a => p < a
      BY <1>1, <1>3, ChunkFacts
    <3> QED BY <1>1, <1>3, <3>1
  <2>3. merge = (next \in F)
    BY <2>1 DEF Frees, IsFree
  <2> QED BY <1>1, <1>3, <2>1, <2>2, <2>3
<1> HIDE DEF size, next, merge
<1> DEFINE z1 == [b \in C |-> IF b = p THEN size ELSE Size(h, b)]
           z == [b \in C |-> IF b = p THEN all ELSE Size(h, b)]
<1>7. Tiles(C \ X1, z1, h.base, End(h)) /\ z1[p] = size /\ p \in C \ X1
  <2>1. CASE p = a
    <3>1. \A b \in C : z1[b] = SizeOf(h)[b]
      BY <1>1, <2>1 DEF size
    <3>2. X1 = {} /\ z1[p] = size
      BY <1>3, <2>1
    <3> HIDE DEF z1
    <3> QED BY <1>1, <1>3, <2>1, <3>1, <3>2, TileSame
  <2>2. CASE p # a
    <3>1. a = p + SizeOf(h)[p] /\ z1[p] = size /\ size = SizeOf(h)[p] + SizeOf(h)[a]
      BY <1>1, <1>3, <2>2 DEF After, size
    <3>2. \A b \in (C \ {a}) \ {p} : z1[b] = SizeOf(h)[b]
      BY <1>1
    <3>3. X1 = {a}
      BY <2>2
    <3> HIDE DEF z1, X1
    <3>4. Tiles(C \ {a}, z1, h.base, End(h))
      BY <1>1, <1>3, <3>1, <3>2, TileMerge
    <3> QED BY <1>3, <2>2, <3>1, <3>3, <3>4
  <2> QED BY <2>1, <2>2
<1>8. /\ Tiles(C \ X, z, h.base, End(h)) /\ all \in Nat /\ all >= 2
      /\ m \in C => m \in Objs(h)
  <2>1. CASE merge
    <3>1. next \in F /\ next \in C \ X1 /\ next # p /\ Y = {next} /\ all = size + Size(h, next) /\ next = p + size
      BY <1>1, <1>6, <2>1 DEF next
    <3> HIDE DEF all, X1, Y
    <3>2. next = p + z1[p] /\ z[p] = z1[p] + z1[next]
      BY <1>1, <1>3, <1>7, <3>1
    <3>3. \A b \in ((C \ X1) \ {next}) \ {p} : z[b] = z1[b]
      OBVIOUS
    <3> HIDE DEF z, z1
    <3>4. Tiles((C \ X1) \ {next}, z, h.base, End(h))
      BY <1>7, <3>1, <3>2, <3>3, TileMerge
    <3>5. (C \ X1) \ {next} = C \ X
      BY <3>1
    <3>6. m = After(h, next) /\ all \in Nat /\ all >= 2
      BY <1>1, <1>3, <1>5, <3>1 DEF After
    <3>7. m \in C => m \in Objs(h)
      BY <3>1, <3>6, SoundFacts
    <3> QED BY <3>4, <3>5, <3>6, <3>7
  <2>2. CASE ~merge
    <3>1. X = X1 /\ all = size
      BY <2>2
    <3>2. z = z1
      BY <3>1
    <3>3. m = next
      BY <3>1 DEF next
    <3>4. next \in C => next \in Objs(h)
      BY <1>6, <2>2, SoundFacts
    <3> HIDE DEF all, X, X1, z, z1, m
    <3> QED BY <1>5, <1>7, <3>1, <3>2, <3>3, <3>4
  <2> QED BY <2>1, <2>2
<1> HIDE DEF all, z1
<1>9. Thinned(h, {}, F \ {p}, left) /\ NextListed(left, F \ {p})
  <2>1. Thinned(h, {}, F, h) /\ NextListed(h, F) /\ Quiet(h, F)
    BY ThinNone DEF Sound
  <2>2. CASE p = a
    <3>1. F \ {p} = F /\ left = h
      BY <1>1, <2>2
    <3> HIDE DEF F, left
    <3> QED BY <2>1, <3>1
  <2>3. CASE p # a
    <3>1. left = Unlink(h, p) /\ p \in F
      BY <1>3, <2>3
    <3> HIDE DEF F, left
    <3> QED BY <2>1, <3>1, ThinUnlink
  <2> QED BY <2>2, <2>3
<1> HIDE DEF left
<1>10. Thinned(h, Y, F \ (Y \union {p}), both)
  <2>1. CASE merge
    <3> DEFINE k == Unlink(left, next)
    <3>1. next \in F \ {p} /\ Y = {next} /\ next \in C
      BY <1>1, <1>6, <2>1
    <3>2. Thinned(h, {}, (F \ {p}) \ {next}, k)
      BY <1>9, <3>1, ThinUnlink
    <3>3. both = [k EXCEPT !.chunk = Remove(k.chunk, next)]
      BY <2>1 DEF Absorb
    <3> HIDE DEF k, both
    <3>4. next \in DOMAIN k.chunk /\ next \notin (F \ {p}) \ {next}
      BY <3>1, <3>2 DEF Thinned
    <3>5. Thinned(h, {} \union {next}, (F \ {p}) \ {next}, both)
      BY <3>2, <3>3, <3>4, ThinRemove
    <3>6. {} \union {next} = Y /\ (F \ {p}) \ {next} = F \ (Y \union {p})
      BY <3>1
    <3> QED BY <3>5, <3>6
  <2>2. CASE ~merge
    <3>1. both = left /\ Y = {} /\ F \ (Y \union {p}) = F \ {p}
      BY <2>2
    <3> HIDE DEF both, Y
    <3> QED BY <1>9, <3>1
  <2> QED BY <2>1, <2>2
<1> HIDE DEF both
<1>11. Thinned(h, X, E, one)
  <2>1. CASE p = a
    <3>1. /\ both = [base |-> both.base, chunk |-> both.chunk, normal |-> both.normal, tree |-> both.tree,
                     corrupted |-> both.corrupted]
      BY <1>10 DEF Thinned, Formed
    <3>2. one = [both EXCEPT !.chunk = both.chunk]
      BY <2>1
    <3>3. one = both /\ X = Y
      BY <2>1, <3>1, <3>2
    <3> HIDE DEF one, X, Y
    <3> QED BY <1>10, <3>3
  <2>2. CASE p # a
    <3>1. one = [both EXCEPT !.chunk = Remove(both.chunk, a)] /\ X = Y \union {a}
      BY <2>2
    <3>2. a \in DOMAIN both.chunk /\ a \notin F \ (Y \union {p})
      <4>1. DOMAIN both.chunk = C \ Y
        BY <1>10 DEF Thinned
      <4>2. a \notin Y
        BY <1>6
      <4> QED BY <1>1, <4>1, <4>2
    <3> HIDE DEF one, X, Y, F
    <3>3. Thinned(h, Y \union {a}, F \ (Y \union {p}), one)
      BY <1>10, <3>1, <3>2, ThinRemove
    <3>4. F \ (Y \union {p}) = E
      BY <1>1, <3>1
    <3> QED BY <3>1, <3>3, <3>4
  <2> QED BY <2>1, <2>2
<1> HIDE DEF one
<1>12. left.corrupted = FALSE /\ both.corrupted = FALSE
  BY <1>1, <1>9, <1>10 DEF Thinned
<1>13. FreeVo(h, a) = g
  BY <1>2, <1>12
<1>14. /\ X \in SUBSET C /\ p \notin X /\ a \in X \union {p}
       /\ \A b \in X \union {p} : b = a \/ b \in F
       /\ \A q \in C \ X : After(h, q) = p => q \in Objs(h)
  BY <1>1, <1>3, <1>4, <1>6
<1> HIDE DEF X, X1, Y, m, f
<1>15. /\ z = [b \in C |-> IF b = p THEN all ELSE Size(h, b)] /\ E = F \ (X \union {p}) /\ m = p + all
       /\ f = AddFc(one, p, all, h.chunk[p].pinuse)
  BY DEF m, f
<1>16. g = IF InHeap(h, m) THEN MarkPinuse(f, m, FALSE) ELSE f
  OBVIOUS
<1> HIDE DEF z, E, g
<1>17. Freed(h, a, g)
  BY <1>3, <1>8, <1>11, <1>14, <1>15, <1>16, MergedSound
<1> QED BY <1>13, <1>17

-----------------------------------------------------------------------------
(* gc_realloc_vo in place.                                                   *)
\* g is a sound heap with the objects of h, of which only a has another size.
Resized(h, a, size, g) ==
    /\ Sound(g) /\ g.base = h.base /\ Objs(g) = Objs(h) /\ Size(g, a) = size
    /\ \A b \in Objs(h) \ {a} : Size(g, b) = Size(h, b)

\* g is h where object a has taken the free chunk after it, up to the free rest.
Extended(h, a, size, N, g, w) ==
    LET next == After(h, a)
        C == DOMAIN h.chunk \ {next}
        E == Frees(h) \ {next}
    IN  /\ Formed(g) /\ Linked(g, E \union N) /\ g.base = h.base /\ g.corrupted = h.corrupted
        /\ DOMAIN g.chunk = C \union N
        /\ Size(g, a) = size /\ g.chunk[a].ut = "VO" /\ g.chunk[a].next = 0 /\ g.chunk[a].word = w
        /\ g.chunk[a].pinuse = h.chunk[a].pinuse
        /\ \A b \in C \ {a} :
            /\ g.chunk[b].ut = h.chunk[b].ut /\ Size(g, b) = Size(h, b)
            /\ g.chunk[b].pinuse = h.chunk[b].pinuse /\ g.chunk[b].word = h.chunk[b].word
            /\ b \notin Smalls(h, Frees(h)) => g.chunk[b].next = h.chunk[b].next
        /\ \A n \in N : /\ FreeChunk(g.chunk[n], After(h, next) - n, TRUE)
                        /\ n \in Smalls(g, E \union N) \/ g.chunk[n].next = 0
        /\ Smalls(h, Frees(h)) \intersect E \subseteq Smalls(g, E \union N)

\* What ExtendVo works on: next is the free chunk after a, m what follows it.
LEMMA ExtendPlaces ==
    ASSUME NEW h, Sound(h), NEW a \in Objs(h), NEW size \in Nat, Size(h, a) < size,
           GrowsInPlace(h, a, size), NEW next, next = After(h, a), NEW m, m = After(h, next)
    PROVE  /\ a \in DOMAIN h.chunk /\ a \in Nat /\ Size(h, a) \in Nat /\ Size(h, a) >= 2
           /\ next \in Frees(h) /\ next \in DOMAIN h.chunk /\ next \in Nat /\ next = a + Size(h, a)
           /\ Size(h, next) \in Nat /\ m = next + Size(h, next) /\ m \in Nat
           /\ m \in DOMAIN h.chunk \union {End(h)} /\ m <= End(h) /\ End(h) \in Nat
           /\ a < next /\ next < m /\ next < a + size /\ a + size <= m /\ a + size \in Nat
           /\ \A b \in DOMAIN h.chunk : b \in Nat /\ (b <= a \/ next <= b) /\ (b <= next \/ m <= b)
           /\ a # h.base => h.base < a
           /\ h.base \in DOMAIN h.chunk /\ h.base \in Nat /\ h.base <= a
<1>1. Formed(h) /\ Tiled(h) /\ a \in DOMAIN h.chunk
  BY DEF Sound, Objs
<1>2. /\ a \in Nat /\ h.base \in Nat /\ h.base \in DOMAIN h.chunk /\ h.base <= a
      /\ Size(h, a) \in Nat /\ Size(h, a) >= 2 /\ next \in Nat /\ a < next
      /\ \A b \in DOMAIN h.chunk : b <= a \/ next <= b
      /\ next = a + Size(h, a)
  BY <1>1, ChunkFacts DEF After
<1>3. IsFree(h, next) /\ size <= Size(h, a) + Size(h, next)
  BY <1>2 DEF GrowsInPlace
<1>4. next \in Frees(h) /\ next \in DOMAIN h.chunk
  BY <1>3 DEF Frees, IsFree
<1>5. /\ Size(h, next) \in Nat /\ m \in Nat /\ next < m /\ m = next + Size(h, next)
      /\ m \in DOMAIN h.chunk \union {End(h)} /\ m <= End(h) /\ End(h) \in Nat
      /\ \A b \in DOMAIN h.chunk : b <= next \/ m <= b
  BY <1>1, <1>4, ChunkFacts DEF After
<1>6. \A b \in DOMAIN h.chunk : b \in Nat
  BY <1>1 DEF Formed
<1>7. next < a + size /\ a + size <= m /\ a + size \in Nat /\ (a # h.base => h.base < a)
  BY <1>2, <1>3, <1>5
<1> QED BY <1>1, <1>2, <1>4, <1>5, <1>6, <1>7

\* gc_realloc_vo in place: Extended says what it does.
LEMMA ExtendIs ==
    ASSUME NEW h, Sound(h), NEW a \in Objs(h), NEW size \in Nat, Size(h, a) < size,
           GrowsInPlace(h, a, size), NEW w,
           NEW n, n = a + size, NEW N, N = IF n = After(h, After(h, a)) THEN {} ELSE {n},
           NEW g, g = Use(ExtendVo(h, a, size), a, w)
    PROVE  /\ Extended(h, a, size, N, g, w)
           /\ ExtendVo(h, a, size).corrupted = FALSE
<1> DEFINE next == After(h, a)
           m == After(h, next)
           F == Frees(h)
           E == F \ {next}
           C == DOMAIN h.chunk \ {next}
           rest == Size(h, a) + Size(h, next) - size
           k == Unlink(h, next)
           o == [k EXCEPT !.chunk = Remove(k.chunk, next)]
           one == [o EXCEPT !.chunk[a].size = size]
           f == IF rest = 0 THEN one ELSE AddFc(one, n, rest, TRUE)
<1>1. /\ a \in C /\ a \in Nat /\ Size(h, a) \in Nat
      /\ next \in F /\ next \in DOMAIN h.chunk /\ next \in Nat /\ next = a + Size(h, a)
      /\ Size(h, next) \in Nat /\ m = next + Size(h, next) /\ m \in Nat /\ m <= End(h) /\ End(h) \in Nat
      /\ a < next /\ next < n /\ n <= m /\ n \in Nat
      /\ \A b \in DOMAIN h.chunk : b \in Nat /\ (b <= next \/ m <= b)
      /\ h.base \in Nat /\ h.base <= a
  BY ExtendPlaces
<1>2. Formed(h) /\ h.corrupted = FALSE /\ a \notin F
  BY DEF Sound, Objs, Frees, IsFree
<1>3. rest = m - n /\ rest \in Nat /\ (rest = 0 <=> n = m)
  BY <1>1
<1>4. ExtendVo(h, a, size) = IF k.corrupted THEN Corrupt(h) ELSE f
  <2>1. next = a + Size(h, a) /\ one = [Absorb(h, next) EXCEPT !.chunk[a].size = size]
    BY <1>1 DEF Absorb
  <2> HIDE DEF next, one
  <2> QED BY <2>1 DEF ExtendVo
<1> HIDE DEF next, m, rest
<1>5. Thinned(h, {}, E, k)
  <2>1. Thinned(h, {}, F, h) /\ NextListed(h, F)
    BY ThinNone
  <2> HIDE DEF F, k
  <2> QED BY <1>1, <2>1, ThinUnlink DEF k
<1> HIDE DEF k
<1>6. Thinned(h, {next}, E, o)
  <2>1. next \in DOMAIN k.chunk /\ next \notin E
    BY <1>1, <1>5 DEF Thinned
  <2> HIDE DEF E, o
  <2>2. Thinned(h, {} \union {next}, E, o)
    BY <1>5, <2>1, ThinRemove DEF o
  <2> QED BY <2>2
<1> HIDE DEF o
<1>7. /\ Formed(o) /\ Linked(o, E) /\ o.base = h.base /\ o.corrupted = h.corrupted
      /\ DOMAIN o.chunk = C
      /\ \A b \in C :
          /\ o.chunk[b].ut = h.chunk[b].ut /\ Size(o, b) = Size(h, b)
          /\ o.chunk[b].pinuse = h.chunk[b].pinuse /\ o.chunk[b].word = h.chunk[b].word
          /\ b \notin Smalls(h, F) => o.chunk[b].next = h.chunk[b].next
      /\ Smalls(o, E) = Smalls(h, F) \intersect E
  BY <1>6 DEF Thinned
<1> HIDE DEF E, C
<1> DEFINE r == [o.chunk[a] EXCEPT !.size = size]
<1>8. IsChunk(r) /\ r.size = size /\ r.pinuse = h.chunk[a].pinuse /\ r.next \in Int
  <2>1. IsChunk(o.chunk[a]) /\ o.chunk[a].next \in Int /\ o.chunk[a].pinuse = h.chunk[a].pinuse
    BY <1>1, <1>7 DEF Formed
  <2> QED BY <2>1 DEF IsChunk
<1>9. one = [o EXCEPT !.chunk[a] = r]
  OBVIOUS
<1> HIDE DEF one, r
<1>10. /\ Formed(one) /\ Linked(one, E) /\ one.base = h.base /\ one.corrupted = h.corrupted
       /\ DOMAIN one.chunk = C /\ one.chunk[a] = r
       /\ \A b \in C \ {a} : one.chunk[b] = o.chunk[b]
       /\ Smalls(one, E) = Smalls(h, F) \intersect E
  <2>1. a \in DOMAIN o.chunk /\ a \notin E /\ r.size \in Nat \ {0}
    BY <1>1, <1>2, <1>7, <1>8 DEF E
  <2>2. Rechunked(o, E, a, r, one)
    BY <1>7, <1>8, <1>9, <2>1, Rechunk
  <2> QED BY <1>7, <2>2 DEF Rechunked, Kept
<1>11. /\ Formed(f) /\ Linked(f, E \union N) /\ f.base = h.base /\ f.corrupted = h.corrupted
       /\ DOMAIN f.chunk = C \union N
       /\ \A b \in C : f.chunk[b] = one.chunk[b]
       /\ \A b \in N : /\ FreeChunk(f.chunk[b], m - b, TRUE)
                       /\ b \in Smalls(f, E \union N) \/ f.chunk[b].next = 0
       /\ Smalls(h, F) \intersect E \subseteq Smalls(f, E \union N)
  <2>1. CASE rest = 0
    <3>1. N = {} /\ f = one
      BY <1>3, <2>1 DEF m, next
    <3> HIDE DEF f
    <3>2. E \union N = E /\ C \union N = C
      BY <3>1
    <3> QED BY <1>10, <3>1, <3>2
  <2>2. CASE rest # 0
    <3>1. N = {n} /\ f = AddFc(one, n, rest, TRUE) /\ n < m
      BY <1>1, <1>3, <2>2 DEF m, next
    <3> HIDE DEF f
    <3>2. n \notin C /\ n \notin E /\ n \in Nat \ {Null} /\ InHeap(one, n) /\ rest \in Nat \ {0}
      <4>1. n \notin DOMAIN h.chunk
        BY <1>1, <3>1
      <4>2. InHeap(one, n)
        BY <1>1, <1>10, <3>1, HeapUnitsAssumption DEF InHeap, End
      <4> QED BY <1>1, <1>3, <2>2, <4>1, <4>2 DEF C, E, F, Frees, Null
    <3>3. Added(one, E, n, rest, TRUE, f)
      BY <1>10, <3>1, <3>2, AddFcIs
    <3>4. /\ Formed(f) /\ Linked(f, E \union {n})
          /\ f.base = one.base /\ f.corrupted = one.corrupted
          /\ DOMAIN f.chunk = DOMAIN one.chunk \union {n}
          /\ \A b \in DOMAIN one.chunk \ {n} : f.chunk[b] = one.chunk[b]
          /\ FreeChunk(f.chunk[n], rest, TRUE)
          /\ n \in Smalls(f, E \union {n}) \/ f.chunk[n].next = 0
          /\ Smalls(one, E) \subseteq Smalls(f, E \union {n})
      BY <3>3 DEF Added
    <3> QED BY <1>3, <1>10, <3>1, <3>2, <3>4
  <2> QED BY <2>1, <2>2
<1> HIDE DEF f
<1>12. k.corrupted = FALSE
  BY <1>2, <1>5 DEF Thinned
<1>13. ExtendVo(h, a, size) = f
  BY <1>4, <1>12
<1>14. a \notin E \union N /\ a \in DOMAIN f.chunk /\ a \notin N
  <2>1. a # n
    BY <1>1
  <2> QED BY <1>1, <1>2, <1>11, <2>1 DEF E
<1>15. /\ Kept(f, E \union N, g) /\ DOMAIN g.chunk = C \union N
       /\ IsObject(g.chunk[a], Size(f, a), f.chunk[a].pinuse, w)
       /\ \A b \in (C \union N) \ {a} : g.chunk[b] = f.chunk[b]
  <2>1. g = Use(f, a, w)
    BY <1>13
  <2> HIDE DEF E
  <2>2. /\ Kept(f, E \union N, g) /\ DOMAIN g.chunk = DOMAIN f.chunk
        /\ IsObject(g.chunk[a], Size(f, a), f.chunk[a].pinuse, w)
        /\ \A b \in DOMAIN f.chunk \ {a} : g.chunk[b] = f.chunk[b]
    BY <1>11, <1>14, <2>1, UseIs
  <2> QED BY <1>11, <2>2
<1>16. Size(f, a) = size /\ f.chunk[a].pinuse = h.chunk[a].pinuse
  BY <1>1, <1>8, <1>10, <1>11 DEF Size
<1>17. /\ Formed(g) /\ Linked(g, E \union N) /\ g.base = h.base /\ g.corrupted = h.corrupted
       /\ Smalls(h, F) \intersect E \subseteq Smalls(g, E \union N)
       /\ Smalls(g, E \union N) = Smalls(f, E \union N)
  BY <1>11, <1>15 DEF Kept
<1>18. \A b \in C \ {a} :
          /\ g.chunk[b].ut = h.chunk[b].ut /\ Size(g, b) = Size(h, b)
          /\ g.chunk[b].pinuse = h.chunk[b].pinuse /\ g.chunk[b].word = h.chunk[b].word
          /\ b \notin Smalls(h, F) => g.chunk[b].next = h.chunk[b].next
  <2> SUFFICES ASSUME NEW b \in C \ {a}
      PROVE  /\ g.chunk[b].ut = h.chunk[b].ut /\ Size(g, b) = Size(h, b)
             /\ g.chunk[b].pinuse = h.chunk[b].pinuse /\ g.chunk[b].word = h.chunk[b].word
             /\ b \notin Smalls(h, F) => g.chunk[b].next = h.chunk[b].next
    OBVIOUS
  <2>1. g.chunk[b] = o.chunk[b]
    BY <1>10, <1>11, <1>15
  <2> QED BY <1>7, <2>1 DEF Size
<1>19. \A b \in N : /\ FreeChunk(g.chunk[b], m - b, TRUE)
                    /\ b \in Smalls(g, E \union N) \/ g.chunk[b].next = 0
  BY ZenonT(90), <1>11, <1>14, <1>15, <1>17
<1>20. /\ Size(g, a) = size /\ g.chunk[a].ut = "VO" /\ g.chunk[a].next = 0 /\ g.chunk[a].word = w
       /\ g.chunk[a].pinuse = h.chunk[a].pinuse
  BY <1>15, <1>16 DEF IsObject, Size
<1>21. Extended(h, a, size, N, g, w)
  <2> HIDE DEF F
  <2>1. DOMAIN g.chunk = C \union N
    BY <1>15
  <2> QED BY ONLY <1>17, <1>18, <1>19, <1>20, <2>1, Zenon DEF Extended, C, E, F, m, next
<1> QED BY <1>2, <1>11, <1>13, <1>21

\* The heap is sound if the rest is large enough for a chunk, or there is none
\* and no object's last word is taken for the size of a free chunk.
LEMMA ExtendSound ==
    ASSUME NEW h, Sound(h), NEW a \in Objs(h), NEW size \in Nat, Size(h, a) < size,
           GrowsInPlace(h, a, size), NEW w \in Words \union {0},
           NEW n, n = a + size, NEW m, m = After(h, After(h, a)),
           n = m => HarmlessWords, n # m => m - n >= 2,
           NEW N, N = IF n = m THEN {} ELSE {n}, NEW g, Extended(h, a, size, N, g, w)
    PROVE  Resized(h, a, size, g)
<1> DEFINE next == After(h, a)
           F == Frees(h)
           E == F \ {next}
           C == DOMAIN h.chunk \ {next}
           G == E \union N
           D == C \union N
<1>1. /\ Formed(g) /\ Linked(g, G) /\ g.base = h.base /\ g.corrupted = h.corrupted
      /\ DOMAIN g.chunk = D
      /\ Size(g, a) = size /\ g.chunk[a].ut = "VO" /\ g.chunk[a].next = 0 /\ g.chunk[a].word = w
      /\ g.chunk[a].pinuse = h.chunk[a].pinuse
      /\ \A b \in C \ {a} :
          /\ g.chunk[b].ut = h.chunk[b].ut /\ Size(g, b) = Size(h, b)
          /\ g.chunk[b].pinuse = h.chunk[b].pinuse /\ g.chunk[b].word = h.chunk[b].word
          /\ b \notin Smalls(h, F) => g.chunk[b].next = h.chunk[b].next
      /\ \A b \in N : FreeChunk(g.chunk[b], m - b, TRUE) /\ (b \in Smalls(g, G) \/ g.chunk[b].next = 0)
      /\ Smalls(h, F) \intersect E \subseteq Smalls(g, G)
  BY Zenon DEF Extended
<1>2. /\ Formed(h) /\ Tiled(h) /\ h.corrupted = FALSE /\ h.chunk[h.base].pinuse = TRUE
      /\ Tiles(DOMAIN h.chunk, SizeOf(h), h.base, End(h))
      /\ \A b \in DOMAIN h.chunk : SizeOf(h)[b] = Size(h, b) /\ Size(h, b) >= 2 /\ Size(h, b) \in Nat
  BY ChunkFacts DEF Sound, Marked, Tiled
<1>3. /\ a \in C /\ a \in Nat /\ Size(h, a) \in Nat /\ Size(h, a) >= 2
      /\ next \in F /\ next \in DOMAIN h.chunk /\ next \in Nat /\ next = a + Size(h, a)
      /\ Size(h, next) \in Nat /\ m = next + Size(h, next) /\ m \in Nat
      /\ m \in DOMAIN h.chunk \union {End(h)} /\ m <= End(h) /\ End(h) \in Nat
      /\ a < next /\ next < m /\ next < n /\ n <= m /\ n \in Nat
      /\ \A b \in DOMAIN h.chunk : b \in Nat /\ (b <= a \/ next <= b) /\ (b <= next \/ m <= b)
      /\ h.base \in C
  BY ExtendPlaces
<1>4. /\ a \notin F /\ a # n /\ a # m /\ next # n
      /\ n \notin C \/ n = m
  BY <1>3 DEF Objs, Frees, IsFree
<1>5. m \in DOMAIN h.chunk => m \in C /\ m \in Objs(h) /\ h.chunk[m].pinuse = FALSE
  <2>1. After(h, next) = m
    OBVIOUS
  <2> QED BY <1>3, <2>1, SoundFacts
<1>6. \A b \in C \ {a} : After(h, b) # next /\ After(h, b) # m /\ After(h, b) \in DOMAIN h.chunk \union {End(h)}
  <2> SUFFICES ASSUME NEW b \in C \ {a}
      PROVE  After(h, b) # next /\ After(h, b) # m /\ After(h, b) \in DOMAIN h.chunk \union {End(h)}
    OBVIOUS
  <2>1. After(h, b) = After(h, a) => b = a
    BY <1>2, <1>3, ChunkFacts
  <2>2. After(h, b) = After(h, next) => b = next
    BY <1>2, <1>3, ChunkFacts
  <2>3. After(h, b) \in DOMAIN h.chunk \union {End(h)}
    BY <1>2, ChunkFacts
  <2> QED BY <2>1, <2>2, <2>3
<1> HIDE DEF next
<1>7. \A b \in N : b = n /\ n # m /\ Size(g, b) = m - n /\ g.chunk[b].ut = "FC" /\ g.chunk[b].pinuse = TRUE
  BY <1>1 DEF FreeChunk, Size
<1>8. /\ After(g, a) = n /\ \A b \in N : After(g, b) = m
      /\ \A b \in C \ {a} : After(g, b) = After(h, b)
  <2>1. \A b \in N : After(g, b) = m
    BY <1>3, <1>7 DEF After
  <2> QED BY <1>1, <2>1 DEF After
<1>9. a \notin N /\ \A b \in N : b \notin C
  BY <1>4, <1>7
<1>10. Frees(g) = G /\ Objs(g) = Objs(h)
  <2>1. \A b \in C \ {a} : (b \in Frees(g) <=> b \in F) /\ (b \in Objs(g) <=> b \in Objs(h))
    BY <1>1 DEF Frees, IsFree, Objs
  <2>2. \A b \in N : b \in Frees(g) /\ b \notin Objs(g) /\ b \notin Objs(h)
    <3>1. \A b \in N : b \notin DOMAIN h.chunk
      BY <1>3, <1>9
    <3> QED BY <1>1, <1>7, <3>1 DEF Frees, IsFree, Objs
  <2>3. a \notin Frees(g) /\ a \in Objs(g) /\ a \in Objs(h) /\ a \notin F
    BY <1>1, <1>3, <1>4 DEF Frees, IsFree, Objs
  <2>4. /\ F \subseteq DOMAIN h.chunk /\ Objs(h) \subseteq C /\ Frees(g) \subseteq D /\ Objs(g) \subseteq D
    <3>1. next \notin Objs(h)
      BY <1>3, SoundFacts
    <3> QED BY <1>1, <3>1 DEF Frees, Objs
  <2>5. D = C \union N /\ G = E \union N /\ E = F \ {next} /\ C = DOMAIN h.chunk \ {next} /\ next \in F
    BY <1>3
  <2> HIDE DEF F, C, D, E, G
  <2>6. \A b \in D : (b \in Frees(g) <=> b \in G) /\ (b \in Objs(g) <=> b \in Objs(h))
    BY <1>9, <2>1, <2>2, <2>3, <2>4, <2>5
  <2>7. G \subseteq D /\ Objs(h) \subseteq D
    BY <2>4, <2>5
  <2> QED BY <2>4, <2>6, <2>7
<1> DEFINE z == [b \in C |-> IF b = a THEN m - a ELSE Size(h, b)]
<1>11. Tiles(C, z, h.base, End(h)) /\ z[a] = m - a
  <2>1. /\ next = a + SizeOf(h)[a] /\ z[a] = SizeOf(h)[a] + SizeOf(h)[next]
        /\ \A b \in C \ {a} : z[b] = SizeOf(h)[b]
    BY <1>2, <1>3
  <2>2. a \in DOMAIN h.chunk /\ next \in DOMAIN h.chunk /\ z[a] = m - a
    BY <1>3
  <2> HIDE DEF z
  <2> QED BY <1>2, <2>1, <2>2, TileMerge
<1>12. Tiled(g)
  <2>1. Tiles(D, SizeOf(g), h.base, End(h))
    <3>1. SizeOf(g)[a] = size /\ \A b \in C \ {a} : SizeOf(g)[b] = z[b]
      <4>1. a \in D /\ \A b \in C \ {a} : b \in D
        BY <1>3
      <4> HIDE DEF D
      <4> QED BY <1>1, <4>1 DEF SizeOf
    <3>2. CASE n = m
      <4>1. D = C
        BY <3>2
      <4>2. size = m - a
        BY <1>3, <3>2
      <4>3. \A b \in C : SizeOf(g)[b] = z[b]
        BY <1>11, <3>1, <4>2
      <4> HIDE DEF z, D
      <4> QED BY <1>11, <4>1, <4>3, TileSame
    <3>3. CASE n # m
      <4>1. D = C \union {n} /\ SizeOf(g)[n] = m - n
        <5>1. n \in N /\ N = {n}
          BY <3>3
        <5> QED BY <1>1, <1>7, <5>1 DEF SizeOf
      <4>2. size \in Nat \ {0} /\ size < z[a] /\ m - n = z[a] - size
        BY <1>3, <1>11, <3>3
      <4> HIDE DEF z, D
      <4> QED BY <1>3, <1>11, <3>1, <4>1, <4>2, TileSplit
    <3> QED BY <3>2, <3>3
  <2>2. \A b \in D : Size(g, b) >= 2
    <3>1. \A b \in N : Size(g, b) >= 2
      BY <1>7
    <3>2. size >= 2
      BY <1>3
    <3> QED BY <1>1, <1>2, <3>1, <3>2
  <2> QED BY <1>1, <2>1, <2>2 DEF Tiled, End, Smallest
<1>13. \A b \in DOMAIN g.chunk \ Smalls(g, G) : g.chunk[b].next = 0
  <2> SUFFICES ASSUME NEW b \in D \ Smalls(g, G), b # a, b \notin N PROVE g.chunk[b].next = 0
    BY <1>1
  <2>1. b \in C \ {a} /\ b # next
    OBVIOUS
  <2>2. b \notin Smalls(h, F)
    <3>1. b \in Smalls(h, F) => b \in E
      BY <2>1 DEF Smalls
    <3> QED BY <1>1, <3>1
  <2>3. h.chunk[b].next = 0
    BY <2>1, <2>2 DEF Sound, Quiet
  <2> QED BY <1>1, <2>1, <2>2, <2>3
<1> HIDE DEF D, G, E
<1>14. ASSUME NEW b \in DOMAIN g.chunk
       PROVE  /\ g.chunk[b].ut \in {"FC", "VO"} /\ g.chunk[b].pinuse \in BOOLEAN
              /\ b \in Objs(g) => g.chunk[b].word \in Words \union {0}
              /\ b \in Frees(g) /\ After(g, b) \in DOMAIN g.chunk
                 => After(g, b) \in Objs(g) /\ g.chunk[After(g, b)].pinuse = FALSE
              /\ b \in Objs(g) /\ After(g, b) \in DOMAIN g.chunk
                 => g.chunk[After(g, b)].pinuse = TRUE \/ HarmlessWords
  <2>1. b \in C \/ b \in N
    BY <1>1 DEF D
  <2>2. CASE b = a
    <3>1. h.chunk[a].pinuse \in BOOLEAN
      BY <1>3, SoundFacts
    <3>2. b \notin Frees(g)
      BY <1>1, <2>2 DEF Frees, IsFree
    <3>3. n \in DOMAIN g.chunk => g.chunk[n].pinuse = TRUE \/ HarmlessWords
      <4>1. CASE n = m
        BY <4>1
      <4>2. CASE n # m
        <5>1. n \in N
          BY <4>2
        <5> QED BY <1>7, <5>1
      <4> QED BY <4>1, <4>2
    <3> QED BY <1>1, <1>8, <2>2, <3>1, <3>2, <3>3
  <2>3. CASE b \in N
    <3>1. b \notin Objs(g) /\ After(g, b) = m /\ g.chunk[b].ut = "FC" /\ g.chunk[b].pinuse = TRUE
      BY <1>7, <1>8, <2>3 DEF Objs
    <3>2. m \in DOMAIN g.chunk => m \in C \ {a}
      BY <1>1, <1>4, <1>7 DEF D
    <3>3. m \in DOMAIN g.chunk => m \in Objs(g) /\ g.chunk[m].pinuse = FALSE
      BY <1>1, <1>5, <1>10, <3>2
    <3> QED BY <3>1, <3>3
  <2>4. CASE b \in C \ {a}
    <3> DEFINE q == After(h, b)
    <3>1. After(g, b) = q /\ q # next /\ q # m /\ q \in DOMAIN h.chunk \union {End(h)}
      BY <1>6, <1>8, <2>4
    <3>2. /\ h.chunk[b].ut \in {"FC", "VO"} /\ h.chunk[b].pinuse \in BOOLEAN
          /\ b \in Objs(h) => h.chunk[b].word \in Words \union {0}
          /\ b \in Frees(h) /\ q \in DOMAIN h.chunk => q \in Objs(h) /\ h.chunk[q].pinuse = FALSE
          /\ b \in Objs(h) /\ q \in DOMAIN h.chunk => h.chunk[q].pinuse = TRUE \/ HarmlessWords
      BY <2>4, SoundFacts
    <3> HIDE DEF q
    <3>3. q \in DOMAIN g.chunk => q \in C
      <4>1. q \in N => q = n /\ n # m
        BY <1>7
      <4>2. q \in N => q \notin DOMAIN h.chunk /\ q # End(h)
        BY <1>3, <4>1
      <4> QED BY <1>1, <3>1, <4>2 DEF D
    <3>4. q \in C => q \in DOMAIN h.chunk /\ g.chunk[q].pinuse = h.chunk[q].pinuse
      BY <1>1
    <3>5. (b \in Frees(g) => b \in Frees(h)) /\ (b \in Objs(g) <=> b \in Objs(h))
      <4>1. b \notin N
        BY <1>9, <2>4
      <4> QED BY <1>10, <4>1 DEF G, E
    <3>6. g.chunk[b].ut = h.chunk[b].ut /\ g.chunk[b].word = h.chunk[b].word
          /\ g.chunk[b].pinuse = h.chunk[b].pinuse
      BY <1>1, <2>4
    <3> QED BY <1>10, <3>1, <3>2, <3>3, <3>4, <3>5, <3>6
  <2> QED BY <2>1, <2>2, <2>3, <2>4
<1>15. g.chunk[g.base].pinuse = TRUE
  BY <1>1, <1>2, <1>3
<1>16. g.corrupted = FALSE
  BY <1>1, <1>2
<1>17. Sound(g)
  BY ONLY <1>1, <1>10, <1>12, <1>13, <1>14, <1>15, <1>16, SoundIntro
<1>18. \A b \in Objs(h) \ {a} : Size(g, b) = Size(h, b)
  <2>1. next \notin Objs(h)
    BY <1>3, SoundFacts
  <2>2. Objs(h) \subseteq C
    BY <2>1 DEF Objs
  <2> QED BY <1>1, <2>2
<1> QED BY <1>1, <1>10, <1>17, <1>18 DEF Resized

\* An object that keeps its chunk ends with another word.
LEMMA UsedAgain ==
    ASSUME NEW h, Sound(h), NEW a \in Objs(h), NEW w \in Words \union {0}, NEW g, g = Use(h, a, w)
    PROVE  Resized(h, a, Size(h, a), g)
<1> DEFINE F == Frees(h)
<1>1. /\ Formed(h) /\ Linked(h, F) /\ Tiled(h) /\ h.corrupted = FALSE /\ h.chunk[h.base].pinuse = TRUE
      /\ h.base \in DOMAIN h.chunk /\ a \in DOMAIN h.chunk /\ a \notin F /\ h.chunk[a].ut = "VO"
      /\ Tiles(DOMAIN h.chunk, SizeOf(h), h.base, End(h))
  BY ChunkFacts DEF Sound, Marked, Objs, Frees, IsFree, Tiled
<1>2. /\ Kept(h, F, g) /\ DOMAIN g.chunk = DOMAIN h.chunk
      /\ IsObject(g.chunk[a], Size(h, a), h.chunk[a].pinuse, w)
      /\ \A b \in DOMAIN h.chunk \ {a} : g.chunk[b] = h.chunk[b]
  <2> HIDE DEF F
  <2> QED BY <1>1, UseIs
<1>3. /\ Formed(g) /\ Linked(g, F) /\ Smalls(g, F) = Smalls(h, F)
      /\ g.base = h.base /\ g.corrupted = h.corrupted
  BY <1>2 DEF Kept
<1>4. /\ g.chunk[a].next = 0 /\ g.chunk[a].word = w
      /\ \A b \in DOMAIN h.chunk :
          /\ g.chunk[b].ut = h.chunk[b].ut /\ Size(g, b) = Size(h, b)
          /\ g.chunk[b].pinuse = h.chunk[b].pinuse
          /\ b # a => g.chunk[b].word = h.chunk[b].word /\ g.chunk[b].next = h.chunk[b].next
  BY <1>1, <1>2 DEF IsObject, Size
<1>5. /\ Frees(g) = F /\ Objs(g) = Objs(h)
      /\ \A b \in DOMAIN h.chunk : After(g, b) = After(h, b)
  BY <1>2, <1>4 DEF Frees, IsFree, Objs, After
<1>6. Tiled(g)
  <2>1. \A b \in DOMAIN h.chunk : SizeOf(g)[b] = SizeOf(h)[b]
    BY <1>2, <1>4 DEF SizeOf
  <2>2. Tiles(DOMAIN h.chunk, SizeOf(g), h.base, End(h))
    BY <1>1, <2>1, TileSame
  <2> QED BY <1>1, <1>2, <1>3, <1>4, <2>2 DEF Tiled, End
<1>7. \A b \in DOMAIN g.chunk \ Smalls(g, F) : g.chunk[b].next = 0
  BY <1>2, <1>3, <1>4 DEF Sound, Quiet
<1>8. ASSUME NEW b \in DOMAIN g.chunk
      PROVE  /\ g.chunk[b].ut \in {"FC", "VO"} /\ g.chunk[b].pinuse \in BOOLEAN
             /\ b \in Objs(g) => g.chunk[b].word \in Words \union {0}
             /\ b \in Frees(g) /\ After(g, b) \in DOMAIN g.chunk
                => After(g, b) \in Objs(g) /\ g.chunk[After(g, b)].pinuse = FALSE
             /\ b \in Objs(g) /\ After(g, b) \in DOMAIN g.chunk
                => g.chunk[After(g, b)].pinuse = TRUE \/ HarmlessWords
  <2> DEFINE q == After(h, b)
  <2>1. b \in DOMAIN h.chunk /\ After(g, b) = q
    BY <1>2, <1>5
  <2>2. /\ h.chunk[b].ut \in {"FC", "VO"} /\ h.chunk[b].pinuse \in BOOLEAN
        /\ b \in Objs(h) => h.chunk[b].word \in Words \union {0}
        /\ b \in Frees(h) /\ q \in DOMAIN h.chunk => q \in Objs(h) /\ h.chunk[q].pinuse = FALSE
        /\ b \in Objs(h) /\ q \in DOMAIN h.chunk => h.chunk[q].pinuse = TRUE \/ HarmlessWords
    BY <2>1, SoundFacts
  <2> HIDE DEF q
  <2>3. q \in DOMAIN h.chunk => g.chunk[q].pinuse = h.chunk[q].pinuse
    BY <1>4
  <2>4. g.chunk[b].word \in {w, h.chunk[b].word} /\ (b # a => g.chunk[b].word = h.chunk[b].word)
        /\ (b = a => g.chunk[b].word = w)
    BY <1>4, <2>1
  <2> QED BY <1>2, <1>4, <1>5, <2>1, <2>2, <2>3, <2>4
<1>9. g.chunk[g.base].pinuse = TRUE /\ g.corrupted = FALSE
  BY <1>1, <1>3, <1>4
<1>10. Sound(g)
  BY ONLY <1>3, <1>5, <1>6, <1>7, <1>8, <1>9, SoundIntro
<1>11. Size(g, a) = Size(h, a) /\ \A b \in Objs(h) : Size(g, b) = Size(h, b)
  BY <1>1, <1>4 DEF Objs
<1> QED BY <1>3, <1>5, <1>10, <1>11 DEF Resized

-----------------------------------------------------------------------------
(* gc_migrate.                                                               *)
\* Every pointer of the tree, moved.
ShiftedTree(t, by) ==
    LET back == [a \in {Adjust(b, by) : b \in DOMAIN t} |-> IF a = Root THEN Root ELSE a - by]
    IN  [a \in DOMAIN back |-> Adjusted(t[back[a]], by)]

\* Every chunk, moved.
ShiftedChunks(c, by) == [a \in {b + by : b \in DOMAIN c} |-> c[a - by]]

\* gc_migrate moves the chunks and the pointers of the tree, and no list.
LEMMA MigrateParts ==
    ASSUME NEW h, Formed(h), ~WalkFails(h), NEW to, NEW by, by = to - h.base, NEW g, g = Migrate(h, to)
    PROVE  /\ g = [base |-> g.base, chunk |-> g.chunk, normal |-> g.normal, tree |-> g.tree,
                   corrupted |-> g.corrupted]
           /\ g.base = to /\ g.chunk = ShiftedChunks(h.chunk, by) /\ g.normal = h.normal
           /\ g.tree = ShiftedTree(h.tree, by) /\ g.corrupted = h.corrupted
<1>1. h = [base |-> h.base, chunk |-> h.chunk, normal |-> h.normal, tree |-> h.tree,
           corrupted |-> h.corrupted]
  BY DEF Formed
<1>2. g = [h EXCEPT !.base = to, !.chunk = ShiftedChunks(h.chunk, by), !.tree = ShiftedTree(h.tree, by)]
  <2>1. Migrate(h, to) = [h EXCEPT !.base = to, !.chunk = ShiftedChunks(h.chunk, to - h.base),
                                   !.tree = ShiftedTree(h.tree, to - h.base)]
    BY Zenon DEF Migrate, ShiftedChunks, ShiftedTree
  <2> QED BY <2>1
<1> QED BY <1>1, <1>2

\* adjust_ptr on every pointer of the tree gives its nodes other addresses.
LEMMA ShiftedNodes ==
    ASSUME NEW t, Links(t), NEW by \in Int, \A n \in DOMAIN t \ {Root} : n \in Nat /\ n + by \in Nat \ {Null},
           NEW u, u = ShiftedTree(t, by),
           NEW adj, adj = [n \in DOMAIN t \union {Null} |-> Adjust(n, by)],
           NEW k, k = [x \in {Adjust(n, by) : n \in DOMAIN t \union {Null}} |->
                          IF x \in {Null, Root} THEN x ELSE x - by]
    PROVE  Renames(t, u, adj, k)
<1>1. Null \notin DOMAIN t /\ Root \in DOMAIN t /\ Root # Null /\ Root \notin Int
  BY RootIsNoAddress, RootAssumption DEF Links
<1>2. ASSUME NEW n \in DOMAIN t \union {Null}
      PROVE  /\ adj[n] = Adjust(n, by) /\ k[Adjust(n, by)] = n
             /\ n \in DOMAIN t => (IF Adjust(n, by) = Root THEN Root ELSE Adjust(n, by) - by) = n
  <2>1. CASE n \in {Null, Root}
    BY <1>1, <2>1 DEF Adjust
  <2>2. CASE n \notin {Null, Root}
    <3>1. n \in Nat /\ n + by \in Nat \ {Null} /\ Adjust(n, by) = n + by
      BY <2>2 DEF Adjust
    <3>2. Adjust(n, by) # Null /\ Adjust(n, by) # Root /\ Adjust(n, by) - by = n
      BY <1>1, <3>1
    <3> QED BY <3>2
  <2> QED BY <2>1, <2>2
<1>3. adj[Null] = Null /\ adj[Root] = Root
  BY <1>1 DEF Adjust
<1>4. \A n \in DOMAIN t : IsNode(t[n]) /\ {t[n].left, t[n].right, t[n].parent} \subseteq DOMAIN t \union {Null}
  <2> SUFFICES ASSUME NEW n \in DOMAIN t
      PROVE IsNode(t[n]) /\ {t[n].left, t[n].right, t[n].parent} \subseteq DOMAIN t \union {Null}
    OBVIOUS
  <2>1. t[n].parent \in DOMAIN t \union {Null}
    <3>1. CASE n = Root
      BY <3>1 DEF Links
    <3>2. CASE n # Root
      BY <3>2 DEF Links
    <3> QED BY <3>1, <3>2
  <2> QED BY <2>1 DEF Links
<1> DEFINE B == {Adjust(b, by) : b \in DOMAIN t}
           back == [a \in B |-> IF a = Root THEN Root ELSE a - by]
<1>5. u = [a \in B |-> Adjusted(t[back[a]], by)]
  BY DEF ShiftedTree
<1>6. \A n \in DOMAIN t : back[Adjust(n, by)] = n
  BY <1>2
<1>7. ASSUME NEW n \in DOMAIN t
      PROVE  u[adj[n]] = [left |-> adj[t[n].left], right |-> adj[t[n].right], parent |-> adj[t[n].parent]]
  <2>1. Adjust(n, by) \in B /\ adj[n] = Adjust(n, by) /\ back[Adjust(n, by)] = n
    BY <1>2, <1>6
  <2> HIDE DEF back, B
  <2>2. u[adj[n]] = Adjusted(t[n], by)
    BY <1>5, <2>1
  <2>3. adj[t[n].left] = Adjust(t[n].left, by) /\ adj[t[n].right] = Adjust(t[n].right, by)
        /\ adj[t[n].parent] = Adjust(t[n].parent, by)
    BY <1>2, <1>4
  <2> QED BY <2>2, <2>3 DEF Adjusted
<1>8. DOMAIN u = {adj[n] : n \in DOMAIN t} /\ u = [x \in DOMAIN u |-> u[x]]
  <2>1. DOMAIN u = B
    BY <1>5
  <2>2. \A n \in DOMAIN t : adj[n] = Adjust(n, by)
    BY <1>2
  <2>3. B = {adj[n] : n \in DOMAIN t}
    BY <2>2
  <2> QED BY <1>5, <2>1, <2>3
<1>9. \A n \in DOMAIN t \union {Null} : k[adj[n]] = n
  BY <1>2
<1> QED BY <1>3, <1>7, <1>8, <1>9 DEF Renames

\* The sizes of the nodes move with them.
ShiftedSizes(t, size, by, y) ==
    \A n \in DOMAIN t : /\ n # Root => n \in Nat /\ n + by \in Nat \ {Null}
                       /\ y[Adjust(n, by)] = size[n]

\* The tree that gc_migrate has adjusted is in order.
LEMMA ShiftedIsTree ==
    ASSUME NEW t, NEW size, IsTree(t, size), NEW by \in Int,
           NEW u, u = ShiftedTree(t, by), NEW y, ShiftedSizes(t, size, by, y)
    PROVE  /\ DOMAIN u = {Adjust(n, by) : n \in DOMAIN t} /\ IsTree(u, y)
<1>a. /\ \A n \in DOMAIN t \ {Root} : n \in Nat /\ n + by \in Nat \ {Null}
      /\ \A n \in DOMAIN t : y[Adjust(n, by)] = size[n]
  BY DEF ShiftedSizes
<1>1. PICK sub, rank : Tree(t, size, sub, rank)
  BY DEF IsTree
<1>2. Links(t) /\ Subtrees(t, sub, rank) /\ Sorted(t, size, sub) /\ \A n \in DOMAIN t : size[n] \in Nat
  BY <1>1 DEF Tree
<1> DEFINE D == DOMAIN t \union {Null}
           adj == [n \in D |-> Adjust(n, by)]
           k == [x \in {Adjust(n, by) : n \in D} |-> IF x \in {Null, Root} THEN x ELSE x - by]
           below == [x \in {Adjust(n, by) : n \in D} |-> {adj[m] : m \in sub[k[x]]}]
           level == [x \in {Adjust(n, by) : n \in D} |-> rank[k[x]]]
<1>3. Renames(t, u, adj, k)
  BY <1>2, <1>a, ShiftedNodes
<1>4. \A n \in D : adj[n] = Adjust(n, by) /\ k[adj[n]] = n
  BY <1>3 DEF Renames
<1>b. \A n \in DOMAIN t : sub[n] \subseteq D
  BY <1>2 DEF Subtrees
<1> HIDE DEF k, adj
<1>5. Carries(below, level, t, sub, rank, adj)
  BY <1>4 DEF Carries
<1>6. Links(u) /\ Subtrees(u, below, level)
  <2> HIDE DEF below, level
  <2> QED BY <1>2, <1>3, <1>5, RenamedTree
<1>7. /\ DOMAIN u = {adj[n] : n \in DOMAIN t}
      /\ \A n \in DOMAIN t : u[adj[n]] = [left |-> adj[t[n].left], right |-> adj[t[n].right],
                                          parent |-> adj[t[n].parent]]
  BY <1>3 DEF Renames
<1> HIDE DEF below, level
<1>8. \A n \in DOMAIN t : y[adj[n]] = size[n]
  BY <1>4, <1>a
<1>9. ASSUME NEW n \in DOMAIN t
      PROVE  /\ y[adj[n]] \in Nat
             /\ \A m \in below[u[adj[n]].left] : y[m] <= y[adj[n]]
             /\ \A m \in below[u[adj[n]].right] : y[adj[n]] < y[m]
  <2>1. t[n].left \in D /\ t[n].right \in D
    BY <1>2 DEF Links
  <2>2. /\ below[u[adj[n]].left] = {adj[m] : m \in sub[t[n].left]}
        /\ below[u[adj[n]].right] = {adj[m] : m \in sub[t[n].right]}
    <3> DEFINE x == adj[n]
               l == adj[t[n].left]
               r == adj[t[n].right]
               p == adj[t[n].parent]
    <3>2. u[x] = [left |-> l, right |-> r, parent |-> p]
      BY <1>7, Zenon
    <3> HIDE DEF x, l, r, p
    <3>3. u[x].left = l /\ u[x].right = r
      BY <3>2
    <3>1. u[adj[n]].left = adj[t[n].left] /\ u[adj[n]].right = adj[t[n].right]
      BY <3>3 DEF x, l, r
    <3> QED BY <1>5, <2>1, <3>1 DEF Carries
  <2>3. sub[t[n].left] \subseteq DOMAIN t /\ sub[t[n].right] \subseteq DOMAIN t
    BY <1>2 DEF Subtrees
  <2>4. /\ \A m \in sub[t[n].left] : size[m] <= size[n]
        /\ \A m \in sub[t[n].right] : size[n] < size[m]
    BY <1>2 DEF Sorted
  <2>5. ASSUME NEW m \in sub[t[n].left] PROVE y[adj[m]] <= y[adj[n]]
    BY <1>8, <2>3, <2>4
  <2>6. ASSUME NEW m \in sub[t[n].right] PROVE y[adj[n]] < y[adj[m]]
    BY <1>8, <2>3, <2>4
  <2>7. y[adj[n]] \in Nat
    BY <1>2, <1>8
  <2> QED BY <2>2, <2>5, <2>6, <2>7
<1>10. Sorted(u, y, below) /\ \A x \in DOMAIN u : y[x] \in Nat
  BY <1>7, <1>9 DEF Sorted
<1>11. IsTree(u, y)
  BY <1>6, <1>10 DEF IsTree, Tree
<1>12. {adj[n] : n \in DOMAIN t} = {Adjust(n, by) : n \in DOMAIN t}
  BY <1>4
<1> QED BY <1>7, <1>11, <1>12

\* g is a sound heap with the objects of h, moved.
Moved(h, to, g) ==
    /\ Sound(g) /\ g.base = to /\ Objs(g) = {b + (to - h.base) : b \in Objs(h)}
    /\ \A b \in Objs(h) : Size(g, b + (to - h.base)) = Size(h, b)

\* The lists are addresses that gc_migrate leaves as they are, so none may have a chunk.
NoLists(h) == \A i \in DOMAIN h.normal : h.normal[i] = Null

\* With all lists empty every free chunk is in the tree.
LEMMA NoSmalls ==
    ASSUME NEW h, Formed(h), NEW F, Linked(h, F), NoLists(h)
    PROVE  Smalls(h, F) = {}
<1>1. /\ Lists(NextOf(h), Smalls(h, F), h.normal, SizeOf(h), ListSizes(h)) /\ F \subseteq DOMAIN h.chunk
  BY DEF Linked
<1>2. PICK below, rank : Row(NextOf(h), Smalls(h, F), below, rank)
                         /\ Heads(Smalls(h, F), h.normal, SizeOf(h), ListSizes(h), below)
  BY <1>1 DEF Lists
<1>3. ASSUME NEW a \in Smalls(h, F) PROVE FALSE
  <2>1. SizeOf(h)[a] \in ListSizes(h) /\ ListSizes(h) \subseteq DOMAIN h.normal
    BY <1>1, SmallSizes
  <2>2. below[h.normal[SizeOf(h)[a]]] = {b \in Smalls(h, F) : SizeOf(h)[b] = SizeOf(h)[a]}
    BY <1>2, <2>1 DEF Heads
  <2>3. h.normal[SizeOf(h)[a]] = Null /\ below[Null] = {}
    BY <1>2, <2>1 DEF Row, NoLists
  <2> QED BY <1>3, <2>2, <2>3
<1> QED BY <1>3

\* Lists that are empty.
LEMMA EmptyLists ==
    ASSUME NEW h, NoLists(h), ListSizes(h) \subseteq DOMAIN h.normal
    PROVE  Lists(NextOf(h), {}, h.normal, SizeOf(h), ListSizes(h))
<1> DEFINE below == [x \in {Null} |-> {}]
<1>1. Row(NextOf(h), {}, below, <<>>)
  BY DEF Row
<1>2. Heads({}, h.normal, SizeOf(h), ListSizes(h), below)
  BY DEF Heads, NoLists
<1> QED BY <1>1, <1>2, RowIntro

\* gc_migrate: a sound heap with empty lists is sound at its new place, with the
\* same objects at the same offsets.
LEMMA MigrateIs ==
    ASSUME NEW h, Sound(h), NoLists(h), NEW to \in Nat \ {Null}, NEW g, g = Migrate(h, to)
    PROVE  Moved(h, to, g)
<1> DEFINE by == to - h.base
           C == DOMAIN h.chunk
           F == Frees(h)
           D == {b + by : b \in C}
           G == {b + by : b \in F}
<1>1. /\ Formed(h) /\ Linked(h, F) /\ Quiet(h, F) /\ Tiled(h) /\ h.corrupted = FALSE
      /\ h.chunk[h.base].pinuse = TRUE /\ h.base \in C /\ h.base \in Nat
      /\ Tiles(C, SizeOf(h), h.base, End(h)) /\ F \subseteq C
  BY ChunkFacts DEF Sound, Marked, Tiled, Frees, Formed, Tiles
<1>2. \A b \in C : /\ b \in Nat /\ InHeap(h, b) /\ b - h.base \in Nat /\ b - h.base < HeapUnits
                   /\ IsChunk(h.chunk[b]) /\ Size(h, b) \in Nat /\ Size(h, b) >= 2 /\ SizeOf(h)[b] = Size(h, b)
                   /\ h.chunk[b].next \in Int
  <2> SUFFICES ASSUME NEW b \in C
      PROVE  /\ b \in Nat /\ InHeap(h, b) /\ b - h.base \in Nat /\ b - h.base < HeapUnits
             /\ IsChunk(h.chunk[b]) /\ Size(h, b) \in Nat /\ Size(h, b) >= 2 /\ SizeOf(h)[b] = Size(h, b)
             /\ h.chunk[b].next \in Int
    OBVIOUS
  <2>1. b \in Nat /\ InHeap(h, b) /\ IsChunk(h.chunk[b]) /\ h.chunk[b].next \in Int
    BY <1>1 DEF Formed
  <2>2. Size(h, b) \in Nat /\ Size(h, b) >= 2 /\ SizeOf(h)[b] = Size(h, b)
    BY <1>1, ChunkFacts
  <2> QED BY <1>1, <2>1, <2>2, HeapUnitsAssumption DEF InHeap
<1>3. /\ by \in Int /\ to = h.base + by
      /\ \A b \in C : b + by \in Nat \ {Null} /\ b + by \in to .. to + HeapUnits - 1 /\ (b + by) - by = b
  BY <1>1, <1>2, HeapUnitsAssumption DEF Null
<1>4. /\ g = [base |-> g.base, chunk |-> g.chunk, normal |-> g.normal, tree |-> g.tree,
              corrupted |-> g.corrupted]
      /\ g.base = to /\ g.chunk = ShiftedChunks(h.chunk, by) /\ g.normal = h.normal
      /\ g.tree = ShiftedTree(h.tree, by) /\ g.corrupted = h.corrupted
  <2>1. \A b \in C : b + Size(h, b) <= h.base + HeapUnits
    BY <1>1, <1>2 DEF Tiles, End
  <2>2. ~WalkFails(h)
    BY <1>1, <1>2, <2>1, HeapUnitsAssumption DEF WalkFails
  <2> HIDE DEF C
  <2> QED BY <1>1, <2>2, MigrateParts
<1> HIDE DEF by
<1>5. /\ DOMAIN g.chunk = D /\ g.chunk = [a \in DOMAIN g.chunk |-> g.chunk[a]]
      /\ \A b \in C : b + by \in D /\ g.chunk[b + by] = h.chunk[b] /\ Size(g, b + by) = Size(h, b)
  <2>1. g.chunk = [a \in D |-> h.chunk[a - by]]
    BY <1>4 DEF ShiftedChunks
  <2>2. \A b \in C : b + by \in D /\ g.chunk[b + by] = h.chunk[b]
    BY <1>3, <2>1
  <2>3. \A b \in C : Size(g, b + by) = Size(h, b)
    BY <2>2 DEF Size
  <2> QED BY <2>1, <2>2, <2>3
<1>6. Formed(g)
  <2>1. NormalCnt(g) = NormalCnt(h) /\ NormalCnt(h) \in Nat \ 0 .. 3
        /\ h.normal = [i \in 0 .. NormalCnt(h) - 1 |-> h.normal[i]]
    BY <1>1, <1>4 DEF NormalCnt, Formed
  <2>2. ASSUME NEW a \in DOMAIN g.chunk
        PROVE  /\ IsChunk(g.chunk[a]) /\ Size(g, a) \in Nat \ {0} /\ g.chunk[a].next \in Int
               /\ a \in Nat \ {Null} /\ InHeap(g, a)
    <3>1. PICK b \in C : a = b + by
      BY <1>5
    <3>2. g.chunk[a] = h.chunk[b] /\ Size(g, a) = Size(h, b) /\ Size(h, b) \in Nat \ {0}
      BY <1>2, <1>5, <3>1
    <3> HIDE DEF C, D
    <3> QED BY <1>2, <1>3, <1>4, <3>1, <3>2 DEF InHeap
  <2> QED BY <1>4, <1>5, <2>1, <2>2 DEF Formed
<1>7. /\ \A b \in C : (b + by \in Frees(g) <=> b \in F) /\ (b + by \in Objs(g) <=> b \in Objs(h))
      /\ Frees(g) = G /\ Objs(g) = {b + by : b \in Objs(h)}
  <2>1. \A b \in C : (b + by \in Frees(g) <=> b \in F) /\ (b + by \in Objs(g) <=> b \in Objs(h))
    BY <1>5 DEF Frees, IsFree, Objs
  <2>2. Frees(g) \subseteq D /\ Objs(g) \subseteq D /\ Objs(h) \subseteq C
    BY <1>5 DEF Frees, Objs
  <2> HIDE DEF C, F
  <2>3. \A x \in D : (x \in Frees(g) <=> x \in G) /\ (x \in Objs(g) <=> x \in {b + by : b \in Objs(h)})
    <3> SUFFICES ASSUME NEW b \in C
        PROVE  /\ b + by \in Frees(g) <=> b + by \in G
               /\ b + by \in Objs(g) <=> b + by \in {d + by : d \in Objs(h)}
      OBVIOUS
    <3>1. \A d \in C : d + by = b + by => d = b
      BY <1>3
    <3>2. F \subseteq C
      BY <1>1
    <3> QED BY <2>1, <2>2, <3>1, <3>2
  <2>4. G \subseteq D /\ {b + by : b \in Objs(h)} \subseteq D
    BY <1>1, <2>2
  <2> QED BY <2>1, <2>2, <2>3, <2>4
<1>8. Smalls(h, F) = {} /\ Smalls(g, G) = {}
  <2>1. Smalls(h, F) = {}
    <3> HIDE DEF F
    <3> QED BY <1>1, NoSmalls
  <2>2. \A s : IsNormal(g, s) <=> IsNormal(h, s)
    BY <1>4 DEF IsNormal, NormalCnt
  <2>3. \A b \in F : Size(g, b + by) = Size(h, b)
    BY <1>1, <1>5
  <2> QED BY <2>1, <2>2, <2>3 DEF Smalls
<1>9. Larges(h, F) = F /\ Larges(g, G) = G
  BY <1>8 DEF Smalls, Larges
<1>10. Linked(g, G)
  <2>1. G \subseteq DOMAIN g.chunk
    BY <1>1, <1>5
  <2>2. NoLists(g)
    BY <1>4 DEF NoLists
  <2>3. ListSizes(g) \subseteq DOMAIN g.normal /\ g.normal[NormalCnt(g) - 1] = Null
    <3>1. ListSizes(g) \subseteq DOMAIN g.normal
      BY <1>6, <2>1, SmallSizes
    <3>2. NormalCnt(g) - 1 \in DOMAIN g.normal
      <4>1. NormalCnt(g) \in Nat \ 0 .. 3 /\ DOMAIN g.normal = 0 .. NormalCnt(g) - 1
        BY <1>6 DEF Formed
      <4> QED BY <4>1
    <3> QED BY <2>2, <3>1, <3>2 DEF NoLists
  <2>4. Lists(NextOf(g), Smalls(g, G), g.normal, SizeOf(g), ListSizes(g))
    BY <1>8, <2>2, <2>3, EmptyLists
  <2>5. DOMAIN h.tree = {Root} \union F /\ IsTree(h.tree, NodeSize(h)) /\ Root \notin F /\ Null \notin F
    <3>1. Root \notin F /\ Null \notin C
      BY <1>1, SmallSizes
    <3> QED BY <1>1, <1>9, <3>1 DEF Linked
  <2>6. \A n \in F : Adjust(n, by) = n + by /\ n + by # Root
    BY <1>1, <1>3, <2>5, RootAssumption DEF Adjust
  <2>7. Adjust(Root, by) = Root
    BY DEF Adjust
  <2>8. {Adjust(n, by) : n \in DOMAIN h.tree} = {Root} \union G
    BY <2>5, <2>6, <2>7
  <2>9. DOMAIN g.tree = {Adjust(n, by) : n \in DOMAIN h.tree} /\ IsTree(g.tree, NodeSize(g))
    <3>1. \A n \in DOMAIN h.tree \ {Root} : n \in Nat /\ n + by \in Nat \ {Null}
      BY <1>1, <1>2, <1>3, <2>5
    <3>2. DOMAIN g.tree = {Adjust(n, by) : n \in DOMAIN h.tree}
      <4> DEFINE y == [x \in {Adjust(n, by) : n \in DOMAIN h.tree} |-> TreeSize(g, x)]
      <4>1. \A n \in DOMAIN h.tree : y[Adjust(n, by)] = NodeSize(h)[n]
        <5>1. \A n \in F : Size(g, n + by) = Size(h, n)
          BY <1>1, <1>5
        <5> QED BY <2>5, <2>6, <2>7, <5>1 DEF TreeSize, NodeSize
      <4> HIDE DEF y
      <4>2. g.tree = ShiftedTree(h.tree, by) /\ by \in Int /\ IsTree(h.tree, NodeSize(h))
        BY <1>3, <1>4, <2>5
      <4>3. ShiftedSizes(h.tree, NodeSize(h), by, y)
        BY <3>1, <4>1 DEF ShiftedSizes
      <4> QED BY <4>2, <4>3, ShiftedIsTree
    <3>3. \A n \in DOMAIN h.tree : NodeSize(g)[Adjust(n, by)] = NodeSize(h)[n]
      <4>1. \A n \in F : Size(g, n + by) = Size(h, n)
        BY <1>1, <1>5
      <4> QED BY <2>5, <2>6, <2>7, <3>2, <4>1 DEF TreeSize, NodeSize
    <3>4. g.tree = ShiftedTree(h.tree, by) /\ by \in Int /\ IsTree(h.tree, NodeSize(h))
      BY <1>3, <1>4, <2>5
    <3>5. IsTree(g.tree, NodeSize(g))
      <4>1. ShiftedSizes(h.tree, NodeSize(h), by, NodeSize(g))
        BY <3>1, <3>3 DEF ShiftedSizes
      <4> QED BY <3>4, <4>1, ShiftedIsTree
    <3> QED BY <3>2, <3>5
  <2> QED BY <1>9, <2>1, <2>3, <2>4, <2>8, <2>9 DEF Linked
<1>11. /\ \A b \in C : After(g, b + by) = After(h, b) + by /\ After(h, b) \in C \union {End(h)}
                       /\ (After(g, b + by) \in D <=> After(h, b) \in C)
       /\ End(g) = End(h) + by
  <2>1. End(g) = End(h) + by /\ End(h) \in Int
    BY <1>1, <1>3, <1>4, HeapUnitsAssumption DEF End
  <2> SUFFICES ASSUME NEW b \in C
      PROVE  /\ After(g, b + by) = After(h, b) + by /\ After(h, b) \in C \union {End(h)}
             /\ After(g, b + by) \in D <=> After(h, b) \in C
    BY <2>1
  <2>2. After(h, b) \in C \union {End(h)} /\ After(h, b) \in Nat /\ After(h, b) = b + Size(h, b)
    BY <1>1, ChunkFacts DEF After
  <2>3. After(g, b + by) = After(h, b) + by
    BY <1>2, <1>3, <1>5, <2>2 DEF After
  <2>4. \A d \in C : d + by = After(h, b) + by => d = After(h, b)
    BY <1>2, <1>3, <2>2
  <2> QED BY <2>2, <2>3, <2>4
<1>12. Tiled(g)
  <2>1. \A b \in C : SizeOf(g)[b + by] = SizeOf(h)[b]
    BY <1>2, <1>5 DEF SizeOf
  <2>2. Tiles(D, SizeOf(g), h.base + by, End(h) + by)
    <3> HIDE DEF C
    <3> QED BY <1>1, <1>3, <2>1, TileShift
  <2>3. \A x \in D : Size(g, x) >= 2
    BY <1>2, <1>5
  <2> QED BY <1>3, <1>4, <1>5, <1>11, <2>2, <2>3 DEF Tiled, Smallest
<1>13. \A a \in DOMAIN g.chunk \ Smalls(g, G) : g.chunk[a].next = 0
  <2>1. \A b \in C : h.chunk[b].next = 0
    BY <1>1, <1>8 DEF Quiet
  <2> QED BY <1>5, <2>1
<1>14. ASSUME NEW a \in DOMAIN g.chunk
       PROVE  /\ g.chunk[a].ut \in {"FC", "VO"} /\ g.chunk[a].pinuse \in BOOLEAN
              /\ a \in Objs(g) => g.chunk[a].word \in Words \union {0}
              /\ a \in Frees(g) /\ After(g, a) \in DOMAIN g.chunk
                 => After(g, a) \in Objs(g) /\ g.chunk[After(g, a)].pinuse = FALSE
              /\ a \in Objs(g) /\ After(g, a) \in DOMAIN g.chunk
                 => g.chunk[After(g, a)].pinuse = TRUE \/ HarmlessWords
  <2>1. PICK b \in C : a = b + by
    BY <1>5
  <2> DEFINE q == After(h, b)
  <2>2. /\ h.chunk[b].ut \in {"FC", "VO"} /\ h.chunk[b].pinuse \in BOOLEAN
        /\ b \in Objs(h) => h.chunk[b].word \in Words \union {0}
        /\ b \in Frees(h) /\ q \in C => q \in Objs(h) /\ h.chunk[q].pinuse = FALSE
        /\ b \in Objs(h) /\ q \in C => h.chunk[q].pinuse = TRUE \/ HarmlessWords
    BY SoundFacts
  <2>3. After(g, a) = q + by /\ (After(g, a) \in DOMAIN g.chunk <=> q \in C)
    BY <1>5, <1>11, <2>1
  <2> HIDE DEF q
  <2>4. q \in C => g.chunk[q + by] = h.chunk[q] /\ (q + by \in Objs(g) <=> q \in Objs(h))
    BY <1>5, <1>7
  <2>5. g.chunk[a] = h.chunk[b] /\ (a \in Objs(g) <=> b \in Objs(h)) /\ (a \in Frees(g) <=> b \in Frees(h))
    BY <1>5, <1>7, <2>1
  <2> HIDE DEF C
  <2> QED BY <2>2, <2>3, <2>4, <2>5
<1>15. g.chunk[g.base].pinuse = TRUE /\ g.corrupted = FALSE
  <2>1. g.base = h.base + by
    BY <1>3, <1>4
  <2> QED BY <1>1, <1>4, <1>5, <2>1
<1>16. Sound(g)
  <2> HIDE DEF G
  <2> QED BY ONLY <1>6, <1>7, <1>10, <1>12, <1>13, <1>14, <1>15, SoundIntro
<1>17. \A b \in Objs(h) : Size(g, b + by) = Size(h, b)
  BY <1>5 DEF Objs
<1> QED BY <1>4, <1>7, <1>16, <1>17 DEF Moved, by

-----------------------------------------------------------------------------
(* The heap at the start.                                                    *)
FirstChunk == [ut |-> "FC", size |-> HeapUnits, pinuse |-> TRUE, next |-> 0, word |-> 0]
FirstTree(b) == [a \in {Root, b} |-> IF a = b THEN Node(Root) ELSE [Node(Null) EXCEPT !.right = b]]

FirstHeap(b, n) ==
    [base |-> b, chunk |-> [a \in {b} |-> FirstChunk], normal |-> [i \in 0 .. n - 1 |-> Null],
     tree |-> FirstTree(b), corrupted |-> FALSE]

\* One node below the root.
LEMMA FirstIsTree ==
    ASSUME NEW b \in Nat \ {Null}, NEW size, size[Root] = 0, size[b] \in Nat \ {0}
    PROVE  DOMAIN FirstTree(b) = {Root, b} /\ IsTree(FirstTree(b), size)
<1> DEFINE t == FirstTree(b)
           sub == [x \in {Null, Root, b} |-> IF x = Null THEN {} ELSE IF x = b THEN {b} ELSE {Root, b}]
           rank == [x \in {Root, b} |-> IF x = b THEN 0 ELSE 1]
<1>1. Root # Null /\ Root # b /\ b # Null
  BY RootIsNoAddress, RootAssumption
<1>2. /\ DOMAIN t = {Root, b} /\ t = [x \in DOMAIN t |-> t[x]]
      /\ t[Root] = [left |-> Null, right |-> b, parent |-> Null]
      /\ t[b] = [left |-> Null, right |-> Null, parent |-> Root]
  <2>1. t = [x \in {Root, b} |-> IF x = b THEN Node(Root) ELSE [Node(Null) EXCEPT !.right = b]]
    BY DEF FirstTree
  <2> HIDE DEF t
  <2> QED BY <1>1, <2>1 DEF Node
<1> HIDE DEF t
<1>3. sub[Null] = {} /\ sub[Root] = {Root, b} /\ sub[b] = {b} /\ rank[Root] = 1 /\ rank[b] = 0
  BY <1>1
<1> HIDE DEF sub, rank
<1>4. Links(t)
  BY <1>1, <1>2 DEF Links, IsNode
<1>5. Subtrees(t, sub, rank)
  <2> SUFFICES ASSUME NEW n \in {Root, b}
      PROVE  /\ sub[n] = {n} \union sub[t[n].left] \union sub[t[n].right]
             /\ sub[n] \subseteq {Root, b}
             /\ sub[t[n].left] \intersect sub[t[n].right] = {}
             /\ rank[n] \in Nat
             /\ \A m \in sub[t[n].left] \union sub[t[n].right] : rank[m] < rank[n]
    BY <1>2, <1>3 DEF Subtrees
  <2>1. CASE n = Root
    BY <1>1, <1>2, <1>3, <2>1
  <2>2. CASE n = b
    BY <1>1, <1>2, <1>3, <2>2
  <2> QED BY <2>1, <2>2
<1>6. Sorted(t, size, sub) /\ \A n \in DOMAIN t : size[n] \in Nat
  <2> SUFFICES ASSUME NEW n \in {Root, b}
      PROVE  /\ \A m \in sub[t[n].left] : size[m] <= size[n]
             /\ \A m \in sub[t[n].right] : size[n] < size[m]
             /\ size[n] \in Nat
    BY <1>2 DEF Sorted
  <2>1. CASE n = Root
    BY <1>1, <1>2, <1>3, <2>1
  <2>2. CASE n = b
    BY <1>1, <1>2, <1>3, <2>2
  <2> QED BY <2>1, <2>2
<1>7. IsTree(t, size)
  BY <1>4, <1>5, <1>6 DEF IsTree, Tree
<1> QED BY <1>2, <1>7 DEF t

\* gc_init_internal: the first heap, one free chunk in the tree, is sound.
LEMMA FirstHeapIs ==
    ASSUME NEW b \in Bases, NEW n \in NormalCnts, NEW h, h = FirstHeap(b, n)
    PROVE  Sound(h) /\ h.base = b /\ Objs(h) = {}
<1>1. /\ b \in Nat \ {Null} /\ n \in Nat \ 0 .. 3 /\ HeapUnits \in Nat /\ HeapUnits >= 3 /\ n - 1 <= HeapUnits
  BY BasesAssumption, NormalCntsAssumption, HeapUnitsAssumption
<1>2. /\ h = [base |-> h.base, chunk |-> h.chunk, normal |-> h.normal, tree |-> h.tree,
              corrupted |-> h.corrupted]
      /\ h.base = b /\ h.corrupted = FALSE /\ h.tree = FirstTree(b)
      /\ h.normal = [i \in 0 .. n - 1 |-> Null]
      /\ h.chunk = [a \in {b} |-> FirstChunk]
  BY DEF FirstHeap
<1>3. /\ h.chunk = [a \in {b} |-> FirstChunk] /\ DOMAIN h.chunk = {b} /\ h.chunk[b] = FirstChunk
      /\ h.chunk = [a \in DOMAIN h.chunk |-> h.chunk[a]]
  BY <1>2
<1>4. /\ IsChunk(h.chunk[b]) /\ Size(h, b) = HeapUnits /\ h.chunk[b].ut = "FC" /\ h.chunk[b].pinuse = TRUE
      /\ h.chunk[b].next = 0
  BY <1>3 DEF FirstChunk, IsChunk, Size
<1>5. NormalCnt(h) = n /\ DOMAIN h.normal = 0 .. n - 1
  <2>1. Cardinality(0 .. n - 1) = n
    <3>1. 0 \in Int /\ n - 1 \in Int /\ 0 <= n - 1
      BY <1>1
    <3>2. Cardinality(0 .. n - 1) = (n - 1) - 0 + 1
      BY <3>1, FS_Interval
    <3> QED BY <1>1, <3>2
  <2> QED BY <1>2, <2>1 DEF NormalCnt
<1>6. Formed(h)
  <2>1. h.normal = [i \in 0 .. NormalCnt(h) - 1 |-> h.normal[i]]
    BY <1>2, <1>5
  <2>2. InHeap(h, b)
    BY <1>1, <1>2 DEF InHeap
  <2> QED BY <1>1, <1>2, <1>3, <1>4, <1>5, <2>1, <2>2 DEF Formed
<1>7. Frees(h) = {b} /\ Objs(h) = {} /\ Smalls(h, {b}) = {} /\ Larges(h, {b}) = {b}
  <2>1. ~IsNormal(h, Size(h, b))
    BY <1>1, <1>4, <1>5 DEF IsNormal
  <2> QED BY <1>3, <1>4, <2>1 DEF Frees, IsFree, Objs, Smalls, Larges
<1>8. NoLists(h) /\ h.normal[NormalCnt(h) - 1] = Null
  <2>1. NormalCnt(h) - 1 \in 0 .. n - 1
    BY <1>1, <1>5
  <2> QED BY <1>2, <2>1 DEF NoLists
<1>9. Lists(NextOf(h), {}, h.normal, SizeOf(h), ListSizes(h))
  <2>1. ListSizes(h) \subseteq DOMAIN h.normal
    BY <1>1, <1>5 DEF ListSizes
  <2> QED BY <1>8, <2>1, EmptyLists
<1>10. DOMAIN h.tree = {Root, b} /\ IsTree(h.tree, NodeSize(h))
  <2>1. \A z : z[Root] = 0 /\ z[b] \in Nat \ {0} => DOMAIN h.tree = {Root, b} /\ IsTree(h.tree, z)
    BY <1>1, <1>2, FirstIsTree
  <2>2. DOMAIN h.tree = {Root, b}
    <3> DEFINE z == [x \in {Root, b} |-> IF x = Root THEN 0 ELSE 1]
    <3>1. z[Root] = 0 /\ z[b] \in Nat \ {0}
      BY <1>1, RootAssumption
    <3> HIDE DEF z
    <3> QED BY <2>1, <3>1
  <2>3. NodeSize(h)[Root] = 0 /\ NodeSize(h)[b] = HeapUnits
    BY <1>1, <1>4, <2>2, RootAssumption DEF NodeSize, TreeSize
  <2>4. HeapUnits \in Nat \ {0}
    BY <1>1
  <2> QED BY <2>1, <2>2, <2>3, <2>4
<1>11. Linked(h, {b})
  BY <1>3, <1>7, <1>8, <1>9, <1>10 DEF Linked
<1>12. Tiled(h)
  <2>1. SizeOf(h)[b] = HeapUnits /\ b + HeapUnits = End(h)
    BY <1>2, <1>3, <1>4 DEF SizeOf, End
  <2>2. Tiles({b}, SizeOf(h), b, End(h))
    BY <1>1, <2>1 DEF Tiles
  <2> QED BY <1>1, <1>2, <1>3, <1>4, <2>2 DEF Tiled, Smallest
<1>13. \A a \in DOMAIN h.chunk : After(h, a) \notin DOMAIN h.chunk
  BY <1>1, <1>3, <1>4 DEF After
<1>14. Sound(h)
  <2>1. \A a \in DOMAIN h.chunk \ Smalls(h, {b}) : h.chunk[a].next = 0
    BY <1>3, <1>4
  <2>2. \A a \in DOMAIN h.chunk :
             /\ h.chunk[a].ut \in {"FC", "VO"} /\ h.chunk[a].pinuse \in BOOLEAN
             /\ a \in Objs(h) => h.chunk[a].word \in Words \union {0}
             /\ a \in Frees(h) /\ After(h, a) \in DOMAIN h.chunk
                => After(h, a) \in Objs(h) /\ h.chunk[After(h, a)].pinuse = FALSE
             /\ a \in Objs(h) /\ After(h, a) \in DOMAIN h.chunk
                => h.chunk[After(h, a)].pinuse = TRUE \/ HarmlessWords
    BY <1>3, <1>4, <1>7, <1>13
  <2>3. h.chunk[h.base].pinuse = TRUE /\ h.corrupted = FALSE
    BY <1>2, <1>4
  <2> QED BY ONLY <1>6, <1>7, <1>11, <1>12, <2>1, <2>2, <2>3, SoundIntro
<1> QED BY <1>2, <1>7, <1>14

-----------------------------------------------------------------------------
(* The application's objects, at offsets from the base of the heap.           *)
Held(h, objects, old) ==
    /\ old \subseteq DOMAIN objects
    /\ \A o \in DOMAIN objects :
        /\ o \in Nat /\ h.base + o \in Objs(h)
        /\ objects[o] \in Requests /\ HeaderSize + objects[o] <= 8 * Size(h, h.base + o)

\* Remove takes one place out of a function and keeps the others.
LEMMA RemoveIs ==
    ASSUME NEW f, NEW a
    PROVE  /\ DOMAIN Remove(f, a) = DOMAIN f \ {a}
           /\ \A x \in DOMAIN f \ {a} : Remove(f, a)[x] = f[x]
BY DEF Remove, Restrict

\* A request that does not wrap fits a chunk of its units.
LEMMA FitsUnits ==
    ASSUME NEW bytes \in Requests, ~Overflows(bytes), NEW size \in Nat, Units(bytes) <= size
    PROVE  HeaderSize + bytes <= 8 * size
<1>1. bytes \in Nat /\ Units(bytes) \in Nat /\ HeaderSize + bytes <= 8 * Units(bytes)
  BY UnitsHold
<1> QED BY <1>1 DEF HeaderSize

\* An object of a sound heap is a chunk at or above its base.
LEMMA ObjsAre ==
    ASSUME NEW h, Sound(h), NEW a \in Objs(h)
    PROVE  a \in DOMAIN h.chunk /\ a \in Nat /\ h.base \in Nat /\ h.base <= a /\ Size(h, a) \in Nat
BY ChunkFacts DEF Sound, Objs

\* What gc_alloc_vo hands out is new to the application and large enough, and the
\* application's other objects are untouched.
LEMMA HeldTook ==
    ASSUME NEW h, Sound(h), NEW objects, NEW old, Held(h, objects, old), NEW bytes \in Requests,
           ~Overflows(bytes), NEW p \in Nat, NEW g, Took(h, p, Units(bytes), g)
    PROVE  /\ Held(g, Put(objects, p - h.base, bytes), old)
           /\ p - h.base \notin DOMAIN objects /\ p - h.base \in Nat
<1> DEFINE o == p - h.base
           f == Put(objects, o, bytes)
<1>1. /\ Sound(g) /\ g.base = h.base /\ p \notin Objs(h) /\ Objs(g) = Objs(h) \union {p}
      /\ Size(g, p) >= Units(bytes) /\ \A b \in Objs(h) : Size(g, b) = Size(h, b)
  BY DEF Took
<1>2. p \in Nat /\ h.base \in Nat /\ h.base <= p /\ Size(g, p) \in Nat
  BY <1>1, ObjsAre
<1>3. o \in Nat /\ h.base + o = p
  BY <1>2
<1>4. o \notin DOMAIN objects
  BY <1>1, <1>3 DEF Held
<1>5. HeaderSize + bytes <= 8 * Size(g, p)
  <2>1. Units(bytes) <= Size(g, p)
    <3>1. Units(bytes) \in Nat
      BY UnitsHold
    <3> QED BY <1>1, <1>2, <3>1
  <2> QED BY <1>2, <2>1, FitsUnits
<1> HIDE DEF o
<1>6. /\ DOMAIN f = DOMAIN objects \union {o} /\ f[o] = bytes
      /\ \A x \in DOMAIN objects : f[x] = objects[x]
  <2>1. DOMAIN f = DOMAIN objects \union {o} /\ f[o] = bytes
        /\ \A x \in DOMAIN objects \ {o} : f[x] = objects[x]
    BY DEF Put
  <2>2. DOMAIN objects \ {o} = DOMAIN objects
    BY <1>4
  <2> HIDE DEF f
  <2> QED BY <2>1, <2>2
<1> HIDE DEF f
<1>7. ASSUME NEW x \in DOMAIN f
      PROVE  /\ x \in Nat /\ g.base + x \in Objs(g)
             /\ f[x] \in Requests /\ HeaderSize + f[x] <= 8 * Size(g, g.base + x)
  <2>1. CASE x = o
    BY <1>1, <1>3, <1>5, <1>6, <2>1
  <2>2. CASE x # o
    <3>1. x \in DOMAIN objects /\ f[x] = objects[x]
      BY <1>6, <2>2
    <3>2. /\ x \in Nat /\ h.base + x \in Objs(h)
          /\ objects[x] \in Requests /\ HeaderSize + objects[x] <= 8 * Size(h, h.base + x)
      BY <3>1 DEF Held
    <3> QED BY <1>1, <3>1, <3>2
  <2> QED BY <2>1, <2>2
<1>8. old \subseteq DOMAIN f
  BY <1>6 DEF Held
<1>9. Held(g, f, old)
  BY <1>7, <1>8 DEF Held
<1> QED BY <1>3, <1>4, <1>9 DEF o, f

\* A free takes one object from the application and none other.
LEMMA HeldFreed ==
    ASSUME NEW h, Sound(h), NEW objects, NEW old, Held(h, objects, old), NEW o \in DOMAIN objects,
           NEW g, Freed(h, h.base + o, g)
    PROVE  Held(g, Remove(objects, o), old \ {o})
<1> DEFINE f == Remove(objects, o)
<1>1. /\ g.base = h.base /\ Objs(g) = Objs(h) \ {h.base + o}
      /\ \A b \in Objs(g) : Size(g, b) = Size(h, b)
  BY DEF Freed
<1>2. DOMAIN f = DOMAIN objects \ {o} /\ \A x \in DOMAIN objects \ {o} : f[x] = objects[x]
  BY RemoveIs
<1> HIDE DEF f
<1>3. o \in Nat /\ h.base \in Nat
  BY DEF Held, Sound, Formed
<1>4. ASSUME NEW x \in DOMAIN f
      PROVE  /\ x \in Nat /\ g.base + x \in Objs(g)
             /\ f[x] \in Requests /\ HeaderSize + f[x] <= 8 * Size(g, g.base + x)
  <2>1. x \in DOMAIN objects /\ f[x] = objects[x] /\ x # o
    BY <1>2
  <2>2. /\ x \in Nat /\ h.base + x \in Objs(h)
        /\ objects[x] \in Requests /\ HeaderSize + objects[x] <= 8 * Size(h, h.base + x)
    BY <2>1 DEF Held
  <2>3. h.base + x # h.base + o
    BY <1>3, <2>1, <2>2
  <2> QED BY <1>1, <2>1, <2>2, <2>3
<1>5. old \ {o} \subseteq DOMAIN f
  BY <1>2 DEF Held
<1> QED BY <1>4, <1>5 DEF Held, f

\* An object that keeps or extends its chunk has the bytes asked for, and the
\* other objects are untouched.
LEMMA HeldResized ==
    ASSUME NEW h, Sound(h), NEW objects, NEW old, Held(h, objects, old), NEW o \in DOMAIN objects,
           NEW bytes \in Requests, ~Overflows(bytes), NEW size \in Nat, Units(bytes) <= size,
           NEW g, Resized(h, h.base + o, size, g)
    PROVE  Held(g, [objects EXCEPT ![o] = bytes], old)
<1> DEFINE f == [objects EXCEPT ![o] = bytes]
<1>1. /\ g.base = h.base /\ Objs(g) = Objs(h) /\ Size(g, h.base + o) = size
      /\ \A b \in Objs(h) \ {h.base + o} : Size(g, b) = Size(h, b)
  BY DEF Resized
<1>2. DOMAIN f = DOMAIN objects /\ f[o] = bytes /\ \A x \in DOMAIN objects \ {o} : f[x] = objects[x]
  OBVIOUS
<1> HIDE DEF f
<1>3. o \in Nat /\ h.base \in Nat /\ HeaderSize + bytes <= 8 * size /\ h.base + o \in Objs(h)
  BY FitsUnits DEF Held, Sound, Formed
<1>4. ASSUME NEW x \in DOMAIN f
      PROVE  /\ x \in Nat /\ g.base + x \in Objs(g)
             /\ f[x] \in Requests /\ HeaderSize + f[x] <= 8 * Size(g, g.base + x)
  <2>1. CASE x = o
    BY <1>1, <1>2, <1>3, <2>1
  <2>2. CASE x # o
    <3>1. x \in DOMAIN objects /\ f[x] = objects[x]
      BY <1>2, <2>2
    <3>2. /\ x \in Nat /\ h.base + x \in Objs(h)
          /\ objects[x] \in Requests /\ HeaderSize + objects[x] <= 8 * Size(h, h.base + x)
      BY <3>1 DEF Held
    <3>3. h.base + x # h.base + o
      BY <1>3, <2>2, <3>2
    <3> QED BY <1>1, <3>1, <3>2, <3>3
  <2> QED BY <2>1, <2>2
<1>5. old \subseteq DOMAIN f
  BY <1>2 DEF Held
<1> QED BY <1>4, <1>5 DEF Held, f

\* The application's offsets are good after the heap has moved.
LEMMA HeldMoved ==
    ASSUME NEW h, Sound(h), NEW objects, NEW old, Held(h, objects, old), NEW to \in Nat,
           NEW g, Moved(h, to, g)
    PROVE  Held(g, objects, old)
<1> DEFINE by == to - h.base
<1>1. /\ g.base = to /\ Objs(g) = {b + by : b \in Objs(h)}
      /\ \A b \in Objs(h) : Size(g, b + by) = Size(h, b)
  BY DEF Moved
<1>2. h.base \in Nat /\ old \subseteq DOMAIN objects
  BY DEF Held, Sound, Formed
<1>3. ASSUME NEW x \in DOMAIN objects
      PROVE  /\ x \in Nat /\ g.base + x \in Objs(g)
             /\ objects[x] \in Requests /\ HeaderSize + objects[x] <= 8 * Size(g, g.base + x)
  <2> DEFINE a == h.base + x
  <2>1. /\ x \in Nat /\ a \in Objs(h)
        /\ objects[x] \in Requests /\ HeaderSize + objects[x] <= 8 * Size(h, a)
    BY DEF Held
  <2>2. g.base + x = a + by
    BY <1>1, <1>2, <2>1
  <2> HIDE DEF a, by
  <2> QED BY <1>1, <2>1, <2>2
<1> QED BY <1>2, <1>3 DEF Held

\* What is left of the chunk an object takes in is a chunk, or there is nothing
\* left and no word an object may end with leads from it to a chunk.
Spares(h, a, size) ==
    LET rest == Size(h, a) + Size(h, After(h, a)) - size
    IN  rest # 1 /\ (rest = 0 => HarmlessWords)

\* gc_realloc_vo in place keeps a sound heap sound when it leaves a chunk, or
\* nothing and no word that could mislead a free.
LEMMA ExtendKeeps ==
    ASSUME NEW h, Sound(h), NEW a \in Objs(h), NEW size \in Nat, Size(h, a) < size,
           GrowsInPlace(h, a, size), Spares(h, a, size), NEW w \in Words \union {0}
    PROVE  Resized(h, a, size, Use(ExtendVo(h, a, size), a, w)) /\ ExtendVo(h, a, size).corrupted = FALSE
<1> DEFINE m == After(h, After(h, a))
           n == a + size
           N == IF n = m THEN {} ELSE {n}
           next == After(h, a)
           g == Use(ExtendVo(h, a, size), a, w)
<1>1. Extended(h, a, size, N, g, w) /\ ExtendVo(h, a, size).corrupted = FALSE
  BY ExtendIs
<1>2. /\ next = a + Size(h, a) /\ m = next + Size(h, next) /\ n <= m /\ n \in Nat /\ m \in Nat
      /\ a \in Nat /\ Size(h, a) \in Nat /\ Size(h, next) \in Nat
  BY ExtendPlaces
<1>3. Size(h, a) + Size(h, next) - size = m - n
  BY <1>2
<1>4. (n = m => HarmlessWords) /\ (n # m => m - n >= 2)
  <2>1. m - n # 1 /\ (m - n = 0 => HarmlessWords)
    BY <1>3 DEF Spares
  <2> HIDE DEF n, m
  <2> QED BY <1>2, <2>1
<1> HIDE DEF g, n, m
<1>5. Resized(h, a, size, g)
  BY <1>1, <1>4, ExtendSound DEF n, m
<1> QED BY <1>1, <1>5 DEF g

-----------------------------------------------------------------------------
\* The steps in which gc_realloc_vo and gc_migrate leave a heap they can use: an
\* object that grows in place leaves nothing or a chunk that can be freed, and the
\* memory grows while the lists are empty.  Each condition is needed: without it
\* the code breaks the properties below.
Tame ==
    /\ \A o \in DOMAIN app \ leaving, bytes \in Requests :
          ReallocGrows(o, bytes) => Spares(heap, At(o), Units(bytes))
    /\ \A to \in Bases : Grow(to) => NoLists(heap)

\* The inductive invariant.
HeapInv == Sound(heap) /\ heap.base \in Bases /\ Held(heap, app, leaving)

\* The first heap satisfies the invariant.
LEMMA InitInv == Init => HeapInv
<1> SUFFICES ASSUME Init PROVE HeapInv
  OBVIOUS
<1>1. PICK b \in Bases, n \in NormalCnts : heap = FirstHeap(b, n)
  BY DEF Init, FirstHeap, FirstChunk, FirstTree
<1>2. Sound(heap) /\ heap.base = b
  BY <1>1, FirstHeapIs
<1>3. Held(heap, app, leaving)
  <2>1. DOMAIN app = {} /\ leaving = {}
    BY DEF Init
  <2> QED BY <2>1 DEF Held
<1> QED BY <1>2, <1>3 DEF HeapInv

\* gc_alloc_vo leaves heap and application as they are, or gives the application
\* a new object in a heap that is sound.
LEMMA MallocStep ==
    ASSUME HeapInv, NEW bytes \in Requests, NEW r \in Malloc(heap, bytes), heap' = r.heap
    PROVE  \/ r.hmu = Null /\ heap' = heap
           \/ /\ r.hmu # Null /\ Sound(heap') /\ heap'.base = heap.base
              /\ Held(heap', Put(app, r.hmu - heap.base, bytes), leaving)
              /\ r.hmu - heap.base \in Nat /\ r.hmu - heap.base \notin DOMAIN app
<1>1. Sound(heap) /\ Held(heap, app, leaving)
  BY DEF HeapInv
<1>2. CASE r.hmu = Null /\ r.heap = heap
  BY <1>2
<1>3. CASE ~Overflows(bytes) /\ r.hmu \in Nat \ {Null} /\ Took(heap, r.hmu, Units(bytes), r.heap)
  <2>1. /\ Held(r.heap, Put(app, r.hmu - heap.base, bytes), leaving)
        /\ r.hmu - heap.base \notin DOMAIN app /\ r.hmu - heap.base \in Nat
    BY <1>1, <1>3, HeldTook
  <2>2. Sound(r.heap) /\ r.heap.base = heap.base
    BY <1>3 DEF Took
  <2> QED BY <1>3, <2>1, <2>2
<1> QED BY <1>1, <1>2, <1>3, MallocIs

\* An object ends with a word of the application's or a cleared one.
LEMMA LastWordsAre ==
    ASSUME NEW bytes, NEW size, NEW w \in LastWords(bytes, size)
    PROVE  w \in Words \union {0}
BY DEF LastWords

\* Every tame step keeps the invariant, a step for each operation.
LEMMA NextInv == HeapInv /\ Next /\ Tame => HeapInv'
<1> SUFFICES ASSUME HeapInv, Next, Tame PROVE HeapInv'
  OBVIOUS
<1>1. Sound(heap) /\ heap.base \in Bases /\ Held(heap, app, leaving)
  BY DEF HeapInv
<1>2. \A o \in DOMAIN app : At(o) \in Objs(heap) /\ At(o) = heap.base + o /\ Size(heap, At(o)) \in Nat
  <2> SUFFICES ASSUME NEW o \in DOMAIN app
      PROVE At(o) \in Objs(heap) /\ At(o) = heap.base + o /\ Size(heap, At(o)) \in Nat
    OBVIOUS
  <2>1. At(o) \in Objs(heap) /\ At(o) = heap.base + o
    BY <1>1 DEF Held, At
  <2> QED BY <1>1, <2>1, ObjsAre
<1>3. ASSUME NEW bytes \in Requests, MallocObject(bytes) PROVE HeapInv'
  <2>1. PICK r \in Malloc(heap, bytes) :
            /\ heap' = r.heap /\ leaving' = leaving
            /\ app' = IF r.hmu = Null THEN app ELSE Put(app, r.hmu - heap.base, bytes)
    BY <1>3 DEF MallocObject
  <2>2. \/ r.hmu = Null /\ heap' = heap
        \/ /\ r.hmu # Null /\ Sound(heap') /\ heap'.base = heap.base
           /\ Held(heap', Put(app, r.hmu - heap.base, bytes), leaving)
    BY <2>1, MallocStep
  <2> QED BY <1>1, <2>1, <2>2 DEF HeapInv
<1>4. ASSUME NEW o \in DOMAIN app, FreeObject(o) PROVE HeapInv'
  <2>1. heap' = FreeVo(heap, At(o)) /\ app' = Remove(app, o) /\ leaving' = leaving \ {o}
    BY <1>4 DEF FreeObject
  <2>2. Freed(heap, heap.base + o, heap')
    BY <1>1, <1>2, <2>1, FreeVoIs
  <2>3. Held(heap', Remove(app, o), leaving \ {o})
    BY <1>1, <2>2, HeldFreed
  <2>4. Sound(heap') /\ heap'.base = heap.base
    BY <2>2 DEF Freed
  <2> QED BY <1>1, <2>1, <2>3, <2>4 DEF HeapInv
<1>5. ASSUME NEW o \in DOMAIN app \ leaving, NEW bytes \in Requests, ReallocKeeps(o, bytes) PROVE HeapInv'
  <2>1. /\ ~Overflows(bytes) /\ Units(bytes) <= Size(heap, At(o))
        /\ app' = [app EXCEPT ![o] = bytes] /\ leaving' = leaving
    BY <1>5 DEF ReallocKeeps
  <2>2. PICK w \in {heap.chunk[At(o)].word} \union Words : heap' = Use(heap, At(o), w)
    BY <1>5 DEF ReallocKeeps
  <2>3. Resized(heap, heap.base + o, Size(heap, At(o)), heap')
    <3>1. w \in Words \union {0}
      <4>1. At(o) \in DOMAIN heap.chunk /\ heap.chunk[At(o)].ut = "VO"
        BY <1>2 DEF Objs
      <4>2. heap.chunk[At(o)].word \in Words \union {0}
        BY <1>1, <4>1, SoundFacts
      <4> QED BY <2>2, <4>2
    <3> QED BY <1>1, <1>2, <2>2, <3>1, UsedAgain
  <2>4. Held(heap', [app EXCEPT ![o] = bytes], leaving)
    BY <1>1, <1>2, <2>1, <2>3, HeldResized
  <2>5. Sound(heap') /\ heap'.base = heap.base
    BY <2>3 DEF Resized
  <2> QED BY <1>1, <2>1, <2>4, <2>5 DEF HeapInv
<1>6. ASSUME NEW o \in DOMAIN app \ leaving, NEW bytes \in Requests, ReallocGrows(o, bytes) PROVE HeapInv'
  <2> DEFINE a == At(o)
             size == Units(bytes)
             h == ExtendVo(heap, a, size)
  <2>1. /\ ~Overflows(bytes) /\ size > Size(heap, a) /\ GrowsInPlace(heap, a, size) /\ leaving' = leaving
        /\ IF h.corrupted THEN heap' = h /\ UNCHANGED app
           ELSE /\ \E w \in LastWords(bytes, size) : heap' = Use(h, a, w)
                /\ app' = [app EXCEPT ![o] = bytes]
    BY <1>6 DEF ReallocGrows
  <2>2. Spares(heap, a, size) /\ size \in Nat /\ a \in Objs(heap) /\ a = heap.base + o
        /\ Size(heap, a) \in Nat
    BY <1>2, <1>6, UnitsHold DEF Tame
  <2> HIDE DEF a, size, h
  <2>3. ASSUME NEW w \in LastWords(bytes, size)
        PROVE  Resized(heap, a, size, Use(h, a, w)) /\ h.corrupted = FALSE
    <3>1. w \in Words \union {0} /\ Size(heap, a) < size
      BY <2>1, <2>2, LastWordsAre
    <3> QED BY <1>1, <2>1, <2>2, <3>1, ExtendKeeps DEF h
  <2>4. h.corrupted = FALSE
    <3>1. LastWords(bytes, size) # {}
      BY WordsAssumption DEF LastWords
    <3> QED BY <2>3, <3>1
  <2>5. Resized(heap, heap.base + o, size, heap') /\ app' = [app EXCEPT ![o] = bytes]
    BY <2>1, <2>2, <2>3, <2>4
  <2>6. Held(heap', [app EXCEPT ![o] = bytes], leaving)
    <3>1. Units(bytes) <= size
      BY <2>2 DEF size
    <3> QED BY <1>1, <2>1, <2>2, <2>5, <3>1, HeldResized
  <2>7. Sound(heap') /\ heap'.base = heap.base
    BY <2>5 DEF Resized
  <2> QED BY <1>1, <2>1, <2>5, <2>6, <2>7 DEF HeapInv
<1>7. ASSUME NEW o \in DOMAIN app \ leaving, NEW bytes \in Requests, ReallocMoves(o, bytes) PROVE HeapInv'
  <2>1. PICK r \in Malloc(heap, bytes) :
            /\ heap' = r.heap
            /\ IF r.hmu = Null THEN UNCHANGED <<app, leaving>>
               ELSE /\ app' = Put(app, r.hmu - heap.base, bytes)
                    /\ leaving' = leaving \union {o}
    BY <1>7 DEF ReallocMoves
  <2>2. \/ r.hmu = Null /\ heap' = heap
        \/ /\ r.hmu # Null /\ Sound(heap') /\ heap'.base = heap.base
           /\ Held(heap', Put(app, r.hmu - heap.base, bytes), leaving)
    BY <2>1, MallocStep
  <2>3. CASE r.hmu = Null
    BY <1>1, <2>1, <2>2, <2>3 DEF HeapInv
  <2>4. CASE r.hmu # Null
    <3>1. o \in DOMAIN Put(app, r.hmu - heap.base, bytes)
      BY DEF Put
    <3>2. Held(heap', Put(app, r.hmu - heap.base, bytes), leaving \union {o})
      BY <2>2, <2>4, <3>1 DEF Held
    <3> QED BY <1>1, <2>1, <2>2, <2>4, <3>2 DEF HeapInv
  <2> QED BY <2>3, <2>4
<1>8. ASSUME NEW to \in Bases, Grow(to) PROVE HeapInv'
  <2>1. heap' = Migrate(heap, to) /\ app' = app /\ leaving' = leaving /\ NoLists(heap)
    BY <1>8 DEF Grow, Tame
  <2>2. to \in Nat \ {Null}
    BY BasesAssumption
  <2>3. Moved(heap, to, heap')
    BY <1>1, <2>1, <2>2, MigrateIs
  <2>4. Held(heap', app, leaving)
    BY <1>1, <2>2, <2>3, HeldMoved
  <2>5. Sound(heap') /\ heap'.base = to
    BY <2>3 DEF Moved
  <2> QED BY <2>1, <2>4, <2>5 DEF HeapInv
<1> QED BY <1>3, <1>4, <1>5, <1>6, <1>7, <1>8 DEF Next

\* The inductive invariant holds as long as all steps are tame.
LEMMA HeapInvariant == Spec /\ [][Tame]_vars => []HeapInv
<1>1. HeapInv /\ [Next]_vars /\ [Tame]_vars => HeapInv'
  <2> SUFFICES ASSUME HeapInv, UNCHANGED vars PROVE HeapInv'
    BY NextInv
  <2> QED BY DEF vars, HeapInv
<1> QED BY InitInv, <1>1, PTL DEF Spec

-----------------------------------------------------------------------------
(* What follows of a sound heap.                                             *)
\* Headers, lists and objects of a sound heap have their types.
LEMMA InvTypeOK == HeapInv => TypeOK
<1> SUFFICES ASSUME HeapInv PROVE TypeOK
  OBVIOUS
<1>1. Sound(heap) /\ heap.base \in Bases /\ Held(heap, app, leaving)
  BY DEF HeapInv
<1>2. Formed(heap) /\ Linked(heap, Frees(heap)) /\ Tiled(heap) /\ heap.base \in Nat /\ HeapUnits \in Nat
  BY <1>1, HeapUnitsAssumption DEF Sound, Formed
<1>3. DOMAIN heap.chunk \subseteq Addrs
  BY <1>1, <1>2 DEF Formed, InHeap, Addrs
<1>4. ASSUME NEW a \in DOMAIN heap.chunk
      PROVE  /\ heap.chunk[a].ut \in {"FC", "VO"} /\ heap.chunk[a].pinuse \in BOOLEAN
             /\ heap.chunk[a].size \in 1 .. HeapUnits
  <2>1. heap.chunk[a].ut \in {"FC", "VO"} /\ heap.chunk[a].pinuse \in BOOLEAN
    BY <1>1, SoundFacts
  <2>2. /\ a \in Nat /\ heap.base <= a /\ Size(heap, a) \in Nat /\ Size(heap, a) >= 2
        /\ After(heap, a) <= End(heap)
    BY <1>2, ChunkFacts
  <2>3. Size(heap, a) <= HeapUnits
    BY <1>2, <2>2 DEF After, End
  <2> QED BY <1>2, <2>1, <2>2, <2>3 DEF Size
<1>5. ASSUME NEW i \in DOMAIN heap.normal PROVE heap.normal[i] \in Addrs \union {Null}
  <2>1. DOMAIN heap.normal = 0 .. NormalCnt(heap) - 1 /\ NormalCnt(heap) \in Nat
    BY <1>2 DEF Formed
  <2>2. CASE i = NormalCnt(heap) - 1
    BY <1>2, <2>2 DEF Linked
  <2>3. CASE i # NormalCnt(heap) - 1
    <3>1. i \in ListSizes(heap)
      BY <2>1, <2>3 DEF ListSizes
    <3>2. heap.normal[i] \in Smalls(heap, Frees(heap)) \union {Null}
      BY <1>2, <3>1 DEF Linked, Lists, Heads
    <3> QED BY <1>3, <3>2 DEF Smalls, Frees
  <2> QED BY <2>2, <2>3
<1> QED BY <1>1, <1>3, <1>4, <1>5 DEF TypeOK, Held

\* A sound heap is tiled by its chunks.
LEMMA InvChunksTile == HeapInv => ChunksTile
<1> SUFFICES ASSUME HeapInv PROVE ChunksTile
  OBVIOUS
<1>1. Formed(heap) /\ Tiled(heap) /\ TypeOK
  BY InvTypeOK DEF HeapInv, Sound
<1>2. heap.base \in DOMAIN heap.chunk
  BY <1>1 DEF Tiled, Tiles
<1>3. ASSUME NEW a \in DOMAIN heap.chunk
      PROVE  /\ a + Size(heap, a) \in DOMAIN heap.chunk \union {heap.base + HeapUnits}
             /\ \A b \in DOMAIN heap.chunk : b <= a \/ a + Size(heap, a) <= b
  BY <1>1, ChunkFacts DEF After, End
<1> QED BY <1>1, <1>2, <1>3 DEF ChunksTile

\* A walk along a list meets the chunks of that list, each of them once.
LEMMA ListHolds ==
    ASSUME NEW h, Formed(h), NEW F, Linked(h, F), NextListed(h, F), NEW below, NEW rank,
           Row(NextOf(h), Smalls(h, F), below, rank),
           NEW i, h.normal[i] \in Smalls(h, F) \union {Null}
    PROVE  /\ {ListOf(h, i)[j] : j \in DOMAIN ListOf(h, i)} = below[h.normal[i]]
           /\ \A j, k \in DOMAIN ListOf(h, i) : ListOf(h, i)[j] = ListOf(h, i)[k] => j = k
<1> DEFINE L == Smalls(h, F)
           nx == NextOf(h)
<1>1. L \in SUBSET DOMAIN h.chunk /\ Null \notin DOMAIN h.chunk
  BY DEF Smalls, Formed, Linked
<1>2. \A a \in DOMAIN h.chunk : nx[a] = ListNext(h, a) /\ nx[a] \in L \union {Null}
  BY DEF NextOf, NextListed
<1> HIDE DEF L, nx
<1>3. Row(nx, L, below, rank) /\ h.normal[i] \in L \union {Null}
  BY DEF L, nx
<1>4. /\ Walk(nx, DOMAIN h.chunk, h.normal[i], ListOf(h, i))
      /\ {ListOf(h, i)[j] : j \in DOMAIN ListOf(h, i)} = below[h.normal[i]]
      /\ \A j, k \in DOMAIN ListOf(h, i) : ListOf(h, i)[j] = ListOf(h, i)[k] => j = k
  BY <1>1, <1>2, <1>3, ListOfIs
<1> QED BY <1>4

\* A sound heap has every free chunk in one place, and nothing else there.
LEMMA InvFreeChunksListed == HeapInv => FreeChunksListed
<1> SUFFICES ASSUME HeapInv PROVE FreeChunksListed
  OBVIOUS
<1> DEFINE L == Smalls(heap, Frees(heap))
<1>1. /\ Formed(heap) /\ Linked(heap, Frees(heap)) /\ NextListed(heap, Frees(heap))
      /\ FreeChunks = Frees(heap) /\ Frees(heap) \subseteq DOMAIN heap.chunk
  BY ThinNone DEF HeapInv, Sound, FreeChunks, Frees
<1>2. PICK below, rank : /\ Row(NextOf(heap), L, below, rank)
                         /\ Heads(L, heap.normal, SizeOf(heap), ListSizes(heap), below)
  BY <1>1 DEF Linked, Lists
<1>4. L \in SUBSET DOMAIN heap.chunk /\ Null \notin DOMAIN heap.chunk
  BY <1>1 DEF Smalls, Formed
<1>5. ASSUME NEW i \in 1 .. NormalCnt(heap) - 1
      PROVE  /\ heap.normal[i] \in L \union {Null}
             /\ below[heap.normal[i]] = {a \in FreeChunks : Size(heap, a) = i /\ IsNormal(heap, i)}
  <2>1. NormalCnt(heap) \in Nat
    BY <1>1 DEF Formed
  <2>2. CASE i = NormalCnt(heap) - 1
    <3>1. ~IsNormal(heap, i) /\ heap.normal[i] = Null /\ below[Null] = {}
      BY <1>1, <1>2, <2>1, <2>2 DEF IsNormal, Linked, Row
    <3> QED BY <3>1
  <2>3. CASE i # NormalCnt(heap) - 1
    <3>1. i \in ListSizes(heap) /\ IsNormal(heap, i)
      BY <2>1, <2>3 DEF ListSizes, IsNormal
    <3>2. heap.normal[i] \in L \union {Null} /\ below[heap.normal[i]] = {a \in L : SizeOf(heap)[a] = i}
      BY <1>2, <3>1 DEF Heads
    <3>3. \A a \in L : SizeOf(heap)[a] = Size(heap, a)
      BY <1>4 DEF SizeOf
    <3> QED BY <1>1, <3>1, <3>2, <3>3 DEF Smalls
  <2> QED BY <2>2, <2>3
<1> HIDE DEF L
<1>6. ASSUME NEW i \in 1 .. NormalCnt(heap) - 1
      PROVE  /\ {ListOf(heap, i)[j] : j \in DOMAIN ListOf(heap, i)}
                  = {a \in FreeChunks : Size(heap, a) = i /\ IsNormal(heap, i)}
             /\ \A j, k \in DOMAIN ListOf(heap, i) : ListOf(heap, i)[j] = ListOf(heap, i)[k] => j = k
  <2>1. heap.normal[i] \in L \union {Null}
    BY <1>5
  <2>2. /\ {ListOf(heap, i)[j] : j \in DOMAIN ListOf(heap, i)} = below[heap.normal[i]]
        /\ \A j, k \in DOMAIN ListOf(heap, i) : ListOf(heap, i)[j] = ListOf(heap, i)[k] => j = k
    BY <1>1, <1>2, <2>1, ListHolds DEF L
  <2> QED BY <1>5, <2>2
<1>7. DOMAIN heap.tree \ {Root} = {a \in FreeChunks : ~IsNormal(heap, Size(heap, a))}
  <2>1. DOMAIN heap.tree = {Root} \union Larges(heap, Frees(heap)) /\ Root \notin Frees(heap)
    BY <1>1, SmallSizes DEF Linked
  <2> QED BY <1>1, <2>1 DEF Larges
<1> QED BY <1>6, <1>7 DEF FreeChunksListed

\* The subtrees TreeOrdered computes are those the invariant speaks of.
LEMMA InvTreeOrdered == HeapInv => TreeOrdered
<1> SUFFICES ASSUME HeapInv PROVE TreeOrdered
  OBVIOUS
<1> DEFINE t == heap.tree
           D == DOMAIN t \union {Null}
           Is(f) == f = [n \in D |-> IF n = Null THEN {}
                                     ELSE {n} \union f[t[n].left] \union f[t[n].right]]
           Sub == CHOOSE f : Is(f)
<1>1. PICK sub, rank : Links(t) /\ Subtrees(t, sub, rank) /\ Sorted(t, NodeSize(heap), sub)
  BY DEF HeapInv, Sound, Linked, IsTree, Tree
<1>2. Null \notin DOMAIN t /\ \A n \in DOMAIN t : t[n].left \in D /\ t[n].right \in D
  BY <1>1 DEF Links
<1>3. Is(Sub)
  <2> DEFINE f == [n \in D |-> IF n = Null THEN {} ELSE sub[n]]
  <2>1. \A n \in D : f[n] = sub[n]
    BY <1>1 DEF Subtrees
  <2>2. ASSUME NEW n \in D
        PROVE  f[n] = IF n = Null THEN {} ELSE {n} \union f[t[n].left] \union f[t[n].right]
    <3>1. CASE n = Null
      BY <3>1
    <3>2. CASE n # Null
      <4>1. sub[n] = {n} \union sub[t[n].left] \union sub[t[n].right] /\ n \in DOMAIN t
        BY <1>1, <3>2 DEF Subtrees
      <4>2. f[n] = sub[n] /\ f[t[n].left] = sub[t[n].left] /\ f[t[n].right] = sub[t[n].right]
        BY <1>2, <2>1, <4>1
      <4> HIDE DEF f
      <4> QED BY <3>2, <4>1, <4>2
    <3> QED BY <3>1, <3>2
  <2>3. f = [n \in D |-> f[n]]
    OBVIOUS
  <2> HIDE DEF f
  <2>4. Is(f)
    BY <2>2, <2>3
  <2> QED BY <2>4
<1> HIDE DEF Sub
<1>4. \A n \in D : Sub[n] = sub[n]
  <2>1. Sub[Null] = {} /\ \A n \in DOMAIN t : Sub[n] = {n} \union Sub[t[n].left] \union Sub[t[n].right]
    <3> HIDE DEF t
    <3> QED BY <1>2, <1>3
  <2> HIDE DEF t
  <2> QED BY <1>1, <2>1, SubtreesAre
<1>5. ASSUME NEW n \in DOMAIN t
      PROVE  /\ \A m \in Sub[t[n].left] : TreeSize(heap, m) <= TreeSize(heap, n)
             /\ \A m \in Sub[t[n].right] : TreeSize(heap, n) < TreeSize(heap, m)
             /\ \A m \in {t[n].left, t[n].right} \ {Null} : t[m].parent = n
  <2>1. Sub[t[n].left] = sub[t[n].left] /\ Sub[t[n].right] = sub[t[n].right]
    BY <1>2, <1>4
  <2>2. sub[t[n].left] \subseteq DOMAIN t /\ sub[t[n].right] \subseteq DOMAIN t
    BY <1>1 DEF Subtrees
  <2>3. /\ \A m \in sub[t[n].left] : NodeSize(heap)[m] <= NodeSize(heap)[n]
        /\ \A m \in sub[t[n].right] : NodeSize(heap)[n] < NodeSize(heap)[m]
    BY <1>1 DEF Sorted
  <2>4. \A m \in DOMAIN t : NodeSize(heap)[m] = TreeSize(heap, m)
    BY DEF NodeSize
  <2>5. \A m \in {t[n].left, t[n].right} \ {Null} : t[m].parent = n
    BY <1>1 DEF Links
  <2> QED BY <2>1, <2>2, <2>3, <2>4, <2>5
<1> QED BY <1>5 DEF TreeOrdered, Sub

\* A gap between objects is one free chunk, in a sound heap, and alloc_hmu finds
\* one that is large enough if there is one.
LEMMA InvServesWhatFits == HeapInv => ServesWhatFits
<1> SUFFICES ASSUME HeapInv, NEW bytes \in Requests, ~Overflows(bytes),
                    NEW a \in DOMAIN heap.chunk, NEW end \in DOMAIN heap.chunk \union {heap.base + HeapUnits},
                    end - a >= Units(bytes), end - a >= Smallest,
                    \A b \in DOMAIN heap.chunk \ FreeChunks : b < a \/ end <= b
             PROVE  \E r \in Malloc(heap, bytes) : r.hmu # Null
  BY DEF ServesWhatFits
<1>1. Sound(heap) /\ Formed(heap) /\ Tiled(heap) /\ FreeChunks = Frees(heap)
  BY DEF HeapInv, Sound, FreeChunks, Frees
<1>2. a \in Nat /\ end \in Nat /\ heap.base \in Nat /\ HeapUnits \in Nat /\ end \in DOMAIN heap.chunk \union {End(heap)}
  BY <1>1, HeapUnitsAssumption DEF Formed, End
<1>3. a < end
  BY <1>2 DEF Smallest
<1>4. a \in Frees(heap) /\ end <= After(heap, a)
  BY <1>1, <1>2, <1>3, GapIsChunk
<1>5. Size(heap, a) >= Units(bytes)
  <2>1. Size(heap, a) \in Nat /\ Units(bytes) \in Nat
    BY <1>1, ChunkFacts, UnitsHold
  <2> QED BY <1>2, <1>4, <2>1 DEF After
<1> QED BY <1>1, <1>4, <1>5, MallocServes

-----------------------------------------------------------------------------
\* The fields of the heap and the application's objects have their types, in a
\* heap of any size, with any requests, while the steps are tame.
THEOREM TypeCorrect == Spec /\ [][Tame]_vars => []TypeOK
BY HeapInvariant, InvTypeOK, PTL

\* The chunks tile the heap: what gc_migrate, gci_dump and gc_heap_stat walk along
\* from header to header.
THEOREM ChunksTileCorrect == Spec /\ [][Tame]_vars => []ChunksTile
BY HeapInvariant, InvChunksTile, PTL

\* A free chunk is in the list of its size or in the tree, once, and nothing else
\* is: alloc_hmu hands out free memory and unlink_hmu finds what it looks for.
THEOREM FreeChunksListedCorrect == Spec /\ [][Tame]_vars => []FreeChunksListed
BY HeapInvariant, InvFreeChunksListed, PTL

\* "size[left] <= size[cur] < size[right]" for whole subtrees, and parents and
\* children agree, after any sequence of gci_add_fc and remove_tree_node.
THEOREM TreeOrderedCorrect == Spec /\ [][Tame]_vars => []TreeOrdered
BY HeapInvariant, InvTreeOrdered, PTL

\* Free neighbours are merged and the search finds what there is: gc_alloc_vo
\* turns a request down only if no gap between objects is large enough.
THEOREM ServesWhatFitsCorrect == Spec /\ [][Tame]_vars => []ServesWhatFits
BY HeapInvariant, InvServesWhatFits, PTL

\* As long as the steps are tame, the checks of the allocator report nothing in a
\* heap that the application has not touched: removals, insertions and the growth
\* of the memory leave no pointer of the tree that leads out of the heap and no
\* node that its parent does not know.  Where a list is not empty when the memory
\* grows the code does report it.
THEOREM NotCorruptedCorrect == Spec /\ [][Tame]_vars => []NotCorrupted
<1>1. HeapInv => NotCorrupted
  BY DEF HeapInv, Sound, NotCorrupted
<1> QED BY HeapInvariant, <1>1, PTL

-----------------------------------------------------------------------------
(* The heap implements the allocator.                                        *)
LiveOf(f) == [s \in {8 * o + HeaderSize : o \in DOMAIN f} |-> f[(s - HeaderSize) \div 8]]

\* Objects at different offsets start at different bytes.
LEMMA StartsDiffer ==
    ASSUME NEW o \in Nat, NEW p \in Nat
    PROVE  8 * o + HeaderSize = 8 * p + HeaderSize <=> o = p
BY DEF HeaderSize

\* The application's objects, by the byte they start at.
LEMMA LiveIs ==
    ASSUME NEW f, DOMAIN f \subseteq Nat
    PROVE  /\ DOMAIN LiveOf(f) = {8 * o + HeaderSize : o \in DOMAIN f}
           /\ \A o \in DOMAIN f : LiveOf(f)[8 * o + HeaderSize] = f[o]
<1>1. DOMAIN LiveOf(f) = {8 * o + HeaderSize : o \in DOMAIN f}
  BY DEF LiveOf
<1>2. ASSUME NEW o \in DOMAIN f PROVE LiveOf(f)[8 * o + HeaderSize] = f[o]
  <2> DEFINE s == 8 * o + HeaderSize
  <2>3. o \in Nat
    OBVIOUS
  <2>4. (s - HeaderSize) \div 8 = o
    BY <2>3 DEF HeaderSize
  <2>1. (s - HeaderSize) \div 8 = o /\ s \in DOMAIN LiveOf(f)
    BY <1>1, <2>4
  <2> HIDE DEF s
  <2>2. LiveOf(f)[s] = f[(s - HeaderSize) \div 8]
    BY <1>1, <2>1 DEF LiveOf
  <2> QED BY <2>1, <2>2 DEF s
<1> QED BY <1>1, <1>2

\* What starts where the objects start and has their sizes is that function.
LEMMA LiveSame ==
    ASSUME NEW f, DOMAIN f \subseteq Nat, NEW g, DOMAIN g = {8 * o + HeaderSize : o \in DOMAIN f},
           g = [s \in DOMAIN g |-> g[s]], \A o \in DOMAIN f : g[8 * o + HeaderSize] = f[o]
    PROVE  LiveOf(f) = g
<1>1. /\ DOMAIN LiveOf(f) = DOMAIN g /\ LiveOf(f) = [s \in DOMAIN g |-> LiveOf(f)[s]]
      /\ \A o \in DOMAIN f : LiveOf(f)[8 * o + HeaderSize] = f[o]
  <2>1. LiveOf(f) = [s \in DOMAIN LiveOf(f) |-> LiveOf(f)[s]]
    BY DEF LiveOf
  <2> QED BY <2>1, LiveIs
<1>2. ASSUME NEW s \in DOMAIN g PROVE LiveOf(f)[s] = g[s]
  <2>1. PICK o \in DOMAIN f : s = 8 * o + HeaderSize
    OBVIOUS
  <2> QED BY <1>1, <2>1
<1> QED BY <1>1, <1>2

\* A new object is new to the allocator.
LEMMA LivePut ==
    ASSUME NEW f, DOMAIN f \subseteq Nat, NEW o \in Nat, NEW v
    PROVE  LiveOf(Put(f, o, v)) = Put(LiveOf(f), 8 * o + HeaderSize, v)
<1> DEFINE x == 8 * o + HeaderSize
           e == Put(f, o, v)
           g == Put(LiveOf(f), x, v)
<1>1. DOMAIN e = DOMAIN f \union {o} /\ e[o] = v /\ \A p \in DOMAIN f \ {o} : e[p] = f[p]
  BY DEF Put
<1> HIDE DEF e
<1>2. /\ DOMAIN LiveOf(f) = {8 * p + HeaderSize : p \in DOMAIN f}
      /\ \A p \in DOMAIN f : LiveOf(f)[8 * p + HeaderSize] = f[p]
  BY LiveIs
<1>3. DOMAIN g = {8 * p + HeaderSize : p \in DOMAIN e} /\ DOMAIN e \subseteq Nat
  BY <1>1, <1>2 DEF Put
<1>4. ASSUME NEW p \in DOMAIN e PROVE g[8 * p + HeaderSize] = e[p]
  <2>1. CASE p = o
    BY <1>1, <2>1 DEF Put
  <2>2. CASE p # o
    <3>1. p \in DOMAIN f /\ 8 * p + HeaderSize # x
      BY <1>1, <2>2, StartsDiffer
    <3> QED BY <1>1, <1>2, <2>2, <3>1 DEF Put
  <2> QED BY <2>1, <2>2
<1>5. g = [s \in DOMAIN g |-> g[s]]
  BY DEF Put
<1> HIDE DEF g
<1>6. LiveOf(e) = g
  BY <1>3, <1>4, <1>5, LiveSame
<1> QED BY <1>6 DEF e, g

\* An object that is freed is gone from the allocator's.
LEMMA LiveRemove ==
    ASSUME NEW f, DOMAIN f \subseteq Nat, NEW o \in DOMAIN f
    PROVE  LiveOf(Remove(f, o)) = Restrict(LiveOf(f), DOMAIN LiveOf(f) \ {8 * o + HeaderSize})
<1> DEFINE x == 8 * o + HeaderSize
           e == Remove(f, o)
           g == Restrict(LiveOf(f), DOMAIN LiveOf(f) \ {x})
<1>1. DOMAIN e = DOMAIN f \ {o} /\ \A p \in DOMAIN f \ {o} : e[p] = f[p]
  BY RemoveIs
<1> HIDE DEF e
<1>2. /\ DOMAIN LiveOf(f) = {8 * p + HeaderSize : p \in DOMAIN f}
      /\ \A p \in DOMAIN f : LiveOf(f)[8 * p + HeaderSize] = f[p]
  BY LiveIs
<1>3. g = [s \in DOMAIN LiveOf(f) \ {x} |-> LiveOf(f)[s]]
  BY DEF Restrict
<1> HIDE DEF g
<1>4. DOMAIN g = {8 * p + HeaderSize : p \in DOMAIN e} /\ DOMAIN e \subseteq Nat
  <2>1. \A p \in DOMAIN f : 8 * p + HeaderSize = x <=> p = o
    BY StartsDiffer
  <2> HIDE DEF x
  <2> QED BY <1>1, <1>2, <1>3, <2>1
<1>5. ASSUME NEW p \in DOMAIN e PROVE g[8 * p + HeaderSize] = e[p]
  <2>1. p \in DOMAIN f /\ 8 * p + HeaderSize \in DOMAIN g
    BY <1>1, <1>4
  <2> QED BY <1>1, <1>2, <1>3, <2>1
<1>6. g = [s \in DOMAIN g |-> g[s]]
  BY <1>3
<1>7. LiveOf(e) = g
  BY <1>4, <1>5, <1>6, LiveSame
<1> QED BY <1>7 DEF e, g

\* An object of another size has that size for the allocator.
LEMMA LiveExcept ==
    ASSUME NEW f, DOMAIN f \subseteq Nat, NEW o \in DOMAIN f, NEW v
    PROVE  LiveOf([f EXCEPT ![o] = v]) = [LiveOf(f) EXCEPT ![8 * o + HeaderSize] = v]
<1> DEFINE x == 8 * o + HeaderSize
           e == [f EXCEPT ![o] = v]
           g == [LiveOf(f) EXCEPT ![x] = v]
<1>1. DOMAIN e = DOMAIN f /\ e[o] = v /\ \A p \in DOMAIN f \ {o} : e[p] = f[p]
  OBVIOUS
<1> HIDE DEF e
<1>2. /\ DOMAIN LiveOf(f) = {8 * p + HeaderSize : p \in DOMAIN f}
      /\ \A p \in DOMAIN f : LiveOf(f)[8 * p + HeaderSize] = f[p]
  BY LiveIs
<1>3. DOMAIN g = {8 * p + HeaderSize : p \in DOMAIN e} /\ DOMAIN e \subseteq Nat
  BY <1>1, <1>2
<1>4. ASSUME NEW p \in DOMAIN e PROVE g[8 * p + HeaderSize] = e[p]
  <2>1. CASE p = o
    BY <1>1, <1>2, <2>1
  <2>2. CASE p # o
    <3>1. p \in DOMAIN f /\ 8 * p + HeaderSize # x
      BY <1>1, <2>2, StartsDiffer
    <3> QED BY <1>1, <1>2, <2>2, <3>1
  <2> QED BY <2>1, <2>2
<1>5. g = [s \in DOMAIN g |-> g[s]]
  OBVIOUS
<1> HIDE DEF g
<1>6. LiveOf(e) = g
  BY <1>3, <1>4, <1>5, LiveSame
<1> QED BY <1>6 DEF e, g

\* Objects lie in the heap and apart.
LEMMA LiveApart ==
    ASSUME NEW h, Sound(h), NEW f, NEW old, Held(h, f, old), NEW o \in DOMAIN f
    PROVE  /\ o \in 0 .. HeapUnits - 1 /\ f[o] \in Nat
           /\ 8 * o + HeaderSize + f[o] <= 8 * HeapUnits
           /\ \A p \in DOMAIN f \ {o} :
                 \/ 8 * o + HeaderSize + f[o] <= 8 * p + HeaderSize
                 \/ 8 * p + HeaderSize + f[p] <= 8 * o + HeaderSize
<1>1. h.base \in Nat /\ Formed(h) /\ Tiled(h) /\ HeapUnits \in Nat
  BY HeapUnitsAssumption DEF Sound, Formed
<1>2. ASSUME NEW p \in DOMAIN f
      PROVE  /\ p \in Nat /\ f[p] \in Nat /\ h.base + p \in DOMAIN h.chunk
             /\ Size(h, h.base + p) \in Nat /\ Size(h, h.base + p) >= 2
             /\ HeaderSize + f[p] <= 8 * Size(h, h.base + p)
             /\ (h.base + p) + Size(h, h.base + p) <= h.base + HeapUnits
             /\ \A b \in DOMAIN h.chunk : b <= h.base + p \/ (h.base + p) + Size(h, h.base + p) <= b
  <2>1. /\ p \in Nat /\ h.base + p \in Objs(h) /\ f[p] \in Requests
        /\ HeaderSize + f[p] <= 8 * Size(h, h.base + p)
    BY DEF Held
  <2>2. f[p] \in Nat
    BY <2>1, UnitsHold
  <2> DEFINE a == h.base + p
  <2>3. a \in DOMAIN h.chunk
    BY <2>1 DEF Objs
  <2> HIDE DEF a
  <2>4. /\ Size(h, a) \in Nat /\ Size(h, a) >= 2 /\ a + Size(h, a) <= h.base + HeapUnits
        /\ \A b \in DOMAIN h.chunk : b <= a \/ a + Size(h, a) <= b
    BY <1>1, <2>3, ChunkFacts DEF After, End
  <2> QED BY <2>1, <2>2, <2>3, <2>4 DEF a
<1>3. o \in 0 .. HeapUnits - 1 /\ f[o] \in Nat
  BY <1>1, <1>2
<1>4. 8 * o + HeaderSize + f[o] <= 8 * HeapUnits
  BY <1>1, <1>2 DEF HeaderSize
<1>5. ASSUME NEW p \in DOMAIN f \ {o}
      PROVE  \/ 8 * o + HeaderSize + f[o] <= 8 * p + HeaderSize
             \/ 8 * p + HeaderSize + f[p] <= 8 * o + HeaderSize
  <2> DEFINE k == Size(h, h.base + o)
             l == Size(h, h.base + p)
  <2>1. o \in Nat /\ f[o] \in Nat /\ k \in Nat /\ HeaderSize + f[o] <= 8 * k
    BY <1>2
  <2>2. p \in Nat /\ f[p] \in Nat /\ l \in Nat /\ HeaderSize + f[p] <= 8 * l /\ p # o
    BY <1>2
  <2>3. h.base + p <= h.base + o \/ (h.base + o) + k <= h.base + p
    BY <1>2
  <2>4. h.base + o <= h.base + p \/ (h.base + p) + l <= h.base + o
    BY <1>2
  <2> HIDE DEF k, l
  <2>5. CASE o + k <= p
    BY <2>1, <2>2, <2>5 DEF HeaderSize
  <2>6. CASE p + l <= o
    BY <2>1, <2>2, <2>6 DEF HeaderSize
  <2> QED BY <1>1, <2>1, <2>2, <2>3, <2>4, <2>5, <2>6
<1> QED BY <1>3, <1>4, <1>5

\* The allocator's state, as Objects instantiates it.
live == LiveOf(app)

\* Every step leaves the application's objects as they are, adds one, frees one
\* or changes the size of one.
ObjectsChange ==
    \/ app' = app
    \/ \E o \in Nat, bytes \in Requests : o \notin DOMAIN app /\ app' = Put(app, o, bytes)
    \/ \E o \in DOMAIN app : app' = Remove(app, o)
    \/ \E o \in DOMAIN app, bytes \in Requests : app' = [app EXCEPT ![o] = bytes]

\* No operation of the heap does more to the application's objects than that.
LEMMA NextChange == HeapInv /\ [Next]_vars /\ [Tame]_vars => ObjectsChange
<1> SUFFICES ASSUME HeapInv, [Next]_vars, [Tame]_vars PROVE ObjectsChange
  OBVIOUS
<1>1. ASSUME NEW bytes \in Requests, MallocObject(bytes) PROVE ObjectsChange
  <2>1. PICK r \in Malloc(heap, bytes) :
            /\ heap' = r.heap
            /\ app' = IF r.hmu = Null THEN app ELSE Put(app, r.hmu - heap.base, bytes)
    BY <1>1 DEF MallocObject
  <2>2. CASE r.hmu = Null
    BY <2>1, <2>2 DEF ObjectsChange
  <2>3. CASE r.hmu # Null
    <3>1. r.hmu - heap.base \in Nat /\ r.hmu - heap.base \notin DOMAIN app
      BY <2>1, <2>3, MallocStep
    <3> QED BY <2>1, <2>3, <3>1 DEF ObjectsChange
  <2> QED BY <2>2, <2>3
<1>2. ASSUME NEW o \in DOMAIN app, FreeObject(o) PROVE ObjectsChange
  BY <1>2 DEF FreeObject, ObjectsChange
<1>3. ASSUME NEW o \in DOMAIN app \ leaving, NEW bytes \in Requests,
             ReallocKeeps(o, bytes) \/ ReallocGrows(o, bytes)
      PROVE  ObjectsChange
  <2>1. app' = app \/ app' = [app EXCEPT ![o] = bytes]
    BY <1>3 DEF ReallocKeeps, ReallocGrows
  <2> QED BY <2>1 DEF ObjectsChange
<1>4. ASSUME NEW o \in DOMAIN app \ leaving, NEW bytes \in Requests, ReallocMoves(o, bytes)
      PROVE  ObjectsChange
  <2>1. PICK r \in Malloc(heap, bytes) :
            /\ heap' = r.heap
            /\ IF r.hmu = Null THEN UNCHANGED <<app, leaving>>
               ELSE /\ app' = Put(app, r.hmu - heap.base, bytes)
                    /\ leaving' = leaving \union {o}
    BY <1>4 DEF ReallocMoves
  <2>2. CASE r.hmu = Null
    BY <2>1, <2>2 DEF ObjectsChange
  <2>3. CASE r.hmu # Null
    <3>1. r.hmu - heap.base \in Nat /\ r.hmu - heap.base \notin DOMAIN app
      BY <2>1, <2>3, MallocStep
    <3> QED BY <2>1, <2>3, <3>1 DEF ObjectsChange
  <2> QED BY <2>2, <2>3
<1>5. ASSUME NEW to \in Bases, Grow(to) PROVE ObjectsChange
  BY <1>5 DEF Grow, ObjectsChange
<1>6. ASSUME UNCHANGED vars PROVE ObjectsChange
  BY <1>6 DEF vars, ObjectsChange
<1> QED BY <1>1, <1>2, <1>3, <1>4, <1>5, <1>6 DEF Next

\* The allocator starts with no object.
LEMMA LiveStart == Init => Objects!Init
<1> SUFFICES ASSUME Init PROVE Objects!Init
  OBVIOUS
<1>1. app = <<>>
  BY DEF Init
<1>2. [s \in {8 * o + HeaderSize : o \in DOMAIN app} |-> app[(s - HeaderSize) \div 8]] = <<>>
  <2>1. {8 * o + HeaderSize : o \in DOMAIN app} = {}
    BY <1>1
  <2> QED BY <2>1
<1> QED BY <1>2 DEF Objects!Init

\* A change of the application's objects, from a sound heap to a sound heap, is a
\* step of the allocator: the object lies in the heap and clear of the others.
LEMMA LiveStep == HeapInv /\ HeapInv' /\ ObjectsChange => [Objects!Next]_live
<1> SUFFICES ASSUME HeapInv, HeapInv', ObjectsChange PROVE [Objects!Next]_live
  OBVIOUS
<1>1. /\ Sound(heap) /\ Held(heap, app, leaving) /\ DOMAIN app \subseteq Nat
      /\ Sound(heap') /\ Held(heap', app', leaving') /\ DOMAIN app' \subseteq Nat
  BY DEF HeapInv, Held
<1>2. /\ DOMAIN live = {8 * p + HeaderSize : p \in DOMAIN app}
      /\ \A p \in DOMAIN app : live[8 * p + HeaderSize] = app[p]
      /\ DOMAIN live' = {8 * p + HeaderSize : p \in DOMAIN app'}
      /\ \A p \in DOMAIN app' : live'[8 * p + HeaderSize] = app'[p]
  BY <1>1, LiveIs DEF live
<1>3. CASE app' = app
  BY <1>3 DEF live
<1>4. ASSUME NEW o \in Nat, NEW bytes \in Requests, o \notin DOMAIN app, app' = Put(app, o, bytes)
      PROVE  Objects!Next
  <2> DEFINE x == 8 * o + HeaderSize
  <2>1. o \in DOMAIN app' /\ app'[o] = bytes /\ \A p \in DOMAIN app : p \in DOMAIN app' /\ app'[p] = app[p]
    BY <1>4 DEF Put
  <2>2. /\ o \in 0 .. HeapUnits - 1 /\ x + bytes <= 8 * HeapUnits
        /\ \A p \in DOMAIN app : \/ x + bytes <= 8 * p + HeaderSize
                                 \/ 8 * p + HeaderSize + app[p] <= x
    <3>1. /\ o \in 0 .. HeapUnits - 1
          /\ 8 * o + HeaderSize + app'[o] <= 8 * HeapUnits
          /\ \A p \in DOMAIN app' \ {o} :
                 \/ 8 * o + HeaderSize + app'[o] <= 8 * p + HeaderSize
                 \/ 8 * p + HeaderSize + app'[p] <= 8 * o + HeaderSize
      BY <1>1, <2>1, LiveApart
    <3> QED BY <1>4, <2>1, <3>1
  <2>3. live' = [p \in DOMAIN live \union {x} |-> IF p = x THEN bytes ELSE live[p]]
    <3>1. live' = LiveOf(Put(app, o, bytes))
      BY <1>4 DEF live
    <3>2. LiveOf(Put(app, o, bytes)) = Put(LiveOf(app), x, bytes)
      BY <1>1, <1>4, LivePut
    <3> QED BY <3>1, <3>2 DEF live, Put
  <2>4. x \notin DOMAIN live
    <3>1. \A p \in DOMAIN app : 8 * p + HeaderSize # x
      BY <1>1, <1>4, StartsDiffer
    <3> HIDE DEF x
    <3> QED BY <1>2, <3>1
  <2>5. Objects!Fits(x, bytes, {})
    <3>1. \A s \in DOMAIN live : Objects!Disjoint(x, bytes, s, live[s])
      <4> SUFFICES ASSUME NEW p \in DOMAIN app
          PROVE  Objects!Disjoint(x, bytes, 8 * p + HeaderSize, live[8 * p + HeaderSize])
        BY <1>2
      <4> QED BY <1>2, <2>2 DEF Objects!Disjoint
    <3> QED BY <2>2, <3>1 DEF Objects!Fits, live, LiveOf
  <2>6. x \in {8 * u + HeaderSize : u \in 0 .. HeapUnits - 1}
    BY <2>2
  <2> HIDE DEF x
  <2>7. Objects!Allocate(x, bytes)
    BY <2>3, <2>4, <2>5 DEF Objects!Allocate, live, LiveOf
  <2> QED BY <2>6, <2>7 DEF Objects!Next
<1>5. ASSUME NEW o \in DOMAIN app, app' = Remove(app, o) PROVE Objects!Next
  <2> DEFINE x == 8 * o + HeaderSize
  <2>1. o \in 0 .. HeapUnits - 1
    BY <1>1, LiveApart
  <2>2. live' = Restrict(live, DOMAIN live \ {x})
    BY <1>1, <1>5, LiveRemove DEF live
  <2>3. x \in DOMAIN live /\ x \in {8 * u + HeaderSize : u \in 0 .. HeapUnits - 1}
    BY <1>2, <2>1
  <2> HIDE DEF x
  <2>4. Objects!Free(x)
    BY <2>2, <2>3 DEF Objects!Free, Objects!Restrict, Restrict, live, LiveOf
  <2> QED BY <2>3, <2>4 DEF Objects!Next
<1>6. ASSUME NEW o \in DOMAIN app, NEW bytes \in Requests, app' = [app EXCEPT ![o] = bytes]
      PROVE  Objects!Next
  <2> DEFINE x == 8 * o + HeaderSize
  <2>1. DOMAIN app' = DOMAIN app /\ app'[o] = bytes /\ \A p \in DOMAIN app \ {o} : app'[p] = app[p]
    BY <1>6
  <2>2. /\ o \in 0 .. HeapUnits - 1 /\ x + bytes <= 8 * HeapUnits
        /\ \A p \in DOMAIN app \ {o} : \/ x + bytes <= 8 * p + HeaderSize
                                       \/ 8 * p + HeaderSize + app[p] <= x
    <3>1. /\ o \in 0 .. HeapUnits - 1
          /\ 8 * o + HeaderSize + app'[o] <= 8 * HeapUnits
          /\ \A p \in DOMAIN app' \ {o} :
                 \/ 8 * o + HeaderSize + app'[o] <= 8 * p + HeaderSize
                 \/ 8 * p + HeaderSize + app'[p] <= 8 * o + HeaderSize
      BY <1>1, <2>1, LiveApart
    <3> QED BY <2>1, <3>1
  <2>3. live' = [live EXCEPT ![x] = bytes]
    BY <1>1, <1>6, LiveExcept DEF live
  <2>4. x \in DOMAIN live /\ x \in {8 * u + HeaderSize : u \in 0 .. HeapUnits - 1}
    BY <1>2, <2>2
  <2>5. Objects!Fits(x, bytes, {x})
    <3>1. \A s \in DOMAIN live \ {x} : Objects!Disjoint(x, bytes, s, live[s])
      <4> SUFFICES ASSUME NEW p \in DOMAIN app, 8 * p + HeaderSize # x
          PROVE  Objects!Disjoint(x, bytes, 8 * p + HeaderSize, live[8 * p + HeaderSize])
        BY <1>2
      <4>1. p # o
        OBVIOUS
      <4> QED BY <1>2, <2>2, <4>1 DEF Objects!Disjoint
    <3> QED BY <2>2, <3>1 DEF Objects!Fits, live, LiveOf
  <2> HIDE DEF x
  <2>6. Objects!Resize(x, bytes)
    BY <2>3, <2>4, <2>5 DEF Objects!Resize, live, LiveOf
  <2> QED BY <2>4, <2>6 DEF Objects!Next
<1> QED BY <1>3, <1>4, <1>5, <1>6 DEF ObjectsChange

\* The heap implements the allocator: objects lie inside it and share no byte, at
\* the sizes asked for, whatever the order of malloc, realloc, free and growth.
THEOREM AllocatorCorrect == Spec /\ [][Tame]_vars => AllocatorSpec
<1>1. HeapInv /\ HeapInv' /\ [Next]_vars /\ [Tame]_vars => [Objects!Next]_live
  BY NextChange, LiveStep
<1>2. HeapInv /\ HeapInv' /\ [Next]_vars /\ [Tame]_vars
        => [Objects!Next]_([s \in {8 * o + HeaderSize : o \in DOMAIN app} |-> app[(s - HeaderSize) \div 8]])
  BY <1>1 DEF live, LiveOf
<1> QED BY LiveStart, HeapInvariant, <1>2, PTL DEF Spec, AllocatorSpec, Objects!Spec
=============================================================================
