--------------------------- MODULE FdTableProofs ----------------------------
(* What is proved of FdTable for any number of threads, objects and          *)
(* descriptors: reference counts are exact, so no operation works on a file  *)
(* that has been closed.                                                     *)
EXTENDS FdTable, FiniteSetTheorems, TLAPS

Holds == Threads \X Slots
Held == [Holds -> Objects \union {None}]
Ops == [at : {"idle", "use", "put", "open", "insert"}, base : SUBSET Rights, inheriting : SUBSET Rights]

At(f, o) == {h \in Holds : f[h] = o}
InEntry(e, o) == \E fd \in DOMAIN e : e[fd].object = o
OneEntryEach(e) == \A fd, gd \in DOMAIN e : e[fd].object = e[gd].object => fd = gd

Typed ==
    /\ entry \in [Open -> Entries]
    /\ refs \in [Objects -> Nat]
    /\ held \in Held
    /\ stray \in [Objects -> Nat]
    /\ op \in [Threads -> Ops]

\* What a thread holds at each place of its operation.
OpsHold ==
    \A t \in Threads :
        /\ op[t].at \in {"idle", "insert"} => \A s \in Slots : held[<<t, s>>] = None
        /\ op[t].at = "open" => held[<<t, 1>>] # None /\ held[<<t, 2>>] = None

\* The initial descriptors are inserted one after the other, before any thread
\* runs.
InitInOrder ==
    phase = "init" => /\ \E n \in Nat : Open = 0 .. n - 1
                      /\ \A t \in Threads : op[t].at = "idle"

IInv == Typed /\ OpsHold /\ InitInOrder /\ RefcountExact

-----------------------------------------------------------------------------
(* Counting.                                                                 *)
LEMMA AtFinite == ASSUME NEW f, NEW o PROVE IsFiniteSet(At(f, o)) /\ Cardinality(At(f, o)) \in Nat
<1>1. IsFiniteSet(Slots)
  <2>1. IsFiniteSet({} \union {1})
    BY FS_EmptySet, FS_AddElement
  <2>2. IsFiniteSet(({} \union {1}) \union {2})
    BY <2>1, FS_AddElement
  <2>3. Slots = ({} \union {1}) \union {2}
    BY DEF Slots
  <2> QED
    BY <2>2, <2>3
<1>2. IsFiniteSet(Holds)
  BY <1>1, FS_Product, ThreadsAssumption DEF Holds
<1>3. At(f, o) \subseteq Holds
  BY DEF At
<1> QED
  BY <1>2, <1>3, FS_Subset, FS_CardinalityType

LEMMA AtGains ==
    ASSUME NEW f \in Held, NEW h \in Holds, f[h] = None, NEW o \in Objects, NEW x \in Objects
    PROVE  Cardinality(At([f EXCEPT ![h] = o], x))
              = Cardinality(At(f, x)) + IF x = o THEN 1 ELSE 0
<1>1. h \notin At(f, x)
  BY NoneAssumption DEF At
<1>2. CASE x = o
  <2>1. At([f EXCEPT ![h] = o], x) = At(f, x) \union {h}
    BY <1>2 DEF At, Held
  <2> QED
    BY <1>1, <1>2, <2>1, AtFinite, FS_AddElement
<1>3. CASE x # o
  <2>1. At([f EXCEPT ![h] = o], x) = At(f, x)
    BY <1>1, <1>3 DEF At, Held
  <2> QED
    BY <1>3, <2>1, AtFinite
<1> QED
  BY <1>2, <1>3

LEMMA AtLoses ==
    ASSUME NEW f \in Held, NEW h \in Holds, f[h] \in Objects, NEW x \in Objects
    PROVE  /\ Cardinality(At([f EXCEPT ![h] = None], x))
                 = Cardinality(At(f, x)) - IF x = f[h] THEN 1 ELSE 0
           /\ x = f[h] => Cardinality(At(f, x)) >= 1
<1> DEFINE g == [f EXCEPT ![h] = None]
<1>1. g \in Held /\ g[h] = None
  BY DEF Held
<1>2. [g EXCEPT ![h] = f[h]] = f
  BY DEF Held
<1>3. Cardinality(At([g EXCEPT ![h] = f[h]], x)) = Cardinality(At(g, x)) + IF x = f[h] THEN 1 ELSE 0
  <2> HIDE DEF g
  <2> QED
    BY <1>1, AtGains
<1>4. Cardinality(At(g, x)) \in Nat /\ Cardinality(At(f, x)) \in Nat
  BY AtFinite
<1> HIDE DEF g
<1>5. /\ Cardinality(At(g, x)) = Cardinality(At(f, x)) - IF x = f[h] THEN 1 ELSE 0
      /\ x = f[h] => Cardinality(At(f, x)) >= 1
  <2>1. Cardinality(At(f, x)) = Cardinality(At(g, x)) + IF x = f[h] THEN 1 ELSE 0
    BY <1>2, <1>3
  <2> QED
    BY <2>1, <1>4
<1> QED
  BY <1>5 DEF g

\* RefcountExact in terms of the above.
LEMMA Exact ==
    RefcountExact <=>
        /\ OneEntryEach(entry)
        /\ \A o \in Objects : refs[o] = Cardinality(At(held, o)) + stray[o] + IF InEntry(entry, o) THEN 1 ELSE 0
BY DEF RefcountExact, OneEntryEach, InEntry, InTable, HeldAt, At, Holds, Open

LEMMA StrayCounts == ASSUME IInv, NEW o \in Objects PROVE stray[o] \in Nat
BY DEF IInv, Typed

-----------------------------------------------------------------------------
(* What a thread holds.                                                      *)
LEMMA IdleHoldsNone ==
    ASSUME OpsHold, NEW t \in Threads, op[t] = Idle \/ op[t].at \in {"idle", "insert"}
    PROVE  held[<<t, 1>>] = None /\ held[<<t, 2>>] = None
<1>1. op[t].at \in {"idle", "insert"}
  BY DEF Idle
<1>2. 1 \in Slots /\ 2 \in Slots
  BY DEF Slots
<1> QED
  BY <1>1, <1>2 DEF OpsHold

LEMMA OpAfter ==
    ASSUME op \in [Threads -> Ops], OpsHold, NEW t \in Threads, NEW v,
           op' = [op EXCEPT ![t] = v],
           \A u \in Threads \ {t}, r \in Slots : held'[<<u, r>>] = held[<<u, r>>],
           v.at \in {"idle", "insert"} => \A s \in Slots : held'[<<t, s>>] = None,
           v.at = "open" => held'[<<t, 1>>] # None /\ held'[<<t, 2>>] = None
    PROVE  OpsHold'
<1> SUFFICES ASSUME NEW u \in Threads
             PROVE  /\ op'[u].at \in {"idle", "insert"} => \A s \in Slots : held'[<<u, s>>] = None
                    /\ op'[u].at = "open" => held'[<<u, 1>>] # None /\ held'[<<u, 2>>] = None
  BY DEF OpsHold
<1>1. 1 \in Slots /\ 2 \in Slots
  BY DEF Slots
<1>2. op'[u] = IF u = t THEN v ELSE op[u]
  OBVIOUS
<1>3. CASE u = t
  BY <1>2, <1>3
<1>4. CASE u # t
  BY <1>1, <1>2, <1>4 DEF OpsHold
<1> QED
  BY <1>3, <1>4

-----------------------------------------------------------------------------
(* The steps, by what they do to references.                                 *)
\* A reference is taken through a descriptor.
LEMMA AcquireStep ==
    ASSUME IInv, NEW t \in Threads, NEW s \in Slots, NEW fd \in Open,
           held[<<t, s>>] = None, Acquire(t, s, fd), entry' = entry, stray' = stray
    PROVE  RefcountExact' /\ held' \in Held /\ refs' \in [Objects -> Nat]
<1> DEFINE o == entry[fd].object
<1>1. o \in Objects /\ <<t, s>> \in Holds
  BY DEF IInv, Typed, Entries, Holds, Open
<1>2. refs' = [refs EXCEPT ![o] = @ + 1] /\ held' = [held EXCEPT ![<<t, s>>] = o]
  BY DEF Acquire
<1>3. refs \in [Objects -> Nat] /\ held \in Held
  BY DEF IInv, Typed
<1> HIDE DEF o
<1>4. held' \in Held /\ refs' \in [Objects -> Nat]
  BY <1>1, <1>2, <1>3 DEF Held
<1>5. ASSUME NEW x \in Objects
      PROVE  refs'[x] = Cardinality(At(held', x)) + stray[x] + IF InEntry(entry, x) THEN 1 ELSE 0
  <2>1. Cardinality(At(held', x)) = Cardinality(At(held, x)) + IF x = o THEN 1 ELSE 0
    BY <1>1, <1>2, <1>3, AtGains
  <2>2. refs[x] = Cardinality(At(held, x)) + stray[x] + IF InEntry(entry, x) THEN 1 ELSE 0
    BY Exact DEF IInv
  <2>3. refs'[x] = refs[x] + IF x = o THEN 1 ELSE 0
    BY <1>1, <1>2, <1>3
  <2> QED
    BY <2>1, <2>2, <2>3, AtFinite, StrayCounts
<1>6. OneEntryEach(entry)
  BY Exact DEF IInv
<1>7. RefcountExact'
  <2>1. \A x \in Objects : refs'[x] = Cardinality(At(held', x)) + stray[x] + IF InEntry(entry', x) THEN 1 ELSE 0
    BY <1>5
  <2> QED
    BY <2>1, <1>6 DEF RefcountExact, OneEntryEach, InEntry, InTable, HeldAt, At, Holds, Open
<1> QED
  BY <1>4, <1>7

\* A reference that an operation has is given back.
LEMMA ReleaseStep ==
    ASSUME IInv, NEW h \in Holds, held[h] # None, Release(held[h]),
           held' = [held EXCEPT ![h] = None], entry' = entry, stray' = stray
    PROVE  RefcountExact' /\ held' \in Held /\ refs' \in [Objects -> Nat]
<1>1. held[h] \in Objects /\ refs \in [Objects -> Nat] /\ held \in Held
  BY DEF IInv, Typed, Held
<1>2. refs' = [refs EXCEPT ![held[h]] = @ - 1]
  BY DEF Release
<1>3. ASSUME NEW x \in Objects
      PROVE  /\ refs'[x] = Cardinality(At(held', x)) + stray[x] + IF InEntry(entry, x) THEN 1 ELSE 0
             /\ refs'[x] \in Nat
  <2>1. Cardinality(At(held', x)) = Cardinality(At(held, x)) - IF x = held[h] THEN 1 ELSE 0
    BY <1>1, AtLoses
  <2>2. refs[x] = Cardinality(At(held, x)) + stray[x] + IF InEntry(entry, x) THEN 1 ELSE 0
    BY Exact DEF IInv
  <2>3. refs'[x] = refs[x] - IF x = held[h] THEN 1 ELSE 0
    BY <1>1, <1>2
  <2> QED
    BY <2>1, <2>2, <2>3, AtFinite, StrayCounts
<1>4. held' \in Held /\ refs' \in [Objects -> Nat]
  BY <1>1, <1>2, <1>3 DEF Held
<1>5. OneEntryEach(entry)
  BY Exact DEF IInv
<1>6. RefcountExact'
  <2>1. \A x \in Objects : refs'[x] = Cardinality(At(held', x)) + stray[x] + IF InEntry(entry', x) THEN 1 ELSE 0
    BY <1>3
  <2> QED
    BY <2>1, <1>5 DEF RefcountExact, OneEntryEach, InEntry, InTable, HeldAt, At, Holds, Open
<1> QED
  BY <1>4, <1>6

\* References stay; descriptors keep their objects.
LEMMA SameReferences ==
    ASSUME IInv, held' = held, refs' = refs, stray' = stray, DOMAIN entry' = Open,
           \A fd \in Open : entry'[fd].object = entry[fd].object
    PROVE  RefcountExact'
BY DEF IInv, RefcountExact, InTable, HeldAt, Open

\* A new object in a free descriptor.
LEMMA AttachStep ==
    ASSUME IInv, NEW fd, fd \notin Open, NEW o \in Objects, refs[o] = 0,
           NEW b \in SUBSET Rights, NEW i \in SUBSET Rights, Attach(fd, o, b, i),
           refs' = [refs EXCEPT ![o] = 1], held' = held, stray' = stray
    PROVE  /\ RefcountExact' /\ refs' \in [Objects -> Nat]
           /\ entry' \in [DOMAIN entry' -> Entries]
           /\ DOMAIN entry' = Open \union {fd}
<1>1. refs \in [Objects -> Nat] /\ held \in Held /\ entry \in [Open -> Entries]
  BY DEF IInv, Typed
<1>2. /\ DOMAIN entry' = Open \union {fd}
      /\ \A gd \in Open \union {fd} :
            entry'[gd] = IF gd = fd THEN [object |-> o, base |-> b, inheriting |-> i] ELSE entry[gd]
      /\ entry' \in [DOMAIN entry' -> Entries]
  BY <1>1 DEF Attach, Put, Open, Entries
<1>3. ~InEntry(entry, o) /\ Cardinality(At(held, o)) = 0 /\ stray[o] = 0
  <2>1. refs[o] = Cardinality(At(held, o)) + stray[o] + IF InEntry(entry, o) THEN 1 ELSE 0
    BY Exact DEF IInv
  <2> QED
    BY <2>1, AtFinite, StrayCounts
<1>4. OneEntryEach(entry')
  <2>1. OneEntryEach(entry)
    BY Exact DEF IInv
  <2> QED
    BY <1>2, <1>3, <2>1 DEF OneEntryEach, InEntry, Open
<1>5. \A x \in Objects : InEntry(entry', x) <=> InEntry(entry, x) \/ x = o
  BY <1>2 DEF InEntry, Open
<1>6. ASSUME NEW x \in Objects
      PROVE  refs'[x] = Cardinality(At(held, x)) + stray[x] + IF InEntry(entry', x) THEN 1 ELSE 0
  <2>1. refs[x] = Cardinality(At(held, x)) + stray[x] + IF InEntry(entry, x) THEN 1 ELSE 0
    BY Exact DEF IInv
  <2> QED
    BY <1>1, <1>3, <1>5, <2>1, StrayCounts
<1>7. RefcountExact'
  BY <1>4, <1>6 DEF RefcountExact, OneEntryEach, InEntry, InTable, HeldAt, At, Holds, Open
<1> QED
  BY <1>1, <1>2, <1>7

\* close: the reference of the descriptor becomes that of the operation.
LEMMA CloseStep ==
    ASSUME IInv, NEW t \in Threads, NEW fd \in Open, Close(t, fd)
    PROVE  /\ RefcountExact' /\ held' \in Held
           /\ entry' \in [DOMAIN entry' -> Entries]
<1> DEFINE o == entry[fd].object
           h == <<t, 1>>
<1>1. /\ refs \in [Objects -> Nat] /\ held \in Held /\ entry \in [Open -> Entries]
      /\ o \in Objects /\ h \in Holds /\ refs' = refs /\ stray' = stray
  BY DEF IInv, Typed, Entries, Holds, Slots, Close
<1>2. held[h] = None
  BY IdleHoldsNone DEF IInv, Close
<1>3. held' = [held EXCEPT ![h] = o]
  BY DEF Close
<1>4. /\ DOMAIN entry' = Open \ {fd}
      /\ \A gd \in Open \ {fd} : entry'[gd] = entry[gd]
      /\ entry' \in [DOMAIN entry' -> Entries]
  BY <1>1 DEF Close, Remove, Restrict, Open
<1>5. OneEntryEach(entry)
  BY Exact DEF IInv
<1> HIDE DEF h
<1>6. \A x \in Objects : InEntry(entry', x) <=> InEntry(entry, x) /\ x # o
  BY <1>4, <1>5 DEF InEntry, OneEntryEach, Open
<1>7. InEntry(entry, o)
  BY DEF InEntry, Open
<1> HIDE DEF o
<1>8. ASSUME NEW x \in Objects
      PROVE  refs'[x] = Cardinality(At(held', x)) + stray[x] + IF InEntry(entry', x) THEN 1 ELSE 0
  <2>1. Cardinality(At(held', x)) = Cardinality(At(held, x)) + IF x = o THEN 1 ELSE 0
    BY <1>1, <1>2, <1>3, AtGains
  <2>2. refs[x] = Cardinality(At(held, x)) + stray[x] + IF InEntry(entry, x) THEN 1 ELSE 0
    BY Exact DEF IInv
  <2> QED
    BY <1>1, <1>6, <1>7, <2>1, <2>2, AtFinite, StrayCounts
<1>9. OneEntryEach(entry')
  BY <1>4, <1>5 DEF OneEntryEach, Open
<1>10. RefcountExact'
  BY <1>1, <1>8, <1>9 DEF RefcountExact, OneEntryEach, InEntry, InTable, HeldAt, At, Holds, Open
<1> QED
  BY <1>1, <1>3, <1>4, <1>10 DEF Held

\* renumber: the object of `to` loses its descriptor, that of `from` moves.
LEMMA RenumberStep ==
    ASSUME IInv, NEW t \in Threads, NEW from \in Open, NEW to \in Open, Renumber(t, from, to)
    PROVE  /\ RefcountExact' /\ refs' \in [Objects -> Nat]
           /\ entry' \in [DOMAIN entry' -> Entries]
<1> DEFINE o == entry[to].object
<1>1. /\ refs \in [Objects -> Nat] /\ entry \in [Open -> Entries]
      /\ o \in Objects /\ held' = held /\ from # to /\ stray' = stray
      /\ refs' = [refs EXCEPT ![o] = @ - 1]
  BY DEF IInv, Typed, Entries, Renumber, Release
<1>2. /\ DOMAIN entry' = Open \ {from}
      /\ \A gd \in Open \ {from} : entry'[gd] = IF gd = to THEN entry[from] ELSE entry[gd]
      /\ entry' \in [DOMAIN entry' -> Entries]
  BY <1>1 DEF Renumber, Remove, Put, Restrict, Open
<1>3. OneEntryEach(entry)
  BY Exact DEF IInv
<1>4. \A x \in Objects : InEntry(entry', x) <=> InEntry(entry, x) /\ x # o
  <2>1. ASSUME NEW x \in Objects, InEntry(entry', x) PROVE InEntry(entry, x) /\ x # o
    <3>1. PICK gd \in Open \ {from} : entry'[gd].object = x
      BY <1>2, <2>1 DEF InEntry
    <3> QED
      BY <1>1, <1>2, <1>3, <3>1 DEF InEntry, OneEntryEach, Open
  <2>2. ASSUME NEW x \in Objects, InEntry(entry, x), x # o PROVE InEntry(entry', x)
    <3>1. PICK gd \in Open \ {to} : entry[gd].object = x
      BY <2>2 DEF InEntry, Open
    <3>2. CASE gd = from
      <4>1. to \in DOMAIN entry' /\ entry'[to].object = x
        BY <1>1, <1>2, <3>1, <3>2
      <4> QED
        BY <4>1 DEF InEntry
    <3>3. CASE gd # from
      <4>1. gd \in DOMAIN entry' /\ entry'[gd].object = x
        BY <1>2, <3>1, <3>3
      <4> QED
        BY <4>1 DEF InEntry
    <3> QED
      BY <3>2, <3>3
  <2> QED
    BY <2>1, <2>2
<1>5. InEntry(entry, o)
  BY DEF InEntry, Open
<1> HIDE DEF o
<1>6. ASSUME NEW x \in Objects
      PROVE  /\ refs'[x] = Cardinality(At(held, x)) + stray[x] + IF InEntry(entry', x) THEN 1 ELSE 0
             /\ refs'[x] \in Nat
  <2>1. refs[x] = Cardinality(At(held, x)) + stray[x] + IF InEntry(entry, x) THEN 1 ELSE 0
    BY Exact DEF IInv
  <2>2. refs'[x] = refs[x] - IF x = o THEN 1 ELSE 0
    BY <1>1
  <2> QED
    BY <1>4, <1>5, <2>1, <2>2, AtFinite, StrayCounts
<1>7. OneEntryEach(entry')
  <2> SUFFICES ASSUME NEW fd \in Open \ {from}, NEW gd \in Open \ {from},
                      entry'[fd].object = entry'[gd].object
               PROVE  fd = gd
    BY <1>2 DEF OneEntryEach
  <2> QED
    BY <1>2, <1>3 DEF OneEntryEach, Open
<1>8. RefcountExact'
  BY <1>1, <1>6, <1>7 DEF RefcountExact, OneEntryEach, InEntry, InTable, HeldAt, At, Holds, Open
<1>9. refs' \in [Objects -> Nat]
  BY <1>1, <1>6
<1> QED
  BY <1>2, <1>8, <1>9

\* At the end the table's references go.
LEMMA DestroyStep ==
    ASSUME IInv, Destroy
    PROVE  RefcountExact' /\ refs' \in [Objects -> Nat] /\ entry' \in [DOMAIN entry' -> Entries]
<1>1. /\ held' = held /\ stray' = stray /\ DOMAIN entry' = {}
      /\ refs' = [o \in Objects |-> IF InEntry(entry, o) THEN refs[o] - 1 ELSE refs[o]]
      /\ entry' \in [DOMAIN entry' -> Entries]
  BY DEF Destroy, InEntry, Open
<1>2. ASSUME NEW x \in Objects PROVE refs'[x] = Cardinality(At(held, x)) + stray[x] /\ refs'[x] \in Nat
  <2>1. refs[x] = Cardinality(At(held, x)) + stray[x] + IF InEntry(entry, x) THEN 1 ELSE 0
    BY Exact DEF IInv
  <2> QED
    BY <1>1, <2>1, AtFinite, StrayCounts
<1>3. RefcountExact'
  BY <1>1, <1>2 DEF RefcountExact, InTable, HeldAt, At, Holds, Open
<1>4. refs' \in [Objects -> Nat]
  BY <1>1, <1>2
<1> QED
  BY <1>1, <1>3, <1>4

\* path_link and path_symlink lose what they hold.
LEMMA NotValidStep ==
    ASSUME IInv, NEW t \in Threads, PathNotValid(t)
    PROVE  /\ RefcountExact' /\ held' \in Held /\ stray' \in [Objects -> Nat]
           /\ \A u \in Threads, r \in Slots :
                 held'[<<u, r>>] = IF u = t THEN None ELSE held[<<u, r>>]
<1> DEFINE h1 == <<t, 1>>
           h2 == <<t, 2>>
           g == [held EXCEPT ![h1] = None]
<1>1. /\ refs \in [Objects -> Nat] /\ held \in Held /\ stray \in [Objects -> Nat]
      /\ UNCHANGED <<entry, refs>>
      /\ h1 \in Holds /\ h2 \in Holds /\ h1 # h2
  BY DEF IInv, Typed, Holds, Slots, PathNotValid
<1>2. /\ held' = [g EXCEPT ![h2] = None]
      /\ stray' = [o \in Objects |-> stray[o] + Has(h1, o) + Has(h2, o)]
  BY DEF PathNotValid
<1>3. /\ g \in Held /\ g[h2] = held[h2]
      /\ held' \in Held
      /\ \A k \in Holds : held'[k] = IF k = h1 \/ k = h2 THEN None ELSE held[k]
  BY <1>1, <1>2 DEF Held
<1>4. \A u \in Threads, r \in Slots :
         held'[<<u, r>>] = IF u = t THEN None ELSE held[<<u, r>>]
  BY <1>3 DEF Holds, Slots
<1> HIDE DEF h1, h2
<1>5. ASSUME NEW f \in Held, NEW h \in Holds, NEW x \in Objects
      PROVE  Cardinality(At([f EXCEPT ![h] = None], x))
                = Cardinality(At(f, x)) - IF x = f[h] THEN 1 ELSE 0
  <2>1. CASE f[h] \in Objects
    BY <2>1, AtLoses
  <2>2. CASE f[h] = None
    <3>1. [f EXCEPT ![h] = None] = f /\ x # f[h]
      BY <2>2, NoneAssumption DEF Held
    <3> QED
      BY <3>1, AtFinite
  <2> QED
    BY <2>1, <2>2 DEF Held
<1>6. ASSUME NEW x \in Objects
      PROVE  /\ refs'[x] = Cardinality(At(held', x)) + stray'[x] + IF InEntry(entry, x) THEN 1 ELSE 0
             /\ stray'[x] \in Nat
  <2>1. Cardinality(At(g, x)) = Cardinality(At(held, x)) - Has(h1, x)
    BY <1>1, <1>5 DEF Has
  <2>2. Cardinality(At(held', x)) = Cardinality(At(g, x)) - Has(h2, x)
    <3> HIDE DEF g
    <3>1. Cardinality(At(held', x)) = Cardinality(At(g, x)) - IF x = g[h2] THEN 1 ELSE 0
      BY <1>1, <1>2, <1>3, <1>5
    <3> QED
      BY <1>3, <3>1 DEF Has
  <2>3. refs[x] = Cardinality(At(held, x)) + stray[x] + IF InEntry(entry, x) THEN 1 ELSE 0
    BY Exact DEF IInv
  <2>4. Has(h1, x) \in Nat /\ Has(h2, x) \in Nat
    BY DEF Has
  <2>5. stray'[x] = stray[x] + Has(h1, x) + Has(h2, x)
    BY <1>2
  <2>6. /\ Cardinality(At(held, x)) \in Nat /\ Cardinality(At(g, x)) \in Nat
        /\ Cardinality(At(held', x)) \in Nat /\ stray[x] \in Nat
    BY <1>1, AtFinite
  <2> HIDE DEF g
  <2> QED
    BY <1>1, <2>1, <2>2, <2>3, <2>4, <2>5, <2>6
<1>7. RefcountExact'
  <2>1. OneEntryEach(entry)
    BY Exact DEF IInv
  <2>2. \A x \in Objects : refs'[x] = Cardinality(At(held', x)) + stray'[x]
                                       + IF InEntry(entry', x) THEN 1 ELSE 0
    BY <1>1, <1>6
  <2> QED
    BY <1>1, <2>1, <2>2 DEF RefcountExact, OneEntryEach, InEntry, InTable, HeldAt, At, Holds, Open
<1>8. stray' \in [Objects -> Nat]
  BY <1>2, <1>6
<1> QED
  BY <1>3, <1>4, <1>7, <1>8

\* fd_table_insert loses the reference to the new object.
LEMMA StrandStep ==
    ASSUME IInv, NEW o \in Objects, refs[o] = 0, refs' = [refs EXCEPT ![o] = 1],
           stray' = [stray EXCEPT ![o] = @ + 1], held' = held, entry' = entry
    PROVE  RefcountExact' /\ refs' \in [Objects -> Nat] /\ stray' \in [Objects -> Nat]
<1>1. refs \in [Objects -> Nat] /\ stray \in [Objects -> Nat]
  BY DEF IInv, Typed
<1>2. ASSUME NEW x \in Objects
      PROVE  refs'[x] = Cardinality(At(held, x)) + stray'[x] + IF InEntry(entry, x) THEN 1 ELSE 0
  <2>1. refs[x] = Cardinality(At(held, x)) + stray[x] + IF InEntry(entry, x) THEN 1 ELSE 0
    BY Exact DEF IInv
  <2> QED
    BY <1>1, <2>1, AtFinite
<1>3. OneEntryEach(entry)
  BY Exact DEF IInv
<1>4. RefcountExact'
  <2>1. \A x \in Objects : refs'[x] = Cardinality(At(held', x)) + stray'[x]
                                       + IF InEntry(entry', x) THEN 1 ELSE 0
    BY <1>2
  <2> QED
    BY <2>1, <1>3 DEF RefcountExact, OneEntryEach, InEntry, InTable, HeldAt, At, Holds, Open
<1> QED
  BY <1>1, <1>4

\* At a start nobody has a reference.
LEMMA NoneHeld ==
    ASSUME NEW f, f = [h \in Holds |-> None]
    PROVE  \A o \in Objects : Cardinality(At(f, o)) = 0
<1>1. \A o : At(f, o) = {} \/ o = None
  BY DEF At
<1> QED
  BY <1>1, NoneAssumption, FS_EmptySet

LEMMA RestartStep == ASSUME NEW t \in Threads, Restarts(t) PROVE IInv'
<1>1. Typed' /\ OpsHold'
  BY DEF Restarts, Typed, OpsHold, Open, Held, Holds, Slots, Ops, Idle
<1>2. InitInOrder'
  <2>1. Open' = 0 .. 0 - 1
    BY DEF Restarts, Open
  <2> QED
    BY <2>1 DEF InitInOrder, Restarts, Idle
<1>3. RefcountExact'
  <2>1. \A o \in Objects : Cardinality(At(held', o)) = 0
    BY NoneHeld DEF Restarts, Holds
  <2> QED
    BY <2>1 DEF Restarts, RefcountExact, InTable, HeldAt, At, Holds, Open
<1> QED
  BY <1>1, <1>2, <1>3 DEF IInv

-----------------------------------------------------------------------------
(* The invariant.                                                            *)
LEMMA FdInit == Init => IInv
<1> SUFFICES ASSUME Init PROVE IInv
  OBVIOUS
<1>1. Typed
  BY DEF Init, Typed, Open, Held, Holds, Ops, Idle
<1>2. OpsHold
  BY DEF Init, OpsHold, Holds, Slots, Idle
<1>3. InitInOrder
  <2>1. Open = 0 .. 0 - 1
    BY DEF Init, Open
  <2> QED
    BY <2>1 DEF InitInOrder, Init, Idle
<1>4. RefcountExact
  <2>1. \A o \in Objects : Cardinality(At(held, o)) = 0
    BY NoneHeld DEF Init, Holds
  <2> QED
    BY <2>1 DEF Init, RefcountExact, InTable, HeldAt, At, Holds, Open
<1> QED
  BY <1>1, <1>2, <1>3, <1>4 DEF IInv

LEMMA FdStep == IInv /\ [Next]_vars => IInv'
<1> SUFFICES ASSUME IInv, [Next]_vars PROVE IInv'
  OBVIOUS
<1> USE DEF IInv
<1>1. CASE \E o \in Objects : InsertExisting(o)
  <2>1. PICK o \in Objects : InsertExisting(o)
    BY <1>1
  <2> DEFINE fd == Cardinality(Open)
             l == IF fd < Streams THEN <<"stdio", 0>> ELSE <<"preopen", fd>>
  <2>2. PICK n \in Nat : Open = 0 .. n - 1
    BY <2>1 DEF InsertExisting, InitInOrder
  <2>3. fd = n
    BY <2>2, FS_Interval
  <2>4. fd \notin Open /\ Open \union {fd} = 0 .. (n + 1) - 1
    BY <2>2, <2>3
  <2>5. /\ MaxInheriting(l) \in SUBSET Rights /\ Rights \in SUBSET Rights
        /\ Attach(fd, o, Rights, MaxInheriting(l))
        /\ refs[o] = 0 /\ refs' = [refs EXCEPT ![o] = 1]
        /\ held' = held /\ stray' = stray /\ op' = op /\ phase' = phase
    BY <2>1 DEF InsertExisting, MaxInheriting
  <2> HIDE DEF fd, l
  <2>6. /\ RefcountExact' /\ refs' \in [Objects -> Nat]
        /\ entry' \in [DOMAIN entry' -> Entries] /\ DOMAIN entry' = Open \union {fd}
    BY <2>4, <2>5, AttachStep
  <2>7. InitInOrder'
    <3>1. phase' = "init" /\ \A t \in Threads : op'[t].at = "idle"
      BY <2>1, <2>5 DEF InsertExisting, InitInOrder
    <3>2. Open' = 0 .. (n + 1) - 1 /\ n + 1 \in Nat
      BY <2>4, <2>6 DEF Open
    <3> QED
      BY <3>1, <3>2 DEF InitInOrder
  <2> QED
    BY <2>5, <2>6, <2>7 DEF Typed, OpsHold, Open
<1>2. CASE Start
  BY <1>2, SameReferences DEF Start, Typed, OpsHold, InitInOrder, Open
<1>3. CASE Destroy
  BY <1>3, DestroyStep DEF Destroy, Typed, OpsHold, InitInOrder, Open
<1>4. ASSUME NEW t \in Threads, OnObject(t) PROVE IInv'
  <2>1. ASSUME NEW fd \in Open, NEW n \in SUBSET Rights, Use(t, fd, n) PROVE IInv'
    <3>1. held[<<t, 1>>] = None /\ held[<<t, 2>>] = None
      BY <2>1, IdleHoldsNone DEF Use
    <3>2. /\ Acquire(t, 1, fd) /\ entry' = entry /\ stray' = stray /\ phase' = phase
          /\ op' = [op EXCEPT ![t] = [Idle EXCEPT !.at = "use"]]
      BY <2>1 DEF Use, Sets
    <3>3. RefcountExact' /\ held' \in Held /\ refs' \in [Objects -> Nat]
      BY <3>1, <3>2, AcquireStep DEF Slots
    <3>4. \A u \in Threads \ {t}, r \in Slots : held'[<<u, r>>] = held[<<u, r>>]
      BY <3>2 DEF Acquire, Typed, Held, Holds, Slots
    <3>5. OpsHold'
      BY <3>2, <3>4, OpAfter DEF Typed, Idle
    <3> QED
      BY <2>1, <3>2, <3>3, <3>5 DEF Use, Typed, InitInOrder, Open, Ops, Idle
  <2>2. ASSUME NEW fd \in Open, NEW n \in SUBSET Rights, UseAlso(t, fd, n) PROVE IInv'
    <3>1. held[<<t, 2>>] = None /\ op[t].at = "use"
      BY <2>2 DEF UseAlso
    <3>2. /\ Acquire(t, 2, fd) /\ entry' = entry /\ stray' = stray /\ phase' = phase /\ op' = op
      BY <2>2 DEF UseAlso
    <3>3. RefcountExact' /\ held' \in Held /\ refs' \in [Objects -> Nat]
      BY <3>1, <3>2, AcquireStep DEF Slots
    <3>4. OpsHold'
      <4>1. \A u \in Threads \ {t}, r \in Slots : held'[<<u, r>>] = held[<<u, r>>]
        BY <3>2 DEF Acquire, Typed, Held, Holds, Slots
      <4>2. 1 \in Slots /\ 2 \in Slots
        BY DEF Slots
      <4> QED
        BY ZenonT(60), <3>1, <3>2, <4>1, <4>2 DEF OpsHold
    <3> QED
      BY <3>2, <3>3, <3>4 DEF Typed, InitInOrder, Open
  <2>3. ASSUME NEW s \in Slots, ReleaseObject(t, s) PROVE IInv'
    <3>1. /\ op[t].at \in {"use", "put"} /\ held[<<t, s>>] # None /\ Release(held[<<t, s>>])
          /\ held' = [held EXCEPT ![<<t, s>>] = None] /\ UNCHANGED <<entry, stray, phase>>
      BY <2>3 DEF ReleaseObject
    <3>2. RefcountExact' /\ held' \in Held /\ refs' \in [Objects -> Nat]
      BY <3>1, ReleaseStep DEF Holds
    <3>3. OpsHold' /\ op' \in [Threads -> Ops]
      <4>0. \A u \in Threads, r \in Slots :
               held'[<<u, r>>] = IF u = t /\ r = s THEN None ELSE held[<<u, r>>]
        <5>1. held \in Held /\ held' = [held EXCEPT ![<<t, s>>] = None]
          BY <3>1 DEF Typed
        <5> QED
          BY <5>1 DEF Held, Holds
      <4>1. CASE \A r \in Slots \ {s} : held[<<t, r>>] = None
        <5>1. op' = [op EXCEPT ![t] = Idle]
          BY <2>3, <4>1 DEF ReleaseObject
        <5>2. \A r \in Slots : held'[<<t, r>>] = None
          BY <4>0, <4>1
        <5>3. OpsHold'
          BY <4>0, <5>1, <5>2, OpAfter DEF Typed, Idle
        <5> QED
          BY <5>1, <5>3 DEF Typed, Ops, Idle
      <4>2. CASE ~ \A r \in Slots \ {s} : held[<<t, r>>] = None
        <5>1. op' = [op EXCEPT ![t] = [Idle EXCEPT !.at = "put"]]
          BY <2>3, <4>2 DEF ReleaseObject, Sets
        <5>2. OpsHold'
          BY <4>0, <5>1, OpAfter DEF Typed, Idle
        <5> QED
          BY <5>1, <5>2 DEF Typed, Ops, Idle
      <4> QED
        BY <4>1, <4>2
    <3> QED
      BY <3>1, <3>2, <3>3 DEF Typed, InitInOrder, Open
  <2>4. CASE PathNotValid(t)
    <3>1. op' = [op EXCEPT ![t] = Idle] /\ UNCHANGED <<entry, refs, phase>>
      BY <2>4 DEF PathNotValid
    <3>2. OpsHold'
      BY <2>4, <3>1, NotValidStep, OpAfter DEF Typed, Idle
    <3> QED
      BY <2>4, <3>1, <3>2, NotValidStep DEF Typed, InitInOrder, Ops, Idle, Open
  <2> QED
    BY <1>4, <2>1, <2>2, <2>3, <2>4 DEF OnObject
<1>5. ASSUME NEW t \in Threads, OnTable(t) PROVE IInv'
  <2>1. ASSUME NEW fd \in Open, Close(t, fd) PROVE IInv'
    <3>1. /\ held' = [held EXCEPT ![<<t, 1>>] = entry[fd].object]
          /\ op' = [op EXCEPT ![t] = [Idle EXCEPT !.at = "put"]]
          /\ UNCHANGED <<refs, stray, phase>> /\ phase = "run"
      BY <2>1 DEF Close, Sets
    <3>2. \A u \in Threads \ {t}, r \in Slots : held'[<<u, r>>] = held[<<u, r>>]
      BY <3>1 DEF Typed, Held, Holds, Slots
    <3>3. OpsHold'
      BY <3>1, <3>2, OpAfter DEF Typed, Idle
    <3> QED
      BY <2>1, <3>1, <3>3, CloseStep DEF Typed, InitInOrder, Ops, Idle, Open
  <2>2. ASSUME NEW fd \in Open, NEW b \in SUBSET Rights, NEW i \in SUBSET Rights,
               SetRights(t, fd, b, i)
        PROVE  IInv'
    <3>1. /\ entry' \in [DOMAIN entry' -> Entries] /\ DOMAIN entry' = Open
          /\ \A gd \in Open : entry'[gd].object = entry[gd].object
          /\ UNCHANGED <<refs, held, stray, op, phase>>
      BY <2>2 DEF SetRights, Typed, Entries, Open
    <3> QED
      BY <3>1, SameReferences DEF Typed, OpsHold, InitInOrder, Open
  <2>3. ASSUME NEW from \in Open, NEW to \in Open, Renumber(t, from, to) PROVE IInv'
    <3>1. UNCHANGED <<held, stray, op, phase>> /\ phase = "run"
      BY <2>3 DEF Renumber
    <3> QED
      BY <2>3, <3>1, RenumberStep DEF Typed, OpsHold, InitInOrder, Open
  <2> QED
    BY <1>5, <2>1, <2>2, <2>3 DEF OnTable
<1>6. ASSUME NEW t \in Threads, Opens(t) PROVE IInv'
  <2>1. ASSUME NEW fd \in Open, NEW n \in SUBSET Rights, NEW b \in SUBSET Rights,
               NEW i \in SUBSET Rights, PathGet(t, fd, n, b, i)
        PROVE  IInv'
    <3>1. held[<<t, 1>>] = None /\ held[<<t, 2>>] = None
      BY <2>1, IdleHoldsNone DEF PathGet
    <3>2. /\ Acquire(t, 1, fd) /\ entry' = entry /\ stray' = stray /\ phase' = phase
          /\ op' = [op EXCEPT ![t] = [at |-> "open", base |-> b, inheriting |-> i]]
      BY <2>1 DEF PathGet
    <3>3. RefcountExact' /\ held' \in Held /\ refs' \in [Objects -> Nat]
      BY <3>1, <3>2, AcquireStep DEF Slots
    <3>4. entry[fd].object # None
      BY NoneAssumption DEF Typed, Entries
    <3>5. \A u \in Threads, r \in Slots :
             held'[<<u, r>>] = IF u = t /\ r = 1 THEN entry[fd].object ELSE held[<<u, r>>]
      <4>1. /\ held \in Held /\ 1 \in Slots
            /\ held' = [held EXCEPT ![<<t, 1>>] = entry[fd].object]
        BY <3>2 DEF Acquire, Typed, Slots
      <4> QED
        BY <4>1 DEF Held, Holds
    <3>6. held'[<<t, 1>>] # None /\ held'[<<t, 2>>] = None
      BY <3>1, <3>4, <3>5 DEF Slots
    <3>7. OpsHold'
      BY <3>2, <3>5, <3>6, OpAfter DEF Typed
    <3> QED
      BY <2>1, <3>2, <3>3, <3>7 DEF PathGet, Typed, InitInOrder, Open, Ops
  <2>2. CASE PathPut(t)
    <3>1. /\ op[t].at = "open" /\ Release(held[<<t, 1>>])
          /\ held' = [held EXCEPT ![<<t, 1>>] = None] /\ UNCHANGED <<entry, stray, phase>>
          /\ op' = [op EXCEPT ![t].at = "insert"] \/ op' = [op EXCEPT ![t] = Idle]
      BY <2>2 DEF PathPut
    <3>2. held[<<t, 1>>] # None /\ held[<<t, 2>>] = None
      BY <3>1 DEF OpsHold
    <3>3. RefcountExact' /\ held' \in Held /\ refs' \in [Objects -> Nat]
      BY <3>1, <3>2, ReleaseStep DEF Holds, Slots
    <3>4. PICK v \in Ops : op' = [op EXCEPT ![t] = v] /\ v.at \in {"idle", "insert"}
      <4>1. op' = [op EXCEPT ![t] = [op[t] EXCEPT !.at = "insert"]] \/ op' = [op EXCEPT ![t] = Idle]
        BY <3>1
      <4> QED
        BY <4>1 DEF Typed, Ops, Idle
    <3>5. \A u \in Threads, r \in Slots :
             held'[<<u, r>>] = IF u = t /\ r = 1 THEN None ELSE held[<<u, r>>]
      <4>1. held \in Held /\ 1 \in Slots /\ held' = [held EXCEPT ![<<t, 1>>] = None]
        BY <3>1 DEF Typed, Slots
      <4> QED
        BY <4>1 DEF Held, Holds
    <3>6. OpsHold'
      BY <3>2, <3>4, <3>5, OpAfter DEF Typed, Slots
    <3> QED
      BY <3>1, <3>3, <3>4, <3>6 DEF Typed, InitInOrder, Open
  <2>3. ASSUME NEW o \in Objects, NEW fd \in 0 .. FdMax, NEW l \in Opened,
               Insert(t, o, fd, l)
        PROVE  IInv'
    <3>1. /\ fd \notin Open /\ refs[o] = 0 /\ op[t].at = "insert"
          /\ op[t].base \in SUBSET Rights
          /\ op[t].inheriting \intersect MaxInheriting(l) \in SUBSET Rights
          /\ Attach(fd, o, op[t].base, op[t].inheriting \intersect MaxInheriting(l))
          /\ refs' = [refs EXCEPT ![o] = 1] /\ UNCHANGED <<held, stray, phase>>
          /\ op' = [op EXCEPT ![t] = Idle]
      BY <2>3 DEF Insert, NewObject, Typed, Ops
    <3>2. /\ RefcountExact' /\ refs' \in [Objects -> Nat]
          /\ entry' \in [DOMAIN entry' -> Entries]
      BY <3>1, AttachStep
    <3>3. OpsHold' /\ op' \in [Threads -> Ops]
      <4>1. \A s \in Slots : held'[<<t, s>>] = None
        BY <3>1 DEF OpsHold
      <4> QED
        BY <3>1, <4>1, OpAfter DEF Typed, Ops, Idle
    <3>4. InitInOrder'
      BY <3>1 DEF InitInOrder
    <3> QED
      BY <3>1, <3>2, <3>3, <3>4 DEF Typed, Open
  <2>4. CASE InsertFails(t)
    <3>1. UNCHANGED <<entry, refs, held, stray, phase>> /\ op' = [op EXCEPT ![t] = Idle]
          /\ op[t].at = "insert"
      BY <2>4 DEF InsertFails
    <3> QED
      BY <3>1, SameReferences DEF Typed, OpsHold, InitInOrder, Ops, Idle, Open
  <2>5. ASSUME NEW o \in Objects, NEW l \in Opened, InsertStrands(t, o, l) PROVE IInv'
    <3>1. /\ refs[o] = 0 /\ op[t].at = "insert"
          /\ refs' = [refs EXCEPT ![o] = 1] /\ stray' = [stray EXCEPT ![o] = @ + 1]
          /\ UNCHANGED <<entry, held, phase>> /\ op' = [op EXCEPT ![t] = Idle]
      BY <2>5 DEF InsertStrands, NewObject
    <3>2. RefcountExact' /\ refs' \in [Objects -> Nat] /\ stray' \in [Objects -> Nat]
      BY <3>1, StrandStep
    <3>3. OpsHold' /\ op' \in [Threads -> Ops]
      <4>1. \A s \in Slots : held'[<<t, s>>] = None
        BY <3>1 DEF OpsHold
      <4> QED
        BY <3>1, <4>1, OpAfter DEF Typed, Ops, Idle
    <3> QED
      BY <3>1, <3>2, <3>3 DEF Typed, InitInOrder, Open
  <2> QED
    BY <1>6, <2>1, <2>2, <2>3, <2>4, <2>5 DEF Opens
<1>7. CASE UNCHANGED vars
  BY <1>7, SameReferences DEF vars, Typed, OpsHold, InitInOrder, Open
<1>8. ASSUME NEW t \in Threads, Restarts(t) PROVE IInv'
  BY <1>8, RestartStep
<1> QED
  BY <1>1, <1>2, <1>3, <1>4, <1>5, <1>6, <1>7, <1>8 DEF Next

\* A reference count is the number of descriptors, operations and lost references
\* in every state, whatever is closed, renumbered, opened and used at the same
\* time: what is lost are the references of path_link, path_symlink and
\* fd_table_insert, and no more.
THEOREM RefcountExactCorrect == Spec => []RefcountExact
<1>1. IInv => RefcountExact
  BY DEF IInv
<1> QED
  BY <1>1, FdInit, FdStep, PTL DEF Spec

LEMMA CountedIsOpen == IInv => NoUseAfterClose
<1> SUFFICES ASSUME IInv, NEW h \in Holds, held[h] # None PROVE refs[held[h]] > 0
  BY DEF NoUseAfterClose, Holds
<1>1. held \in Held /\ held[h] \in Objects
  BY DEF IInv, Typed, Held
<1>2. Cardinality(At(held, held[h])) >= 1
  BY <1>1, AtLoses
<1>3. refs[held[h]] = Cardinality(At(held, held[h])) + stray[held[h]] + IF InEntry(entry, held[h]) THEN 1 ELSE 0
  BY <1>1, Exact DEF IInv
<1> QED
  BY <1>1, <1>2, <1>3, AtFinite, StrayCounts

\* Nobody works on a file that has been closed.
THEOREM NoUseAfterCloseCorrect == Spec => []NoUseAfterClose
BY FdInit, FdStep, CountedIsOpen, PTL DEF Spec

-----------------------------------------------------------------------------
(* Rights.                                                                   *)
\* Where the rights of a descriptor, and those an open asks for, may come from.
EntryFrom(fd) ==
    \/ \E gd \in Open : /\ entry'[fd].object = entry[gd].object
                        /\ Within(entry'[fd], entry[gd].base, entry[gd].inheriting)
    \/ \E t \in Threads : /\ op[t].at = "insert"
                           /\ Within(entry'[fd], op[t].base, op[t].inheriting)
OpFrom(t) ==
    \/ Within(op'[t], op[t].base, op[t].inheriting)
    \/ \E gd \in Open : Within(op'[t], entry[gd].inheriting, entry[gd].inheriting)

LEMMA RightsStep ==
    ASSUME IInv, Next, phase = "run"
    PROVE  (\A fd \in DOMAIN entry' : EntryFrom(fd)) /\ (\A t \in Threads : OpFrom(t))
<1> DEFINE EntriesFrom == \A fd \in DOMAIN entry' : EntryFrom(fd)
           OpsFrom == \A t \in Threads : OpFrom(t)
<1>1. entry' = entry => EntriesFrom
  BY DEF EntryFrom, Within, Open
<1>2. op' = op => OpsFrom
  BY DEF OpFrom, Within
<1>3. ASSUME NEW t \in Threads, \A u \in Threads \ {t} : op'[u] = op[u], OpFrom(t)
      PROVE  OpsFrom
  BY <1>3 DEF OpFrom, Within
<1>4. ASSUME NEW t \in Threads, NEW at, op' = [op EXCEPT ![t] = [Idle EXCEPT !.at = at]]
      PROVE  OpsFrom
  <2>1. /\ \A u \in Threads \ {t} : op'[u] = op[u]
        /\ op'[t].base = {} /\ op'[t].inheriting = {}
    BY <1>4 DEF IInv, Typed, Idle
  <2> QED
    BY <1>3, <2>1 DEF OpFrom, Within
<1>5. CASE Start
  BY <1>1, <1>2, <1>5 DEF Start
<1>6. CASE Destroy
  <2>1. DOMAIN entry' = {} /\ op' = op
    BY <1>6 DEF Destroy
  <2> QED
    BY <1>2, <2>1
<1>7. ASSUME NEW t \in Threads, op' = [op EXCEPT ![t] = Idle] PROVE OpsFrom
  <2>1. op' = [op EXCEPT ![t] = [Idle EXCEPT !.at = "idle"]]
    BY <1>7 DEF Idle
  <2> QED
    BY <1>4, <2>1
<1>8. ASSUME NEW t \in Threads, OnObject(t) PROVE EntriesFrom /\ OpsFrom
  <2>1. entry' = entry
    BY <1>8 DEF OnObject, Use, UseAlso, ReleaseObject, PathNotValid
  <2>2. \/ op' = op
        \/ op' = [op EXCEPT ![t] = Idle]
        \/ \E at \in {"use", "put"} : op' = [op EXCEPT ![t] = [Idle EXCEPT !.at = at]]
    BY <1>8 DEF OnObject, Use, UseAlso, ReleaseObject, PathNotValid, Sets
  <2> QED
    BY <1>1, <1>2, <1>4, <1>7, <2>1, <2>2
<1>9. ASSUME NEW t \in Threads, OnTable(t) PROVE EntriesFrom /\ OpsFrom
  <2>1. OpsFrom
    <3>1. op' = op \/ op' = [op EXCEPT ![t] = [Idle EXCEPT !.at = "put"]]
      BY <1>9 DEF OnTable, Close, SetRights, Renumber, Sets
    <3> QED
      BY <1>2, <1>4, <3>1
  <2>2. ASSUME NEW fd \in Open, Close(t, fd) PROVE EntriesFrom
    <3>1. \A gd \in DOMAIN entry' : gd \in Open /\ entry'[gd] = entry[gd]
      BY <2>2 DEF Close, Remove, Restrict, Open
    <3> QED
      BY <3>1 DEF EntryFrom, Within
  <2>3. ASSUME NEW fd \in Open, NEW b \in SUBSET Rights, NEW i \in SUBSET Rights,
               SetRights(t, fd, b, i)
        PROVE  EntriesFrom
    <3>1. DOMAIN entry' = Open
          /\ \A gd \in Open : /\ entry'[gd].object = entry[gd].object
                              /\ Within(entry'[gd], entry[gd].base, entry[gd].inheriting)
      BY <2>3 DEF SetRights, Open, Within, IInv, Typed, Entries
    <3> QED
      BY <3>1 DEF EntryFrom
  <2>4. ASSUME NEW from \in Open, NEW to \in Open, Renumber(t, from, to) PROVE EntriesFrom
    <3>1. \A gd \in DOMAIN entry' : \E hd \in Open : entry'[gd] = entry[hd]
      BY <2>4 DEF Renumber, Remove, Put, Restrict, Open
    <3> QED
      BY <3>1 DEF EntryFrom, Within
  <2> QED
    BY <1>9, <2>1, <2>2, <2>3, <2>4 DEF OnTable
<1>10. ASSUME NEW t \in Threads, Opens(t) PROVE EntriesFrom /\ OpsFrom
  <2>1. ASSUME NEW fd \in Open, NEW n \in SUBSET Rights, NEW b \in SUBSET Rights,
               NEW i \in SUBSET Rights, PathGet(t, fd, n, b, i)
        PROVE  EntriesFrom /\ OpsFrom
    <3>1. /\ entry' = entry /\ b \union i \subseteq entry[fd].inheriting
          /\ op' = [op EXCEPT ![t] = [at |-> "open", base |-> b, inheriting |-> i]]
      BY <2>1 DEF PathGet
    <3>2. \A u \in Threads : op'[u] = IF u = t THEN [at |-> "open", base |-> b, inheriting |-> i]
                                                ELSE op[u]
      BY <3>1 DEF IInv, Typed
    <3>3. Within(op'[t], entry[fd].inheriting, entry[fd].inheriting)
      BY <3>1, <3>2 DEF Within
    <3> QED
      BY <1>1, <1>3, <3>1, <3>2, <3>3 DEF OpFrom
  <2>2. CASE PathPut(t)
    <3>1. entry' = entry
      BY <2>2 DEF PathPut
    <3>2. \/ op' = [op EXCEPT ![t] = [op[t] EXCEPT !.at = "insert"]]
          \/ op' = [op EXCEPT ![t] = Idle]
      BY <2>2 DEF PathPut
    <3>3. CASE op' = [op EXCEPT ![t] = [op[t] EXCEPT !.at = "insert"]]
      <4>1. /\ \A u \in Threads \ {t} : op'[u] = op[u]
            /\ op'[t].base = op[t].base /\ op'[t].inheriting = op[t].inheriting
        BY <3>3 DEF IInv, Typed, Ops
      <4> QED
        BY <1>1, <1>3, <3>1, <4>1 DEF OpFrom, Within
    <3> QED
      BY <1>1, <1>7, <3>1, <3>2, <3>3
  <2>3. ASSUME NEW o \in Objects, NEW fd \in 0 .. FdMax, NEW l \in Opened,
               Insert(t, o, fd, l)
        PROVE  EntriesFrom /\ OpsFrom
    <3> DEFINE e == [object |-> o, base |-> op[t].base,
                     inheriting |-> op[t].inheriting \intersect MaxInheriting(l)]
    <3>1. /\ entry' = [gd \in Open \union {fd} |-> IF gd = fd THEN e ELSE entry[gd]]
          /\ op' = [op EXCEPT ![t] = Idle] /\ op[t].at = "insert"
      BY <2>3 DEF Insert, NewObject, Attach, Put, Open
    <3>2. Within(e, op[t].base, op[t].inheriting)
      BY DEF Within
    <3> HIDE DEF e
    <3>3. EntriesFrom
      <4> SUFFICES ASSUME NEW gd \in Open \union {fd} PROVE EntryFrom(gd)
        BY <3>1
      <4>1. CASE gd = fd
        BY <3>1, <3>2, <4>1 DEF EntryFrom
      <4>2. CASE gd # fd
        BY <3>1, <4>2 DEF EntryFrom, Within
      <4> QED
        BY <4>1, <4>2
    <3> QED
      BY <1>7, <3>1, <3>3
  <2>4. ASSUME NEW o \in Objects, NEW l \in Opened, InsertStrands(t, o, l)
        PROVE  EntriesFrom /\ OpsFrom
    <3>1. entry' = entry /\ op' = [op EXCEPT ![t] = Idle]
      BY <2>4 DEF InsertStrands, NewObject
    <3> QED
      BY <1>1, <1>7, <3>1
  <2>5. CASE InsertFails(t)
    <3>1. entry' = entry /\ op' = [op EXCEPT ![t] = Idle]
      BY <2>5 DEF InsertFails
    <3> QED
      BY <1>1, <1>7, <3>1
  <2> QED
    BY <1>10, <2>1, <2>2, <2>3, <2>4, <2>5 DEF Opens
<1>11. ASSUME NEW t \in Threads, Restarts(t) PROVE EntriesFrom /\ OpsFrom
  <2>1. DOMAIN entry' = {} /\ \A u \in Threads : op'[u] = Idle
    BY <1>11 DEF Restarts
  <2> QED
    BY <2>1 DEF OpFrom, Within, Idle
<1>12. ~ \E o \in Objects : InsertExisting(o)
  BY DEF InsertExisting
<1> QED
  BY <1>5, <1>6, <1>8, <1>9, <1>10, <1>11, <1>12 DEF Next

\* No object regains a right, through no interleaving of opening, renumbering and
\* narrowing.
THEOREM RightsNeverReturnCorrect == Spec => RightsNeverReturn
<1>1. IInv /\ [Next]_vars =>
         [phase = "run" => /\ \A fd \in DOMAIN entry' : EntryFrom(fd)
                           /\ \A t \in Threads : OpFrom(t)]_vars
  BY RightsStep DEF vars
<1> QED
  BY <1>1, FdInit, FdStep, PTL DEF Spec, RightsNeverReturn, EntryFrom, OpFrom

-----------------------------------------------------------------------------
(* Names of preopened directories.                                           *)
NamesInv == DOMAIN label = Objects /\ PrestatFollows

\* An object that a descriptor refers to keeps its label: only an object nobody
\* refers to is given another file.
LEMMA UnusedIsUnlisted ==
    ASSUME IInv, NEW o \in Objects, refs[o] = 0, NEW fd \in Open
    PROVE  entry[fd].object \in Objects \ {o}
<1>1. entry[fd].object \in Objects
  BY DEF IInv, Typed, Entries
<1>2. InEntry(entry, entry[fd].object)
  BY DEF InEntry, Open
<1>3. refs[entry[fd].object] = Cardinality(At(held, entry[fd].object)) + stray[entry[fd].object] + 1
  BY <1>1, <1>2, Exact DEF IInv
<1> QED
  BY <1>1, <1>3, AtFinite, StrayCounts

\* A descriptor that keeps its name and the file of its object keeps the
\* property.
LEMMA NamesKept ==
    ASSUME NamesInv, DOMAIN label' = Objects,
           \A fd \in DOMAIN prestat' \intersect DOMAIN entry' :
              \/ \E gd \in DOMAIN prestat \intersect Open :
                    /\ prestat'[fd] = prestat[gd]
                    /\ label'[entry'[fd].object] = label[entry[gd].object]
              \/ label'[entry'[fd].object][1] # "preopen"
              \/ label'[entry'[fd].object][2] = prestat'[fd]
    PROVE  NamesInv'
BY DEF NamesInv, PrestatFollows, Open

LEMMA NamesInit == Init => NamesInv
BY DEF Init, NamesInv, PrestatFollows, Open

LEMMA NamesStep == IInv /\ NamesInv /\ [Next]_vars => NamesInv'
<1> SUFFICES ASSUME IInv, NamesInv, [Next]_vars PROVE NamesInv'
  OBVIOUS
<1>1. ASSUME NEW o \in Objects, InsertExisting(o) PROVE NamesInv'
  <2> DEFINE fd == Cardinality(Open)
             l == IF fd < Streams THEN <<"stdio", 0>> ELSE <<"preopen", fd>>
  <2>1. /\ refs[o] = 0 /\ label' = [label EXCEPT ![o] = l]
        /\ DOMAIN entry' = Open \union {fd}
        /\ entry'[fd].object = o /\ \A gd \in Open \ {fd} : entry'[gd] = entry[gd]
        /\ prestat' = IF IsDir(l) THEN Put(prestat, fd, fd) ELSE prestat
    BY <1>1 DEF InsertExisting, Attach, Put, Open
  <2>2. l = <<"stdio", 0>> \/ l = <<"preopen", fd>>
    OBVIOUS
  <2> HIDE DEF fd, l
  <2>3. /\ l[1] # "preopen" \/ l[2] = prestat'[fd]
        /\ \A gd \in DOMAIN prestat' \ {fd} : gd \in DOMAIN prestat /\ prestat'[gd] = prestat[gd]
    BY <2>1, <2>2 DEF IsDir, Put
  <2>4. DOMAIN label' = Objects /\ label'[o] = l /\ \A x \in Objects \ {o} : label'[x] = label[x]
    BY <2>1 DEF NamesInv
  <2>5. \A gd \in Open : entry[gd].object \in Objects \ {o}
    BY <2>1, UnusedIsUnlisted
  <2> QED
    BY <2>1, <2>3, <2>4, <2>5, NamesKept
<1>2. CASE Start
  BY <1>2 DEF Start, NamesInv, PrestatFollows, Open
<1>3. CASE Destroy
  BY <1>3 DEF Destroy, NamesInv, PrestatFollows, Open
<1>4. ASSUME NEW t \in Threads, OnObject(t) PROVE NamesInv'
  <2>1. UNCHANGED <<entry, label, prestat>>
    BY <1>4 DEF OnObject, Use, UseAlso, ReleaseObject, PathNotValid
  <2> QED
    BY <2>1 DEF NamesInv, PrestatFollows, Open
<1>5. ASSUME NEW t \in Threads, NEW fd \in Open, Close(t, fd) PROVE NamesInv'
  <2>1. /\ label' = label /\ DOMAIN entry' = Open \ {fd} /\ DOMAIN prestat' = DOMAIN prestat \ {fd}
        /\ \A gd \in Open \ {fd} : entry'[gd] = entry[gd]
        /\ \A gd \in DOMAIN prestat \ {fd} : prestat'[gd] = prestat[gd]
    BY <1>5 DEF Close, Remove, Restrict, Open
  <2> QED
    BY <2>1, NamesKept DEF NamesInv
<1>6. ASSUME NEW t \in Threads, NEW fd \in Open, NEW b \in SUBSET Rights, NEW i \in SUBSET Rights,
             SetRights(t, fd, b, i)
      PROVE  NamesInv'
  <2>1. /\ UNCHANGED <<label, prestat>> /\ DOMAIN entry' = Open
        /\ \A gd \in Open : entry'[gd].object = entry[gd].object
    BY <1>6 DEF SetRights, IInv, Typed, Entries, Open
  <2> QED
    BY <2>1, NamesKept DEF NamesInv
<1>7. ASSUME NEW t \in Threads, NEW from \in Open, NEW to \in Open, Renumber(t, from, to)
      PROVE  NamesInv'
  <2>1. /\ label' = label /\ from # to /\ DOMAIN entry' = Open \ {from}
        /\ \A gd \in Open \ {from} : entry'[gd] = IF gd = to THEN entry[from] ELSE entry[gd]
        /\ prestat' \in RenumberedNames(from, to)
    BY <1>7 DEF Renumber, Remove, Put, Restrict, Open
  <2>2. \A gd \in DOMAIN prestat' \ {from} :
           IF gd = to THEN from \in DOMAIN prestat /\ prestat'[gd] = prestat[from]
                      ELSE gd \in DOMAIN prestat /\ prestat'[gd] = prestat[gd]
    <3> DEFINE none == Remove(prestat, to)
               put == Put(none, to, prestat[from])
    <3>1. DOMAIN none = DOMAIN prestat \ {to} /\ \A gd \in DOMAIN none : none[gd] = prestat[gd]
      BY DEF Remove, Restrict
    <3>2. prestat' = none \/ (from \in DOMAIN prestat /\ prestat' = Remove(put, from))
      BY <2>1 DEF RenumberedNames
    <3>3. DOMAIN put = DOMAIN none \union {to} /\ put[to] = prestat[from]
          /\ \A gd \in DOMAIN none : gd # to => put[gd] = none[gd]
      BY DEF Put
    <3>4. DOMAIN Remove(put, from) = DOMAIN put \ {from}
          /\ \A gd \in DOMAIN put \ {from} : Remove(put, from)[gd] = put[gd]
      BY DEF Remove, Restrict
    <3> HIDE DEF none, put
    <3>5. CASE prestat' = none
      BY <3>1, <3>5
    <3>6. CASE from \in DOMAIN prestat /\ prestat' = Remove(put, from)
      BY <3>1, <3>3, <3>4, <3>6
    <3> QED
      BY <3>2, <3>5, <3>6
  <2> QED
    BY <2>1, <2>2, NamesKept DEF NamesInv
<1>8. ASSUME NEW t \in Threads, NEW o \in Objects, NEW fd \in 0 .. FdMax,
             NEW l \in Opened, Insert(t, o, fd, l)
      PROVE  NamesInv'
  <2>1. /\ refs[o] = 0 /\ label' = [label EXCEPT ![o] = l] /\ prestat' = prestat
        /\ DOMAIN entry' = Open \union {fd}
        /\ entry'[fd].object = o /\ \A gd \in Open \ {fd} : entry'[gd] = entry[gd]
    BY <1>8 DEF Insert, NewObject, Attach, Put, Open
  <2>2. l[1] # "preopen"
    BY DEF Opened
  <2>3. DOMAIN label' = Objects /\ label'[o] = l /\ \A x \in Objects \ {o} : label'[x] = label[x]
    BY <2>1 DEF NamesInv
  <2>4. \A gd \in Open : entry[gd].object \in Objects \ {o}
    BY <2>1, UnusedIsUnlisted
  <2> QED
    BY <2>1, <2>2, <2>3, <2>4, NamesKept
<1>9. ASSUME NEW t \in Threads, NEW o \in Objects, NEW l \in Opened, InsertStrands(t, o, l)
      PROVE  NamesInv'
  <2>1. /\ refs[o] = 0 /\ label' = [label EXCEPT ![o] = l] /\ UNCHANGED <<entry, prestat>>
    BY <1>9 DEF InsertStrands, NewObject
  <2>2. DOMAIN label' = Objects /\ \A x \in Objects \ {o} : label'[x] = label[x]
    BY <2>1 DEF NamesInv
  <2>3. \A gd \in Open : entry[gd].object \in Objects \ {o}
    BY <2>1, UnusedIsUnlisted
  <2> QED
    BY <2>1, <2>2, <2>3, NamesKept DEF Open
<1>10. ASSUME NEW t \in Threads,
             \/ PathPut(t) \/ InsertFails(t)
             \/ \E fd \in Open, n \in SUBSET Rights, b \in SUBSET Rights, i \in SUBSET Rights :
                   PathGet(t, fd, n, b, i)
      PROVE  NamesInv'
  <2>1. UNCHANGED <<entry, label, prestat>>
    BY <1>10 DEF PathGet, PathPut, InsertFails
  <2> QED
    BY <2>1 DEF NamesInv, PrestatFollows, Open
<1>11. ASSUME NEW t \in Threads, Restarts(t) PROVE NamesInv'
  BY <1>11 DEF Restarts, NamesInv, PrestatFollows, Open
<1>12. CASE UNCHANGED vars
  BY <1>12 DEF vars, NamesInv, PrestatFollows, Open
<1> QED
  BY <1>1, <1>2, <1>3, <1>4, <1>5, <1>6, <1>7, <1>8, <1>9, <1>10, <1>11, <1>12
     DEF Next, OnTable, Opens

\* A preopened directory keeps its own name, or loses it, through closes and
\* renumbers in any order; it never has the name of another.
THEOREM PrestatFollowsCorrect == Spec => []PrestatFollows
<1>1. NamesInv => PrestatFollows
  BY DEF NamesInv
<1> QED
  BY <1>1, FdInit, FdStep, NamesInit, NamesStep, PTL DEF Spec
=============================================================================
