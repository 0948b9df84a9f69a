------------------------------- MODULE EmsHeap -------------------------------
(* The application heap of ems_alloc.c and ems_kfc.c, in the linear memory of *)
(* an instance that may grow, which moves the heap.  Chunks are counted in    *)
(* units of eight bytes; a chunk has four bytes of header, then its object.   *)
(* heap->lock makes malloc and free one step; a realloc that moves an object  *)
(* gives the lock back before it frees the old one.                           *)
EXTENDS Integers, Sequences, FiniteSetsExt, Functions

CONSTANTS
    HeapUnits,  \* current_size
    NormalCnts, \* values of HMU_NORMAL_NODE_CNT, which a build may define
    Bases,      \* where a linear memory may put its heap
    Width,      \* a gc_size_t is below 2^Width
    Requests,   \* sizes in bytes the application asks for
    MaxObjects, \* bound: objects the application holds at a time
    Words,      \* what the application may leave in the last word of an object
    MayGrow(_), \* the heaps in which the memory grows
    Root        \* the root of the tree, which is part of the gc_heap_t

Null == 0
Smallest == 2                        \* GC_SMALLEST_SIZE: room for a header and the links
HeaderSize == 4
Addrs == UNION {b .. b + HeapUnits - 1 : b \in Bases}

ASSUME BasesAssumption ==
    /\ Bases \subseteq Nat \ {Null}
    /\ \A b, c \in Bases : b # c => b + HeapUnits <= c \/ c + HeapUnits <= b
ASSUME WidthAssumption == 2^Width \in Nat \ 0 .. 15
\* A heap has at least APP_HEAP_SIZE_MIN bytes: its first chunk is not for a list.
ASSUME HeapUnitsAssumption == HeapUnits \in Nat /\ \A n \in NormalCnts : n - 1 <= HeapUnits
ASSUME RootAssumption == Root \notin Int
ASSUME NormalCntsAssumption == NormalCnts \subseteq Nat \ 0 .. 3   \* a tree node needs three units
ASSUME RequestsAssumption == Requests \subseteq 0 .. 2^Width - 1
ASSUME WordsAssumption == Words \subseteq Int /\ Words # {}

VARIABLES
    heap,       \* the gc_heap_t with the chunks in its pool
    app,        \* the application's objects: offset of the chunk -> bytes asked for
    leaving     \* objects that a realloc has copied and is about to free

vars == <<heap, app, leaving>>

-----------------------------------------------------------------------------
(* Chunks.                                                                   *)
Align8(s) == LET t == (s + 7) % 2^Width IN t - (t % 8)
TotSize(bytes) == Align8((HeaderSize + bytes) % 2^Width)
\* Mutant of Overflows: nobody looks whether the size wrapped.
OverflowsNever(bytes) == FALSE

Overflows(bytes) == TotSize(bytes) < bytes
Units(bytes) == TotSize(bytes) \div 8

NormalCnt(h) == Cardinality(DOMAIN h.normal)
IsNormal(h, size) == size < NormalCnt(h) - 1      \* HMU_IS_FC_NORMAL
InHeap(h, a) == a \in h.base .. h.base + HeapUnits - 1
\* What lies inside an object is not taken for the header of a free chunk.
IsFree(h, a) == a \in DOMAIN h.chunk /\ h.chunk[a].ut = "FC"
Size(h, a) == h.chunk[a].size
MarkPinuse(h, a, used) == [h EXCEPT !.chunk[a].pinuse = used]
NextInHeap(h, a) == InHeap(h, a + Size(h, a))
Corrupt(h) == [h EXCEPT !.corrupted = TRUE]

\* The four bytes before chunk a: the size of a free chunk, or its link when
\* header and link are all of it; else what the object before a ends with.
Footer(h, a) ==
    LET p == CHOOSE b \in DOMAIN h.chunk : b + Size(h, b) = a
    IN  CASE IsFree(h, p) /\ Size(h, p) = 1 -> h.chunk[p].next
          [] IsFree(h, p) /\ Size(h, p) # 1 -> Size(h, p)
          [] OTHER -> h.chunk[p].word

Remove(f, a) == Restrict(f, DOMAIN f \ {a})
Put(f, a, v) == [x \in DOMAIN f \union {a} |-> IF x = a THEN v ELSE f[x]]

-----------------------------------------------------------------------------
(* The tree of free chunks that are too large for the lists.                 *)
Node(parent) == [left |-> Null, right |-> Null, parent |-> parent]

Replace(t, p, by) ==                               \* *slot = by
    LET up == t[p].parent
        side == IF t[up].right = p THEN [t EXCEPT ![up].right = by]
                                   ELSE [t EXCEPT ![up].left = by]
    IN  IF by = Null THEN side ELSE [side EXCEPT ![by].parent = up]

Splice(t, p) ==
    Remove(Replace(t, p, IF t[p].left = Null THEN t[p].right ELSE t[p].left), p)

Rightmost(t, a) ==
    LET f[b \in DOMAIN t] == IF t[b].right = Null THEN b ELSE f[t[b].right] IN f[a]

\* Mutant of Substitute: the children of p are not told of their new parent.
SubstituteBelowOnly(t, p, q) ==
    LET Re(x) == IF x = p THEN q ELSE x
        Moved(n) == [left |-> Re(n.left), right |-> Re(n.right), parent |-> n.parent]
    IN  [a \in (DOMAIN t \ {p}) \union {q} |-> IF a = q THEN t[p] ELSE Moved(t[a])]

\* q stands where p stood: every pointer to p points to q.
Substitute(t, p, q) ==
    LET Re(x) == IF x = p THEN q ELSE x
        Moved(n) == [left |-> Re(n.left), right |-> Re(n.right), parent |-> Re(n.parent)]
    IN  [a \in (DOMAIN t \ {p}) \union {q} |-> IF a = q THEN t[p] ELSE Moved(t[a])]

RemoveTreeNode(t, p) ==
    IF Null \in {t[p].left, t[p].right} THEN Splice(t, p)
    ELSE LET q == Rightmost(t, t[p].left) IN Substitute(Splice(t, q), p, q)

\* What remove_tree_node, gci_add_fc and alloc_hmu report: a pointer that leads
\* out of the heap, or a node that is no child of its parent.  They look at the
\* pointers they follow; here each looks at all of the tree, so that nothing is
\* reported later than by the code.
TreeBroken(h) ==
    LET t == h.tree
    IN  \/ \E n \in DOMAIN t : \E m \in {t[n].left, t[n].right} : m # Null /\ ~InHeap(h, m)
        \/ \E n \in DOMAIN t \ {Root} :
              \/ ~InHeap(h, n)
              \/ t[n].parent \notin DOMAIN t
              \/ n \notin {t[t[n].parent].left, t[t[n].parent].right}

TreeSize(h, a) == IF a = Root THEN 0 ELSE Size(h, a)

\* Down to the right below a smaller chunk, else to the left, to a free slot.
AddTreeNode(h, a, size) ==
    LET t == h.tree
        Side(n) == IF TreeSize(h, n) < size THEN "right" ELSE "left"
        f[n \in DOMAIN t] == IF t[n][Side(n)] = Null THEN n ELSE f[t[n][Side(n)]]
        up == f[Root]
    IN  Put([t EXCEPT ![up][Side(up)] = a], a, Node(up))

\* The last chunk of at least `size` on the way down from the root: p is the
\* pair of tp and last_tp.
BestFit(h, size) ==
    LET t == h.tree
        nodes == DOMAIN t \union {Null}
        f[p \in nodes \X nodes] ==
            IF p[1] = Null THEN p[2]
            ELSE IF Size(h, p[1]) < size THEN f[<<t[p[1]].right, p[2]>>]
            ELSE f[<<t[p[1]].left, p[1]>>]
    IN  f[<<t[Root].right, Null>>]

-----------------------------------------------------------------------------
(* Free chunks: a list for each small size, the tree for the others.         *)
ListNext(h, a) == IF h.chunk[a].next = 0 THEN Null ELSE a + h.chunk[a].next

\* The nodes of a list.  A head that is no chunk of the heap ends it.
ListOf(h, size) ==
    LET f[a \in DOMAIN h.chunk \union {Null, h.normal[size]}] ==
            IF a = Null THEN <<>>
            ELSE IF a \notin DOMAIN h.chunk THEN <<a>>
            ELSE <<a>> \o f[ListNext(h, a)]
    IN  f[h.normal[size]]

Offset(from, to) == IF to = Null THEN 0 ELSE to - from

\* gci_add_fc
AddFc(h, a, size, pinuse) ==
    LET free == [ut |-> "FC", size |-> size, pinuse |-> pinuse, next |-> 0, word |-> 0]
    IN  IF IsNormal(h, size)
        THEN [h EXCEPT !.chunk = Put(@, a, [free EXCEPT !.next = Offset(a, h.normal[size])]),
                       !.normal[size] = a]
        ELSE LET g == [h EXCEPT !.chunk = Put(@, a, free)]
             IN  IF TreeBroken(g) THEN Corrupt(g)
                 ELSE [g EXCEPT !.tree = AddTreeNode(g, a, size)]

\* Mutant of UnlinkNormal: the list ends where its first node was.
UnlinkNormalDrops(h, a) ==
    LET s == ListOf(h, Size(h, a))
        next == ListNext(h, a)
        at == {i \in DOMAIN s : s[i] = a}
    IN  IF at = {} THEN h
        ELSE IF Min(at) = 1 THEN [h EXCEPT !.normal[Size(h, a)] = Null]
        ELSE LET prev == s[Min(at) - 1]
             IN  [h EXCEPT !.chunk[prev].next = Offset(prev, next)]

\* unlink_hmu; the chunk itself is absorbed by the caller.  A chunk that is in
\* no list is only reported.
UnlinkNormal(h, a) ==
    LET s == ListOf(h, Size(h, a))
        next == ListNext(h, a)
        at == {i \in DOMAIN s : s[i] = a}
    IN  IF \E i \in DOMAIN s : ~InHeap(h, s[i]) /\ \A j \in at : i < j THEN Corrupt(h)
        ELSE IF at = {} THEN h
        ELSE IF Min(at) = 1 THEN [h EXCEPT !.normal[Size(h, a)] = next]
        ELSE LET prev == s[Min(at) - 1]
             IN  [h EXCEPT !.chunk[prev].next = Offset(prev, next)]

Unlink(h, a) == IF IsNormal(h, Size(h, a)) THEN UnlinkNormal(h, a)
                ELSE IF TreeBroken(h) THEN Corrupt(h)
                ELSE [h EXCEPT !.tree = RemoveTreeNode(@, a)]

Absorb(h, a) == [Unlink(h, a) EXCEPT !.chunk = Remove(@, a)]

-----------------------------------------------------------------------------
(* alloc_hmu                                                                 *)
\* Mutant of Carve: the rest keeps the size of the whole.
CarveKeepsSize(h, a, size) ==
    LET all == Size(h, a)
        taken == IF all >= size + Smallest THEN size ELSE all
        cut == [h EXCEPT !.chunk[a].size = taken]
    IN  IF taken < all THEN AddFc(cut, a + taken, all, TRUE)
        ELSE IF NextInHeap(h, a) THEN MarkPinuse(cut, a + all, TRUE) ELSE cut

\* Chunk a, which is out of its list, is cut to `size` if a chunk can be left.
Carve(h, a, size) ==
    LET all == Size(h, a)
        taken == IF all >= size + Smallest THEN size ELSE all
        cut == [h EXCEPT !.chunk[a].size = taken]
    IN  IF taken < all THEN AddFc(cut, a + taken, all - taken, TRUE)
        ELSE IF NextInHeap(h, a) THEN MarkPinuse(cut, a + all, TRUE) ELSE cut

FirstList(h, size) == {i \in size .. NormalCnt(h) - 1 : h.normal[i] # Null}

\* The heap afterwards and the chunk, or Null.
AllocHmu(h, want) ==
    LET size == IF want < Smallest THEN Smallest ELSE want
        lists == IF IsNormal(h, size) THEN FirstList(h, size) ELSE {}
        fit == BestFit(h, size)
        None(g) == [heap |-> g, hmu |-> Null]
        Cut(g, p) == LET c == Carve(g, p, size)
                     IN  IF c.corrupted THEN None(c) ELSE [heap |-> c, hmu |-> p]
    IN  IF lists # {}
        THEN LET p == h.normal[Min(lists)]
             IN  IF ~InHeap(h, p) THEN None(Corrupt(h))
                 ELSE Cut([h EXCEPT !.normal[Min(lists)] = ListNext(h, p)], p)
        ELSE IF TreeBroken(h) THEN None(Corrupt(h))
        ELSE IF fit = Null THEN None(h)
        ELSE Cut([h EXCEPT !.tree = RemoveTreeNode(@, fit)], fit)

\* An object reaches into the last word of its chunk or leaves it cleared.
LastWords(bytes, size) ==
    IF HeaderSize + bytes > 8 * size - 4 THEN Words ELSE {0}

Use(h, a, word) == [h EXCEPT !.chunk[a].ut = "VO", !.chunk[a].next = 0, !.chunk[a].word = word]

\* gc_alloc_vo: the outcomes, one for each last word.
Malloc(h, bytes) ==
    IF Overflows(bytes) \/ h.corrupted THEN {[heap |-> h, hmu |-> Null]}
    ELSE LET r == AllocHmu(h, Units(bytes))
         IN  IF r.hmu = Null THEN {r}
             ELSE {[heap |-> Use(r.heap, r.hmu, w), hmu |-> r.hmu] :
                       w \in LastWords(bytes, Size(r.heap, r.hmu))}

-----------------------------------------------------------------------------
(* gc_free_vo                                                                *)
\* Mutant of MergePrev: only the next chunk is merged.
MergePrevNever(h, a) == a

MergePrev(h, a) ==
    LET prev == a - Footer(h, a)
    IN  IF ~h.chunk[a].pinuse /\ IsFree(h, prev) THEN prev ELSE a

FreeVo(h, a) ==
    LET prev == MergePrev(h, a)
        left == IF prev = a THEN h ELSE Unlink(h, prev)
        size == Size(h, a) + (IF prev = a THEN 0 ELSE Size(h, prev))
        next == prev + size
        merge == InHeap(h, next) /\ IsFree(h, next)
        all == IF merge THEN size + Size(h, next) ELSE size
        both == IF merge THEN Absorb(left, next) ELSE left
        one == [both EXCEPT !.chunk = IF prev = a THEN @ ELSE Remove(@, a)]
        added == AddFc(one, prev, all, h.chunk[prev].pinuse)
        done == IF InHeap(h, prev + all) THEN MarkPinuse(added, prev + all, FALSE) ELSE added
    IN  IF h.corrupted THEN h
        ELSE IF left.corrupted THEN left ELSE IF both.corrupted THEN both ELSE done

(* gc_realloc_vo, where the next chunk is free and large enough.             *)
GrowsInPlace(h, a, size) ==
    /\ NextInHeap(h, a)
    /\ IsFree(h, a + Size(h, a))
    /\ size <= Size(h, a) + Size(h, a + Size(h, a))

ExtendVo(h, a, size) ==
    LET next == a + Size(h, a)
        rest == Size(h, a) + Size(h, next) - size
        one == [Absorb(h, next) EXCEPT !.chunk[a].size = size]
    IN  IF Unlink(h, next).corrupted THEN Corrupt(h)
        ELSE IF rest = 0 THEN one ELSE AddFc(one, a + size, rest, TRUE)

(* gc_migrate: the pool has been copied to `to`.                             *)
Adjust(p, by) == IF p \in {Null, Root} THEN p ELSE p + by     \* adjust_ptr

\* Mutant of Adjusted: a node's parent pointer stays as it is.
AdjustedChildren(n, by) ==
    [left |-> Adjust(n.left, by), right |-> Adjust(n.right, by), parent |-> n.parent]

Adjusted(n, by) ==
    [left |-> Adjust(n.left, by), right |-> Adjust(n.right, by), parent |-> Adjust(n.parent, by)]

\* A chunk without a size, or one that reaches over the end.
WalkFails(h) ==
    \E a \in DOMAIN h.chunk : Size(h, a) <= 0 \/ Size(h, a) > h.base + HeapUnits - a

Migrate(h, to) ==
    LET by == to - h.base
        back == [a \in {Adjust(b, by) : b \in DOMAIN h.tree} |-> IF a = Root THEN Root ELSE a - by]
        moved == [h EXCEPT !.base = to,
                           !.chunk = [a \in {b + by : b \in DOMAIN h.chunk} |-> h.chunk[a - by]],
                           !.tree = [a \in DOMAIN back |-> Adjusted(h.tree[back[a]], by)]]
    IN  IF WalkFails(h) THEN Corrupt(moved) ELSE moved

-----------------------------------------------------------------------------
\* gc_init_internal: one free chunk, whatever its size in the tree.
Init ==
    /\ \E b \in Bases, n \in NormalCnts :
        heap = [base |-> b,
                chunk |-> [a \in {b} |-> [ut |-> "FC", size |-> HeapUnits, pinuse |-> TRUE,
                                          next |-> 0, word |-> 0]],
                normal |-> [i \in 0 .. n - 1 |-> Null],
                tree |-> [a \in {Root, b} |-> IF a = b THEN Node(Root)
                                              ELSE [Node(Null) EXCEPT !.right = b]],
                corrupted |-> FALSE]
    /\ app = <<>>
    /\ leaving = {}

At(o) == heap.base + o                             \* chunk of the object at offset o

MallocObject(bytes) ==
    /\ Cardinality(DOMAIN app) < MaxObjects
    /\ \E r \in Malloc(heap, bytes) :
        /\ heap' = r.heap
        /\ app' = IF r.hmu = Null THEN app ELSE Put(app, r.hmu - heap.base, bytes)
        /\ UNCHANGED leaving

FreeObject(o) ==
    /\ heap' = FreeVo(heap, At(o))
    /\ app' = Remove(app, o)
    /\ leaving' = leaving \ {o}

\* The chunk is large enough as it is, and stays as it is; only an object that
\* reaches into the last word may change it.
ReallocKeeps(o, bytes) ==
    LET a == At(o)
        reached == {w \in Words : HeaderSize + bytes > 8 * Size(heap, a) - 4}
    IN  /\ ~Overflows(bytes) /\ ~heap.corrupted
        /\ Units(bytes) <= Size(heap, a)
        /\ app' = [app EXCEPT ![o] = bytes]
        /\ \E w \in {heap.chunk[a].word} \union reached : heap' = Use(heap, a, w)
        /\ UNCHANGED leaving

ReallocGrows(o, bytes) ==
    LET size == Units(bytes)
        h == ExtendVo(heap, At(o), size)
    IN  /\ ~Overflows(bytes) /\ ~heap.corrupted
        /\ size > Size(heap, At(o))
        /\ GrowsInPlace(heap, At(o), size)
        /\ IF h.corrupted THEN heap' = h /\ UNCHANGED app
           ELSE /\ \E w \in LastWords(bytes, size) : heap' = Use(h, At(o), w)
                /\ app' = [app EXCEPT ![o] = bytes]
        /\ UNCHANGED leaving

\* A new chunk, a copy of the old object, the lock is given back; FreeObject of
\* the old one ends it.
ReallocMoves(o, bytes) ==
    /\ Units(bytes) > Size(heap, At(o))
    /\ ~GrowsInPlace(heap, At(o), Units(bytes))
    /\ \E r \in Malloc(heap, bytes) :
        /\ heap' = r.heap
        /\ IF r.hmu = Null THEN UNCHANGED <<app, leaving>>
           ELSE /\ app' = Put(app, r.hmu - heap.base, bytes)
                /\ leaving' = leaving \union {o}

\* memory.grow; os_mremap of this platform copies to another address.
Grow(to) ==
    /\ ~heap.corrupted
    /\ leaving = {}
    /\ MayGrow(heap)
    /\ to # heap.base
    /\ heap' = Migrate(heap, to)
    /\ UNCHANGED <<app, leaving>>

Next ==
    \/ \E bytes \in Requests : MallocObject(bytes)
    \/ \E o \in DOMAIN app : FreeObject(o)
    \/ \E o \in DOMAIN app \ leaving, bytes \in Requests :
          ReallocKeeps(o, bytes) \/ ReallocGrows(o, bytes) \/ ReallocMoves(o, bytes)
    \/ \E to \in Bases : Grow(to)

Spec == Init /\ [][Next]_vars

-----------------------------------------------------------------------------
FreeChunks == {a \in DOMAIN heap.chunk : IsFree(heap, a)}

TypeOK ==
    /\ heap.base \in Bases
    /\ DOMAIN heap.chunk \subseteq Addrs
    /\ \A a \in DOMAIN heap.chunk :
        /\ heap.chunk[a].ut \in {"FC", "VO"}
        /\ heap.chunk[a].size \in 1 .. HeapUnits
        /\ heap.chunk[a].pinuse \in BOOLEAN
    /\ \A i \in DOMAIN heap.normal : heap.normal[i] \in Addrs \union {Null}
    /\ \A o \in DOMAIN app : app[o] \in Requests
    /\ leaving \subseteq DOMAIN app

\* The chunks, well typed, tile the heap: the walk of gc_migrate, gci_dump and
\* gc_heap_stat from chunk to chunk visits every chunk and ends at the end.
ChunksTile ==
    /\ TypeOK
    /\ heap.base \in DOMAIN heap.chunk
    /\ \A a \in DOMAIN heap.chunk :
        /\ a + Size(heap, a) \in DOMAIN heap.chunk \union {heap.base + HeapUnits}
        /\ \A b \in DOMAIN heap.chunk : b <= a \/ a + Size(heap, a) <= b

\* A free chunk can be found in exactly one place, the list of its size or the
\* tree, and nothing else is in them: alloc_hmu hands out free memory only and
\* unlink_hmu finds what it takes out.
FreeChunksListed ==
    /\ \A i \in 1 .. NormalCnt(heap) - 1 :
        LET s == ListOf(heap, i)
        IN  /\ {s[j] : j \in DOMAIN s} = {a \in FreeChunks : Size(heap, a) = i /\ IsNormal(heap, i)}
            /\ \A j, k \in DOMAIN s : s[j] = s[k] => j = k
    /\ DOMAIN heap.tree \ {Root} = {a \in FreeChunks : ~IsNormal(heap, Size(heap, a))}

\* "size[left] <= size[cur] < size[right]" of the whole subtrees, and children
\* and parents agree, after any sequence of removals.
TreeOrdered ==
    LET t == heap.tree
        Sub[n \in DOMAIN t \union {Null}] ==
            IF n = Null THEN {} ELSE {n} \union Sub[t[n].left] \union Sub[t[n].right]
    IN  \A n \in DOMAIN t :
            /\ \A m \in Sub[t[n].left] : TreeSize(heap, m) <= TreeSize(heap, n)
            /\ \A m \in Sub[t[n].right] : TreeSize(heap, n) < TreeSize(heap, m)
            /\ \A m \in {t[n].left, t[n].right} \ {Null} : t[m].parent = n

\* Neighbours that are free have been merged, so the heap turns a request down
\* only if no gap between objects is large enough.
ServesWhatFits ==
    \A bytes \in Requests :
        (/\ ~Overflows(bytes)
         /\ \E a \in DOMAIN heap.chunk, end \in DOMAIN heap.chunk \union {heap.base + HeapUnits} :
                /\ end - a >= Units(bytes) /\ end - a >= Smallest
                /\ \A b \in DOMAIN heap.chunk \ FreeChunks : b < a \/ end <= b)
        => \E r \in Malloc(heap, bytes) : r.hmu # Null

\* Objects keep to their own bytes (Allocator), at the sizes asked for.
Objects == INSTANCE Allocator WITH
    Starts <- {8 * u + HeaderSize : u \in 0 .. HeapUnits - 1},
    Bytes <- 8 * HeapUnits,
    live <- [s \in {8 * o + HeaderSize : o \in DOMAIN app} |-> app[(s - HeaderSize) \div 8]]

AllocatorSpec == Objects!Spec

\* "whether heap is corrupted, e.g. the hmu nodes are modified by user": the
\* application touches no header, so the allocator must find no pointer that leads
\* out of the heap, also after removals from the tree and after the memory, and
\* with it every node of the tree, has moved.
NotCorrupted == ~heap.corrupted
=============================================================================
