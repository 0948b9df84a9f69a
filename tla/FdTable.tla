------------------------------- MODULE FdTable -------------------------------
(* WASI file descriptors (sandboxed-system-primitives, posix.c): the table,   *)
(* its reference-counted objects and the names of preopened directories.     *)
(* Every operation takes ft->lock for one step; the host's call on the file   *)
(* and the release of the object come after it.  A failing assert() or the   *)
(* use of a null pointer restarts the chip, and with it the program.         *)
EXTENDS Integers, FiniteSetsExt, Functions

CONSTANTS
    Threads,
    Objects,    \* addresses of fd_objects
    Streams,    \* number of stdio descriptors, which come first
    Dirs,       \* number of preopened directories, which come next
    MaxSize,    \* entries the heap has room for
    Width,      \* a size_t is below 2^Width
    MaxStray,   \* bound on the references of one object that are lost
    Rights,
    None

ASSUME NoneAssumption == None \notin Objects
ASSUME ThreadsAssumption == IsFiniteSet(Threads)
ASSUME StartAssumption == Streams \in Nat /\ Dirs \in Nat

Slots == {1, 2}             \* at most two objects in one operation
Preopened == Streams .. Streams + Dirs - 1
\* Files: <<"preopen", its first descriptor>>, <<"dir", 0>>, ...
Labels == {"preopen"} \X Preopened \union {"stdio", "dir", "file"} \X {0}
Opened == {"dir", "file"} \X {0}
IsDir(l) == l[1] \in {"preopen", "dir"}

VARIABLES
    entry,      \* open descriptor -> [object, base, inheriting]
    size, used, \* ft->size, ft->used
    refs,       \* reference counts; 0 once an object is closed and freed
    label,      \* what file an object is of
    prestat,    \* descriptor -> the preopened directory whose name it has
    held,       \* objects an operation has a reference to
    stray,      \* references that no descriptor and no operation has any more
    op,         \* what each thread is doing
    phase       \* "init", "run", then "end"

vars == <<entry, size, used, refs, label, prestat, held, stray, op, phase>>

Idle == [at |-> "idle", base |-> {}, inheriting |-> {}]
Open == DOMAIN entry

Remove(f, x) == Restrict(f, DOMAIN f \ {x})
Put(f, x, v) == [y \in DOMAIN f \union {x} |-> IF y = x THEN v ELSE f[y]]

-----------------------------------------------------------------------------
(* The table.                                                                *)
FdMax == MaxSize - 1

\* fd_table_grow doubles until `min` is an index and half the table is free.
Grown(min) ==
    LET Enough(s) == s > min /\ s >= ((used + 1) * 2) % 2^Width
    IN  IF Enough(size) THEN size
        ELSE Min({s \in {2^k : k \in 0 .. Width} : s >= size /\ Enough(s)})

Attach(fd, o, base, inheriting) ==
    entry' = Put(entry, fd, [object |-> o, base |-> base, inheriting |-> inheriting])

\* refcount_release; the last reference closes the file and frees the object.
Release(o) == refs' = [refs EXCEPT ![o] = @ - 1]

\* The rights a file of this kind can have (fd_determine_type_rights).
MaxInheriting(l) == IF l[1] = "file" THEN {} ELSE Rights

-----------------------------------------------------------------------------
(* wasm_runtime_init_wasi                                                    *)
Init ==
    /\ entry = <<>> /\ size = 0 /\ used = 0
    /\ refs = [o \in Objects |-> 0]
    /\ label = [o \in Objects |-> <<"file", 0>>]
    /\ prestat = <<>>
    /\ held = [h \in Threads \X Slots |-> None]
    /\ stray = [o \in Objects |-> 0]
    /\ op = [t \in Threads |-> Idle]
    /\ phase = "init"

InsertExisting(o) ==
    LET fd == Cardinality(Open)
        l == IF fd < Streams THEN <<"stdio", 0>> ELSE <<"preopen", fd>>
    IN  /\ phase = "init"
        /\ fd < Streams + Dirs
        /\ refs[o] = 0
        /\ Grown(fd) <= MaxSize
        /\ Attach(fd, o, Rights, MaxInheriting(l))
        /\ size' = Grown(fd) /\ used' = used + 1
        /\ refs' = [refs EXCEPT ![o] = 1]
        /\ label' = [label EXCEPT ![o] = l]
        /\ prestat' = IF IsDir(l) THEN Put(prestat, fd, fd) ELSE prestat
        /\ UNCHANGED <<held, stray, op, phase>>

Start ==
    /\ phase = "init"
    /\ Cardinality(Open) = Streams + Dirs
    /\ phase' = "run"
    /\ UNCHANGED <<entry, size, used, refs, label, prestat, held, stray, op>>

\* Some insertion failed, or the process is over: the table and what is in it
\* go, though an operation of a detached thread may still have objects of it.
\* What such a thread does to the freed table afterwards is left out.
Destroy ==
    /\ phase # "end"
    /\ refs' = [o \in Objects |->
                    IF \E fd \in Open : entry[fd].object = o THEN refs[o] - 1 ELSE refs[o]]
    /\ entry' = <<>> /\ prestat' = <<>>
    /\ phase' = "end"
    /\ UNCHANGED <<size, used, label, held, stray, op>>

-----------------------------------------------------------------------------
(* fd_object_get, the use of the object, fd_object_release.                  *)
\* Mutant of Acquire: the object is used without a reference.
AcquireUncounted(t, s, fd) ==
    /\ held' = [held EXCEPT ![<<t, s>>] = entry[fd].object]
    /\ UNCHANGED refs

Acquire(t, s, fd) ==
    /\ held' = [held EXCEPT ![<<t, s>>] = entry[fd].object]
    /\ refs' = [refs EXCEPT ![entry[fd].object] = @ + 1]

Sets(t, at) == op' = [op EXCEPT ![t] = [Idle EXCEPT !.at = at]]

\* read, write, seek, sync, path_symlink, ...: the operations on one object, or
\* the first.  Which of them it is shows in its next step.
Use(t, fd, needed) ==
    /\ phase = "run" /\ op[t] = Idle
    /\ fd \in Open /\ needed \subseteq entry[fd].base
    /\ Acquire(t, 1, fd)
    /\ Sets(t, "use")
    /\ UNCHANGED <<entry, size, used, label, prestat, stray, phase>>

\* path_link and path_rename have two directories, poll_oneoff several objects.
UseAlso(t, fd, needed) ==
    /\ phase = "run" /\ op[t].at = "use"
    /\ held[<<t, 1>>] # None /\ held[<<t, 2>>] = None
    /\ fd \in Open /\ needed \subseteq entry[fd].base
    /\ Acquire(t, 2, fd)
    /\ UNCHANGED <<entry, size, used, label, prestat, stray, op, phase>>

\* After fd_object_release of the other object, if there is one.
ReleaseObject(t, s) ==
    /\ op[t].at \in {"use", "put"}
    /\ held[<<t, s>>] # None
    /\ Release(held[<<t, s>>])
    /\ held' = [held EXCEPT ![<<t, s>>] = None]
    /\ IF \A r \in Slots \ {s} : held[<<t, r>>] = None
       THEN op' = [op EXCEPT ![t] = Idle] ELSE Sets(t, "put")
    /\ UNCHANGED <<entry, size, used, label, prestat, stray, phase>>

Has(h, o) == IF held[h] = o THEN 1 ELSE 0

\* path_link and path_symlink return EBADF for a path that validate_path does
\* not allow, without path_put: their references are nobody's.
PathNotValid(t) ==
    /\ op[t].at = "use"
    /\ stray' = [o \in Objects |-> stray[o] + Has(<<t, 1>>, o) + Has(<<t, 2>>, o)]
    /\ \A o \in Objects : stray'[o] <= MaxStray
    /\ held' = [held EXCEPT ![<<t, 1>>] = None, ![<<t, 2>>] = None]
    /\ op' = [op EXCEPT ![t] = Idle]
    /\ UNCHANGED <<entry, size, used, refs, label, prestat, phase>>

-----------------------------------------------------------------------------
(* fd_close, fd_fdstat_set_rights, fd_renumber                               *)
\* Mutant of Close: the object is released with the table locked, and again by
\* the caller.
CloseReleases(t, fd) ==
    /\ phase = "run" /\ op[t] = Idle
    /\ fd \in Open
    /\ used > 0
    /\ entry' = Remove(entry, fd)
    /\ used' = used - 1
    /\ prestat' = Remove(prestat, fd)
    /\ held' = [held EXCEPT ![<<t, 1>>] = entry[fd].object]
    /\ Release(entry[fd].object)
    /\ Sets(t, "put")
    /\ UNCHANGED <<size, label, stray, phase>>

\* The table's reference becomes the caller's.
Close(t, fd) ==
    /\ phase = "run" /\ op[t] = Idle
    /\ fd \in Open
    /\ used > 0
    /\ entry' = Remove(entry, fd)
    /\ used' = used - 1
    /\ prestat' = Remove(prestat, fd)
    /\ held' = [held EXCEPT ![<<t, 1>>] = entry[fd].object]
    /\ Sets(t, "put")
    /\ UNCHANGED <<size, refs, label, stray, phase>>

\* Mutant of SetRights: the rights asked for are not compared with those it has.
SetRightsUnchecked(t, fd, base, inheriting) ==
    /\ phase = "run" /\ op[t] = Idle
    /\ fd \in Open
    /\ entry' = [entry EXCEPT ![fd].base = base, ![fd].inheriting = inheriting]
    /\ UNCHANGED <<size, used, refs, label, prestat, held, stray, op, phase>>

SetRights(t, fd, base, inheriting) ==
    /\ phase = "run" /\ op[t] = Idle
    /\ fd \in Open
    /\ base \subseteq entry[fd].base /\ inheriting \subseteq entry[fd].inheriting
    /\ entry' = [entry EXCEPT ![fd].base = base, ![fd].inheriting = inheriting]
    /\ UNCHANGED <<size, used, refs, label, prestat, held, stray, op, phase>>

\* Mutant of RenumberedNames: `to` keeps its name.
RenumberedKeepsTo(from, to) == {Remove(prestat, from)}

\* `to` takes the name that `from` had; bh_strdup or the growth of the names'
\* table may fail, and then `from` keeps it.
RenumberedNames(from, to) ==
    LET none == Remove(prestat, to)
    IN  IF from \in DOMAIN prestat THEN {Remove(Put(none, to, prestat[from]), from), none}
        ELSE {none}

\* used is decremented for `from` by fd_table_detach and once more.
UsedAfterRenumber == (used - 2) % 2^Width

Renumber(t, from, to) ==
    /\ phase = "run" /\ op[t] = Idle
    /\ {from, to} \subseteq Open /\ from # to
    /\ used > 0
    /\ entry' = Remove(Put(entry, to, entry[from]), from)
    /\ used' = UsedAfterRenumber
    /\ Release(entry[to].object)
    /\ prestat' \in RenumberedNames(from, to)
    /\ UNCHANGED <<size, label, held, stray, op, phase>>

-----------------------------------------------------------------------------
(* path_open                                                                 *)
\* path_get: the rights of the new descriptor are among those the directory
\* passes on.
PathGet(t, fd, needed, base, inheriting) ==
    /\ phase = "run" /\ op[t] = Idle
    /\ fd \in Open /\ needed \subseteq entry[fd].base
    /\ base \union inheriting \subseteq entry[fd].inheriting
    /\ Acquire(t, 1, fd)
    /\ op' = [op EXCEPT ![t] = [at |-> "open", base |-> base, inheriting |-> inheriting]]
    /\ UNCHANGED <<entry, size, used, label, prestat, stray, phase>>

\* openat, then path_put of the directory.
PathPut(t) ==
    /\ op[t].at = "open"
    /\ Release(held[<<t, 1>>])
    /\ held' = [held EXCEPT ![<<t, 1>>] = None]
    /\ \/ /\ IsDir(label[held[<<t, 1>>]])
          /\ op' = [op EXCEPT ![t].at = "insert"]
       \/ op' = [op EXCEPT ![t] = Idle]              \* openat failed
    /\ UNCHANGED <<entry, size, used, label, prestat, stray, phase>>

\* fd_object_new and the growth of the table succeed: o is the new object, its
\* one reference still that of fd_table_insert_fd.
NewObject(t, o, l) ==
    /\ phase = "run" /\ op[t].at = "insert"
    /\ refs[o] = 0
    /\ Grown(0) <= MaxSize
    /\ Grown(0) > used
    /\ size' = Grown(0)
    /\ refs' = [refs EXCEPT ![o] = 1]
    /\ label' = [label EXCEPT ![o] = l]
    /\ op' = [op EXCEPT ![t] = Idle]
    /\ UNCHANGED <<prestat, held, phase>>

\* fd_table_insert_fd, at a random free descriptor.  Where there is none
\* fd_table_unused does not return.
Insert(t, o, fd, l) ==
    /\ NewObject(t, o, l)
    /\ fd \in (0 .. Grown(0) - 1) \ Open
    /\ Attach(fd, o, op[t].base, op[t].inheriting \intersect MaxInheriting(l))
    /\ used' = used + 1
    /\ UNCHANGED stray

\* No random number is to be had: fd_table_insert returns with the object in no
\* descriptor and its reference not released.
InsertStrands(t, o, l) ==
    /\ NewObject(t, o, l)
    /\ stray[o] < MaxStray
    /\ stray' = [stray EXCEPT ![o] = @ + 1]
    /\ UNCHANGED <<entry, used>>

\* No memory for the object or the table: the file is closed.
InsertFails(t) ==
    /\ op[t].at = "insert"
    /\ op' = [op EXCEPT ![t] = Idle]
    /\ UNCHANGED <<entry, size, used, refs, label, prestat, held, stray, phase>>

-----------------------------------------------------------------------------
(* The null pointer and the assertions.                                      *)
\* fd_renumber of a descriptor to itself reads the object of the entry it has
\* just detached; "Reference count mismatch" where the descriptors used up are
\* counted 0; "File descriptor table has no free slots".
Restarts(t) ==
    /\ phase = "run"
    /\ \/ op[t] = Idle /\ Open # {}
       \/ op[t].at = "insert" /\ Grown(0) <= MaxSize /\ Grown(0) <= used
    /\ entry' = <<>> /\ size' = 0 /\ used' = 0
    /\ refs' = [o \in Objects |-> 0]
    /\ label' = [o \in Objects |-> <<"file", 0>>]
    /\ prestat' = <<>>
    /\ held' = [h \in Threads \X Slots |-> None]
    /\ stray' = [o \in Objects |-> 0]
    /\ op' = [u \in Threads |-> Idle]
    /\ phase' = "init"

-----------------------------------------------------------------------------
OnObject(t) ==
    \/ \E fd \in Open, n \in SUBSET Rights : Use(t, fd, n) \/ UseAlso(t, fd, n)
    \/ \E s \in Slots : ReleaseObject(t, s)
    \/ PathNotValid(t)

OnTable(t) ==
    \/ \E fd \in Open : Close(t, fd)
    \/ \E fd \in Open, b \in SUBSET Rights, i \in SUBSET Rights : SetRights(t, fd, b, i)
    \/ \E from, to \in Open : Renumber(t, from, to)

Opens(t) ==
    \/ \E fd \in Open, n \in SUBSET Rights, b \in SUBSET Rights, i \in SUBSET Rights :
          PathGet(t, fd, n, b, i)
    \/ PathPut(t)
    \/ \E o \in Objects, fd \in 0 .. FdMax, l \in Opened : Insert(t, o, fd, l)
    \/ \E o \in Objects, l \in Opened : InsertStrands(t, o, l)
    \/ InsertFails(t)

Next ==
    \/ \E o \in Objects : InsertExisting(o)
    \/ Start
    \/ Destroy
    \/ \E t \in Threads : OnObject(t) \/ OnTable(t) \/ Opens(t) \/ Restarts(t)

Spec == Init /\ [][Next]_vars

-----------------------------------------------------------------------------
Entries == [object : Objects, base : SUBSET Rights, inheriting : SUBSET Rights]

TypeOK ==
    /\ Open \subseteq 0 .. FdMax
    /\ entry \in [Open -> Entries]
    /\ size \in 0 .. MaxSize /\ used \in 0 .. 2^Width - 1
    /\ refs \in [Objects -> Nat]
    /\ label \in [Objects -> Labels]
    /\ DOMAIN prestat \subseteq 0 .. FdMax
    /\ held \in [Threads \X Slots -> Objects \union {None}]
    /\ stray \in [Objects -> 0 .. MaxStray]
    /\ op \in [Threads -> [at : {"idle", "use", "put", "open", "insert"},
                           base : SUBSET Rights, inheriting : SUBSET Rights]]
    /\ phase \in {"init", "run", "end"}

HeldAt(o) == {h \in Threads \X Slots : held[h] = o}
InTable(o) == \E fd \in Open : entry[fd].object = o

\* The reference count of an object is the number of descriptors and operations
\* that have it, whatever closes, renumbers and uses it at the same time, and of
\* the references that path_link, path_symlink and fd_table_insert lose: it is
\* never too low, and too high by those only.
RefcountExact ==
    /\ \A fd, gd \in Open : entry[fd].object = entry[gd].object => fd = gd
    /\ \A o \in Objects :
          refs[o] = Cardinality(HeldAt(o)) + stray[o] + IF InTable(o) THEN 1 ELSE 0

\* UNLOCKS(fo->refcount): the last descriptor or operation that has an object
\* closes its file.  Violated by the references that are lost.
LastUserCloses == \A o \in Objects : refs[o] > 0 => HeldAt(o) # {} \/ InTable(o)

\* An operation works on an open file, though its descriptor may be closed or
\* renumbered meanwhile.
NoUseAfterClose == \A h \in Threads \X Slots : held[h] # None => refs[held[h]] > 0

\* A preopened directory has its own name, wherever it is renumbered to, or
\* after a renumber that failed none; never that of another.
PrestatFollows ==
    \A fd \in DOMAIN prestat \intersect Open :
        LET l == label[entry[fd].object] IN l[1] = "preopen" => l[2] = prestat[fd]

\* An object never regains a right, wherever it is renumbered to; a new one has
\* those its open asked for, and an open asks for what its directory passes on.
Within(e, base, inheriting) == e.base \subseteq base /\ e.inheriting \subseteq inheriting
RightsNeverReturn ==
    [][phase = "run" =>
         /\ \A fd \in DOMAIN entry' :
               \/ \E gd \in Open : /\ entry'[fd].object = entry[gd].object
                                   /\ Within(entry'[fd], entry[gd].base, entry[gd].inheriting)
               \/ \E t \in Threads : /\ op[t].at = "insert"
                                      /\ Within(entry'[fd], op[t].base, op[t].inheriting)
         /\ \A t \in Threads :
               \/ Within(op'[t], op[t].base, op[t].inheriting)
               \/ \E gd \in Open : Within(op'[t], entry[gd].inheriting, entry[gd].inheriting)]_vars

\* "Reference count mismatch" (fd_table_detach)
DetachAsserts == Open # {} => used > 0
=============================================================================
